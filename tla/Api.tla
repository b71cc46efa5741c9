-------------------------------- MODULE Api --------------------------------
(***************************************************************************)
(* client/api/*.c over client/network/http_curl.c or http_esp32.c: one     *)
(* call of get_unspent_outputs, send_tx_bytes, get_funds or get_node_info, *)
(* step by step, against a node that may refuse, answer nonsense, send its *)
(* reply in pieces, stay silent, or lose the connection; any allocation    *)
(* may fail.  After get_unspent_outputs its caller works on the table.     *)
(*                                                                         *)
(* The buffers hold pieces of text instead of bytes: the url 1 and the     *)
(* command 2, the request body 1 (2 if the JSON lacks a part), the reply   *)
(* 1, 2, 3; 0 is the terminator.                                           *)
(***************************************************************************)
EXTENDS Reply

CONSTANTS
  Replies,    \* per call, the documents the node may answer with
  Nonsense,   \* an answer that is no JSON
  Empty,      \* an answer without a body
  Torn,       \* per call, the documents an answer without its middle may be
  Required,   \* the amounts asked of unspent_outputs_required_outputs
  MaxEdits    \* bound: calls on the table after get_unspent_outputs

Calls == {"unspent", "send", "funds", "info"}

ASSUME ApiAssumption ==
  /\ DOMAIN Replies = Calls /\ DOMAIN Torn = Calls
  /\ Replies["unspent"] \union Torn["unspent"] \subseteq UnspentDoc
  /\ \A doc \in Replies["info"] : doc.synced \in BOOLEAN \union {Missing}
  /\ \A call \in Calls : {Nonsense, Empty, Null} \intersect Replies[call] = {}
  /\ Nonsense # Null /\ Empty # Null /\ Junk \notin BOOLEAN
  /\ Required \subseteq Nat /\ MaxEdits \in Nat

VARIABLES
  api, client,   \* the call, and the HTTP client of the build
  phase,         \* the next step of the call
  cmd, req, res, \* its string and its two buffers
  leaked,        \* blocks nobody frees any more
  ret, got,      \* its result, and the caller's structure
  reply,         \* the node's answer, Null before there is one
  applied,       \* the node did what was asked
  chunked, sent, \* the answer's encoding, and its pieces handed over
  oom,           \* an allocation has failed
  edits          \* calls on the table so far

conn  == <<reply, applied, chunked, sent>>
vars  == <<api, client, phase, cmd, req, res, leaked, ret, got, conn, oom, edits>>

url == <<1>>
cmd_str == <<2>>
Body == 1
BodyLacksField == 2
Parts == IF reply = Empty THEN 0 ELSE 3

\* The operators as they are when no allocation fails.
Sure == INSTANCE Reply WITH AllocMayFail <- FALSE

\* What the caller passes in: its table, or a structure not initialised.
Init ==
  /\ api \in Calls /\ client \in {"curl", "esp32"}
  /\ phase = "call"
  /\ cmd = Null /\ req = Null /\ res = Null
  /\ leaked = {}
  /\ ret = 0
  /\ got = IF api = "unspent" THEN <<>> ELSE Junk
  /\ reply = Null /\ applied = FALSE /\ chunked = FALSE /\ sent = 0
  /\ oom = FALSE /\ edits = 0

Goto(p) == phase' = p
Fail(p) == phase' = p /\ ret' = -1

-----------------------------------------------------------------------------
(* Composing the request.                                                  *)

Call ==
  /\ phase = "call"
  /\ cmd' \in iota_str_new(url)
  /\ IF cmd' = Null THEN Fail("returned") ELSE Goto("append") /\ UNCHANGED ret
  /\ oom' = (oom \/ cmd' = Null)
  /\ UNCHANGED <<api, client, req, res, leaked, got, conn, edits>>

\* Mutation: the result of the append is not looked at.
AppendCmd_Unchecked ==
  /\ phase = "append"
  /\ cmd' \in iota_str_appendn(cmd, cmd_str)
  /\ Goto("buffers")
  /\ oom' = (oom \/ cmd'.buf = Null)
  /\ UNCHANGED <<api, client, req, res, leaked, ret, got, conn, edits>>

\* A failed append has lost the block, and get_node_info returns without
\* freeing the string.
AppendCmd ==
  /\ phase = "append"
  /\ cmd' \in iota_str_appendn(cmd, cmd_str)
  /\ IF cmd'.buf = Null
     THEN /\ Fail(IF api = "info" THEN "returned" ELSE "done")
          /\ leaked' = leaked \union {"cmd.buf"} \union (IF api = "info" THEN {"cmd"} ELSE {})
     ELSE Goto("buffers") /\ UNCHANGED <<ret, leaked>>
  /\ oom' = (oom \/ cmd'.buf = Null)
  /\ UNCHANGED <<api, client, req, res, got, conn, edits>>

NewBuffers ==
  /\ phase = "buffers"
  /\ req' \in IF api = "info" THEN {Null} ELSE byte_buf_new
  /\ res' \in byte_buf_new
  /\ IF res' = Null \/ (api # "info" /\ req' = Null)
     THEN Fail("done") /\ oom' = TRUE
     ELSE Goto(IF api = "info" THEN "perform" ELSE "build") /\ UNCHANGED <<ret, oom>>
  /\ UNCHANGED <<api, client, cmd, leaked, got, conn, edits>>

\* The request with its terminator: neither call's result is looked at.
WithBody(body) ==
  UNION { byte_buf2str(r.buf) : r \in byte_buf_append(req, <<body>>) }

SurelyWithBody(body) ==
  UNION { Sure!byte_buf2str(r.buf) : r \in Sure!byte_buf_append(req, <<body>>) }

\* request_builder.  cJSON_AddItemToObject ignores an item that could not be
\* allocated; the text of get_funds is not freed.
BuildRequest ==
  /\ phase = "build"
  /\ \/ /\ \E body \in {Body} \union { b \in {BodyLacksField} : AllocMayFail } :
             /\ req' \in WithBody(body)
             /\ oom' = (oom \/ body # Body \/ req' \notin SurelyWithBody(body))
        /\ Goto("perform")
        /\ leaked' = leaked \union (IF api = "funds" THEN {"text"} ELSE {})
        /\ UNCHANGED ret
     \/ /\ AllocMayFail
        /\ Fail("done") /\ oom' = TRUE
        /\ UNCHANGED <<req, leaked>>
  /\ UNCHANGED <<api, client, cmd, res, got, conn, edits>>

-----------------------------------------------------------------------------
(* http_client_post and http_client_get.                                   *)

\* A proper request reached the node.  curl sends the text up to its
\* terminator, the ESP32 client len bytes, the terminator included.
ProperRequest == api = "info" \/ Content(req) \in {<<Body>>, <<Body, 0>>}

IsError(doc) == doc \in Replies[api] /\ api # "info" /\ doc.error # Missing
HasId(doc)   == doc \in Replies[api] /\ api \in {"send", "funds"} /\ doc.id # Missing

\* The node acts on the request and answers.  Who answers with an id has
\* acted, who answers with an error has not; otherwise both is possible.
NodeAnswers ==
  /\ phase = "perform" /\ reply = Null
  /\ reply' \in Replies[api] \union {Nonsense, Empty}
  /\ ~ProperRequest => ~HasId(reply')
  /\ applied' \in IF api \in {"send", "funds"} /\ ProperRequest THEN BOOLEAN ELSE {FALSE}
  /\ HasId(reply') => applied'
  /\ IsError(reply') => ~applied'
  /\ chunked' \in IF client = "esp32" THEN BOOLEAN ELSE {FALSE}
  /\ UNCHANGED <<api, client, phase, cmd, req, res, leaked, ret, got, sent, oom, edits>>

\* cb_write_fn ignores a failed append; http_event_handler copies the data of
\* an answer that is not chunked.
HandOver(piece) ==
  IF client = "esp32" /\ chunked THEN { [ok |-> TRUE, buf |-> res] }
  ELSE byte_buf_append(res, <<piece>>)

Deliver ==
  /\ phase = "perform" /\ reply # Null /\ sent < Parts
  /\ \E r \in HandOver(sent + 1) : res' = r.buf /\ oom' = (oom \/ ~r.ok)
  /\ sent' = sent + 1
  /\ UNCHANGED <<api, client, phase, cmd, req, leaked, ret, got, reply, applied, chunked, edits>>

\* Mutation: one piece too many is waited for.
Performed_OneMore ==
  /\ phase = "perform" /\ reply # Null /\ sent > Parts
  /\ Goto("str")
  /\ UNCHANGED <<api, client, cmd, req, res, leaked, ret, got, conn, oom, edits>>

Performed ==
  /\ phase = "perform" /\ reply # Null /\ sent = Parts
  /\ Goto("str")
  /\ UNCHANGED <<api, client, cmd, req, res, leaked, ret, got, conn, oom, edits>>

\* Mutation: send_tx_bytes goes on to parse when the request has failed.
Broken_FallsThrough ==
  /\ phase = "perform"
  /\ Fail(IF api = "send" THEN "str" ELSE "done")
  /\ UNCHANGED <<api, client, cmd, req, res, leaked, got, conn, oom, edits>>

\* No connection, or it ends before the answer does.
Broken ==
  /\ phase = "perform"
  /\ Fail("done")
  /\ UNCHANGED <<api, client, cmd, req, res, leaked, got, conn, oom, edits>>

-----------------------------------------------------------------------------
(* From the response to the result.                                        *)

\* Mutation: no terminator is added.
ToStr_Nothing ==
  /\ phase = "str"
  /\ Goto("parse")
  /\ UNCHANGED <<api, client, cmd, req, res, leaked, ret, got, conn, oom, edits>>

ToStr ==
  /\ phase = "str"
  /\ res' \in byte_buf2str(res)
  /\ oom' = (oom \/ res' \notin Sure!byte_buf2str(res))
  /\ Goto("parse")
  /\ UNCHANGED <<api, client, cmd, req, leaked, ret, got, conn, edits>>

Text(buf) ==
  LET ends == { k \in DOMAIN Content(buf) : Content(buf)[k] = 0 }
  IN  IF ends = {} THEN Content(buf) ELSE SubSeq(Content(buf), 1, Min(ends) - 1)

\* What cJSON_Parse makes of the response: nothing of NULL or of a text that
\* lacks its beginning or end, and some other document of one that lacks a
\* piece in the middle.
ParsedFrom(buf) ==
  CASE buf.data # Null /\ Text(buf) = <<1, 2, 3>> -> {reply}
    [] buf.data # Null /\ Text(buf) = <<1, 3>> -> Torn[api] \union {Nonsense}
    [] OTHER -> {Nonsense}

Deserialized(doc) ==
  IF doc \in {Nonsense, Empty}
  THEN { [ret |-> -1, got |-> got, leaked |-> {}] }
  ELSE CASE api = "unspent" -> deser_unspent_outputs(doc, got)
         [] api \in {"send", "funds"} -> deser_msg_id(doc, got)
         [] api = "info" -> deser_node_info(doc, got)

DeserializedSurely(doc) ==
  IF doc \in {Nonsense, Empty}
  THEN { [ret |-> -1, got |-> got, leaked |-> {}] }
  ELSE CASE api = "unspent" -> Sure!deser_unspent_outputs(doc, got)
         [] api \in {"send", "funds"} -> Sure!deser_msg_id(doc, got)
         [] api = "info" -> Sure!deser_node_info(doc, got)

\* Only get_unspent_outputs returns what its parser returned.
Result(r) == IF api = "unspent" THEN r.ret ELSE ret

\* Reading a response without terminator leaves its block: the parser stops
\* at a terminator it finds behind it, or the program dies.
Parse ==
  /\ phase = "parse"
  /\ \/ \E doc \in ParsedFrom(res) \union { n \in {Nonsense} : AllocMayFail } :
        LET sure == DeserializedSurely(doc)
        IN  \E r \in Deserialized(doc) :
              /\ got' = r.got /\ ret' = Result(r)
              /\ leaked' = leaked \union r.leaked
              /\ oom' = (oom \/ doc \notin ParsedFrom(res) \/ r \notin sure)
              /\ Goto("done")
     \/ /\ res.data # Null /\ ~Contains(Content(res), 0)
        /\ Goto("crashed")
        /\ UNCHANGED <<got, ret, leaked, oom>>
  /\ UNCHANGED <<api, client, cmd, req, res, conn, edits>>

\* Mutation: the request is freed only by a call that succeeds.
Done_KeepsRequest ==
  /\ phase = "done"
  /\ cmd' = Null /\ res' = Null
  /\ req' = IF ret = 0 THEN Null ELSE req
  /\ Goto("returned")
  /\ UNCHANGED <<api, client, leaked, ret, got, conn, oom, edits>>

Done ==
  /\ phase = "done"
  /\ cmd' = Null /\ req' = Null /\ res' = Null
  /\ Goto("returned")
  /\ UNCHANGED <<api, client, leaked, ret, got, conn, oom, edits>>

\* What the caller of get_node_info reads as the state of the node; its
\* structure is not initialised.
wallet_is_node_synced ==
  IF ret # 0 THEN {FALSE} ELSE IF got = Junk THEN BOOLEAN ELSE {got}

-----------------------------------------------------------------------------
(* The caller works on the table it got.                                   *)

EditedTables(addr) ==
  LET other == { got[k].ids : k \in DOMAIN got }
  IN  { unspent_outputs_set_spent(got, addr, b) : b \in BOOLEAN }
      \union { unspent_outputs_remove(got, addr) }
      \union unspent_outputs_clone(got)
      \union UNION ({ unspent_outputs_update(got, addr, ids) : ids \in other }
                    \union { unspent_outputs_append_id(got, addr, ids) : ids \in other }
                    \union { unspent_outputs_add(got, addr, 0, ids) : ids \in other }
                    \union { WithIds(got, addr, LAMBDA old :
                               output_ids_update(old, id, <<>>, inclusion_state(Missing))) :
                             id \in Ids })

EditTable(addr) ==
  /\ phase = "returned" /\ api = "unspent" /\ edits < MaxEdits
  /\ got' \in EditedTables(addr)
  /\ edits' = edits + 1
  /\ UNCHANGED <<api, client, phase, cmd, req, res, leaked, ret, conn, oom>>

-----------------------------------------------------------------------------
LocalStep ==
  \/ Call \/ AppendCmd \/ NewBuffers \/ BuildRequest
  \/ Deliver \/ Performed
  \/ ToStr \/ Parse \/ Done

Next ==
  \/ LocalStep
  \/ NodeAnswers
  \/ Broken
  \/ \E addr \in Addresses : EditTable(addr)

\* The program goes on, and the ESP32 client gives up after 30 s without data.
\* Nothing makes the node answer, nor a curl transfer end without an answer.
Fairness ==
  /\ WF_vars(LocalStep)
  /\ WF_vars(client = "esp32" /\ Broken)

Spec == Init /\ [][Next]_vars /\ Fairness

-----------------------------------------------------------------------------
(* Properties of every call.                                               *)

ApiTypeOK ==
  /\ phase \in {"call", "append", "buffers", "build", "perform", "str",
                "parse", "done", "returned", "crashed"}
  /\ ret \in {0, -1}
  /\ \A b \in {req, res} \ {Null} :
       b.len <= b.cap /\ b.cap <= IF b.data = Null THEN 0 ELSE Len(b.data)
  /\ leaked \subseteq {"cmd", "cmd.buf", "text", "json", "err"}
  /\ sent \in 0 .. 3 /\ oom \in BOOLEAN /\ edits \in 0 .. MaxEdits

\* No request leaves before the url is whole and terminated: the string whose
\* append failed (iota_str.c:38) is not used.
UrlWhole ==
  phase \in {"perform", "str", "parse"} =>
    cmd.buf # Null /\ SubSeq(cmd.buf, 1, cmd.len + 1) = url \o cmd_str \o <<0>>

\* The program dies in a call only if an allocation failed: the parser is
\* handed a terminated text, or NULL, in whatever pieces the answer came.
CrashNeedsOom == phase = "crashed" => oom

\* When a call returns, nothing it allocated is left but the request text of
\* get_funds, what error replies leave, and the url of a failed append.
NoLeak ==
  phase = "returned" =>
    /\ req = Null /\ res = Null /\ (cmd # Null => "cmd" \in leaked)
    /\ ~oom => leaked \subseteq
         (IF api = "funds" THEN {"text"} ELSE {})
           \union (IF IsError(reply)
                   THEN IF api = "unspent" THEN {"err"} ELSE {"err", "json"} ELSE {})

\* The call returns: always with the ESP32 client, and with curl if the whole
\* answer arrives.
Answered == reply # Null /\ sent = Parts

CallReturns == client = "esp32" \/ <>Answered => <>(phase \in {"returned", "crashed"})

\* The whole answer reached the response buffer.
Heard == Answered /\ ~chunked /\ ~oom

-----------------------------------------------------------------------------
(* Properties of the single calls.                                         *)

\* A message id is one the node gave for a request it acted on, and a call
\* that returns it has succeeded.
IdMeansApplied ==
  api \in {"send", "funds"} /\ got # Junk /\ ~oom =>
    applied /\ ret = 0 /\ got = reply.id

\* The state of the node that wallet_is_node_synced returns is the one the
\* node reported; it is false when the call failed.  (A reply that lacks a
\* field leaves it to chance.)
SyncedIsReported ==
  api = "info" /\ phase = "returned" =>
    /\ ret # 0 => wallet_is_node_synced = {FALSE}
    /\ /\ ret = 0 /\ Heard /\ reply \in Replies["info"]
       /\ Missing \notin {reply.version, reply.id, reply.synced}
       => wallet_is_node_synced = {reply.synced}

\* The money a table holds, and the money a reply tells of: address, output,
\* whether it is confirmed, color and amount.  Balances and the choice of
\* outputs for a payment read these fields and no others.
Holdings(table) ==
  UNION { UNION { { <<e.addr, o.id, o.st["confirmed"], b.color, b.value>> :
                    b \in ToSet(o.balances) } : o \in ToSet(e.ids) } : e \in ToSet(table) }

Told(doc) ==
  UNION { UNION { { <<e.address, o.id, o.st.confirmed, ColorOf(b.color), b.value>> :
                    b \in ToSet(o.balances) } :
                  o \in ToSet(e.output_ids) } : e \in ToSet(doc.unspent) }

\* The other states, without solid: get_unspent_outputs.c:43 fills it from the
\* field of rejected (KeyOf), so that it is not what the reply tells.
OtherFlags == Flags \ {"confirmed", "solid"}

FlagsHeld(table) ==
  UNION { UNION { { <<e.addr, o.id, flag, o.st[flag]>> : flag \in OtherFlags } :
                  o \in ToSet(e.ids) } : e \in ToSet(table) }

\* A flag the reply leaves out is false.
FlagOf(fields, flag) == Got(fields[flag], FALSE)

FlagsTold(doc) ==
  UNION { UNION { { <<e.address, o.id, flag, FlagOf(o.st, flag)>> : flag \in OtherFlags } :
                  o \in ToSet(e.output_ids) } : e \in ToSet(doc.unspent) }

Distinct(s, Key(_)) == \A i, j \in DOMAIN s : Key(s[i]) = Key(s[j]) => i = j

\* A reply in which nothing is missing or doubled, with amounts a double holds.
WellFormedOutput(o) ==
  /\ o.id \in Ids /\ o.st # Missing /\ o.st.confirmed # Missing
  /\ o.balances \notin {Missing, NotArray}
  /\ \A k \in DOMAIN o.balances :
       /\ o.balances[k].color # Missing
       /\ o.balances[k].value \in 0 .. Power[Mantissa]
  /\ Distinct(o.balances, LAMBDA b : ColorOf(b.color))

WellFormed(doc) ==
  /\ doc.error = Missing
  /\ doc.unspent \notin {Missing, NotArray, <<>>}
  /\ Distinct(doc.unspent, LAMBDA e : e.address)
  /\ \A k \in DOMAIN doc.unspent :
       LET e == doc.unspent[k]
       IN  /\ e.address \in Addresses
           /\ e.output_ids \notin {Missing, NotArray}
           /\ Distinct(e.output_ids, LAMBDA o : o.id)
           /\ \A i \in DOMAIN e.output_ids : WellFormedOutput(e.output_ids[i])

\* A well-formed reply is taken: the table holds exactly the money it tells of,
\* each output with the flags told for it but for solid, and the balance is the
\* sum of the confirmed amounts.
ReplyTaken ==
  /\ api = "unspent" /\ phase = "returned" /\ edits = 0
  /\ Heard /\ reply \in Replies["unspent"] /\ WellFormed(reply) /\ ret = 0
  => /\ Holdings(got) = Told(reply)
     /\ FlagsHeld(got) = FlagsTold(reply)
     /\ unspent_outputs_balance(got) =
          MapThenSumSet(LAMBDA h : h[5], { h \in Told(reply) : h[3] }) % Modulus

\* However odd the reply, and whatever could not be allocated: an amount and
\* its confirmation come from one and the same output of the reply.
NothingInvented ==
  /\ api = "unspent" /\ phase = "done" /\ reply \in Replies["unspent"]
  /\ res # Null /\ Text(res) = <<1, 2, 3>>
  => \A h \in Holdings(got) :
      \E k \in DOMAIN reply.unspent : \E i \in DOMAIN reply.unspent[k].output_ids :
        LET o == reply.unspent[k].output_ids[i]
        IN  /\ h[3] = inclusion_state(o.st)["confirmed"]
            /\ \E j \in DOMAIN o.balances : h[5] = GotInt64(o.balances[j].value, 0)

-----------------------------------------------------------------------------
(* Properties of the table, also after further calls on it.                *)

HasTable == api = "unspent"

\* No table has two entries with one key, whatever was reported and added.
KeysUnique ==
  HasTable =>
    /\ Distinct(got, LAMBDA e : e.addr)
    /\ \A e \in ToSet(got) :
         /\ Distinct(e.ids, LAMBDA o : o.id)
         /\ \A o \in ToSet(e.ids) : Distinct(o.balances, LAMBDA b : b.color)

\* The balance is the sum of the balances per color, wherever they wrap.
SumsAgree ==
  HasTable =>
    unspent_outputs_balance(got) =
      MapThenSumSet(LAMBDA c : unspent_outputs_balance_with_color(got, c),
                    Colors \union {Zero}) % Modulus

\* What is picked for a payment covers it if the table does, and without its
\* last entry would not; picking does not change what the entries are.
RequiredSound ==
  HasTable /\ phase = "returned" =>
    \A required \in Required, color \in Colors \union {Zero} :
      \A picked \in Sure!unspent_outputs_required_outputs(got, required, color) :
        LET Sum(t) == unspent_outputs_balance_with_color(t, color)
            butLast == SubSeq(picked, 1, Len(picked) - 1)
        IN  /\ Sum(picked) >= required \/ Sum(picked) = Sum(got)
            /\ Len(picked) > 1 => Sum(butLast) < required
            /\ Holdings(picked) \subseteq Holdings(got)

-----------------------------------------------------------------------------
(* Why UrlWhole and CrashNeedsOom hold: the inductive invariant of the     *)
(* proofs.                                                                 *)

CmdOK ==
  /\ phase = "append" => cmd \in iota_str_t /\ Holds(cmd, url)
  /\ phase \in {"buffers", "build", "perform", "str", "parse"} =>
       Holds(cmd, url \o cmd_str)

\* A response that has a block has an element; a parser meets a terminator.
ResOK ==
  /\ phase \in {"build", "perform", "str"} =>
       Sound(res) /\ (res.data # Null => res.len > 0)
  /\ phase = "parse" /\ res.data # Null => oom \/ Contains(Content(res), 0)

ApiInv == CmdOK /\ ResOK /\ oom \in BOOLEAN /\ CrashNeedsOom

-----------------------------------------------------------------------------
(* Why the properties of the single calls hold: a second invariant.        *)

BeforeResult == {"call", "append", "buffers", "build", "perform", "str", "parse"}

\* An answer is handed over in order, and an id is a promise.
ReplyOK ==
  /\ sent \in 0 .. Parts /\ (reply = Null => sent = 0)
  /\ phase \in {"call", "append", "buffers", "build"} => reply = Null
  /\ phase \in {"str", "parse"} => reply # Null
  /\ chunked \in BOOLEAN /\ (chunked => client = "esp32")
  /\ reply # Null => /\ reply \in Replies[api] \union {Nonsense, Empty}
                     /\ HasId(reply) => applied

\* What the response holds as long as no allocation fails.
Pieces == IF chunked THEN <<>> ELSE [i \in 1 .. sent |-> i]

ResponseOK ==
  ~oom =>
    /\ phase \in {"build", "perform", "str"} => Content(res) = Pieces
    /\ phase = "parse" => Text(res) = Pieces /\ (Pieces # <<>> => res.data # Null)

\* Who owns a block: the call, up to its end, or nobody.
OwnersOK ==
  /\ \A b \in {req, res} \ {Null} : Sound(b)
  /\ phase = "call" => cmd = Null
  /\ phase \in {"call", "append", "buffers"} => req = Null /\ res = Null
  /\ phase = "build" => req # Null
  /\ leaked \subseteq {"cmd", "cmd.buf", "text", "json", "err"}
  /\ phase \in BeforeResult /\ ~oom =>
       leaked \subseteq (IF api = "funds" THEN {"text"} ELSE {})
  /\ phase = "returned" => req = Null /\ res = Null /\ (cmd # Null => "cmd" \in leaked)
  /\ ~oom => leaked \subseteq
       (IF api = "funds" THEN {"text"} ELSE {})
         \union (IF IsError(reply)
                 THEN IF api = "unspent" THEN {"err"} ELSE {"err", "json"} ELSE {})

ResultOK ==
  /\ ret \in {0, -1}
  /\ phase \in BeforeResult =>
       ret = 0 /\ got = IF api = "unspent" THEN <<>> ELSE Junk
  /\ IdMeansApplied
  /\ /\ api = "info" /\ phase \in {"done", "returned"} /\ ret = 0
     /\ Heard /\ reply \in Replies["info"]
     /\ Missing \notin {reply.version, reply.id, reply.synced}
     => got = reply.synced

CallInv ==
  /\ api \in Calls
  /\ phase \in BeforeResult \union {"done", "returned", "crashed"}
  /\ edits \in 0 .. MaxEdits
  /\ ReplyOK /\ ResponseOK /\ OwnersOK /\ ResultOK
=============================================================================
