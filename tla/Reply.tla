------------------------------- MODULE Reply -------------------------------
(***************************************************************************)
(* client/api/json_utils.c, response_error.c and the deser_* functions:    *)
(* from a parsed JSON document to the client's structures.                 *)
(*                                                                         *)
(* A document is a record of the fields the code asks for.  A field that   *)
(* is absent, or of another type than the code wants where it treats both  *)
(* alike, is Missing; a list that is there and no array is NotArray.  A    *)
(* string that is not base58 is in no set of ids, addresses or colors.     *)
(***************************************************************************)
EXTENDS Tables

CONSTANTS
  Missing, NotArray,
  Addresses, Ids, Colors,   \* what decodes from base58 to the right length
  Zero,                     \* a buffer of zeros: address, id, or the color IOTA
  Mantissa                  \* bits of a double's significand: 53 in the code

ASSUME ReplyAssumption == Mantissa \in Nat \ {0} /\ IsFiniteSet(Colors)

\* The states of an output; the four others are read as confirmed is.
Flags == {"solid", "confirmed", "rejected"}

\* The documents with lists, whatever their fields are.
BalanceDoc == [color : STRING \union {Missing}, value : Int \union {Missing}]
StateDoc   == [Flags -> BOOLEAN \union {Missing}]
OutputDoc  == [id : STRING \union {Missing}, st : StateDoc \union {Missing},
               balances : Seq(BalanceDoc) \union {Missing, NotArray}]
AddressDoc == [address : STRING \union {Missing},
               output_ids : Seq(OutputDoc) \union {Missing, NotArray}]
UnspentDoc == [error : STRING \union {Missing},
               unspent : Seq(AddressDoc) \union {Missing, NotArray}]

-----------------------------------------------------------------------------
(* client/api/json_utils.c.                                                *)

\* json_get_string, json_get_boolean: the target keeps its value when the
\* field is of no use.
Got(field, old) == IF field = Missing THEN old ELSE field

Power[e \in Nat] == IF e = 0 THEN 1 ELSE 2 * Power[e - 1]

\* The double next to n, ties to even.
Rounded(n) ==
  LET above == { e \in 0 .. n : n < Power[Mantissa + e] }
      unit  == Power[Min(above)]
      down  == n - (n % unit)
  IN  CASE 2 * (n % unit) < unit -> down
        [] 2 * (n % unit) > unit -> down + unit
        [] OTHER -> IF (down \div unit) % 2 = 0 THEN down ELSE down + unit

\* json_get_int64: cJSON reads a number into a double, and a negative one is
\* refused.
GotInt64(field, old) ==
  IF field \in Nat THEN Rounded(field) ELSE old

-----------------------------------------------------------------------------
(* client/api/response_error.c.  TRUE: an error is returned.  An error     *)
(* without memory for its message is none.                                 *)

deser_error(doc) ==
  IF doc.error = Missing THEN {FALSE} ELSE {TRUE} \union { b \in {FALSE} : AllocMayFail }

-----------------------------------------------------------------------------
(* client/api/get_unspent_outputs.c.                                       *)

\* Mutation: confirmed is read from there as well.
KeyOf_Confirmed(flag) == IF flag \in {"solid", "confirmed"} THEN "rejected" ELSE flag

\* solid is read from the field of rejected: its own key is never used.
KeyOf(flag) == IF flag = "solid" THEN "rejected" ELSE flag

inclusion_state(fields) ==
  [flag \in Flags |-> IF fields = Missing THEN FALSE ELSE Got(fields[KeyOf(flag)], FALSE)]

\* A color that is no base58, or starts with IOTA, leaves the zeros.
ColorOf(str) == IF str \in Colors THEN str ELSE Zero

\* The balances of an output: the table so far and the content of color_str,
\* which nothing clears between two balances or two outputs.
DeserBalance(s, elm) ==
  LET color_str == Got(elm.color, s.color_str)
  IN  { [balances |-> b, color_str |-> color_str] :
        b \in balance_ht_add(s.balances, ColorOf(color_str), GotInt64(elm.value, 0)) }

DeserBalances(js, color_str) ==
  FoldLeft(LAMBDA outs, elm : UNION { DeserBalance(s, elm) : s \in outs },
           { [balances |-> <<>>, color_str |-> color_str] },
           IF js = Missing THEN <<>> ELSE js)

\* Mutation: the state is looked at in the output before.
DeserOutput_StaleState(s, elm) ==
  LET id == IF elm.id \in Ids THEN elm.id ELSE s.id
      st == IF elm.st = Missing THEN s.st ELSE inclusion_state(elm.st)
  IN  IF s.ret # 0 THEN {s}
      ELSE IF elm.balances = NotArray THEN { [s EXCEPT !.ret = -1] }
      ELSE UNION { { [s EXCEPT !.id = id, !.st = st, !.color_str = b.color_str, !.ids = t] :
                     t \in output_ids_add(s.ids, id, b.balances, st) } :
                   b \in DeserBalances(elm.balances, s.color_str) }

\* One output: like color_str, output_id keeps the bytes of the output before
\* if the element has no id of its own.
DeserOutput(s, elm) ==
  LET id == IF elm.id \in Ids THEN elm.id ELSE s.id
      st == inclusion_state(elm.st)
  IN  IF s.ret # 0 THEN {s}
      ELSE IF elm.balances = NotArray THEN { [s EXCEPT !.ret = -1] }
      ELSE UNION { { [s EXCEPT !.id = id, !.st = st, !.color_str = b.color_str, !.ids = t] :
                     t \in output_ids_add(s.ids, id, b.balances, st) } :
                   b \in DeserBalances(elm.balances, s.color_str) }

deser_output_ids(js) ==
  FoldLeft(LAMBDA outs, elm : UNION { DeserOutput(s, elm) : s \in outs },
           { [ret |-> 0, ids |-> <<>>, id |-> Zero, color_str |-> Zero,
              st |-> inclusion_state(Missing)] },
           IF js = Missing THEN <<>> ELSE js)

\* One address.  ids that are no array end the loop with the result of the
\* address before.  The index is 0 for every address.
DeserAddress(s, elm) ==
  LET addr == IF elm.address \in Addresses THEN elm.address ELSE s.addr
  IN  IF s.stop THEN {s}
      ELSE IF elm.output_ids = NotArray THEN { [s EXCEPT !.stop = TRUE] }
      ELSE UNION { IF r.ret # 0 THEN { [s EXCEPT !.stop = TRUE, !.ret = r.ret] }
                   ELSE { [s EXCEPT !.addr = addr, !.table = t,
                             !.ret = IF elm.output_ids = Missing THEN @ ELSE 0] :
                          t \in unspent_outputs_add(s.table, addr, 0, r.ids) } :
                   r \in deser_output_ids(elm.output_ids) }

DeserAddresses(js, table) ==
  FoldLeft(LAMBDA outs, elm : UNION { DeserAddress(s, elm) : s \in outs },
           { [ret |-> -1, stop |-> FALSE, addr |-> Zero, table |-> table] }, js)

\* What a deser_* function leaves: its result, the structure it fills, and
\* the blocks nobody frees.
deser_unspent_outputs(doc, table) ==
  UNION { IF error THEN { [ret |-> 0, got |-> table, leaked |-> {"err"}] }
          ELSE IF doc.unspent \in {Missing, NotArray, <<>>}
               THEN { [ret |-> -1, got |-> table, leaked |-> {}] }
          ELSE { [ret |-> IF s.stop THEN s.ret ELSE 0, got |-> s.table, leaked |-> {}] :
                 s \in DeserAddresses(doc.unspent, table) } :
          error \in deser_error(doc) }

-----------------------------------------------------------------------------
(* client/api/send_transaction.c and get_funds.c; get_node_info.c.         *)

\* deser_send_tx and deser_get_funds: an error returns past the clean-up.
deser_msg_id(doc, msg_id) ==
  { IF error THEN [ret |-> -1, got |-> msg_id, leaked |-> {"err", "json"}]
    ELSE [ret |-> IF doc.id = Missing THEN -1 ELSE 0, got |-> Got(doc.id, msg_id),
          leaked |-> {}] :
    error \in deser_error(doc) }

\* Mutation: the test of the first field is the wrong way round.
NodeInfo_Inverted(doc, is_synced) ==
  { IF Missing \notin {doc.version, doc.id}
    THEN [ret |-> -1, got |-> is_synced, leaked |-> {}]
    ELSE [ret |-> IF doc.synced = Missing THEN -1 ELSE 0,
          got |-> Got(doc.synced, is_synced), leaked |-> {}] }

\* The fields in the order they are read; the first one of no use ends it.
deser_node_info(doc, is_synced) ==
  { IF Missing \in {doc.version, doc.id}
    THEN [ret |-> -1, got |-> is_synced, leaked |-> {}]
    ELSE [ret |-> IF doc.synced = Missing THEN -1 ELSE 0,
          got |-> Got(doc.synced, is_synced), leaked |-> {}] }
=============================================================================
