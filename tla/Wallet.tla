------------------------------- MODULE Wallet -------------------------------
(***************************************************************************)
(* wallet/wallet.c over wallet/address_manager.c and                       *)
(* core/unspent_outputs.c, with the GoShimmer node it talks to as its      *)
(* environment.                                                            *)
(*                                                                         *)
(* The wallet runs one call at a time.  The node's ledger moves on between *)
(* any two of its HTTP requests, and a request or its reply can be lost.   *)
(* wallet_send_funds is therefore cut at its POST: SendFunds (refresh,     *)
(* select, build, sign, validate), Post, and one MarkSpent for each        *)
(* iteration of the closing loop.  Every other call makes at most one      *)
(* request and is one step.                                                *)
(***************************************************************************)
EXTENDS AddressManager, Sequences, FiniteSets, FiniteSetsExt, Functions

CONSTANTS
  Colors,      \* token colors
  Amounts,     \* amounts of payments
  Receivers,   \* receivers of payments: addresses of the wallet, or External
  External,    \* an address that is not the wallet's
  NoAddress,   \* the empty address of an unset send_funds_op_t.remainder
  Incoming,    \* balances that arrive from outside
  MaxTx        \* bound: transactions, incoming and own

ASSUME WalletAssumption ==
  /\ Amounts \subseteq Nat \ {0}
  /\ Incoming \subseteq [Colors -> Nat]
  /\ Receivers \subseteq Nat \union {External}
  /\ External \notin Nat
  /\ NoAddress \notin Nat \union {External}
  /\ MaxTx \in Nat

VARIABLES
  unspent,     \* wallet_t.unspent: the table's entries in insertion order
  remainder,   \* the remainder field of the caller's send_funds_op_t
  pc,          \* where wallet_send_funds stands
  tx,          \* the transaction it has built
  consumed,    \* the positions of its consumed outputs, not yet marked
  posted,      \* every transaction handed to send_tx_bytes, in order
  ledger,      \* the node: the unspent outputs
  txs          \* the node: the number of transactions so far

call  == <<pc, tx, consumed>>
node  == <<ledger, txs>>
vars  == <<am, unspent, remainder, call, posted, node>>

NoTx == [inputs |-> {}]

-----------------------------------------------------------------------------
(* core/unspent_outputs.c, core/output_ids.c.  An entry of the table       *)
(* holds the outputs the node last reported for its address.               *)

Balance == [Colors -> Nat]
Output  == [addr : Nat, tx : Nat, bal : Balance, conf : BOOLEAN]
Entry   == [addr : Nat, addr_index : Nat, spent : BOOLEAN, ids : SUBSET Output]

Addrs(table) == { table[k].addr : k \in DOMAIN table }

\* Only confirmed outputs count.
output_ids_balance_with_color(ids, color) ==
  MapThenSumSet(LAMBDA o : o.bal[color], { o \in ids : o.conf })

\* The entries unspent_outputs_required_outputs looks at.
Spendable(table) ==
  { k \in DOMAIN table : ~table[k].spent /\ table[k].ids # {} }

unspent_outputs_balance_with_color(table, picked, color) ==
  MapThenSumSet(LAMBDA k : output_ids_balance_with_color(table[k].ids, color),
                picked)

\* The spendable entries up to the first at which the sum reaches the
\* requirement; all of them if it never does.
unspent_outputs_required_outputs(table, required, color) ==
  LET UpTo(n) == { k \in Spendable(table) : k <= n }
      enough  == { n \in Spendable(table) :
                     unspent_outputs_balance_with_color(table, UpTo(n), color)
                       >= required }
  IN  IF enough = {} THEN {Spendable(table)}
                     ELSE { UpTo(n) : n \in Least(enough) }

-----------------------------------------------------------------------------
(* wallet_refresh.                                                         *)

\* The order in which the node answers for addresses the table lacks.
Orders(S) ==
  { s \in [1 .. Cardinality(S) -> S] :
      \A i, j \in DOMAIN s : s[i] = s[j] => i = j }

ReportedIds(a) == { o \in ledger : o.addr = a }

\* deser_unspent_outputs sets addr_index to 0, and so does the new entry.
NewEntry(a) ==
  [addr |-> a, addr_index |-> 0, spent |-> FALSE, ids |-> ReportedIds(a)]

\* Mutation: the spent status is not restored.
UpdatedEntry_ForgetsSpent(e, list) ==
  IF e.addr \in list THEN [e EXCEPT !.ids = ReportedIds(e.addr), !.spent = FALSE]
                     ELSE e

\* A known entry gets the reported ids and keeps its spent flag.
UpdatedEntry(e, list) ==
  [e EXCEPT !.ids = IF e.addr \in list THEN ReportedIds(e.addr) ELSE @]

\* Mutation: an address the table lacks is not added.
UpdatedTable_KnownOnly(list, new) ==
  [k \in DOMAIN unspent |-> UpdatedEntry(unspent[k], list)]

UpdatedTable(list, new) ==
  [k \in DOMAIN unspent |-> UpdatedEntry(unspent[k], list)]
    \o [i \in DOMAIN new |-> NewEntry(new[i])]

\* The tables a refresh can leave: a failed request and an error reply (and an
\* empty list, which sends nothing) change nothing.
RefreshedTables(list) ==
  {unspent} \union
  { UpdatedTable(list, new) :
      new \in IF list = {} THEN {} ELSE Orders(list \ Addrs(unspent)) }

wallet_refresh(include_spent, heap) ==
  RefreshedTables(IF include_spent THEN am_addresses
                                   ELSE am_unspent_addresses(heap))

-----------------------------------------------------------------------------
(* The transaction of wallet_send_funds.                                   *)

\* Every id of a consumed entry is an input, confirmed or not.
wallet_build_inputs(table, picked) ==
  UNION { { [addr |-> o.addr, tx |-> o.tx] : o \in table[k].ids } : k \in picked }

OneColor(color, value) == [c \in Colors |-> IF c = color THEN value ELSE 0]

\* Mutation: the remainder goes to the first unspent address, consumed or not.
RemainderIndex_First(table, picked) == {first_unspent_idx}

\* The first address from first_unspent_idx on that is not consumed, or a new
\* one.  The search has at least one round: WindowInsideIssued.
RemainderIndex(table, picked) ==
  LET free == { i \in first_unspent_idx .. last_addr_index :
                  \A k \in picked : table[k].addr # i }
  IN  IF free = {} THEN {last_addr_index + 1} ELSE Least(free)

\* Mutation: the subtraction of the remainder swapped.
Outputs_Swapped(dest, change, balance) ==
  IF change = NoAddress THEN {}
  ELSE { [addr |-> change, bal |-> OneColor(dest.color, dest.amount - balance)] }

\* Mutation: a receiver that is the remainder address gets the remainder only.
Outputs_RestOnly(dest, change, balance) ==
  LET pay == [addr |-> dest.receiver,
              bal  |-> OneColor(dest.color, dest.amount)]
      rest == [addr |-> change,
               bal  |-> OneColor(dest.color, balance - dest.amount)]
  IN  IF change = NoAddress THEN {pay}
      ELSE IF change = dest.receiver THEN {rest} ELSE {rest, pay}

\* change is the remainder address chosen here, or NoAddress.  A remainder the
\* caller preset suppresses the search and the output both.
wallet_build_outputs(dest, change, balance) ==
  LET pay == [addr |-> dest.receiver,
              bal  |-> OneColor(dest.color, dest.amount)]
      all == [addr |-> change, bal |-> OneColor(dest.color, balance)]
      rest == [addr |-> change,
               bal  |-> OneColor(dest.color, balance - dest.amount)]
  IN  IF change = NoAddress THEN {pay}
      ELSE IF change = dest.receiver THEN {all} ELSE {rest, pay}

\* wallet_sign_tx: the key of the entry's addr_index signs for its address.
wallet_sign_tx(table, picked) ==
  { [addr |-> table[k].addr, key |-> table[k].addr_index] : k \in picked }

\* tx_signautres_valid: each input's address has a signature.
tx_signautres_valid(t) ==
  \A in \in t.inputs : \E sig \in t.signatures : sig.addr = in.addr

Sources(t) == { in.addr : in \in t.inputs }

-----------------------------------------------------------------------------
(* The node (external).                                                    *)

Spends(t) == { o \in ledger : \E in \in t.inputs : in.addr = o.addr /\ in.tx = o.tx }

InputsExist(t) ==
  \A in \in t.inputs : \E o \in ledger : in.addr = o.addr /\ in.tx = o.tx

\* An address is the hash of the public key of its index.
SignedByOwner(t) == \A sig \in t.signatures : sig.key = sig.addr

Conserves(t) ==
  \A c \in Colors :
    MapThenSumSet(LAMBDA o : o.bal[c], Spends(t))
      = MapThenSumSet(LAMBDA o : o.bal[c], t.outputs)

NodeAccepts(t) == InputsExist(t) /\ SignedByOwner(t) /\ Conserves(t)

\* The outputs at the wallet's addresses; the others leave the model.
Received(t) ==
  { [addr |-> o.addr, tx |-> txs + 1, bal |-> o.bal, conf |-> FALSE] :
      o \in { p \in t.outputs : p.addr \in Nat } }

Arrives(a, bal) ==
  /\ txs < MaxTx
  /\ ledger' = ledger \union
       { [addr |-> a, tx |-> txs + 1, bal |-> bal, conf |-> FALSE] }
  /\ txs' = txs + 1

\* Somebody pays to an address the wallet has issued.
Pay(a, bal) ==
  /\ Arrives(a, bal)
  /\ UNCHANGED <<am, unspent, remainder, call, posted>>

Confirm(o) ==
  /\ ~o.conf
  /\ ledger' = (ledger \ {o}) \union {[o EXCEPT !.conf = TRUE]}
  /\ UNCHANGED <<am, unspent, remainder, call, posted, txs>>

-----------------------------------------------------------------------------
(* wallet_init, and the calls of one step.                                 *)

\* Nothing has arrived yet, so the refresh of wallet_init reports no ids.  The
\* caller passes a seed: with NULL, which wallet.h:34 allows, am_new makes a
\* random one while the table is derived from NULL; that path is left out.
Init ==
  /\ InitFromIndices
  /\ unspent = [k \in 1 .. last_addr_index + 1 |->
                  [addr |-> k - 1, addr_index |-> k - 1,
                   spent |-> k - 1 < first_unspent_idx, ids |-> {}]]
  /\ remainder = NoAddress
  /\ pc = "idle" /\ tx = NoTx /\ consumed = {}
  /\ posted = <<>>
  /\ ledger = {} /\ txs = 0

\* wallet_refresh, and wallet_balance with include_spent = FALSE.
Refresh(include_spent) ==
  /\ pc = "idle"
  /\ \E heap \in HeapBits(spent_addr, last_addr_index) :
       unspent' \in wallet_refresh(include_spent, heap)
  /\ UNCHANGED <<am, remainder, call, posted, node>>

\* An empty address list jumps over the initialisation of res to the
\* unspent_outputs_free(&res) behind it.  The value there is whatever the
\* stack holds: the call dies, or returns as Refresh does.
RefreshCrashes ==
  /\ pc = "idle"
  /\ \E heap \in HeapBits(spent_addr, last_addr_index) : am_unspent_addresses(heap) = {}
  /\ pc' = "crashed"
  /\ UNCHANGED <<am, unspent, remainder, tx, consumed, posted, node>>

AddressCall(operation) ==
  /\ pc = "idle"
  /\ operation
  /\ UNCHANGED <<unspent, remainder, call, posted, node>>

wallet_new_receive_address == AddressCall(GetNewAddress)
wallet_receive_address     == AddressCall(am_get_last_unspent_address)
wallet_remainder_address   == AddressCall(am_get_first_unspent_address)

\* The faucet pays to the receive address, or the request is lost.
wallet_request_funds ==
  /\ pc = "idle"
  /\ am_get_last_unspent_address
  /\ \/ \E bal \in Incoming : Arrives(last_unspent_idx, bal)
     \/ UNCHANGED node
  /\ UNCHANGED <<unspent, remainder, call, posted>>

-----------------------------------------------------------------------------
(* wallet_send_funds.                                                      *)

\* The caller's struct: a fresh one, or the one of the last call.
Options ==
  [amount : Amounts, receiver : Receivers, color : Colors,
   remainder : {NoAddress, remainder}]

\* No spendable outputs, or too small a balance: -1.
SendRefused(dest) ==
  /\ pc = "idle"
  /\ \E heap \in HeapBits(spent_addr, last_addr_index) :
     \E table \in wallet_refresh(FALSE, heap) :
     \E picked \in unspent_outputs_required_outputs(table, dest.amount, dest.color) :
       /\ \/ picked = {}
          \/ unspent_outputs_balance_with_color(table, picked, dest.color) < dest.amount
       /\ unspent' = table
  /\ remainder' = dest.remainder
  /\ UNCHANGED <<am, call, posted, node>>

\* Mutation: the search for the remainder moves first_unspent_idx along.
Build_MovesFirst(dest, table, picked, balance, change) ==
  /\ first_unspent_idx' = IF change = NoAddress THEN first_unspent_idx ELSE change
  /\ UNCHANGED <<last_addr_index, last_unspent_idx, spent_addr>>
  /\ tx' = [inputs     |-> wallet_build_inputs(table, picked),
            outputs    |-> wallet_build_outputs(dest, change, balance),
            signatures |-> wallet_sign_tx(table, picked),
            change     |-> change]
  /\ remainder' = IF change = NoAddress THEN dest.remainder ELSE change

Build(dest, table, picked, balance, change) ==
  /\ IF change = last_addr_index + 1 THEN GetNewAddress ELSE UNCHANGED am
  /\ tx' = [inputs     |-> wallet_build_inputs(table, picked),
            outputs    |-> wallet_build_outputs(dest, change, balance),
            signatures |-> wallet_sign_tx(table, picked),
            change     |-> change]
  /\ tx_signautres_valid(tx')
  /\ remainder' = IF change = NoAddress THEN dest.remainder ELSE change

SendFunds(dest) ==
  /\ pc = "idle" /\ txs < MaxTx
  /\ \E heap \in HeapBits(spent_addr, last_addr_index) :
     \E table \in wallet_refresh(FALSE, heap) :
     \E picked \in unspent_outputs_required_outputs(table, dest.amount, dest.color) :
       LET balance ==
             unspent_outputs_balance_with_color(table, picked, dest.color)
           changes == IF balance > dest.amount /\ dest.remainder = NoAddress
                      THEN RemainderIndex(table, picked) ELSE {NoAddress}
       IN  /\ picked # {}
           /\ balance >= dest.amount
           /\ unspent' = table
           /\ consumed' = picked
           /\ \E change \in changes : Build(dest, table, picked, balance, change)
  /\ pc' = "post"
  /\ UNCHANGED <<posted, node>>

\* Mutation: the consumed addresses are marked after a success only.
Post_MarksIfSent(delivered, replied) ==
  /\ pc = "post"
  /\ replied => delivered
  /\ LET applied == delivered /\ NodeAccepts(tx)
     IN  /\ posted' = Append(posted, [inputs |-> tx.inputs, sent |-> replied])
         /\ ledger' = IF applied THEN (ledger \ Spends(tx)) \union Received(tx)
                                 ELSE ledger
  /\ txs' = txs + 1
  /\ pc' = IF replied THEN "mark" ELSE "idle"
  /\ tx' = IF replied THEN tx ELSE NoTx
  /\ consumed' = IF replied THEN consumed ELSE {}
  /\ UNCHANGED <<am, unspent, remainder>>

\* send_tx_bytes: the request may be lost, and so may the reply.  It returns 0
\* on any reply, also on an error of the node.
Post(delivered, replied) ==
  /\ pc = "post"
  /\ replied => delivered
  /\ LET applied == delivered /\ NodeAccepts(tx)
     IN  /\ posted' = Append(posted, [inputs |-> tx.inputs, sent |-> replied])
         /\ ledger' = IF applied THEN (ledger \ Spends(tx)) \union Received(tx)
                                 ELSE ledger
  /\ txs' = txs + 1
  /\ pc' = "mark"
  /\ UNCHANGED <<am, unspent, remainder, tx, consumed>>

\* Mutation: the mask is marked and the table is not.
MarkSpent_MaskOnly ==
  /\ pc = "mark"
  /\ \E k \in Least(consumed) :
       /\ am_mark_spent_address(unspent[k].addr_index)
       /\ consumed' = consumed \ {k}
  /\ pc' = IF consumed' = {} THEN "idle" ELSE "mark"
  /\ tx' = IF consumed' = {} THEN NoTx ELSE tx
  /\ UNCHANGED <<unspent, remainder, posted, node>>

\* Mutation: the loop does not advance.
MarkSpent_Stuck ==
  /\ pc = "mark"
  /\ \E k \in Least(consumed) :
       /\ unspent' = [unspent EXCEPT ![k].spent = TRUE]
       /\ am_mark_spent_address(unspent[k].addr_index)
  /\ UNCHANGED <<remainder, call, posted, node>>

\* One iteration of the loop behind the POST, in the order of the table.
MarkSpent ==
  /\ pc = "mark"
  /\ \E k \in Least(consumed) :
       /\ unspent' = [unspent EXCEPT ![k].spent = TRUE]
       /\ am_mark_spent_address(unspent[k].addr_index)
       /\ consumed' = consumed \ {k}
  /\ pc' = IF consumed' = {} THEN "idle" ELSE "mark"
  /\ tx' = IF consumed' = {} THEN NoTx ELSE tx
  /\ UNCHANGED <<remainder, posted, node>>

-----------------------------------------------------------------------------
(* Specification.                                                          *)

WalletStep ==
  \/ \E include_spent \in BOOLEAN : Refresh(include_spent)
  \/ RefreshCrashes
  \/ wallet_new_receive_address
  \/ wallet_receive_address
  \/ wallet_remainder_address
  \/ wallet_request_funds
  \/ \E dest \in Options : SendRefused(dest)
  \/ \E dest \in Options : SendFunds(dest)
  \/ \E delivered, replied \in BOOLEAN : Post(delivered, replied)
  \/ MarkSpent

NodeStep ==
  \/ \E a \in am_addresses, bal \in Incoming : Pay(a, bal)
  \/ \E o \in ledger : Confirm(o)

Next == WalletStep \/ NodeStep

Spec == Init /\ [][Next]_vars

\* The tables an answered refresh of the unspent addresses leaves.
Answers(heap) ==
  LET list == am_unspent_addresses(heap)
  IN  { UpdatedTable(list, new) : new \in Orders(list \ Addrs(unspent)) }

\* A refresh whose request is answered, with news for the table whatever the
\* heap behind the mask holds: no fairness picks the heap that lists most.
AnsweredRefresh ==
  /\ pc = "idle"
  /\ \A heap \in HeapBits(spent_addr, last_addr_index) : unspent \notin Answers(heap)
  /\ \E heap \in HeapBits(spent_addr, last_addr_index) : unspent' \in Answers(heap)
  /\ UNCHANGED <<am, remainder, call, posted, node>>

\* The POST returns (the ESP32 client gives up after 30 s) and the loop behind
\* it runs; the application keeps asking for its balance, and a node that is
\* asked again and again answers again and again.
Fairness ==
  /\ WF_vars(\E delivered, replied \in BOOLEAN : Post(delivered, replied))
  /\ WF_vars(MarkSpent)
  /\ SF_vars(AnsweredRefresh)

FairSpec == Spec /\ Fairness

-----------------------------------------------------------------------------
(* Properties.                                                             *)

Shape == [addr : Nat \union {External}, bal : Balance]

TypeOK ==
  /\ AMTypeOK
  /\ unspent \in Seq(Entry)
  /\ remainder \in Nat \union {NoAddress}
  /\ pc \in {"idle", "post", "mark", "crashed"}
  /\ consumed \subseteq DOMAIN unspent
  /\ pc \in {"post", "mark"} =>
       /\ tx.inputs \subseteq [addr : Nat, tx : Nat]
       /\ tx.outputs \subseteq Shape
       /\ tx.signatures \subseteq [addr : Nat, key : Nat]
       /\ tx.change \in Nat \union {NoAddress}
  /\ ledger \subseteq Output
  /\ txs \in 0 .. MaxTx + 1

\* No two transactions the wallet hands to the node share a source address,
\* whatever was lost, rejected or applied in between: the spent flags of the
\* table survive every refresh, and every consumed entry is flagged before
\* the next call.
NoReuse ==
  \A i, j \in DOMAIN posted :
    i # j => Sources(posted[i]) \intersect Sources(posted[j]) = {}

\* What the wallet would spend, the node still has: every output in a
\* spendable entry is in the ledger, and counted as confirmed only if it is.
Backs(l, o) ==
  /\ l.addr = o.addr /\ l.tx = o.tx /\ l.bal = o.bal
  /\ o.conf => l.conf

Backing(o) == \E l \in ledger : Backs(l, o)

Live(k) == ~unspent[k].spent /\ ~(pc = "mark" /\ k \in consumed)

NeverOverstates ==
  \A k \in DOMAIN unspent :
    Live(k) => \A o \in unspent[k].ids : Backing(o)

\* The transaction waiting for its POST would be applied (its inputs exist and
\* its balances add up), provided its signatures are right, its sources showed
\* only confirmed outputs of one color, and the caller left the remainder to
\* the wallet.
SoundTx ==
  /\ SignedByOwner(tx)
  /\ \A k \in consumed : \A o \in unspent[k].ids : o.conf
  /\ \E c \in Colors : \A o \in Spends(tx) \union tx.outputs :
       o.bal = OneColor(c, o.bal[c])
  /\ remainder = tx.change

SoundTxAccepted == pc = "post" /\ SoundTx => NodeAccepts(tx)

\* A change address the wallet chose is one it has issued and not a source of
\* the same transaction.
ChangeIsFresh ==
  pc = "post" /\ tx.change # NoAddress =>
    tx.change \in am_addresses \ Sources(tx)

(* Why these hold: the inductive invariant of the proofs, in parts.         *)

\* Every entry belongs to an issued address, and its outputs to the same.
IsEntry(e) ==
  /\ e \in [addr : am_addresses, addr_index : am_addresses,
            spent : BOOLEAN, ids : {e.ids}]
  /\ \A o \in e.ids : o.addr = e.addr

\* The table holds one entry per address.
TableOK ==
  /\ unspent \in Seq(Range(unspent))
  /\ \A k \in DOMAIN unspent : IsEntry(unspent[k])
  /\ \A k, l \in DOMAIN unspent : unspent[k].addr = unspent[l].addr => k = l

\* A transaction on its way to the POST takes from consumed entries alone, and
\* none of them is spent.
CallOK ==
  /\ pc \in {"post", "mark"} => consumed \subseteq DOMAIN unspent
  /\ pc = "post" =>
       /\ consumed # {}
       /\ \A k \in consumed : ~unspent[k].spent
       /\ Sources(tx) = { unspent[k].addr : k \in consumed }

\* What a transaction handed to the node took from is spent, or about to be
\* marked so.
PostedOK ==
  /\ posted \in Seq(Range(posted))
  /\ \A i \in DOMAIN posted : \A a \in Sources(posted[i]) :
       \E k \in DOMAIN unspent : unspent[k].addr = a /\ ~Live(k)

\* The ledger holds outputs, of whatever balance.
LedgerOK ==
  \A o \in ledger :
    o \in [addr : {o.addr}, tx : {o.tx}, bal : {o.bal}, conf : BOOLEAN]

WalletInv ==
  /\ AMTypeOK /\ WindowInsideIssued /\ last_addr_index \in Index
  /\ TableOK /\ CallOK /\ PostedOK /\ LedgerOK

\* The ledger: finitely many outputs, one per address and transaction.
LedgerUnique ==
  /\ IsFiniteSet(ledger)
  /\ \A o \in ledger : o.tx <= txs
  /\ \A o, p \in ledger : o.addr = p.addr /\ o.tx = p.tx => o = p

\* Nothing is consumed between two payments, no transaction but one is on its
\* way, and an entry has finitely many outputs.
Settled ==
  /\ pc \in {"idle", "crashed"} => consumed = {}
  /\ pc = "post" => txs <= MaxTx
  /\ \A k \in DOMAIN unspent : IsFiniteSet(unspent[k].ids)

\* A transaction on its way to the POST is the one wallet_send_funds builds
\* from the entries it consumes, whatever the node did since.
BuiltOK ==
  pc = "post" =>
    /\ tx.inputs = wallet_build_inputs(unspent, consumed)
    /\ \E dest \in [amount : Amounts, receiver : Receivers, color : Colors] :
         LET balance == unspent_outputs_balance_with_color(unspent, consumed, dest.color)
         IN  /\ tx.outputs = wallet_build_outputs(dest, tx.change, balance)
             /\ IF tx.change = NoAddress
                THEN balance >= dest.amount /\ (remainder = NoAddress => balance = dest.amount)
                ELSE balance > dest.amount

FundsInv == TypeOK /\ LedgerUnique /\ Settled /\ BuiltOK

-----------------------------------------------------------------------------
\* The wallet implements one-time addresses.
Abstract == INSTANCE OneTimeAddresses WITH
  issued   <- last_addr_index,
  payments <- [i \in DOMAIN posted |-> Sources(posted[i])]

OneTime == Abstract!Spec

\* Its calls use the address manager only through the manager's operations.
ManagerSpec == AMSpec

\* A send comes back to its caller.
SendReturns == pc \in {"post", "mark"} ~> pc = "idle"

\* The confirmed outputs at an address not marked as spent that the table does
\* not show.
Hidden(a) ==
  { o \in ReportedIds(a) : o.conf /\ \A k \in DOMAIN unspent : o \notin unspent[k].ids }

\* Confirmed funds do not stay invisible: again and again the table shows all
\* there is at an issued address not marked as spent, provided the mask has
\* always covered the issued addresses.  One whose bit lies behind the mask, as
\* wallet_init leaves it if last_addr is in a later byte than the spent prefix,
\* is passed over as long as the heap says that it is spent.
CatchesUp ==
  []AllBacked =>
    \A a \in Index :
      []<>(\/ a \notin am_addresses
           \/ a \in spent_addr.bits
           \/ Hidden(a) = {}
           \/ pc = "crashed")

-----------------------------------------------------------------------------
(* What the comments say and the code does not do; each has a run in which *)
(* TLC finds the state where they part.                                    *)

\* wallet.h:86, the remainder address is the "first unspent address": the
\* change never goes to an address already marked as spent.
ChangeIsUnspent ==
  pc = "post" /\ tx.change # NoAddress => tx.change \notin spent_addr.bits

\* get_unspent_outputs.c:183, "set the index to 0 and update it later": by the
\* time the wallet signs, each entry has the index of its address.
SignedWithOwnKeys == pc = "post" => SignedByOwner(tx)

\* wallet.c:342, "mark address as spent if transaction sent successfully".
MarkedOnlyIfSent ==
  pc = "idle" =>
    \A i \in DOMAIN posted : ~posted[i].sent =>
      \A k \in DOMAIN unspent :
        unspent[k].addr \in Sources(posted[i]) => ~unspent[k].spent

\* wallet.h:49, wallet_refresh returns "false On failed": an empty address
\* list makes it return false, and not die.
RefreshReturns == pc # "crashed"
=============================================================================
