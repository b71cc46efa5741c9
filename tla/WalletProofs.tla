---------------------------- MODULE WalletProofs ----------------------------
(***************************************************************************)
(* The wallet for every byte size, every set of tokens, amounts, payments  *)
(* and receivers, and every bound.  A sum of balances is the total of      *)
(* FoldProofs, which does not depend on the order it is taken in.          *)
(***************************************************************************)
EXTENDS Wallet, AddressManagerProofs, FoldProofs, FiniteSetTheorems, SequenceTheorems

-----------------------------------------------------------------------------
(* What a call may make of the table.                                      *)

\* Entries keep their place and their address, a spent one stays spent, and
\* each shows outputs it showed before or the ledger has now.
Evolves(table) ==
  /\ table \in Seq(Range(table))
  /\ \A k \in DOMAIN table : IsEntry(table[k])
  /\ \A k, l \in DOMAIN table : table[k].addr = table[l].addr => k = l
  /\ \A k \in DOMAIN unspent :
       /\ k \in DOMAIN table
       /\ table[k].addr = unspent[k].addr
       /\ unspent[k].spent => table[k].spent
  /\ \A k \in DOMAIN table : \A o \in table[k].ids :
         \/ o \in ledger
         \/ k \in DOMAIN unspent /\ o \in unspent[k].ids

\* A function on 1 .. n is a sequence.
LEMMA FunctionSeq ==
  ASSUME NEW n \in Nat, NEW f, f = [k \in 1 .. n |-> f[k]]
  PROVE  f \in Seq(Range(f)) /\ Len(f) = n /\ DOMAIN f = 1 .. n
<1>1. f \in [1 .. n -> Range(f)]
  BY DEF Range
<1>2. f \in Seq(Range(f))
  BY <1>1, SeqDef
<1> QED
  BY <1>1, <1>2

\* Two sequences given as functions, one after the other.
LEMMA ConcatFunctions ==
  ASSUME NEW S, NEW m \in Nat, NEW n \in Nat,
         NEW f \in [1 .. m -> S], NEW g \in [1 .. n -> S]
  PROVE  /\ f \o g \in Seq(S)
         /\ DOMAIN (f \o g) = 1 .. m + n
         /\ \A k \in 1 .. m : (f \o g)[k] = f[k]
         /\ \A k \in (1 .. m + n) \ (1 .. m) :
              k - m \in 1 .. n /\ (f \o g)[k] = g[k - m]
<1>1. f \in Seq(S) /\ g \in Seq(S) /\ Len(f) = m /\ Len(g) = n
  BY SeqDef
<1>2. /\ f \o g \in Seq(S)
      /\ Len(f \o g) = m + n
      /\ \A i \in 1 .. m + n : (f \o g)[i] = IF i <= m THEN f[i] ELSE g[i - m]
  BY <1>1, ConcatProperties
<1>3. DOMAIN (f \o g) = 1 .. m + n
  BY <1>2
<1> QED
  BY <1>2, <1>3

\* A call that leaves the table alone keeps every entry.
LEMMA SameTableEvolves == TableOK => Evolves(unspent)
BY DEF TableOK, Evolves

\* The orders in which a node can answer for a finite set of addresses.
LEMMA OrderSeq ==
  ASSUME NEW S, IsFiniteSet(S), NEW new \in Orders(S)
  PROVE  /\ new \in Seq(S)
         /\ \A i, j \in DOMAIN new : new[i] = new[j] => i = j
<1>1. Cardinality(S) \in Nat
  BY FS_CardinalityType
<1>2. new \in [1 .. Cardinality(S) -> S]
  BY DEF Orders
<1> QED
  BY <1>1, <1>2, SeqDef DEF Orders

\* An entry with fresh ids is an entry of the same address, index and flag.
LEMMA UpdatedEntryOK ==
  ASSUME NEW e, IsEntry(e), NEW list
  PROVE  LET u == UpdatedEntry(e, list)
         IN  /\ IsEntry(u)
             /\ u.addr = e.addr /\ u.spent = e.spent
             /\ \A o \in u.ids : o \in ledger \/ o \in e.ids
<1> DEFINE ids == IF e.addr \in list THEN ReportedIds(e.addr) ELSE e.ids
           u == UpdatedEntry(e, list)
<1>1. u = [e EXCEPT !.ids = ids]
  BY DEF UpdatedEntry
<1>2. \A o \in ids : o.addr = e.addr /\ (o \in ledger \/ o \in e.ids)
  BY DEF ReportedIds, IsEntry
<1> HIDE DEF ids, u
<1>3. e \in [addr : am_addresses, addr_index : am_addresses,
             spent : BOOLEAN, ids : {e.ids}]
  BY DEF IsEntry
<1>4. /\ u \in [addr : am_addresses, addr_index : am_addresses,
                spent : BOOLEAN, ids : {u.ids}]
      /\ u.addr = e.addr /\ u.spent = e.spent /\ u.ids = ids
  BY <1>1, <1>3
<1> QED
  BY <1>2, <1>4 DEF IsEntry, u

\* The entry a refresh adds for an address the table lacked.
LEMMA NewEntryOK ==
  ASSUME NEW a \in am_addresses, last_addr_index \in Nat
  PROVE  /\ IsEntry(NewEntry(a))
         /\ NewEntry(a).addr = a
         /\ \A o \in NewEntry(a).ids : o \in ledger
BY DEF NewEntry, IsEntry, ReportedIds, am_addresses

\* The table a refresh leaves has the old entries in their places, with their
\* spent flags, and one new entry for each address that was missing.
LEMMA UpdateEvolves ==
  ASSUME TableOK, last_addr_index \in Nat,
         NEW list \in SUBSET am_addresses,
         NEW new \in Orders(list \ Addrs(unspent))
  PROVE  Evolves(UpdatedTable(list, new))
<1> DEFINE S == list \ Addrs(unspent)
           old == [k \in DOMAIN unspent |-> UpdatedEntry(unspent[k], list)]
           more == [i \in DOMAIN new |-> NewEntry(new[i])]
           both == Range(old) \union Range(more)
           table == UpdatedTable(list, new)
<1>1. IsFiniteSet(S)
  <2>1. IsFiniteSet(am_addresses)
    BY FS_Interval DEF am_addresses
  <2> QED
    BY <2>1, FS_Subset
<1>2. new \in Seq(S) /\ \A i, j \in DOMAIN new : new[i] = new[j] => i = j
  BY <1>1, OrderSeq
<1>3. /\ Len(unspent) \in Nat /\ DOMAIN unspent = 1 .. Len(unspent)
      /\ Len(new) \in Nat /\ DOMAIN new = 1 .. Len(new)
  BY <1>2 DEF TableOK
<1>4. table = old \o more
  BY DEF UpdatedTable
<1>5. old \in [1 .. Len(unspent) -> both] /\ more \in [1 .. Len(new) -> both]
  BY <1>3 DEF Range
\* The entries the table had, and those it gets.
<1>6. /\ table \in Seq(both)
      /\ DOMAIN table = 1 .. Len(unspent) + Len(new)
      /\ \A k \in 1 .. Len(unspent) : table[k] = old[k]
      /\ \A k \in (1 .. Len(unspent) + Len(new)) \ (1 .. Len(unspent)) :
           /\ k - Len(unspent) \in 1 .. Len(new)
           /\ table[k] = more[k - Len(unspent)]
  <2> HIDE DEF old, more, both, table
  <2>1. /\ old \o more \in Seq(both)
        /\ DOMAIN (old \o more) = 1 .. Len(unspent) + Len(new)
        /\ \A k \in 1 .. Len(unspent) : (old \o more)[k] = old[k]
        /\ \A k \in (1 .. Len(unspent) + Len(new)) \ (1 .. Len(unspent)) :
             /\ k - Len(unspent) \in 1 .. Len(new)
             /\ (old \o more)[k] = more[k - Len(unspent)]
    BY <1>3, <1>5, ConcatFunctions
  <2> QED
    BY <1>4, <2>1, Zenon
<1>7. ASSUME NEW k \in DOMAIN unspent
      PROVE  k \in DOMAIN table /\ table[k] = UpdatedEntry(unspent[k], list)
  <2>1. old[k] = UpdatedEntry(unspent[k], list)
    OBVIOUS
  <2> HIDE DEF old, more, both, table
  <2> QED
    BY <1>3, <1>6, <2>1
<1>8. ASSUME NEW k \in DOMAIN table, k \notin DOMAIN unspent
      PROVE  /\ k - Len(unspent) \in DOMAIN new
             /\ table[k] = NewEntry(new[k - Len(unspent)])
  <2> HIDE DEF old, both, table
  <2>1. k - Len(unspent) \in DOMAIN new /\ table[k] = more[k - Len(unspent)]
    BY <1>3, <1>6, <1>8
  <2> QED
    BY <2>1
<1> HIDE DEF old, more, both, table
<1>9. table \in Seq(Range(table))
  <2>1. Len(unspent) + Len(new) \in Nat
    BY <1>3
  <2>2. table = [k \in 1 .. Len(unspent) + Len(new) |-> table[k]]
    BY <1>6
  <2> QED
    BY <2>1, <2>2, FunctionSeq
<1>10. ASSUME NEW k \in DOMAIN unspent
       PROVE  /\ k \in DOMAIN table
              /\ IsEntry(table[k])
              /\ table[k].addr = unspent[k].addr
              /\ table[k].spent = unspent[k].spent
              /\ \A o \in table[k].ids : o \in ledger \/ o \in unspent[k].ids
  BY <1>7, UpdatedEntryOK DEF TableOK
<1>11. ASSUME NEW k \in DOMAIN table, k \notin DOMAIN unspent
       PROVE  /\ k - Len(unspent) \in DOMAIN new
              /\ IsEntry(table[k])
              /\ table[k].addr = new[k - Len(unspent)]
              /\ table[k].addr \notin Addrs(unspent)
              /\ \A o \in table[k].ids : o \in ledger
  <2>1. new[k - Len(unspent)] \in S
    BY <1>2, <1>8, <1>11
  <2> QED
    BY <1>8, <1>11, <2>1, NewEntryOK
<1>12. ASSUME NEW k \in DOMAIN table, NEW l \in DOMAIN table,
              table[k].addr = table[l].addr
       PROVE  k = l
  <2>1. CASE k \in DOMAIN unspent /\ l \in DOMAIN unspent
    BY <1>10, <1>12, <2>1 DEF TableOK
  <2>2. CASE k \in DOMAIN unspent /\ l \notin DOMAIN unspent
    BY <1>10, <1>11, <1>12, <2>2 DEF Addrs
  <2>3. CASE k \notin DOMAIN unspent /\ l \in DOMAIN unspent
    BY <1>10, <1>11, <1>12, <2>3 DEF Addrs
  <2>4. CASE k \notin DOMAIN unspent /\ l \notin DOMAIN unspent
    <3>1. k - Len(unspent) = l - Len(unspent)
      BY <1>2, <1>11, <1>12, <2>4
    <3> QED
      BY <1>3, <1>6, <3>1
  <2> QED
    BY <2>1, <2>2, <2>3, <2>4
<1> QED
  BY <1>9, <1>10, <1>11, <1>12 DEF Evolves, table

\* Whatever a refresh leaves.
LEMMA RefreshEvolves ==
  ASSUME TableOK, last_addr_index \in Nat, first_unspent_idx \in Nat,
         NEW include_spent, NEW heap,
         NEW table \in wallet_refresh(include_spent, heap)
  PROVE  Evolves(table)
<1> DEFINE list == IF include_spent THEN am_addresses
                                    ELSE am_unspent_addresses(heap)
<1>1. list \in SUBSET am_addresses
  BY DEF am_addresses, am_unspent_addresses
<1>2. table \in RefreshedTables(list)
  BY DEF wallet_refresh
<1> HIDE DEF list
<1>3. CASE table = unspent
  BY <1>3, SameTableEvolves
<1>4. CASE table # unspent
  <2>1. PICK new \in Orders(list \ Addrs(unspent)) : table = UpdatedTable(list, new)
    BY <1>2, <1>4 DEF RefreshedTables
  <2> QED
    BY <1>1, <2>1, UpdateEvolves
<1> QED
  BY <1>3, <1>4

\* The entries chosen for a payment are unspent and hold outputs.
LEMMA PickedSpendable ==
  ASSUME NEW table, NEW amount, NEW color,
         NEW picked \in unspent_outputs_required_outputs(table, amount, color)
  PROVE  picked \subseteq Spendable(table)
BY DEF unspent_outputs_required_outputs

-----------------------------------------------------------------------------
(* What each step does to the parts of the invariant.                      *)

\* The address manager's part of the invariant, and what a step keeps of it.
ManagerOK == AMTypeOK /\ WindowInsideIssued /\ last_addr_index \in Index

\* An operation of the manager issues addresses within the bound and takes
\* none back.
LEMMA ManagerStep ==
  ASSUME ManagerOK, [AMNext]_am
  PROVE  ManagerOK' /\ last_addr_index <= last_addr_index'
<1> USE MaxIndexAssumption DEF ManagerOK, AMTypeOK, WindowInsideIssued, Index
<1>1. AMTypeOK' /\ WindowInsideIssued'
  BY NextType, NextWindow
<1>2. last_addr_index' \in Index /\ last_addr_index <= last_addr_index'
  <2>1. ASSUME NEW index \in Index, am_get_address(index)
        PROVE  last_addr_index' \in Index /\ last_addr_index <= last_addr_index'
    BY <2>1 DEF am_get_address
  <2>2. ASSUME NEW index \in Index, am_mark_spent_address(index)
        PROVE  last_addr_index' = last_addr_index
    BY <2>2 DEF am_mark_spent_address
  <2>3. CASE GetNewAddress
    BY <2>3 DEF GetNewAddress, am_get_new_address, am_get_address
  <2>4. CASE am_get_first_unspent_address
    BY <2>1, <2>4 DEF am_get_first_unspent_address
  <2>5. CASE am_get_last_unspent_address
    BY <2>1, <2>5 DEF am_get_last_unspent_address
  <2>6. CASE UNCHANGED am
    BY <2>6 DEF am
  <2> QED
    BY <2>1, <2>2, <2>3, <2>4, <2>5, <2>6 DEF AMNext, GetAddress
<1> QED
  BY <1>1, <1>2

\* No output disappears from the ledger; it may become confirmed.
LedgerKept == \A o \in ledger : \E l \in ledger' : Backs(l, o)

\* An output is its own counterpart in the ledger.
LEMMA BacksItself == ASSUME NEW o PROVE Backs(o, o)
BY Zenon DEF Backs

\* The counterpart of a counterpart is a counterpart.
LEMMA BacksOn ==
  ASSUME NEW m, NEW l, NEW o, Backs(m, l), Backs(l, o)
  PROVE  Backs(m, o)
BY Zenon DEF Backs

\* A step that neither starts nor continues a payment.
Quiet ==
  /\ [AMNext]_am
  /\ Evolves(unspent')
  /\ UNCHANGED <<tx, consumed, posted>>
  /\ \/ pc' = pc /\ (pc # "idle" => UNCHANGED <<am, unspent>>)
     \/ pc = "idle" /\ pc' = "crashed"
  /\ LedgerOK' /\ LedgerKept

\* A payment is built.
Built ==
  /\ pc = "idle" /\ pc' = "post"
  /\ Evolves(unspent')
  /\ consumed' # {} /\ consumed' \subseteq Spendable(unspent')
  /\ Sources(tx') = { unspent'[k].addr : k \in consumed' }
  /\ \/ UNCHANGED am /\ tx'.change = NoAddress
     \/ /\ UNCHANGED am
        /\ tx'.change \in RemainderIndex(unspent', consumed')
        /\ tx'.change # last_addr_index + 1
     \/ GetNewAddress /\ tx'.change = last_addr_index + 1
  /\ UNCHANGED <<posted, ledger>>

\* Each entry that holds outputs contributes its address to the sources.
LEMMA InputSources ==
  ASSUME NEW table, NEW picked \in SUBSET Spendable(table),
         \A k \in DOMAIN table : IsEntry(table[k])
  PROVE  { in.addr : in \in wallet_build_inputs(table, picked) }
           = { table[k].addr : k \in picked }
<1>1. ASSUME NEW k \in picked
      PROVE  /\ \A o \in table[k].ids : o.addr = table[k].addr
             /\ \E o \in table[k].ids : TRUE
  BY DEF Spendable, IsEntry
<1>2. ASSUME NEW in \in wallet_build_inputs(table, picked)
      PROVE  \E k \in picked : in.addr = table[k].addr
  <2>1. PICK k \in picked :
          in \in { [addr |-> o.addr, tx |-> o.tx] : o \in table[k].ids }
    BY DEF wallet_build_inputs
  <2> QED
    BY <1>1, <2>1
<1>3. ASSUME NEW k \in picked
      PROVE  \E in \in wallet_build_inputs(table, picked) : in.addr = table[k].addr
  <2>1. PICK o \in table[k].ids : o.addr = table[k].addr
    BY <1>1
  <2>2. [addr |-> o.addr, tx |-> o.tx] \in wallet_build_inputs(table, picked)
    BY DEF wallet_build_inputs
  <2> QED
    BY <2>1, <2>2
<1> QED
  BY <1>2, <1>3

\* wallet_send_funds up to its POST: it consumes spendable entries, takes its
\* inputs from exactly these, and sends its change where Built says.
LEMMA SendBuilds ==
  ASSUME TableOK, ManagerOK, NEW dest, SendFunds(dest)
  PROVE  Built
<1> USE DEF ManagerOK, AMTypeOK
<1>1. PICK heap \in HeapBits(spent_addr, last_addr_index) :
      \E table \in wallet_refresh(FALSE, heap) :
      \E picked \in unspent_outputs_required_outputs(table, dest.amount, dest.color) :
        /\ picked # {} /\ unspent' = table /\ consumed' = picked
        /\ \E change \in RemainderIndex(table, picked) \union {NoAddress} :
           \E balance : Build(dest, table, picked, balance, change)
  BY DEF SendFunds
<1>2. PICK table \in wallet_refresh(FALSE, heap) :
      \E picked \in unspent_outputs_required_outputs(table, dest.amount, dest.color) :
        /\ picked # {} /\ unspent' = table /\ consumed' = picked
        /\ \E change \in RemainderIndex(table, picked) \union {NoAddress} :
           \E balance : Build(dest, table, picked, balance, change)
  BY <1>1
<1>3. Evolves(unspent') /\ unspent' = table
  BY <1>2, RefreshEvolves
<1>4. consumed' # {} /\ consumed' \in SUBSET Spendable(unspent')
  BY <1>2, PickedSpendable
<1>5. PICK change \in RemainderIndex(unspent', consumed') \union {NoAddress} :
      \E balance : Build(dest, unspent', consumed', balance, change)
  BY <1>2
<1>6. /\ tx'.inputs = wallet_build_inputs(unspent', consumed')
      /\ tx'.change = change
      /\ IF change = last_addr_index + 1 THEN GetNewAddress ELSE UNCHANGED am
  BY <1>5 DEF Build
<1>7. Sources(tx') = { unspent'[k].addr : k \in consumed' }
  <2>1. \A k \in DOMAIN table : IsEntry(table[k])
    BY <1>3 DEF Evolves
  <2>2. { in.addr : in \in wallet_build_inputs(table, consumed') }
          = { table[k].addr : k \in consumed' }
    BY <1>3, <1>4, <2>1, InputSources
  <2> QED
    BY <1>3, <1>6, <2>2 DEF Sources
<1>8. NoAddress # last_addr_index + 1
  BY WalletAssumption
<1>9. pc = "idle" /\ pc' = "post" /\ UNCHANGED <<posted, ledger>>
  BY DEF SendFunds, node
<1> QED
  BY <1>3, <1>4, <1>5, <1>6, <1>7, <1>8, <1>9 DEF Built

\* The transaction is handed to the node, which may apply it.
Posts ==
  /\ pc = "post" /\ pc' = "mark"
  /\ UNCHANGED <<am, unspent, tx, consumed>>
  /\ \E sent : posted' = Append(posted, [inputs |-> tx.inputs, sent |-> sent])
  /\ \A o \in ledger : o.addr \notin Sources(tx) => o \in ledger'
  /\ LedgerOK'

\* One consumed entry is marked.
Marks ==
  /\ pc = "mark"
  /\ \E k \in consumed :
       /\ unspent' = [unspent EXCEPT ![k].spent = TRUE]
       /\ am_mark_spent_address(unspent[k].addr_index)
       /\ consumed' = consumed \ {k}
  /\ pc' = IF consumed' = {} THEN "idle" ELSE "mark"
  /\ UNCHANGED <<posted, ledger>>

\* send_tx_bytes hands over the transaction that was built; an applied one
\* removes from the ledger outputs of its sources alone.
LEMMA PostPosts ==
  ASSUME LedgerOK, NEW delivered \in BOOLEAN, NEW replied \in BOOLEAN,
         Post(delivered, replied)
  PROVE  Posts
<1>1. \/ ledger' = ledger
      \/ ledger' = (ledger \ Spends(tx)) \union Received(tx)
  BY DEF Post
<1>2. \A o \in Spends(tx) : o.addr \in Sources(tx)
  BY DEF Spends, Sources
<1>3. \A o \in Received(tx) :
        o \in [addr : {o.addr}, tx : {o.tx}, bal : {o.bal}, conf : BOOLEAN]
  <2> SUFFICES ASSUME NEW p \in { q \in tx.outputs : q.addr \in Nat },
                      NEW o, o = [addr |-> p.addr, tx |-> txs + 1,
                                  bal |-> p.bal, conf |-> FALSE]
               PROVE  o \in [addr : {o.addr}, tx : {o.tx}, bal : {o.bal},
                             conf : BOOLEAN]
    BY DEF Received
  <2> QED
    OBVIOUS
<1>4. LedgerOK'
  BY <1>1, <1>3 DEF LedgerOK
<1>5. \A o \in ledger : o.addr \notin Sources(tx) => o \in ledger'
  BY <1>1, <1>2
<1>6. /\ pc = "post" /\ pc' = "mark"
      /\ UNCHANGED <<am, unspent, tx, consumed>>
      /\ posted' = Append(posted, [inputs |-> tx.inputs, sent |-> replied])
  BY DEF Post
<1> QED
  BY <1>4, <1>5, <1>6 DEF Posts

\* An iteration of the closing loop marks one consumed entry.
LEMMA MarkMarks == MarkSpent => Marks
BY DEF MarkSpent, Marks, Least, node

\* A step that leaves the ledger alone keeps it, and so does an arrival.
LEMMA SameLedger ==
  ASSUME LedgerOK, ledger' = ledger
  PROVE  LedgerOK' /\ LedgerKept
BY BacksItself DEF LedgerOK, LedgerKept

\* An incoming payment removes no output from the ledger.
LEMMA ArrivalKeeps ==
  ASSUME LedgerOK, NEW a, NEW bal, Arrives(a, bal)
  PROVE  LedgerOK' /\ LedgerKept
<1> DEFINE new == [addr |-> a, tx |-> txs + 1, bal |-> bal, conf |-> FALSE]
<1>1. ledger' = ledger \union {new}
  BY DEF Arrives
<1>2. new \in [addr : {new.addr}, tx : {new.tx}, bal : {new.bal}, conf : BOOLEAN]
  OBVIOUS
<1> HIDE DEF new
<1> QED
  BY <1>1, <1>2, BacksItself DEF LedgerOK, LedgerKept

\* A confirmation changes nothing of an output but its state.
LEMMA ConfirmationKeeps ==
  ASSUME LedgerOK, NEW p \in ledger, Confirm(p)
  PROVE  LedgerOK' /\ LedgerKept
<1> DEFINE c == [p EXCEPT !.conf = TRUE]
<1>1. p \in [addr : {p.addr}, tx : {p.tx}, bal : {p.bal}, conf : BOOLEAN]
  BY DEF LedgerOK
<1>2. /\ c.addr = p.addr /\ c.tx = p.tx /\ c.bal = p.bal /\ c.conf
      /\ c \in [addr : {c.addr}, tx : {c.tx}, bal : {c.bal}, conf : BOOLEAN]
  <2>1. c \in [addr : {p.addr}, tx : {p.tx}, bal : {p.bal}, conf : BOOLEAN]
    BY <1>1
  <2>2. c.addr = p.addr /\ c.tx = p.tx /\ c.bal = p.bal
    BY <1>1
  <2>3. c.conf
    BY <1>1
  <2> HIDE DEF c
  <2> QED
    BY <2>1, <2>2, <2>3
<1>3. ledger' = (ledger \ {p}) \union {c}
  BY DEF Confirm
<1> HIDE DEF c
<1>4. LedgerOK'
  BY <1>2, <1>3 DEF LedgerOK
<1>5. LedgerKept
  <2> SUFFICES ASSUME NEW o \in ledger
               PROVE  \E l \in ledger' : Backs(l, o)
    BY DEF LedgerKept
  <2>1. CASE o = p
    <3>1. Backs(c, p)
      BY <1>2 DEF Backs
    <3> QED
      BY <1>3, <2>1, <3>1
  <2>2. CASE o # p
    BY <1>3, <2>2, BacksItself
  <2> QED
    BY <2>1, <2>2
<1> QED
  BY <1>4, <1>5

\* An address call on the idle wallet.
LEMMA AddressCallQuiet ==
  ASSUME TableOK, LedgerOK, AMNext, pc = "idle", unspent' = unspent,
         UNCHANGED <<call, posted>>, LedgerOK' /\ LedgerKept
  PROVE  Quiet
BY SameTableEvolves DEF Quiet, call

\* Every step is one of the four kinds.
LEMMA StepKinds ==
  ASSUME ManagerOK, TableOK, LedgerOK, [Next]_vars
  PROVE  Quiet \/ Built \/ Posts \/ Marks
<1> USE DEF ManagerOK, AMTypeOK
<1>1. ASSUME NEW include_spent \in BOOLEAN, Refresh(include_spent) PROVE Quiet
  <2>1. Evolves(unspent')
    BY <1>1, RefreshEvolves DEF Refresh
  <2> QED
    BY <1>1, <2>1, SameLedger DEF Refresh, Quiet, call, node
<1>2. CASE RefreshCrashes
  BY <1>2, SameTableEvolves, SameLedger DEF RefreshCrashes, Quiet, node
<1>3. CASE wallet_new_receive_address
  BY <1>3, AddressCallQuiet, SameLedger
     DEF wallet_new_receive_address, AddressCall, AMNext, node
<1>4. CASE wallet_receive_address
  BY <1>4, AddressCallQuiet, SameLedger
     DEF wallet_receive_address, AddressCall, AMNext, node
<1>5. CASE wallet_remainder_address
  BY <1>5, AddressCallQuiet, SameLedger
     DEF wallet_remainder_address, AddressCall, AMNext, node
<1>6. CASE wallet_request_funds
  BY <1>6, AddressCallQuiet, ArrivalKeeps, SameLedger
     DEF wallet_request_funds, AMNext, node
<1>7. ASSUME NEW dest, SendRefused(dest) PROVE Quiet
  <2>1. Evolves(unspent')
    BY <1>7, RefreshEvolves DEF SendRefused
  <2> QED
    BY <1>7, <2>1, SameLedger DEF SendRefused, Quiet, call, node
<1>8. ASSUME NEW a, NEW bal, Pay(a, bal) PROVE Quiet
  BY <1>8, SameTableEvolves, ArrivalKeeps DEF Pay, Quiet, call
<1>9. ASSUME NEW o \in ledger, Confirm(o) PROVE Quiet
  BY <1>9, SameTableEvolves, ConfirmationKeeps DEF Confirm, Quiet, call
<1>10. CASE UNCHANGED vars
  BY <1>10, SameTableEvolves, SameLedger DEF vars, call, node, Quiet
<1>11. ASSUME NEW dest, SendFunds(dest) PROVE Built
  BY <1>11, SendBuilds
<1>12. ASSUME NEW delivered \in BOOLEAN, NEW replied \in BOOLEAN,
              Post(delivered, replied)
       PROVE  Posts
  BY <1>12, PostPosts
<1>13. MarkSpent => Marks
  BY MarkMarks
<1> QED
  BY <1>1, <1>2, <1>3, <1>4, <1>5, <1>6, <1>7, <1>8, <1>9, <1>10, <1>11,
     <1>12, <1>13 DEF Next, WalletStep, NodeStep

-----------------------------------------------------------------------------
(* The invariant.                                                          *)

\* The invariant holds when wallet_init returns.
LEMMA InitInv == Init => WalletInv
<1> SUFFICES ASSUME Init PROVE WalletInv
  OBVIOUS
<1> USE MaxIndexAssumption DEF Index
<1>1. InitFromIndices /\ AMInit
  BY DEF Init, AMInit
<1>2. AMTypeOK /\ WindowInsideIssued /\ last_addr_index \in Index
  BY <1>1, InitType, InitWindow DEF InitFromIndices
<1>3. last_addr_index \in Nat /\ first_unspent_idx \in Nat
  BY <1>2 DEF AMTypeOK
<1>4. TableOK
  <2>1. unspent = [k \in 1 .. last_addr_index + 1 |->
                     [addr |-> k - 1, addr_index |-> k - 1,
                      spent |-> k - 1 < first_unspent_idx, ids |-> {}]]
    BY DEF Init
  <2>2. DOMAIN unspent = 1 .. last_addr_index + 1
    BY <2>1
  <2>3. unspent \in Seq(Range(unspent))
    BY <1>3, <2>1, <2>2, FunctionSeq
  <2>4. ASSUME NEW k \in DOMAIN unspent
        PROVE  IsEntry(unspent[k]) /\ unspent[k].addr = k - 1
    <3>1. k \in Nat /\ k - 1 \in am_addresses
      BY <1>3, <2>2 DEF am_addresses
    <3>2. /\ unspent[k].addr = k - 1 /\ unspent[k].ids = {}
          /\ unspent[k] \in [addr : {k - 1}, addr_index : {k - 1},
                             spent : BOOLEAN, ids : {{}}]
      BY <2>1, <2>2
    <3> QED
      BY <3>1, <3>2 DEF IsEntry
  <2>5. ASSUME NEW k \in DOMAIN unspent, NEW l \in DOMAIN unspent,
               unspent[k].addr = unspent[l].addr
        PROVE  k = l
    BY <1>3, <2>2, <2>4, <2>5
  <2> QED
    BY <2>3, <2>4, <2>5 DEF TableOK
<1>5. CallOK /\ LedgerOK
  BY DEF Init, CallOK, LedgerOK
<1>6. PostedOK
  BY DEF Init, PostedOK, Range
<1> QED
  BY <1>2, <1>4, <1>5, <1>6 DEF WalletInv

\* The table a step leaves is well formed.
LEMMA TableStep ==
  ASSUME ManagerOK, last_addr_index' \in Nat, last_addr_index <= last_addr_index',
         Evolves(unspent')
  PROVE  TableOK'
<1>1. am_addresses \subseteq am_addresses'
  BY DEF ManagerOK, AMTypeOK, am_addresses
<1>2. ASSUME NEW k \in DOMAIN unspent' PROVE IsEntry(unspent[k])'
  BY <1>1 DEF Evolves, IsEntry
<1> QED
  BY <1>2 DEF Evolves, TableOK

\* Marking leaves an evolved table, and uses the manager as it may.
LEMMA MarksEvolve ==
  ASSUME ManagerOK, TableOK, CallOK, Marks
  PROVE  Evolves(unspent') /\ AMNext
<1>1. PICK k \in consumed :
        /\ unspent' = [unspent EXCEPT ![k].spent = TRUE]
        /\ am_mark_spent_address(unspent[k].addr_index)
  BY DEF Marks
<1>2. k \in DOMAIN unspent /\ IsEntry(unspent[k])
  BY DEF CallOK, TableOK, Marks
<1>3. AMNext
  <2>1. unspent[k].addr_index \in Index
    BY <1>2, MaxIndexAssumption
       DEF IsEntry, am_addresses, ManagerOK, AMTypeOK, Index
  <2> QED
    BY <1>1, <2>1 DEF AMNext
<1>4. /\ Len(unspent) \in Nat /\ DOMAIN unspent = 1 .. Len(unspent)
      /\ unspent' = [l \in 1 .. Len(unspent) |-> unspent'[l]]
  <2>1. Len(unspent) \in Nat /\ DOMAIN unspent = 1 .. Len(unspent)
    BY DEF TableOK
  <2>2. PICK m : unspent' = [unspent EXCEPT ![k] = m]
    BY <1>1
  <2> QED
    BY <2>1, <2>2
<1>5. unspent' \in Seq(Range(unspent'))
  BY <1>4, FunctionSeq
<1>6. /\ IsEntry(unspent'[k])
      /\ unspent'[k].addr = unspent[k].addr
      /\ unspent'[k].ids = unspent[k].ids
      /\ unspent'[k].spent
  <2> DEFINE e == unspent[k]
             m == [e EXCEPT !.spent = TRUE]
  <2>1. unspent'[k] = m
    BY <1>1, <1>2
  <2>2. /\ m \in [addr : am_addresses, addr_index : am_addresses,
                  spent : BOOLEAN, ids : {e.ids}]
        /\ m.addr = e.addr /\ m.ids = e.ids
    BY <1>2 DEF IsEntry
  <2>3. m.spent
    BY <1>2 DEF IsEntry
  <2> HIDE DEF m, e
  <2> QED
    BY <1>2, <2>1, <2>2, <2>3 DEF IsEntry, e
<1>7. ASSUME NEW l \in DOMAIN unspent, l # k PROVE unspent'[l] = unspent[l]
  BY <1>1, <1>7
<1> QED
  BY <1>3, <1>4, <1>5, <1>6, <1>7 DEF Evolves, TableOK

\* The invariant without what it says of earlier payments: this part also
\* survives an end of the process.
BaseInv == ManagerOK /\ TableOK /\ CallOK /\ LedgerOK

\* The two parts of the invariant.
LEMMA WalletBase == WalletInv <=> BaseInv /\ PostedOK
BY DEF WalletInv, BaseInv, ManagerOK

\* Every step drives the manager by its own operations.
LEMMA NextManager ==
  ASSUME BaseInv, [Next]_vars
  PROVE  [AMNext]_am /\ Evolves(unspent')
<1> USE DEF BaseInv
<1>1. ManagerOK
  OBVIOUS
<1>2. Quiet \/ Built \/ Posts \/ Marks
  BY <1>1, StepKinds
<1>3. CASE Quiet
  BY <1>3 DEF Quiet
<1>4. CASE Built
  BY <1>4 DEF Built, AMNext
<1>5. CASE Posts
  BY <1>5, SameTableEvolves DEF Posts
<1>6. CASE Marks
  BY <1>1, <1>6, MarksEvolve
<1> QED
  BY <1>2, <1>3, <1>4, <1>5, <1>6

\* What has been committed to a payment stays committed.
LEMMA CommittedStays ==
  ASSUME BaseInv, Quiet \/ Built \/ Posts \/ Marks, Evolves(unspent'),
         NEW k \in DOMAIN unspent, ~Live(k)
  PROVE  ~Live(k)'
<1>1. CASE unspent[k].spent
  BY <1>1 DEF Evolves, Live
<1>2. CASE pc = "mark" /\ k \in consumed
  <2>1. Quiet => pc' = "mark" /\ consumed' = consumed
    BY <1>2 DEF Quiet
  <2>2. ~Built /\ ~Posts
    BY <1>2 DEF Built, Posts
  <2>3. CASE Marks
    <3>1. PICK l \in consumed : /\ unspent' = [unspent EXCEPT ![l].spent = TRUE]
                               /\ consumed' = consumed \ {l}
      BY <2>3 DEF Marks
    <3>2. CASE k = l
      <4>1. IsEntry(unspent[k])
        BY DEF BaseInv, TableOK
      <4>2. unspent'[k].spent
        BY <3>1, <3>2, <4>1 DEF IsEntry
      <4> QED
        BY <4>2 DEF Live
    <3>3. CASE k # l
      BY <1>2, <2>3, <3>1, <3>3 DEF Marks, Live
    <3> QED
      BY <3>2, <3>3
  <2> QED
    BY <1>2, <2>1, <2>2, <2>3 DEF Live
<1> QED
  BY <1>1, <1>2 DEF Live

\* A quiet step and the closing loop leave a payment in progress alone, and a
\* new one takes from unspent entries.
LEMMA CallStep ==
  ASSUME BaseInv, Quiet \/ Built \/ Posts \/ Marks, Evolves(unspent')
  PROVE  CallOK'
<1> USE DEF BaseInv
<1>1. CASE Quiet
  <2>1. DOMAIN unspent \subseteq DOMAIN unspent'
    BY DEF Evolves
  <2> QED
    BY <1>1, <2>1 DEF Quiet, CallOK
<1>2. CASE Built
  BY <1>2 DEF Built, CallOK, Spendable
<1>3. CASE Posts
  BY <1>3 DEF Posts, CallOK
<1>4. CASE Marks
  <2>1. DOMAIN unspent \subseteq DOMAIN unspent' /\ consumed' \subseteq consumed
    BY <1>4 DEF Evolves, Marks
  <2> QED
    BY <1>4, <2>1 DEF Marks, CallOK
<1> QED
  BY <1>1, <1>2, <1>3, <1>4

\* The list of transactions grows at its end, by the one just handed over.
LEMMA PostedGrows ==
  ASSUME posted \in Seq(Range(posted)), Posts
  PROVE  /\ posted' \in Seq(Range(posted'))
         /\ Len(posted) \in Nat
         /\ DOMAIN posted = 1 .. Len(posted)
         /\ DOMAIN posted' = 1 .. Len(posted) + 1
         /\ \A i \in DOMAIN posted : posted'[i] = posted[i]
         /\ Sources(posted'[Len(posted) + 1]) = Sources(tx)
<1>1. PICK sent : posted' = Append(posted, [inputs |-> tx.inputs, sent |-> sent])
  BY DEF Posts
<1> DEFINE t == [inputs |-> tx.inputs, sent |-> sent]
           S == Range(posted) \union {t}
<1>2. t.inputs = tx.inputs
  OBVIOUS
<1> HIDE DEF t
<1>3. posted \in Seq(S) /\ t \in S
  BY DEF Range
<1> HIDE DEF S
<1>4. /\ posted' \in Seq(S)
      /\ Len(posted) \in Nat
      /\ DOMAIN posted = 1 .. Len(posted)
      /\ DOMAIN posted' = 1 .. Len(posted) + 1
      /\ \A i \in DOMAIN posted : posted'[i] = posted[i]
      /\ posted'[Len(posted) + 1] = t
  BY <1>1, <1>3 DEF t
<1>5. posted' = [i \in 1 .. Len(posted) + 1 |-> posted'[i]]
  BY <1>4
<1>6. posted' \in Seq(Range(posted'))
  BY <1>4, <1>5, FunctionSeq
<1> QED
  BY <1>2, <1>4, <1>6 DEF Sources

\* What earlier payments took from stays committed; the payment handed over by
\* this step is committed by being consumed.
LEMMA PostedStep ==
  ASSUME WalletInv, Quiet \/ Built \/ Posts \/ Marks, Evolves(unspent')
  PROVE  PostedOK'
<1> USE DEF WalletInv
<1>1. ASSUME NEW a, NEW k \in DOMAIN unspent, unspent[k].addr = a, ~Live(k)
      PROVE  \E l \in DOMAIN unspent' : unspent'[l].addr = a /\ ~Live(l)'
  BY <1>1, CommittedStays, WalletBase DEF Evolves
<1>2. ASSUME posted' = posted PROVE PostedOK'
  BY <1>1, <1>2 DEF PostedOK
<1>3. CASE Posts
  <2>1. \A a \in Sources(tx) :
          \E k \in DOMAIN unspent' : unspent'[k].addr = a /\ ~Live(k)'
    BY <1>3 DEF Posts, CallOK, Live
  <2>2. posted \in Seq(Range(posted))
    BY DEF PostedOK
  <2>3. ASSUME NEW i \in DOMAIN posted', NEW a \in Sources(posted'[i])
        PROVE  \E k \in DOMAIN unspent' : unspent'[k].addr = a /\ ~Live(k)'
    <3>1. CASE i \in DOMAIN posted
      BY <1>1, <1>3, <2>2, <2>3, <3>1, PostedGrows DEF PostedOK
    <3>2. CASE i \notin DOMAIN posted
      <4>1. i = Len(posted) + 1
        BY <1>3, <2>2, <3>2, PostedGrows
      <4> QED
        BY <1>3, <2>1, <2>2, <2>3, <4>1, PostedGrows
    <3> QED
      BY <3>1, <3>2
  <2> QED
    BY <1>3, <2>2, <2>3, PostedGrows DEF PostedOK
<1> QED
  BY <1>2, <1>3 DEF Quiet, Built, Marks

\* Every step of the wallet and of the node keeps the base.
LEMMA NextBase ==
  ASSUME BaseInv, [Next]_vars
  PROVE  BaseInv'
<1>1. Quiet \/ Built \/ Posts \/ Marks
  BY StepKinds DEF BaseInv
<1>2. [AMNext]_am /\ Evolves(unspent')
  BY NextManager
<1>3. ManagerOK' /\ last_addr_index <= last_addr_index'
  BY <1>2, ManagerStep DEF BaseInv
<1>4. TableOK'
  BY <1>2, <1>3, TableStep DEF BaseInv, ManagerOK, AMTypeOK
<1>5. CallOK'
  BY <1>1, <1>2, CallStep
<1>6. LedgerOK'
  BY <1>1 DEF BaseInv, Quiet, Built, Posts, Marks, LedgerOK
<1> QED
  BY <1>3, <1>4, <1>5, <1>6 DEF BaseInv

\* Every step of the wallet and of the node keeps the invariant.
LEMMA NextInv == WalletInv /\ [Next]_vars => WalletInv'
<1> SUFFICES ASSUME WalletInv, [Next]_vars PROVE WalletInv'
  OBVIOUS
<1>1. BaseInv
  BY WalletBase
<1>2. (Quiet \/ Built \/ Posts \/ Marks) /\ Evolves(unspent')
  BY <1>1, StepKinds, NextManager DEF BaseInv
<1>3. BaseInv' /\ PostedOK'
  BY <1>1, <1>2, NextBase, PostedStep
<1>4. (WalletInv <=> BaseInv /\ PostedOK)'
  BY WalletBase, PTL
<1> QED
  BY <1>3, <1>4

\* The invariant the wallet's theorems rest on holds in every reachable state.
LEMMA WalletInvariant == Spec => []WalletInv
<1>1. Init => WalletInv
  BY InitInv
<1>2. WalletInv /\ [Next]_vars => WalletInv'
  BY NextInv
<1> QED
  BY <1>1, <1>2, PTL DEF Spec

-----------------------------------------------------------------------------
(* The theorems.                                                           *)

\* The wallet drives the address manager only through its operations, so what
\* is proved of the manager holds in the wallet.
THEOREM WalletDrivesManager == Spec => ManagerSpec
<1>1. Init => AMInit
  BY DEF Init, AMInit
<1>2. WalletInv /\ [Next]_vars => [AMNext]_am
  BY NextManager, WalletBase
<1> QED
  BY <1>1, <1>2, WalletInvariant, PTL DEF Spec, ManagerSpec, AMSpec

\* What a transaction about to be posted takes from, no earlier one took from.
LEMMA SourcesFresh ==
  ASSUME WalletInv, pc = "post", NEW i \in DOMAIN posted
  PROVE  Sources(posted[i]) \intersect Sources(tx) = {}
<1> SUFFICES ASSUME NEW a \in Sources(posted[i]), a \in Sources(tx) PROVE FALSE
  OBVIOUS
<1>1. PICK k \in DOMAIN unspent : unspent[k].addr = a /\ ~Live(k)
  BY DEF WalletInv, PostedOK
<1>2. PICK l \in consumed :
        l \in DOMAIN unspent /\ unspent[l].addr = a /\ ~unspent[l].spent
  BY DEF WalletInv, CallOK
<1>3. k = l
  BY <1>1, <1>2 DEF WalletInv, TableOK
<1> QED
  BY <1>1, <1>2, <1>3 DEF Live

\* No address is ever a source of two transactions handed to the node.
THEOREM NoAddressReuse == Spec => []NoReuse
<1>1. Init => NoReuse
  BY DEF Init, NoReuse
<1>2. ASSUME WalletInv, NoReuse, [Next]_vars PROVE NoReuse'
  <2>1. Quiet \/ Built \/ Posts \/ Marks
    BY <1>2, StepKinds DEF WalletInv, ManagerOK
  <2>2. CASE posted' = posted
    BY <1>2, <2>2 DEF NoReuse
  <2>3. CASE Posts
    <3>1. pc = "post" /\ posted \in Seq(Range(posted))
      BY <1>2, <2>3 DEF Posts, WalletInv, PostedOK
    <3> SUFFICES ASSUME NEW i \in DOMAIN posted', NEW j \in DOMAIN posted', i # j
                 PROVE  Sources(posted'[i]) \intersect Sources(posted'[j]) = {}
      BY DEF NoReuse
    <3>2. CASE i \in DOMAIN posted /\ j \in DOMAIN posted
      BY <1>2, <2>3, <3>1, <3>2, PostedGrows DEF NoReuse
    <3>3. CASE i \in DOMAIN posted /\ j \notin DOMAIN posted
      <4>1. j = Len(posted) + 1
        BY <2>3, <3>1, <3>3, PostedGrows
      <4> QED
        BY <1>2, <2>3, <3>1, <3>3, <4>1, PostedGrows, SourcesFresh
    <3>4. CASE i \notin DOMAIN posted /\ j \in DOMAIN posted
      <4>1. i = Len(posted) + 1
        BY <2>3, <3>1, <3>4, PostedGrows
      <4> QED
        BY <1>2, <2>3, <3>1, <3>4, <4>1, PostedGrows, SourcesFresh
    <3>5. CASE i \notin DOMAIN posted /\ j \notin DOMAIN posted
      BY <2>3, <3>1, <3>5, PostedGrows
    <3> QED
      BY <3>2, <3>3, <3>4, <3>5
  <2> QED
    BY <2>1, <2>2, <2>3 DEF Quiet, Built, Marks
<1> QED
  BY <1>1, <1>2, WalletInvariant, PTL DEF Spec

\* A change address the wallet chose is issued, and not a source of the same
\* transaction.
THEOREM ChangeAlwaysFresh == Spec => []ChangeIsFresh
<1>1. Init => ChangeIsFresh
  BY DEF Init, ChangeIsFresh
<1>2. ASSUME WalletInv, ChangeIsFresh, [Next]_vars PROVE ChangeIsFresh'
  <2> USE DEF WalletInv, AMTypeOK, WindowInsideIssued
  <2>1. Quiet \/ Built \/ Posts \/ Marks
    BY <1>2, StepKinds DEF ManagerOK
  <2>2. CASE Quiet
    BY <1>2, <2>2 DEF Quiet, ChangeIsFresh, am, am_addresses
  <2>3. CASE Built
    <3>1. ASSUME NEW k \in consumed'
          PROVE  unspent'[k].addr \in am_addresses
      BY <2>3, <3>1 DEF Built, Evolves, Spendable, IsEntry
    <3>2. CASE UNCHANGED am /\ tx'.change \in RemainderIndex(unspent', consumed')
               /\ tx'.change # last_addr_index + 1
      <4>1. /\ tx'.change \in am_addresses
            /\ \A k \in consumed' : unspent'[k].addr # tx'.change
        BY <1>2, <3>2 DEF RemainderIndex, Least, am_addresses
      <4>2. am_addresses' = am_addresses
        BY <3>2 DEF am, am_addresses
      <4> QED
        BY <2>3, <4>1, <4>2 DEF Built, ChangeIsFresh
    <3>3. CASE GetNewAddress /\ tx'.change = last_addr_index + 1
      BY <1>2, <2>3, <3>1, <3>3
         DEF Built, GetNewAddress, am_get_new_address, am_get_address,
             ChangeIsFresh, am_addresses
    <3> QED
      BY <2>3, <3>2, <3>3 DEF Built, ChangeIsFresh
  <2>4. CASE Posts \/ Marks
    BY <2>4 DEF Posts, Marks, ChangeIsFresh
  <2> QED
    BY <2>1, <2>2, <2>3, <2>4
<1> QED
  BY <1>1, <1>2, WalletInvariant, PTL DEF Spec

\* What a spendable entry shows is in the ledger.
THEOREM BalanceNeverOverstated == Spec => []NeverOverstates
<1>1. Init => NeverOverstates
  <2> SUFFICES ASSUME Init, NEW k \in DOMAIN unspent PROVE unspent[k].ids = {}
    BY DEF NeverOverstates
  <2> QED
    BY DEF Init
<1>2. ASSUME WalletInv, NeverOverstates, [Next]_vars PROVE NeverOverstates'
  <2> USE DEF WalletInv
  <2>1. (Quiet \/ Built \/ Posts \/ Marks) /\ Evolves(unspent')
    BY <1>2, StepKinds, NextManager, WalletBase DEF ManagerOK
  <2> SUFFICES ASSUME NEW k \in DOMAIN unspent', Live(k)', NEW o \in unspent'[k].ids
               PROVE  Backing(o)'
    BY DEF NeverOverstates
  <2>2. ~unspent'[k].spent
    BY DEF Live
  <2>3. o \in ledger \/ Backing(o)
    <3>1. CASE k \in DOMAIN unspent /\ o \in unspent[k].ids
      <4>1. Live(k)
        BY <1>2, <2>1, <3>1, CommittedStays, WalletBase
      <4> QED
        BY <1>2, <3>1, <4>1 DEF NeverOverstates
    <3> QED
      BY <2>1, <2>2, <3>1 DEF Evolves
  <2>4. Backing(o)
    BY <2>3, BacksItself DEF Backing
  <2>5. CASE LedgerKept
    <3>1. PICK l \in ledger : Backs(l, o)
      BY <2>4 DEF Backing
    <3>2. PICK m \in ledger' : Backs(m, l)
      BY <2>5 DEF LedgerKept
    <3>3. Backs(m, o)
      BY <3>1, <3>2, BacksOn
    <3> QED
      BY <3>3 DEF Backing
  <2>6. CASE Posts
    <3>1. k \in DOMAIN unspent /\ o \in unspent[k].ids /\ k \notin consumed
      BY <2>6 DEF Posts, Live
    <3>2. o.addr \notin Sources(tx)
      BY <1>2, <2>6, <3>1 DEF Posts, CallOK, TableOK, IsEntry
    <3> QED
      BY <2>4, <2>6, <3>2 DEF Posts, Backing, Backs
  <2>7. Quiet \/ Built \/ Marks => LedgerKept
    BY <1>2, SameLedger DEF Quiet, Built, Marks
  <2> QED
    BY <2>1, <2>5, <2>6, <2>7
<1> QED
  BY <1>1, <1>2, WalletInvariant, PTL DEF Spec

-----------------------------------------------------------------------------
(* The wallet implements one-time addresses.                               *)

Payments == [i \in DOMAIN posted |-> Sources(posted[i])]

\* The list of payments grows with the list of transactions.
LEMMA PaymentsGrow ==
  ASSUME posted \in Seq(Range(posted)), Posts
  PROVE  Payments' = Append(Payments, Sources(tx))
<1> DEFINE S == { Sources(posted[i]) : i \in DOMAIN posted } \union {Sources(tx)}
<1>1. /\ Len(posted) \in Nat
      /\ DOMAIN posted = 1 .. Len(posted)
      /\ DOMAIN posted' = 1 .. Len(posted) + 1
      /\ \A i \in DOMAIN posted : posted'[i] = posted[i]
      /\ Sources(posted'[Len(posted) + 1]) = Sources(tx)
  BY PostedGrows
<1>2. Payments \in [1 .. Len(posted) -> S]
  BY <1>1 DEF Payments
<1>3. Sources(tx) \in S
  OBVIOUS
<1> HIDE DEF S
<1>4. Payments \in Seq(S) /\ Len(Payments) = Len(posted)
  BY <1>1, <1>2, SeqDef
<1> DEFINE more == Append(Payments, Sources(tx))
<1>5. /\ DOMAIN more = 1 .. Len(posted) + 1
      /\ \A i \in 1 .. Len(posted) : more[i] = Payments[i]
      /\ more[Len(posted) + 1] = Sources(tx)
      /\ more \in Seq(S)
  BY <1>1, <1>3, <1>4
<1>6. Payments' = [i \in 1 .. Len(posted) + 1 |-> Sources(posted'[i])]
  BY <1>1 DEF Payments
<1> HIDE DEF more
<1>7. ASSUME NEW i \in 1 .. Len(posted) + 1
      PROVE  more[i] = Sources(posted'[i])
  <2>1. CASE i \in 1 .. Len(posted)
    BY <1>1, <1>5, <2>1 DEF Payments
  <2>2. CASE i = Len(posted) + 1
    BY <1>1, <1>5, <2>2
  <2> QED
    BY <1>1, <2>1, <2>2
<1>8. more = [i \in 1 .. Len(posted) + 1 |-> more[i]]
  BY <1>1, <1>5
<1>9. Payments' = more
  BY <1>6, <1>7, <1>8
<1> QED
  BY <1>9 DEF more

\* A wallet step issues addresses, takes from unused ones, or does neither.
THEOREM WalletIsOneTime == Spec => OneTime
<1>1. Init => Abstract!Init
  BY MaxIndexAssumption DEF Init, InitFromIndices, Index, Abstract!Init
<1>2. ASSUME WalletInv, [Next]_vars
      PROVE  [Abstract!Next]_<<last_addr_index, Payments>>
  <2> USE DEF WalletInv
  <2>1. (Quiet \/ Built \/ Posts \/ Marks) /\ [AMNext]_am
    BY <1>2, StepKinds, NextManager, WalletBase DEF ManagerOK
  <2>2. last_addr_index' \in Nat /\ last_addr_index <= last_addr_index'
    BY <1>2, <2>1, ManagerStep DEF ManagerOK, AMTypeOK
  <2>3. CASE posted' = posted
    <3>1. Payments' = Payments
      BY <2>3 DEF Payments
    <3>2. CASE last_addr_index' = last_addr_index
      BY <3>1, <3>2
    <3>3. CASE last_addr_index' > last_addr_index
      BY <2>2, <3>1, <3>3 DEF Abstract!Next, Abstract!Issue, Payments
    <3> QED
      BY <1>2, <2>2, <3>2, <3>3 DEF AMTypeOK
  <2>4. CASE Posts
    <3>1. Payments' = Append(Payments, Sources(tx))
      BY <1>2, <2>4, PaymentsGrow DEF PostedOK
    <3>2. Sources(tx) # {} /\ Sources(tx) \in SUBSET (0 .. last_addr_index)
      <4>1. /\ Sources(tx) = { unspent[k].addr : k \in consumed }
            /\ consumed # {} /\ consumed \subseteq DOMAIN unspent
        BY <1>2, <2>4 DEF Posts, CallOK
      <4>2. \A k \in DOMAIN unspent : unspent[k].addr \in 0 .. last_addr_index
        BY <1>2 DEF TableOK, IsEntry, am_addresses
      <4> QED
        BY <4>1, <4>2
    <3>3. Sources(tx) \intersect Abstract!Used = {}
      BY <1>2, <2>4, SourcesFresh DEF Posts, Abstract!Used
    <3>4. last_addr_index' = last_addr_index
      BY <2>4 DEF Posts, am
    <3> QED
      BY <3>1, <3>2, <3>3, <3>4 DEF Abstract!Next, Abstract!Take, Payments
  <2> QED
    BY <2>1, <2>3, <2>4 DEF Quiet, Built, Marks
<1> QED
  BY <1>1, <1>2, WalletInvariant, PTL DEF Spec, OneTime, Abstract!Spec, Payments

-----------------------------------------------------------------------------
(* Sums of balances.                                                       *)

\* The sum of the balances of a set of outputs, in one color.
LEMMA SumOfBalances ==
  ASSUME NEW S, IsFiniteSet(S), NEW c, \A o \in S : o.bal[c] \in Nat
  PROVE  MapThenSumSet(LAMBDA o : o.bal[c], S) = Total([o \in S |-> o.bal[c]], S)
<1> DEFINE f == [o \in S |-> o.bal[c]]
           Rec(g) == g = [s \in SUBSET S |->
                            IF s = {} THEN 0
                            ELSE (CHOOSE x \in s : TRUE).bal[c] + g[s \ {CHOOSE x \in s : TRUE}]]
           it == CHOOSE g : Rec(g)
<1>1. \A o \in S : f[o] = o.bal[c] /\ f[o] \in Nat
  OBVIOUS
<1>2. PICK m : IsSum(m, f, S)
  BY <1>1, SumExists
<1>3. Rec(m)
  <2>1. ASSUME NEW s \in SUBSET S, s # {}
        PROVE  m[s] = (CHOOSE x \in s : TRUE).bal[c] + m[s \ {CHOOSE x \in s : TRUE}]
    <3> DEFINE x == CHOOSE y \in s : TRUE
    <3>1. x \in s
      BY <2>1
    <3> HIDE DEF x, f
    <3>2. m[s] = m[s \ {x}] + f[x] /\ m[s \ {x}] \in Nat
      BY <1>2, <3>1 DEF IsSum
    <3>3. f[x] = x.bal[c] /\ f[x] \in Nat
      BY <1>1, <3>1
    <3>4. m[s] = x.bal[c] + m[s \ {x}]
      BY <3>2, <3>3
    <3> QED
      BY <3>4 DEF x
  <2> HIDE DEF f
  <2>2. m = [s \in SUBSET S |-> m[s]] /\ m[{}] = 0
    BY <1>2 DEF IsSum
  <2> QED
    BY <2>1, <2>2
<1>4. Rec(it)
  <2> HIDE DEF Rec
  <2> QED
    BY <1>3
<1>5. \A s \in SUBSET S :
        it[s] = IF s = {} THEN 0
                ELSE f[CHOOSE x \in s : TRUE] + it[s \ {CHOOSE x \in s : TRUE}]
  <2>1. ASSUME NEW s \in SUBSET S, s # {}
        PROVE  f[CHOOSE x \in s : TRUE] = (CHOOSE x \in s : TRUE).bal[c]
    <3>1. (CHOOSE x \in s : TRUE) \in S
      BY <2>1
    <3> QED
      BY <1>1, <3>1
  <2> HIDE DEF f, it
  <2>2. ASSUME NEW s \in SUBSET S
        PROVE  it[s] = IF s = {} THEN 0
                       ELSE (CHOOSE x \in s : TRUE).bal[c] + it[s \ {CHOOSE x \in s : TRUE}]
    BY <1>4
  <2> HIDE DEF Rec
  <2>3. ASSUME NEW s \in SUBSET S
        PROVE  it[s] = IF s = {} THEN 0
                       ELSE f[CHOOSE x \in s : TRUE] + it[s \ {CHOOSE x \in s : TRUE}]
    BY <2>1, <2>2
  <2> QED
    BY <2>3
<1> HIDE DEF f
<1>6. it[S] = Total(f, S)
  <2> HIDE DEF it
  <2> QED
    BY <1>1, <1>5, TotalByRecursion
<1>7. MapThenSumSet(LAMBDA o : o.bal[c], S) = it[S]
  BY DEF MapThenSumSet, MapThenFoldSet
<1> QED
  BY <1>6, <1>7 DEF f

\* The sum of the balances of entries, in one color.
LEMMA SumOfEntries ==
  ASSUME NEW table, NEW picked, IsFiniteSet(picked), NEW color,
         \A k \in picked : output_ids_balance_with_color(table[k].ids, color) \in Nat
  PROVE  unspent_outputs_balance_with_color(table, picked, color)
           = Total([k \in picked |-> output_ids_balance_with_color(table[k].ids, color)], picked)
<1> DEFINE v(k) == output_ids_balance_with_color(table[k].ids, color)
           f == [k \in picked |-> v(k)]
           Rec(g) == g = [s \in SUBSET picked |->
                            IF s = {} THEN 0
                            ELSE v(CHOOSE x \in s : TRUE) + g[s \ {CHOOSE x \in s : TRUE}]]
           it == CHOOSE g : Rec(g)
<1>1. \A k \in picked : f[k] = v(k) /\ f[k] \in Nat
  OBVIOUS
<1>2. PICK m : IsSum(m, f, picked)
  BY <1>1, SumExists
<1> HIDE DEF v
<1>3. Rec(m)
  <2>1. ASSUME NEW s \in SUBSET picked, s # {}
        PROVE  m[s] = v(CHOOSE x \in s : TRUE) + m[s \ {CHOOSE x \in s : TRUE}]
    <3> DEFINE x == CHOOSE y \in s : TRUE
    <3>1. x \in s
      BY <2>1
    <3> HIDE DEF x, f
    <3>2. m[s] = m[s \ {x}] + f[x] /\ m[s \ {x}] \in Nat
      BY <1>2, <3>1 DEF IsSum
    <3>3. f[x] = v(x) /\ f[x] \in Nat
      BY <1>1, <3>1
    <3>4. m[s] = v(x) + m[s \ {x}]
      BY <3>2, <3>3
    <3> QED
      BY <3>4 DEF x
  <2> HIDE DEF f
  <2>2. m = [s \in SUBSET picked |-> m[s]] /\ m[{}] = 0
    BY <1>2 DEF IsSum
  <2> QED
    BY <2>1, <2>2
<1>4. Rec(it)
  <2> HIDE DEF Rec
  <2> QED
    BY <1>3
<1>5. \A s \in SUBSET picked :
        it[s] = IF s = {} THEN 0
                ELSE f[CHOOSE x \in s : TRUE] + it[s \ {CHOOSE x \in s : TRUE}]
  <2>1. ASSUME NEW s \in SUBSET picked, s # {}
        PROVE  f[CHOOSE x \in s : TRUE] = v(CHOOSE x \in s : TRUE)
    <3>1. (CHOOSE x \in s : TRUE) \in picked
      BY <2>1
    <3> QED
      BY <1>1, <3>1
  <2> HIDE DEF f, it
  <2>2. ASSUME NEW s \in SUBSET picked
        PROVE  it[s] = IF s = {} THEN 0
                       ELSE v(CHOOSE x \in s : TRUE) + it[s \ {CHOOSE x \in s : TRUE}]
    BY <1>4
  <2> HIDE DEF Rec
  <2>3. ASSUME NEW s \in SUBSET picked
        PROVE  it[s] = IF s = {} THEN 0
                       ELSE f[CHOOSE x \in s : TRUE] + it[s \ {CHOOSE x \in s : TRUE}]
    BY <2>1, <2>2
  <2> QED
    BY <2>3
<1> HIDE DEF f
<1>6. it[picked] = Total(f, picked)
  <2> HIDE DEF it
  <2> QED
    BY <1>1, <1>5, TotalByRecursion
<1>7. unspent_outputs_balance_with_color(table, picked, color) = it[picked]
  BY DEF unspent_outputs_balance_with_color, MapThenSumSet, MapThenFoldSet, v
<1> QED
  BY <1>6, <1>7 DEF f, v

\* The balance of a set of outputs.
Worth(S, c) == Total([o \in S |-> o.bal[c]], S)

\* The sum of the balances of outputs is what they are worth.
LEMMA WorthIs ==
  ASSUME NEW S, IsFiniteSet(S), NEW c, \A o \in S : o.bal[c] \in Nat
  PROVE  MapThenSumSet(LAMBDA o : o.bal[c], S) = Worth(S, c) /\ Worth(S, c) \in Nat
<1>1. MapThenSumSet(LAMBDA o : o.bal[c], S) = Worth(S, c)
  BY SumOfBalances DEF Worth
<1>2. Worth(S, c) \in Nat
  <2> DEFINE f == [o \in S |-> o.bal[c]]
  <2>1. \A o \in S : f[o] \in Nat /\ f[o] = f[o]
    OBVIOUS
  <2>2. Total(f, S) \in Nat
    <3> HIDE DEF f
    <3> QED
      BY <2>1, TotalSame
  <2> QED
    BY <2>2 DEF Worth
<1> QED
  BY <1>1, <1>2

\* No outputs are worth nothing.
LEMMA WorthEmpty == ASSUME NEW c PROVE Worth({}, c) = 0
BY TotalEmpty DEF Worth

\* An output more is worth its balance more.
LEMMA WorthAdd ==
  ASSUME NEW S, IsFiniteSet(S), NEW p, p \notin S,
         NEW c, \A o \in S \union {p} : o.bal[c] \in Nat
  PROVE  Worth(S \union {p}, c) = Worth(S, c) + p.bal[c]
<1> DEFINE A == S \union {p}
           f == [o \in A |-> o.bal[c]]
           g == [o \in S |-> o.bal[c]]
<1>1. \A o \in A : f[o] \in Nat /\ f[o] = o.bal[c]
  OBVIOUS
<1>2. \A o \in S : f[o] \in Nat /\ f[o] = g[o]
  OBVIOUS
<1> HIDE DEF f, g
<1>3. Total(f, S \union {p}) = Total(f, S) + f[p]
  BY <1>1, TotalAdd
<1>4. Total(f, S) = Total(g, S)
  BY <1>2, TotalSame
<1>5. f[p] = p.bal[c]
  BY <1>1
<1> QED
  BY <1>3, <1>4, <1>5 DEF Worth, f, g

\* Outputs without the color are worth nothing in it.
LEMMA WorthNothing ==
  ASSUME NEW S, IsFiniteSet(S), NEW c, \A o \in S : o.bal[c] = 0
  PROVE  Worth(S, c) = 0
<1> DEFINE Good == { T \in SUBSET S : Worth(T, c) = 0 }
<1>1. {} \in Good
  BY WorthEmpty
<1>2. ASSUME NEW T \in SUBSET S, NEW x \in S \ T, T \in Good
      PROVE  T \union {x} \in Good
  <2>1. IsFiniteSet(T) /\ \A o \in T \union {x} : o.bal[c] \in Nat
    BY FS_Subset
  <2>2. Worth(T \union {x}, c) = Worth(T, c) + x.bal[c]
    BY <2>1, WorthAdd
  <2>3. Worth(T, c) = 0 /\ x.bal[c] = 0
    BY <1>2
  <2> QED
    BY <2>2, <2>3
<1>3. S \in Good
  <2> HIDE DEF Good
  <2> QED
    BY <1>1, <1>2, SetInduction
<1> QED
  BY <1>3

\* The confirmed outputs of an entry have a natural balance.
LEMMA IdsBalance ==
  ASSUME NEW ids \in SUBSET Output, IsFiniteSet(ids), NEW color \in Colors
  PROVE  /\ output_ids_balance_with_color(ids, color) \in Nat
         /\ (\A o \in ids : o.conf) => output_ids_balance_with_color(ids, color) = Worth(ids, color)
<1> DEFINE conf == { o \in ids : o.conf }
<1>1. IsFiniteSet(conf)
  BY FS_Subset
<1>2. \A o \in conf : o.bal[color] \in Nat
  BY DEF Output, Balance
<1>3. (\A o \in ids : o.conf) => conf = ids
  OBVIOUS
<1>4. output_ids_balance_with_color(ids, color) = MapThenSumSet(LAMBDA o : o.bal[color], conf)
  BY DEF output_ids_balance_with_color
<1> HIDE DEF conf
<1>5. /\ MapThenSumSet(LAMBDA o : o.bal[color], conf) = Worth(conf, color)
      /\ Worth(conf, color) \in Nat
  BY <1>1, <1>2, WorthIs
<1>6. output_ids_balance_with_color(ids, color) = Worth(conf, color)
  BY <1>4, <1>5
<1> QED
  BY <1>3, <1>5, <1>6

\* The entries of a finite choice have a natural balance, which is the sum of
\* those of the entries.
LEMMA EntriesBalance ==
  ASSUME NEW table, NEW picked, IsFiniteSet(picked), NEW color \in Colors,
         \A k \in picked : table[k].ids \in SUBSET Output,
         \A k \in picked : IsFiniteSet(table[k].ids)
  PROVE  /\ unspent_outputs_balance_with_color(table, picked, color) \in Nat
         /\ unspent_outputs_balance_with_color(table, picked, color)
              = Total([k \in picked |-> output_ids_balance_with_color(table[k].ids, color)],
                      picked)
<1> DEFINE f == [k \in picked |-> output_ids_balance_with_color(table[k].ids, color)]
<1>1. \A k \in picked : f[k] \in Nat /\ f[k] = f[k]
  BY IdsBalance
<1>2. unspent_outputs_balance_with_color(table, picked, color) = Total(f, picked)
  BY IdsBalance, SumOfEntries
<1>3. Total(f, picked) \in Nat
  <2> HIDE DEF f
  <2> QED
    BY <1>1, TotalSame
<1> QED
  BY <1>2, <1>3

\* Entries of confirmed outputs, each at its own address, are worth what their
\* outputs are.
LEMMA EntriesWorth ==
  ASSUME NEW table, NEW picked, IsFiniteSet(picked), NEW color \in Colors,
         \A k \in picked : table[k].ids \in SUBSET Output,
         \A k \in picked : IsFiniteSet(table[k].ids),
         \A k \in picked : \A o \in table[k].ids : o.conf,
         \A j, k \in picked : j # k => table[j].ids \intersect table[k].ids = {}
  PROVE  unspent_outputs_balance_with_color(table, picked, color)
           = Worth(UNION { table[k].ids : k \in picked }, color)
<1> DEFINE f == [k \in picked |-> output_ids_balance_with_color(table[k].ids, color)]
<1>1. unspent_outputs_balance_with_color(table, picked, color) = Total(f, picked)
  BY EntriesBalance
<1>2. Total(f, picked) = Worth(UNION { table[k].ids : k \in picked }, color)
  <2> DEFINE I == [k \in picked |-> table[k].ids]
             All == UNION { I[k] : k \in picked }
             b == [o \in All |-> o.bal[color]]
  <2>1. \A k \in picked : IsFiniteSet(I[k]) /\ I[k] \in SUBSET Output /\ I[k] = table[k].ids
    OBVIOUS
  <2>2. All = UNION { table[k].ids : k \in picked } /\ All \in SUBSET Output
    BY <2>1
  <2>3. \A k \in picked : \A o \in I[k] : b[o] = o.bal[color] /\ b[o] \in Nat
    BY <2>1 DEF Output, Balance
  <2>4. ASSUME NEW k \in picked
        PROVE  f[k] = Total(b, I[k])
    <3> DEFINE g == [o \in I[k] |-> o.bal[color]]
    <3>1. f[k] = Worth(I[k], color)
      BY <2>1, IdsBalance
    <3>2. \A o \in I[k] : b[o] \in Nat /\ b[o] = g[o]
      BY <2>3
    <3>3. Total(b, I[k]) = Total(g, I[k])
      <4> HIDE DEF b, g, I
      <4> QED
        BY <2>1, <3>2, TotalSame
    <3> HIDE DEF f, b, I
    <3> QED
      BY <3>1, <3>3 DEF Worth
  <2>5. \A j, k \in picked : j # k => I[j] \intersect I[k] = {}
    OBVIOUS
  <2>6. Total(f, picked) = Total(b, UNION { I[k] : k \in picked })
    <3> HIDE DEF f, b, I
    <3> QED
      BY <2>1, <2>3, <2>4, <2>5, TotalFamily
  <2>7. Total(b, All) = Worth(All, color)
    BY DEF Worth
  <2> HIDE DEF f, b, I
  <2> QED
    BY <2>2, <2>6, <2>7
<1> QED
  BY <1>1, <1>2

-----------------------------------------------------------------------------
(* The transaction that a payment builds, and the node that gets it.       *)

\* An output is what its fields are.
LEMMA OutputFields ==
  ASSUME NEW o \in Output
  PROVE  o = [addr |-> o.addr, tx |-> o.tx, bal |-> o.bal, conf |-> o.conf]
<1> DEFINE B == Balance
<1>1. o \in [addr : Nat, tx : Nat, bal : B, conf : BOOLEAN]
  BY DEF Output
<1> HIDE DEF B
<1> QED
  BY <1>1

\* Inputs built from entries: one for each output.
LEMMA InputsOf ==
  ASSUME NEW table, NEW picked, NEW in
  PROVE  in \in wallet_build_inputs(table, picked) <=>
           \E k \in picked : \E o \in table[k].ids : in = [addr |-> o.addr, tx |-> o.tx]
BY DEF wallet_build_inputs

\* What a transaction of confirmed outputs takes is there, and it is what the
\* entries it consumes show.
LEMMA SpendsConsumed ==
  ASSUME WalletInv, NeverOverstates, FundsInv, pc = "post",
         \A k \in consumed : \A o \in unspent[k].ids : o.conf
  PROVE  /\ InputsExist(tx)
         /\ Spends(tx) = UNION { unspent[k].ids : k \in consumed }
<1>1. ASSUME NEW k \in consumed, NEW o \in unspent[k].ids
      PROVE  o \in ledger
  <2>1. k \in DOMAIN unspent /\ ~unspent[k].spent
    BY DEF WalletInv, CallOK
  <2>2. Backing(o)
    BY <2>1 DEF NeverOverstates, Live
  <2>3. PICK l \in ledger : Backs(l, o)
    BY <2>2 DEF Backing
  <2>4. unspent[k] \in Entry /\ ledger \subseteq Output
    BY <2>1 DEF FundsInv, TypeOK
  <2>5. o \in Output /\ l \in Output /\ o.conf
    BY <2>4 DEF Entry
  <2>6. l.addr = o.addr /\ l.tx = o.tx /\ l.bal = o.bal /\ l.conf = o.conf
    BY <2>3, <2>5 DEF Backs, Output
  <2>7. l = o
    <3>1. /\ l = [addr |-> l.addr, tx |-> l.tx, bal |-> l.bal, conf |-> l.conf]
          /\ o = [addr |-> o.addr, tx |-> o.tx, bal |-> o.bal, conf |-> o.conf]
      BY <2>5, OutputFields
    <3> QED
      BY <2>6, <3>1
  <2> QED
    BY <2>7
<1>2. tx.inputs = wallet_build_inputs(unspent, consumed)
  BY DEF FundsInv, BuiltOK
<1>3. InputsExist(tx)
  <2> SUFFICES ASSUME NEW in \in tx.inputs
               PROVE  \E o \in ledger : in.addr = o.addr /\ in.tx = o.tx
    BY DEF InputsExist
  <2>1. PICK k \in consumed : \E o \in unspent[k].ids : in = [addr |-> o.addr, tx |-> o.tx]
    BY <1>2, InputsOf
  <2>2. PICK o \in unspent[k].ids : in = [addr |-> o.addr, tx |-> o.tx]
    BY <2>1
  <2> QED
    BY <1>1, <2>2
<1>4. ASSUME NEW k \in consumed, NEW o \in unspent[k].ids
      PROVE  o \in Spends(tx)
  <2>1. [addr |-> o.addr, tx |-> o.tx] \in tx.inputs
    BY <1>2, InputsOf
  <2> QED
    BY <1>1, <2>1 DEF Spends
<1>5. ASSUME NEW l \in Spends(tx)
      PROVE  \E k \in consumed : l \in unspent[k].ids
  <2>1. l \in ledger
    BY DEF Spends
  <2>2. PICK in \in tx.inputs : in.addr = l.addr /\ in.tx = l.tx
    BY DEF Spends
  <2>3. PICK k \in consumed : \E o \in unspent[k].ids : in = [addr |-> o.addr, tx |-> o.tx]
    BY <1>2, InputsOf
  <2>4. PICK o \in unspent[k].ids : in = [addr |-> o.addr, tx |-> o.tx]
    BY <2>3
  <2>5. o \in ledger /\ o.addr = l.addr /\ o.tx = l.tx
    BY <1>1, <2>2, <2>4
  <2>6. o = l
    BY <2>1, <2>5 DEF FundsInv, LedgerUnique
  <2> QED
    BY <2>4, <2>6
<1> QED
  BY <1>3, <1>4, <1>5

\* Amounts are naturals, and not 0.
LEMMA AmountsPositive == \A a \in Amounts : a \in Nat /\ a > 0
<1>1. Amounts \subseteq Nat \ {0}
  BY WalletAssumption, Zenon
<1> QED
  BY <1>1

\* What a built transaction pays out: in its own color all it takes, or the
\* amount if there is no change; in the others nothing.
LEMMA OutputsWorth ==
  ASSUME NEW dest \in [amount : Amounts, receiver : Receivers, color : Colors],
         NEW change, NEW balance \in Nat, balance >= dest.amount, NEW c \in Colors
  PROVE  LET outputs == wallet_build_outputs(dest, change, balance)
         IN  /\ IsFiniteSet(outputs)
             /\ \A o \in outputs : o.bal \in Balance
             /\ \E o \in outputs : o.bal[dest.color] > 0
             /\ \A o, p \in outputs : o.addr = p.addr => o = p
             /\ \A o \in outputs : o.addr \in {dest.receiver, change}
             /\ Worth(outputs, c) = IF c # dest.color THEN 0
                                    ELSE IF change = NoAddress THEN dest.amount ELSE balance
<1> DEFINE coin(v) == OneColor(dest.color, v)
           pay  == [addr |-> dest.receiver, bal |-> coin(dest.amount)]
           all  == [addr |-> change, bal |-> coin(balance)]
           rest == [addr |-> change, bal |-> coin(balance - dest.amount)]
           value(v) == IF c = dest.color THEN v ELSE 0
<1>1. dest.amount \in Nat /\ dest.amount > 0 /\ balance - dest.amount \in Nat /\ dest.color \in Colors
  <2>1. dest.amount \in Amounts /\ dest.color \in Colors
    OBVIOUS
  <2>2. dest.amount \in Nat /\ dest.amount > 0
    BY <2>1, AmountsPositive
  <2> QED
    BY <2>1, <2>2
<1>2. ASSUME NEW v \in Nat
      PROVE  coin(v) \in Balance /\ coin(v)[c] = value(v) /\ coin(v)[dest.color] = v
             /\ value(v) \in Nat
  BY <1>1 DEF OneColor, Balance
<1>3. /\ pay.addr = dest.receiver /\ pay.bal = coin(dest.amount)
      /\ all.addr = change /\ all.bal = coin(balance)
      /\ rest.addr = change /\ rest.bal = coin(balance - dest.amount)
  OBVIOUS
<1> HIDE DEF coin, pay, all, rest
<1>4. ASSUME NEW p, p.bal[c] \in Nat
      PROVE  Worth({p}, c) = p.bal[c] /\ IsFiniteSet({p})
  <2>1. Worth({} \union {p}, c) = Worth({}, c) + p.bal[c]
    <3>1. IsFiniteSet({}) /\ p \notin {} /\ \A o \in {} \union {p} : o.bal[c] \in Nat
      BY <1>4, FS_EmptySet
    <3> QED
      BY <3>1, WorthAdd
  <2>2. {} \union {p} = {p} /\ Worth({}, c) = 0
    BY WorthEmpty
  <2>3. IsFiniteSet({p})
    BY FS_Singleton
  <2> QED
    BY <1>4, <2>1, <2>2, <2>3
<1>5. CASE change = NoAddress
  <2>1. wallet_build_outputs(dest, change, balance) = {pay}
    BY <1>5 DEF wallet_build_outputs, pay, coin
  <2>2. pay.bal[c] = value(dest.amount) /\ pay.bal[c] \in Nat /\ pay.bal \in Balance
        /\ pay.bal[dest.color] > 0
    BY <1>1, <1>2, <1>3
  <2>3. Worth({pay}, c) = value(dest.amount) /\ IsFiniteSet({pay})
    BY <1>4, <2>2
  <2> QED
    BY <1>3, <1>5, <2>1, <2>2, <2>3
<1>6. CASE change # NoAddress /\ change = dest.receiver
  <2>1. wallet_build_outputs(dest, change, balance) = {all}
    BY <1>6 DEF wallet_build_outputs, all, coin
  <2>2. all.bal[c] = value(balance) /\ all.bal[c] \in Nat /\ all.bal \in Balance
        /\ all.bal[dest.color] > 0
    BY <1>1, <1>2, <1>3
  <2>3. Worth({all}, c) = value(balance) /\ IsFiniteSet({all})
    BY <1>4, <2>2
  <2> QED
    BY <1>3, <1>6, <2>1, <2>2, <2>3
<1>7. CASE change # NoAddress /\ change # dest.receiver
  <2>1. wallet_build_outputs(dest, change, balance) = {rest} \union {pay}
    BY <1>7 DEF wallet_build_outputs, rest, pay, coin
  <2>2. /\ pay.bal[c] = value(dest.amount) /\ pay.bal[c] \in Nat /\ pay.bal \in Balance
        /\ pay.bal[dest.color] > 0
        /\ rest.bal[c] = value(balance - dest.amount) /\ rest.bal[c] \in Nat
        /\ rest.bal \in Balance
    BY <1>1, <1>2, <1>3
  <2>3. pay # rest /\ pay.addr # rest.addr
    BY <1>3, <1>7
  <2>4. Worth({rest}, c) = rest.bal[c] /\ IsFiniteSet({rest})
    BY <1>4, <2>2
  <2>5. Worth({rest} \union {pay}, c) = Worth({rest}, c) + pay.bal[c]
    <3>1. pay \notin {rest} /\ \A o \in {rest} \union {pay} : o.bal[c] \in Nat
      BY <2>2, <2>3
    <3> QED
      BY <2>4, <3>1, WorthAdd
  <2>6. value(balance - dest.amount) + value(dest.amount) = value(balance)
    BY <1>1
  <2>7. IsFiniteSet({rest} \union {pay})
    BY <2>4, FS_AddElement
  <2>8. Worth({rest} \union {pay}, c) = value(balance)
    BY <2>2, <2>4, <2>5, <2>6
  <2> QED
    BY <1>3, <1>7, <2>1, <2>2, <2>3, <2>7, <2>8
<1> QED
  BY <1>5, <1>6, <1>7

\* A sound transaction balances.
LEMMA SoundConserves ==
  ASSUME WalletInv, NeverOverstates, FundsInv, pc = "post", SoundTx
  PROVE  Conserves(tx)
<1> DEFINE All == UNION { unspent[k].ids : k \in consumed }
<1>1. PICK dest \in [amount : Amounts, receiver : Receivers, color : Colors] :
        LET balance == unspent_outputs_balance_with_color(unspent, consumed, dest.color)
        IN  /\ tx.outputs = wallet_build_outputs(dest, tx.change, balance)
            /\ IF tx.change = NoAddress
               THEN balance >= dest.amount /\ (remainder = NoAddress => balance = dest.amount)
               ELSE balance > dest.amount
  BY DEF FundsInv, BuiltOK
<1> DEFINE balance == unspent_outputs_balance_with_color(unspent, consumed, dest.color)
<1>2. dest.color \in Colors /\ dest.amount \in Nat
  BY WalletAssumption
<1>3. Spends(tx) = All
  BY SpendsConsumed DEF SoundTx
<1>4. consumed \subseteq DOMAIN unspent /\ IsFiniteSet(consumed)
  <2>1. consumed \subseteq DOMAIN unspent /\ DOMAIN unspent = 1 .. Len(unspent) /\ Len(unspent) \in Nat
    BY DEF FundsInv, TypeOK
  <2>2. IsFiniteSet(1 .. Len(unspent))
    BY <2>1, FS_Interval
  <2> QED
    BY <2>1, <2>2, FS_Subset
<1>5. /\ \A k \in consumed : unspent[k].ids \in SUBSET Output
      /\ \A k \in consumed : IsFiniteSet(unspent[k].ids)
  <2> SUFFICES ASSUME NEW k \in consumed
               PROVE  unspent[k].ids \in SUBSET Output /\ IsFiniteSet(unspent[k].ids)
    OBVIOUS
  <2>1. k \in DOMAIN unspent
    BY <1>4
  <2>2. unspent[k] \in Entry
    BY <2>1 DEF FundsInv, TypeOK
  <2>3. IsFiniteSet(unspent[k].ids)
    BY <2>1 DEF FundsInv, Settled
  <2> QED
    BY <2>2, <2>3 DEF Entry
<1>6. \A k \in consumed : \A o \in unspent[k].ids : o.conf
  BY DEF SoundTx
<1>7. \A j, k \in consumed : j # k => unspent[j].ids \intersect unspent[k].ids = {}
  BY <1>4 DEF WalletInv, TableOK, IsEntry
<1>8. balance \in Nat /\ balance = Worth(All, dest.color)
  <2> DEFINE color == dest.color
  <2>1. color \in Colors
    BY <1>2
  <2> HIDE DEF color
  <2>2. unspent_outputs_balance_with_color(unspent, consumed, color) \in Nat
    BY <1>4, <1>5, <2>1, EntriesBalance
  <2>3. unspent_outputs_balance_with_color(unspent, consumed, color)
          = Worth(UNION { unspent[k].ids : k \in consumed }, color)
    BY <1>4, <1>5, <1>6, <1>7, <2>1, EntriesWorth
  <2> QED
    BY <2>2, <2>3 DEF color
<1>9. All \in SUBSET Output /\ IsFiniteSet(All)
  <2>1. All \in SUBSET ledger
    BY <1>3 DEF Spends
  <2> QED
    BY <2>1, FS_Subset DEF FundsInv, TypeOK, LedgerUnique
<1>10. /\ tx.outputs = wallet_build_outputs(dest, tx.change, balance)
       /\ balance >= dest.amount
       /\ tx.change = NoAddress => balance = dest.amount
  <2>1. remainder = tx.change
    BY DEF SoundTx
  <2> HIDE DEF All
  <2> QED
    BY <1>1, <1>2, <1>8, <2>1
<1> HIDE DEF balance, All
<1>11. PICK main \in Colors :
         \A o \in All \union tx.outputs : o.bal = OneColor(main, o.bal[main])
  BY <1>3 DEF SoundTx
<1>12. main = dest.color
  <2>1. PICK o \in tx.outputs : o.bal[dest.color] > 0
    BY <1>2, <1>8, <1>10, OutputsWorth
  <2>2. o.bal = OneColor(main, o.bal[main])
    BY <1>11
  <2> QED
    BY <1>2, <2>1, <2>2 DEF OneColor
<1> SUFFICES ASSUME NEW c \in Colors
             PROVE  MapThenSumSet(LAMBDA o : o.bal[c], Spends(tx))
                      = MapThenSumSet(LAMBDA o : o.bal[c], tx.outputs)
  BY DEF Conserves
<1>13. /\ IsFiniteSet(tx.outputs) /\ \A o \in tx.outputs : o.bal[c] \in Nat
       /\ Worth(tx.outputs, c) = IF c # dest.color THEN 0 ELSE balance
  BY <1>8, <1>10, OutputsWorth DEF Balance
<1>14. MapThenSumSet(LAMBDA o : o.bal[c], tx.outputs) = Worth(tx.outputs, c)
  BY <1>13, WorthIs
<1>15. \A o \in All : o.bal[c] \in Nat
  BY <1>9 DEF Output, Balance
<1>16. MapThenSumSet(LAMBDA o : o.bal[c], All) = Worth(All, c)
  BY <1>9, <1>15, WorthIs
<1>17. c # dest.color => Worth(All, c) = 0
  <2>1. ASSUME c # dest.color, NEW o \in All PROVE o.bal[c] = 0
    <3>1. o.bal = OneColor(main, o.bal[main])
      BY <1>11, <2>1
    <3>2. OneColor(main, o.bal[main])[c] = 0
      BY <1>12, <2>1 DEF OneColor
    <3> QED
      BY <3>1, <3>2, Zenon
  <2> QED
    BY <1>9, <2>1, WorthNothing
<1>18. Worth(All, c) = Worth(tx.outputs, c)
  BY <1>8, <1>13, <1>17
<1> QED
  BY <1>3, <1>14, <1>16, <1>18

\* A sound transaction takes outputs of the ledger, is signed, and conserves.
LEMMA SoundIsAccepted ==
  ASSUME WalletInv, NeverOverstates, FundsInv
  PROVE  SoundTxAccepted
<1> SUFFICES ASSUME pc = "post", SoundTx PROVE NodeAccepts(tx)
  BY DEF SoundTxAccepted
<1>1. InputsExist(tx)
  BY SpendsConsumed DEF SoundTx
<1>2. SignedByOwner(tx)
  BY DEF SoundTx
<1> QED
  BY <1>1, <1>2, SoundConserves DEF NodeAccepts

-----------------------------------------------------------------------------
(* The invariant of the funds, by the parts of the state.                  *)

\* The node: finitely many outputs, one per address and transaction.
LedgerPart ==
  /\ ledger \subseteq Output /\ txs \in 0 .. MaxTx + 1 /\ LedgerUnique
  /\ pc = "post" => txs <= MaxTx

\* The table has entries, each with finitely many outputs.
TablePart ==
  /\ unspent \in Seq(Entry)
  /\ \A k \in DOMAIN unspent : IsFiniteSet(unspent[k].ids)

\* The call: what it consumes is in the table, what it posts is as it was built.
CallPart ==
  /\ pc \in {"idle", "post", "mark", "crashed"}
  /\ consumed \subseteq DOMAIN unspent
  /\ pc \in {"idle", "crashed"} => consumed = {}
  /\ remainder \in Nat \union {NoAddress}
  /\ pc \in {"post", "mark"} =>
       /\ tx.inputs \subseteq [addr : Nat, tx : Nat]
       /\ tx.outputs \subseteq Shape
       /\ tx.signatures \subseteq [addr : Nat, key : Nat]
       /\ tx.change \in Nat \union {NoAddress}
  /\ BuiltOK

\* The invariant is its parts.
LEMMA FundsParts == FundsInv <=> AMTypeOK /\ LedgerPart /\ TablePart /\ CallPart
BY DEF FundsInv, TypeOK, Settled, LedgerPart, TablePart, CallPart

\* A ledger to which the outputs of one transaction more are added.
LEMMA LedgerGrows ==
  ASSUME NEW L \in SUBSET Output, IsFiniteSet(L), NEW n \in Nat,
         \A o \in L : o.tx <= n,
         \A o, p \in L : o.addr = p.addr /\ o.tx = p.tx => o = p,
         NEW N \in SUBSET Output, IsFiniteSet(N),
         \A o \in N : o.tx = n + 1,
         \A o, p \in N : o.addr = p.addr => o = p
  PROVE  /\ L \union N \in SUBSET Output /\ IsFiniteSet(L \union N)
         /\ \A o \in L \union N : o.tx <= n + 1
         /\ \A o, p \in L \union N : o.addr = p.addr /\ o.tx = p.tx => o = p
<1>1. IsFiniteSet(L \union N)
  BY FS_Union
<1>2. \A o \in L : o.tx \in Nat
  BY DEF Output
<1>3. \A o \in L \union N : o.tx <= n + 1
  BY <1>2
<1>4. \A o \in L, p \in N : o.tx # p.tx
  BY <1>2
<1> QED
  BY <1>1, <1>3, <1>4

\* A payment that arrives is an output of its own transaction.
LEMMA ArrivalLedger ==
  ASSUME LedgerPart, NEW a \in Nat, NEW bal \in Incoming, Arrives(a, bal)
  PROVE  LedgerPart'
<1> DEFINE new == [addr |-> a, tx |-> txs + 1, bal |-> bal, conf |-> FALSE]
<1>1. txs \in Nat /\ MaxTx \in Nat /\ txs < MaxTx /\ txs' = txs + 1
  BY WalletAssumption DEF LedgerPart, Arrives
<1>2. bal \in Balance
  BY WalletAssumption DEF Balance
<1>3. new \in Output /\ new.tx = txs + 1
  BY <1>1, <1>2 DEF Output
<1>4. ledger' = ledger \union {new}
  BY DEF Arrives
<1> HIDE DEF new
<1>5. IsFiniteSet({new}) /\ {new} \in SUBSET Output
  BY <1>3, FS_Singleton
<1>6. /\ ledger' \in SUBSET Output /\ IsFiniteSet(ledger')
      /\ \A o \in ledger' : o.tx <= txs + 1
      /\ \A o, p \in ledger' : o.addr = p.addr /\ o.tx = p.tx => o = p
  <2>1. /\ ledger \in SUBSET Output /\ IsFiniteSet(ledger)
        /\ \A o \in ledger : o.tx <= txs
        /\ \A o, p \in ledger : o.addr = p.addr /\ o.tx = p.tx => o = p
    BY DEF LedgerPart, LedgerUnique
  <2>2. /\ \A o \in {new} : o.tx = txs + 1
        /\ \A o, p \in {new} : o.addr = p.addr => o = p
    BY <1>3
  <2> QED
    BY <1>1, <1>4, <1>5, <2>1, <2>2, LedgerGrows
<1> QED
  BY <1>1, <1>6 DEF LedgerPart, LedgerUnique

\* A confirmation keeps address and transaction.
LEMMA ConfirmationLedger ==
  ASSUME LedgerPart, NEW p \in ledger, Confirm(p), pc' = pc
  PROVE  LedgerPart'
<1> DEFINE c == [p EXCEPT !.conf = TRUE]
<1>1. p \in Output
  BY DEF LedgerPart
<1>2. c \in Output /\ c.addr = p.addr /\ c.tx = p.tx
  <2> DEFINE B == Balance
  <2>1. p \in [addr : Nat, tx : Nat, bal : B, conf : BOOLEAN]
    BY <1>1 DEF Output
  <2> HIDE DEF B
  <2>2. c \in [addr : Nat, tx : Nat, bal : B, conf : BOOLEAN]
    BY <2>1
  <2>3. c.addr = p.addr /\ c.tx = p.tx
    BY <2>1
  <2> QED
    BY <2>2, <2>3 DEF Output, B
<1>3. ledger' = (ledger \ {p}) \union {c} /\ txs' = txs
  BY DEF Confirm
<1> HIDE DEF c
<1>4. IsFiniteSet(ledger')
  <2>1. IsFiniteSet(ledger \ {p})
    BY FS_Subset DEF LedgerPart, LedgerUnique
  <2> QED
    BY <1>3, <2>1, FS_AddElement
<1>5. ledger' \in SUBSET Output
  BY <1>2, <1>3 DEF LedgerPart
<1>6. \A o \in ledger' : o.tx <= txs
  BY <1>2, <1>3 DEF LedgerPart, LedgerUnique
<1>7. \A o, q \in ledger' : o.addr = q.addr /\ o.tx = q.tx => o = q
  BY <1>2, <1>3 DEF LedgerPart, LedgerUnique
<1> QED
  BY <1>3, <1>4, <1>5, <1>6, <1>7 DEF LedgerPart, LedgerUnique

\* Picked entries are finitely many, with finitely many outputs each.
LEMMA ConsumedFinite ==
  ASSUME TablePart, NEW picked \in SUBSET DOMAIN unspent
  PROVE  /\ IsFiniteSet(picked)
         /\ \A k \in picked : unspent[k].ids \in SUBSET Output
         /\ \A k \in picked : IsFiniteSet(unspent[k].ids)
<1>1. DOMAIN unspent = 1 .. Len(unspent) /\ Len(unspent) \in Nat
  BY DEF TablePart
<1>2. IsFiniteSet(1 .. Len(unspent))
  BY <1>1, FS_Interval
<1>3. IsFiniteSet(picked)
  BY <1>1, <1>2, FS_Subset
<1>4. ASSUME NEW k \in picked PROVE unspent[k].ids \in SUBSET Output
  <2>1. unspent[k] \in Entry
    BY DEF TablePart
  <2> QED
    BY <2>1 DEF Entry
<1> QED
  BY <1>3, <1>4 DEF TablePart

\* The outputs of a built transaction.
LEMMA BuiltOutputs ==
  ASSUME TablePart, CallPart, pc = "post"
  PROVE  /\ IsFiniteSet(tx.outputs) /\ tx.outputs \in SUBSET Shape
         /\ \A o, p \in tx.outputs : o.addr = p.addr => o = p
<1>1. PICK dest \in [amount : Amounts, receiver : Receivers, color : Colors] :
        LET balance == unspent_outputs_balance_with_color(unspent, consumed, dest.color)
        IN  /\ tx.outputs = wallet_build_outputs(dest, tx.change, balance)
            /\ IF tx.change = NoAddress
               THEN balance >= dest.amount /\ (remainder = NoAddress => balance = dest.amount)
               ELSE balance > dest.amount
  BY DEF CallPart, BuiltOK
<1> DEFINE color == dest.color
           balance == unspent_outputs_balance_with_color(unspent, consumed, color)
<1>2. color \in Colors /\ dest.amount \in Nat
  BY AmountsPositive
<1>3. /\ tx.outputs = wallet_build_outputs(dest, tx.change, balance)
      /\ balance >= dest.amount \/ balance > dest.amount
  BY <1>1
<1> HIDE DEF color
<1>4. balance \in Nat
  <2>1. consumed \in SUBSET DOMAIN unspent
    BY DEF CallPart
  <2> QED
    BY <1>2, <2>1, ConsumedFinite, EntriesBalance
<1> HIDE DEF balance
<1>5. balance >= dest.amount
  BY <1>2, <1>3, <1>4
<1>6. /\ IsFiniteSet(wallet_build_outputs(dest, tx.change, balance))
      /\ \A o, p \in wallet_build_outputs(dest, tx.change, balance) : o.addr = p.addr => o = p
  BY <1>2, <1>4, <1>5, OutputsWorth
<1> QED
  BY <1>3, <1>6 DEF CallPart

\* The POST replaces the outputs at the inputs by those of the transaction.
LEMMA PostLedger ==
  ASSUME LedgerPart, TablePart, CallPart,
         NEW delivered, NEW replied, Post(delivered, replied)
  PROVE  LedgerPart'
<1>1. /\ pc = "post" /\ pc' = "mark" /\ txs' = txs + 1
      /\ \/ ledger' = ledger
         \/ ledger' = (ledger \ Spends(tx)) \union Received(tx)
  BY DEF Post
<1>2. txs \in Nat /\ MaxTx \in Nat /\ txs <= MaxTx
  BY <1>1, WalletAssumption DEF LedgerPart
<1>3. txs' \in 0 .. MaxTx + 1
  BY <1>1, <1>2
<1>4. /\ ledger \in SUBSET Output /\ IsFiniteSet(ledger)
      /\ \A o \in ledger : o.tx <= txs
      /\ \A o, p \in ledger : o.addr = p.addr /\ o.tx = p.tx => o = p
  BY DEF LedgerPart, LedgerUnique
<1>5. CASE ledger' = ledger
  <2>1. \A o \in ledger' : o.tx <= txs'
    <3>1. \A o \in ledger : o.tx \in Nat
      BY <1>4 DEF Output
    <3> QED
      BY <1>1, <1>2, <1>4, <1>5, <3>1
  <2> QED
    BY <1>1, <1>3, <1>4, <1>5, <2>1 DEF LedgerPart, LedgerUnique
<1>6. CASE ledger' = (ledger \ Spends(tx)) \union Received(tx)
  <2> DEFINE L == ledger \ Spends(tx)
             P == { p \in tx.outputs : p.addr \in Nat }
             Mine(o) == [addr |-> o.addr, tx |-> txs + 1, bal |-> o.bal, conf |-> FALSE]
             N == Received(tx)
  <2>1. N = { Mine(o) : o \in P }
    BY DEF Received
  <2>2. /\ IsFiniteSet(tx.outputs) /\ tx.outputs \in SUBSET Shape
        /\ \A o, p \in tx.outputs : o.addr = p.addr => o = p
    BY <1>1, BuiltOutputs
  <2>3. IsFiniteSet(P)
    BY <2>2, FS_Subset
  <2>4. \A o \in P : Mine(o).addr = o.addr /\ Mine(o).tx = txs + 1 /\ Mine(o) \in Output
    <3> SUFFICES ASSUME NEW o \in P
                 PROVE  Mine(o).addr = o.addr /\ Mine(o).tx = txs + 1 /\ Mine(o) \in Output
      OBVIOUS
    <3>1. o.addr \in Nat /\ o.bal \in Balance /\ txs + 1 \in Nat
      BY <1>2, <2>2 DEF Shape
    <3> QED
      BY <3>1 DEF Output
  <2>5. IsFiniteSet(N)
    <3> DEFINE f == [o \in P |-> Mine(o)]
    <3>1. f \in Surjection(P, N)
      BY <2>1 DEF Surjection
    <3> HIDE DEF f, P, N
    <3> QED
      BY <2>3, <3>1, FS_Surjection
  <2>6. /\ N \in SUBSET Output
        /\ \A o \in N : o.tx = txs + 1
        /\ \A o, p \in N : o.addr = p.addr => o = p
    <3>1. \A o, p \in P : o.addr = p.addr => o = p
      BY <2>2
    <3> HIDE DEF Mine, P, N
    <3> QED
      BY <2>1, <2>4, <3>1
  <2>7. /\ L \in SUBSET Output /\ IsFiniteSet(L)
        /\ \A o \in L : o.tx <= txs
        /\ \A o, p \in L : o.addr = p.addr /\ o.tx = p.tx => o = p
    BY <1>4, FS_Subset
  <2> HIDE DEF L, N
  <2>8. /\ L \union N \in SUBSET Output /\ IsFiniteSet(L \union N)
        /\ \A o \in L \union N : o.tx <= txs + 1
        /\ \A o, p \in L \union N : o.addr = p.addr /\ o.tx = p.tx => o = p
    BY <1>2, <2>5, <2>6, <2>7, LedgerGrows
  <2>9. ledger' = L \union N
    BY <1>6 DEF L, N
  <2> QED
    BY <1>1, <1>3, <2>8, <2>9 DEF LedgerPart, LedgerUnique
<1> QED
  BY <1>1, <1>5, <1>6

\* A table that evolves shows finitely many outputs at each address.
LEMMA TablePartStep ==
  ASSUME ManagerOK, LedgerPart, TablePart, Evolves(unspent')
  PROVE  TablePart'
<1>1. unspent' \in Seq(Range(unspent'))
  BY DEF Evolves
<1>2. ASSUME NEW k \in DOMAIN unspent'
      PROVE  unspent'[k] \in Entry /\ IsFiniteSet(unspent'[k].ids)
  <2> DEFINE before == IF k \in DOMAIN unspent THEN unspent[k].ids ELSE {}
             e == unspent'[k]
  <2>1. before \in SUBSET Output /\ IsFiniteSet(before)
    <3>1. CASE k \in DOMAIN unspent
      <4>1. unspent[k] \in Entry /\ IsFiniteSet(unspent[k].ids)
        BY <3>1 DEF TablePart
      <4> QED
        BY <3>1, <4>1 DEF Entry
    <3>2. CASE k \notin DOMAIN unspent
      BY <3>2, FS_EmptySet
    <3> QED
      BY <3>1, <3>2
  <2>2. e.ids \subseteq ledger \union before
    BY DEF Evolves
  <2>3. IsEntry(e)
    BY DEF Evolves
  <2> HIDE DEF before, e
  <2>4. ledger \in SUBSET Output /\ IsFiniteSet(ledger)
    BY DEF LedgerPart, LedgerUnique
  <2>5. IsFiniteSet(ledger \union before)
    BY <2>1, <2>4, FS_Union
  <2>6. e.ids \in SUBSET Output /\ IsFiniteSet(e.ids)
    BY <2>1, <2>2, <2>4, <2>5, FS_Subset
  <2>7. am_addresses \subseteq Nat
    BY DEF ManagerOK, AMTypeOK, am_addresses
  <2>8. e \in Entry
    BY <2>3, <2>6, <2>7 DEF IsEntry, Entry
  <2> QED
    BY <2>6, <2>8 DEF e
<1>3. Range(unspent') \subseteq Entry
  BY <1>2 DEF Range
<1>4. unspent' \in Seq(Entry)
  BY <1>1, <1>3
<1> QED
  BY <1>2, <1>4 DEF TablePart

\* The remainder goes to an address.
LEMMA RemainderIsIndex ==
  ASSUME ManagerOK, NEW table, NEW picked, NEW change \in RemainderIndex(table, picked)
  PROVE  change \in Nat /\ change # NoAddress
<1>1. last_addr_index \in Nat /\ first_unspent_idx \in Nat
  BY DEF ManagerOK, AMTypeOK
<1>2. change \in Nat
  BY <1>1 DEF RemainderIndex, Least
<1>3. NoAddress \notin Nat
  BY WalletAssumption, Zenon
<1> QED
  BY <1>2, <1>3

\* What wallet_send_funds has found and built when it comes to its POST.
LEMMA SendShape ==
  ASSUME ManagerOK, NEW dest \in Options, SendFunds(dest)
  PROVE  LET balance == unspent_outputs_balance_with_color(unspent', consumed', dest.color)
         IN  /\ pc = "idle" /\ pc' = "post" /\ txs < MaxTx /\ UNCHANGED <<ledger, txs>>
             /\ consumed' \subseteq Spendable(unspent')
             /\ balance >= dest.amount
             /\ \E change \in RemainderIndex(unspent', consumed') \union {NoAddress} :
                  /\ change # NoAddress => balance > dest.amount
                  /\ change = NoAddress /\ dest.remainder = NoAddress =>
                       ~(balance > dest.amount)
                  /\ tx' = [inputs     |-> wallet_build_inputs(unspent', consumed'),
                            outputs    |-> wallet_build_outputs(dest, change, balance),
                            signatures |-> wallet_sign_tx(unspent', consumed'),
                            change     |-> change]
                  /\ remainder' = IF change = NoAddress THEN dest.remainder ELSE change
<1>1. PICK heap \in HeapBits(spent_addr, last_addr_index) :
      \E table \in wallet_refresh(FALSE, heap) :
      \E picked \in unspent_outputs_required_outputs(table, dest.amount, dest.color) :
        LET balance == unspent_outputs_balance_with_color(table, picked, dest.color)
            changes == IF balance > dest.amount /\ dest.remainder = NoAddress
                       THEN RemainderIndex(table, picked) ELSE {NoAddress}
        IN  /\ balance >= dest.amount
            /\ unspent' = table
            /\ consumed' = picked
            /\ \E change \in changes : Build(dest, table, picked, balance, change)
  BY DEF SendFunds
<1>2. PICK table \in wallet_refresh(FALSE, heap) :
      \E picked \in unspent_outputs_required_outputs(table, dest.amount, dest.color) :
        LET balance == unspent_outputs_balance_with_color(table, picked, dest.color)
            changes == IF balance > dest.amount /\ dest.remainder = NoAddress
                       THEN RemainderIndex(table, picked) ELSE {NoAddress}
        IN  /\ balance >= dest.amount
            /\ unspent' = table
            /\ consumed' = picked
            /\ \E change \in changes : Build(dest, table, picked, balance, change)
  BY <1>1
<1>3. PICK picked \in unspent_outputs_required_outputs(table, dest.amount, dest.color) :
        LET balance == unspent_outputs_balance_with_color(table, picked, dest.color)
            changes == IF balance > dest.amount /\ dest.remainder = NoAddress
                       THEN RemainderIndex(table, picked) ELSE {NoAddress}
        IN  /\ balance >= dest.amount
            /\ unspent' = table
            /\ consumed' = picked
            /\ \E change \in changes : Build(dest, table, picked, balance, change)
  BY <1>2
<1>4. unspent' = table /\ consumed' = picked /\ consumed' \subseteq Spendable(unspent')
  BY <1>3, PickedSpendable
<1> DEFINE balance == unspent_outputs_balance_with_color(unspent', consumed', dest.color)
<1>5. /\ balance >= dest.amount
      /\ \E change \in IF balance > dest.amount /\ dest.remainder = NoAddress
                       THEN RemainderIndex(unspent', consumed') ELSE {NoAddress} :
           Build(dest, unspent', consumed', balance, change)
  BY <1>3, <1>4
<1> HIDE DEF balance
<1>6. PICK change \in IF balance > dest.amount /\ dest.remainder = NoAddress
                      THEN RemainderIndex(unspent', consumed') ELSE {NoAddress} :
        Build(dest, unspent', consumed', balance, change)
  BY <1>5
<1>7. /\ tx' = [inputs     |-> wallet_build_inputs(unspent', consumed'),
                outputs    |-> wallet_build_outputs(dest, change, balance),
                signatures |-> wallet_sign_tx(unspent', consumed'),
                change     |-> change]
      /\ remainder' = IF change = NoAddress THEN dest.remainder ELSE change
  BY <1>6 DEF Build
<1>8. /\ change \in RemainderIndex(unspent', consumed') \union {NoAddress}
      /\ change # NoAddress => balance > dest.amount
      /\ change = NoAddress /\ dest.remainder = NoAddress => ~(balance > dest.amount)
  BY <1>6, RemainderIsIndex
<1>9. pc = "idle" /\ pc' = "post" /\ txs < MaxTx /\ UNCHANGED <<ledger, txs>>
  BY DEF SendFunds, node
<1> QED
  BY <1>4, <1>5, <1>7, <1>8, <1>9 DEF balance

-----------------------------------------------------------------------------
(* The calls, the step, and the theorems.                                  *)

\* A built transaction has the types of one, and its outputs and inputs are
\* those of the entries it consumes.
LEMMA SendCall ==
  ASSUME ManagerOK, TableOK, LedgerPart, TablePart, CallPart, Evolves(unspent'),
         NEW dest \in Options, SendFunds(dest)
  PROVE  CallPart'
<1> DEFINE color == dest.color
           balance == unspent_outputs_balance_with_color(unspent', consumed', color)
           short == [amount |-> dest.amount, receiver |-> dest.receiver, color |-> color]
<1>1. /\ pc' = "post" /\ consumed' \subseteq Spendable(unspent') /\ balance >= dest.amount
      /\ \E change \in RemainderIndex(unspent', consumed') \union {NoAddress} :
           /\ change # NoAddress => balance > dest.amount
           /\ change = NoAddress /\ dest.remainder = NoAddress => ~(balance > dest.amount)
           /\ tx' = [inputs     |-> wallet_build_inputs(unspent', consumed'),
                     outputs    |-> wallet_build_outputs(dest, change, balance),
                     signatures |-> wallet_sign_tx(unspent', consumed'),
                     change     |-> change]
           /\ remainder' = IF change = NoAddress THEN dest.remainder ELSE change
  BY SendShape
<1>2. /\ dest.amount \in Amounts /\ dest.receiver \in Receivers /\ color \in Colors
      /\ dest.remainder \in {NoAddress, remainder}
  BY DEF Options
<1>3. dest.amount \in Nat /\ dest.amount > 0
  BY <1>2, AmountsPositive
<1>4. TablePart'
  BY TablePartStep
<1>5. consumed' \in SUBSET DOMAIN unspent'
  BY <1>1 DEF Spendable
<1>6. /\ IsFiniteSet(consumed')
      /\ \A k \in consumed' : unspent'[k].ids \in SUBSET Output
      /\ \A k \in consumed' : IsFiniteSet(unspent'[k].ids)
  <2>1. \A k \in consumed' : unspent'[k].ids \in SUBSET Output /\ IsFiniteSet(unspent'[k].ids)
    <3> SUFFICES ASSUME NEW k \in consumed'
                 PROVE  unspent'[k].ids \in SUBSET Output /\ IsFiniteSet(unspent'[k].ids)
      OBVIOUS
    <3>1. unspent'[k] \in Entry /\ IsFiniteSet(unspent'[k].ids)
      BY <1>4, <1>5 DEF TablePart
    <3> QED
      BY <3>1 DEF Entry
  <2>2. IsFiniteSet(consumed')
    <3>1. DOMAIN unspent' = 1 .. Len(unspent') /\ Len(unspent') \in Nat
      BY <1>4 DEF TablePart
    <3>2. IsFiniteSet(1 .. Len(unspent'))
      BY <3>1, FS_Interval
    <3> QED
      BY <1>5, <3>1, <3>2, FS_Subset
  <2> QED
    BY <2>1, <2>2
<1> HIDE DEF color
<1>7. balance \in Nat
  BY <1>2, <1>6, EntriesBalance
<1> HIDE DEF balance
<1>8. PICK change \in RemainderIndex(unspent', consumed') \union {NoAddress} :
        /\ change # NoAddress => balance > dest.amount
        /\ change = NoAddress /\ dest.remainder = NoAddress => ~(balance > dest.amount)
        /\ tx' = [inputs     |-> wallet_build_inputs(unspent', consumed'),
                  outputs    |-> wallet_build_outputs(dest, change, balance),
                  signatures |-> wallet_sign_tx(unspent', consumed'),
                  change     |-> change]
        /\ remainder' = IF change = NoAddress THEN dest.remainder ELSE change
  BY <1>1
<1>9. change \in Nat \union {NoAddress}
  BY RemainderIsIndex
<1>10. /\ tx'.inputs = wallet_build_inputs(unspent', consumed')
       /\ tx'.outputs = wallet_build_outputs(dest, change, balance)
       /\ tx'.signatures = wallet_sign_tx(unspent', consumed')
       /\ tx'.change = change
  BY <1>8
<1>11. remainder' \in Nat \union {NoAddress}
  BY <1>2, <1>8, <1>9 DEF CallPart
<1>12. tx'.inputs \subseteq [addr : Nat, tx : Nat]
  <2> SUFFICES ASSUME NEW in \in wallet_build_inputs(unspent', consumed')
               PROVE  in \in [addr : Nat, tx : Nat]
    BY <1>10
  <2>1. PICK k \in consumed' : \E o \in unspent'[k].ids : in = [addr |-> o.addr, tx |-> o.tx]
    BY InputsOf
  <2>2. PICK o \in unspent'[k].ids : in = [addr |-> o.addr, tx |-> o.tx]
    BY <2>1
  <2>3. o \in Output
    BY <1>6
  <2>4. o.addr \in Nat /\ o.tx \in Nat
    BY <2>3 DEF Output
  <2> QED
    BY <2>2, <2>4
<1>13. wallet_build_outputs(short, change, balance) = wallet_build_outputs(dest, change, balance)
  BY DEF wallet_build_outputs, color
<1>14. short \in [amount : Amounts, receiver : Receivers, color : Colors]
       /\ short.amount = dest.amount /\ short.receiver = dest.receiver /\ short.color = color
  BY <1>2
<1> HIDE DEF short
<1>15. tx'.outputs \subseteq Shape
  <2> SUFFICES ASSUME NEW o \in wallet_build_outputs(short, change, balance) PROVE o \in Shape
    BY <1>10, <1>13
  <2>1. o.bal \in Balance /\ o.addr \in {short.receiver, change}
    BY <1>1, <1>2, <1>7, <1>14, OutputsWorth DEF balance
  <2>2. o = [addr |-> o.addr, bal |-> o.bal]
    BY DEF wallet_build_outputs
  <2>3. Receivers \subseteq Nat \union {External}
    BY WalletAssumption, Zenon
  <2>4. o.addr \in Nat \union {External}
    <3>1. CASE o.addr = short.receiver
      BY <1>2, <1>14, <2>3, <3>1
    <3>2. CASE o.addr = change /\ change \in Nat
      BY <3>2
    <3>3. CASE o.addr = change /\ change = NoAddress
      <4>1. o.addr = short.receiver
        BY <3>3 DEF wallet_build_outputs
      <4> QED
        BY <3>1, <4>1
    <3> QED
      BY <1>9, <2>1, <3>1, <3>2, <3>3
  <2> QED
    BY <2>1, <2>2, <2>4 DEF Shape
<1>16. tx'.signatures \subseteq [addr : Nat, key : Nat]
  <2> SUFFICES ASSUME NEW k \in consumed'
               PROVE  unspent'[k].addr \in Nat /\ unspent'[k].addr_index \in Nat
    BY <1>10 DEF wallet_sign_tx
  <2>1. unspent'[k] \in Entry
    BY <1>4, <1>5 DEF TablePart
  <2> QED
    BY <2>1 DEF Entry
<1>17. BuiltOK'
  <2>1. tx'.outputs = wallet_build_outputs(short, tx'.change, balance)
    BY <1>10, <1>13
  <2>2. IF tx'.change = NoAddress
        THEN balance >= short.amount /\ (remainder' = NoAddress => balance = short.amount)
        ELSE balance > short.amount
    <3>1. balance >= dest.amount
      BY <1>1 DEF balance
    <3>2. CASE change = NoAddress
      <4>1. remainder' = dest.remainder
        BY <1>8, <3>2
      <4>2. remainder' = NoAddress => balance = dest.amount
        BY <1>3, <1>7, <1>8, <3>1, <3>2, <4>1
      <4> QED
        BY <1>10, <1>14, <3>1, <3>2, <4>2
    <3>3. CASE change # NoAddress
      BY <1>8, <1>10, <1>14, <3>3
    <3> QED
      BY <3>2, <3>3
  <2>3. balance = unspent_outputs_balance_with_color(unspent', consumed', short.color)
    BY <1>14 DEF balance
  <2> QED
    BY <1>10, <1>14, <2>1, <2>2, <2>3 DEF BuiltOK
<1> QED
  BY <1>1, <1>5, <1>9, <1>10, <1>11, <1>12, <1>15, <1>16, <1>17 DEF CallPart

\* The steps that neither build a transaction nor carry one on.
Stays ==
  /\ Evolves(unspent')
  /\ UNCHANGED <<tx, consumed>>
  /\ remainder' \in {NoAddress, remainder}
  /\ \/ pc' = pc /\ (pc # "idle" => UNCHANGED <<unspent, remainder>>)
     \/ pc = "idle" /\ pc' = "crashed"

\* Such a step keeps the transaction on its way.
LEMMA StaysCall == ASSUME CallPart, Stays PROVE CallPart'
<1>1. DOMAIN unspent \subseteq DOMAIN unspent'
  BY DEF Stays, Evolves
<1>2. CASE pc' = pc /\ pc # "idle"
  <2>1. UNCHANGED <<pc, unspent, remainder, tx, consumed>>
    BY <1>2 DEF Stays
  <2> QED
    BY <2>1 DEF CallPart, BuiltOK
<1>3. CASE pc = "idle" /\ pc' \in {"idle", "crashed"}
  BY <1>1, <1>3 DEF Stays, CallPart, BuiltOK
<1> QED
  BY <1>2, <1>3 DEF Stays

\* The POST and the closing loop leave the transaction as it was built.
LEMMA PostCall ==
  ASSUME CallPart, NEW delivered, NEW replied, Post(delivered, replied)
  PROVE  CallPart'
BY DEF Post, CallPart, BuiltOK

\* Marking an address does not touch the transaction.
LEMMA MarkCall ==
  ASSUME CallPart, Evolves(unspent'), MarkSpent
  PROVE  CallPart'
<1>1. DOMAIN unspent \subseteq DOMAIN unspent'
  BY DEF Evolves
<1>2. /\ pc = "mark" /\ remainder' = remainder
      /\ consumed' \subseteq consumed
      /\ \/ pc' = "idle" /\ consumed' = {}
         \/ pc' = "mark" /\ tx' = tx
  BY DEF MarkSpent
<1> QED
  BY <1>1, <1>2 DEF CallPart, BuiltOK

\* Every step keeps the funds.
LEMMA FundsNext ==
  ASSUME WalletInv, FundsInv, [Next]_vars
  PROVE  FundsInv'
<1> USE DEF WalletInv
<1>1. ManagerOK /\ BaseInv /\ AMTypeOK /\ LedgerPart /\ TablePart /\ CallPart
  BY FundsParts, WalletBase DEF ManagerOK
<1>2. Evolves(unspent')
  BY <1>1, NextManager
<1>3. AMTypeOK'
  BY NextInv
<1>4. TablePart'
  BY <1>1, <1>2, TablePartStep
<1> HIDE DEF WalletInv
<1>5. ASSUME Stays, UNCHANGED <<ledger, txs>> PROVE LedgerPart' /\ CallPart'
  <2>1. LedgerPart'
    BY <1>1, <1>5 DEF Stays, LedgerPart, LedgerUnique
  <2> QED
    BY <1>1, <1>5, <2>1, StaysCall
<1>6. ASSUME Stays, NEW a \in Nat, NEW bal \in Incoming, Arrives(a, bal)
      PROVE  LedgerPart' /\ CallPart'
  BY <1>1, <1>6, StaysCall, ArrivalLedger
<1>7. ASSUME NEW include_spent \in BOOLEAN, Refresh(include_spent)
      PROVE  LedgerPart' /\ CallPart'
  BY <1>2, <1>5, <1>7 DEF Refresh, Stays, call, node
<1>8. ASSUME RefreshCrashes PROVE LedgerPart' /\ CallPart'
  BY <1>2, <1>5, <1>8 DEF RefreshCrashes, Stays, node
<1>9. ASSUME pc = "idle", UNCHANGED <<unspent, remainder, call, posted, node>>
      PROVE  LedgerPart' /\ CallPart'
  BY <1>2, <1>5, <1>9 DEF Stays, call, node
<1>10. ASSUME wallet_request_funds PROVE LedgerPart' /\ CallPart'
  <2>1. Stays
    BY <1>2, <1>10 DEF wallet_request_funds, Stays, call
  <2>2. last_unspent_idx \in Nat
    BY <1>1 DEF AMTypeOK
  <2>3. CASE UNCHANGED node
    BY <1>5, <2>1, <2>3 DEF node
  <2>4. CASE \E bal \in Incoming : Arrives(last_unspent_idx, bal)
    BY <1>6, <2>1, <2>2, <2>4
  <2> QED
    BY <1>10, <2>3, <2>4 DEF wallet_request_funds
<1>11. ASSUME NEW dest \in Options, SendRefused(dest)
       PROVE  LedgerPart' /\ CallPart'
  <2>1. Stays
    BY <1>2, <1>11 DEF SendRefused, Stays, call, Options
  <2> QED
    BY <1>5, <1>11, <2>1 DEF SendRefused, node
<1>12. ASSUME NEW dest \in Options, SendFunds(dest)
       PROVE  LedgerPart' /\ CallPart'
  <2>1. CallPart'
    BY <1>1, <1>2, <1>12, SendCall DEF BaseInv
  <2>2. txs < MaxTx /\ UNCHANGED <<ledger, txs>>
    BY <1>1, <1>12, SendShape
  <2>3. MaxTx \in Nat /\ txs \in Nat
    BY <1>1, WalletAssumption DEF LedgerPart
  <2>4. LedgerPart'
    BY <1>1, <2>2, <2>3 DEF LedgerPart, LedgerUnique
  <2> QED
    BY <2>1, <2>4
<1>13. ASSUME NEW delivered \in BOOLEAN, NEW replied \in BOOLEAN, Post(delivered, replied)
       PROVE  LedgerPart' /\ CallPart'
  BY <1>1, <1>13, PostLedger, PostCall
<1>14. ASSUME MarkSpent PROVE LedgerPart' /\ CallPart'
  <2>1. CallPart'
    BY <1>1, <1>2, <1>14, MarkCall
  <2>2. pc' # "post" /\ UNCHANGED <<ledger, txs>>
    BY <1>14 DEF MarkSpent, node
  <2>3. LedgerPart'
    BY <1>1, <2>2 DEF LedgerPart, LedgerUnique
  <2> QED
    BY <2>1, <2>3
<1>15. ASSUME NEW a \in am_addresses, NEW bal \in Incoming, Pay(a, bal)
       PROVE  LedgerPart' /\ CallPart'
  <2>1. a \in Nat
    BY <1>1 DEF AMTypeOK, am_addresses
  <2>2. Stays
    BY <1>2, <1>15 DEF Pay, Stays, call
  <2> QED
    BY <1>6, <1>15, <2>1, <2>2 DEF Pay
<1>16. ASSUME NEW o \in ledger, Confirm(o)
       PROVE  LedgerPart' /\ CallPart'
  <2>1. Stays /\ pc' = pc
    BY <1>2, <1>16 DEF Confirm, Stays, call
  <2> QED
    BY <1>1, <1>16, <2>1, StaysCall, ConfirmationLedger
<1>17. ASSUME UNCHANGED vars PROVE LedgerPart' /\ CallPart'
  BY <1>2, <1>5, <1>17 DEF vars, call, node, Stays
<1>18. LedgerPart' /\ CallPart'
  <2>1. CASE WalletStep
    BY <1>7, <1>8, <1>9, <1>10, <1>11, <1>12, <1>13, <1>14, <2>1
       DEF WalletStep, wallet_new_receive_address, wallet_receive_address,
           wallet_remainder_address, AddressCall
  <2>2. CASE NodeStep
    BY <1>15, <1>16, <2>2 DEF NodeStep
  <2> QED
    BY <1>17, <2>1, <2>2 DEF Next
<1>19. (FundsInv <=> AMTypeOK /\ LedgerPart /\ TablePart /\ CallPart)'
  BY FundsParts, PTL
<1> QED
  BY <1>3, <1>4, <1>18, <1>19

\* A wallet starts with a settled ledger and nothing on its way.
LEMMA FundsInit == Init => FundsInv
<1> SUFFICES ASSUME Init PROVE FundsInv
  OBVIOUS
<1>1. AMTypeOK /\ last_addr_index \in Nat
  BY InitInv DEF WalletInv, AMTypeOK
<1>2. LedgerPart
  <2>1. ledger = {} /\ txs = 0 /\ pc = "idle" /\ MaxTx \in Nat
    BY WalletAssumption DEF Init
  <2> QED
    BY <2>1, FS_EmptySet DEF LedgerPart, LedgerUnique
<1>3. TablePart
  <2>1. unspent = [k \in 1 .. last_addr_index + 1 |->
                     [addr |-> k - 1, addr_index |-> k - 1,
                      spent |-> k - 1 < first_unspent_idx, ids |-> {}]]
    BY DEF Init
  <2>2. ASSUME NEW k \in 1 .. last_addr_index + 1
        PROVE  unspent[k] \in Entry /\ unspent[k].ids = {}
    <3>1. k - 1 \in Nat
      BY <1>1
    <3> QED
      BY <2>1, <3>1 DEF Entry
  <2>3. DOMAIN unspent = 1 .. last_addr_index + 1
    BY <2>1
  <2>4. unspent \in [1 .. last_addr_index + 1 -> Entry]
    BY <2>1, <2>2
  <2>5. unspent \in Seq(Entry)
    BY <1>1, <2>4, SeqDef
  <2> QED
    BY <2>2, <2>3, <2>5, FS_EmptySet DEF TablePart
<1>4. CallPart
  BY DEF Init, CallPart, BuiltOK
<1> QED
  BY <1>1, <1>2, <1>3, <1>4, FundsParts

\* The two invariants together.
LEMMA FundsInvariant == Spec => [](WalletInv /\ FundsInv)
<1>1. Init => WalletInv /\ FundsInv
  BY InitInv, FundsInit
<1>2. (WalletInv /\ FundsInv) /\ [Next]_vars => (WalletInv /\ FundsInv)'
  BY NextInv, FundsNext
<1> QED
  BY <1>1, <1>2, PTL DEF Spec

\* Balances, amounts and indices stay what they are, whatever is lost.
THEOREM WalletIsTyped == Spec => []TypeOK
<1>1. WalletInv /\ FundsInv => TypeOK
  BY DEF FundsInv
<1> QED
  BY <1>1, FundsInvariant, PTL

\* The node applies a sound transaction: its inputs exist, and per color its
\* outputs are worth what its inputs are.
THEOREM SoundIsApplied == Spec => []SoundTxAccepted
<1>1. WalletInv /\ FundsInv /\ NeverOverstates => SoundTxAccepted
  BY SoundIsAccepted
<1> QED
  BY <1>1, FundsInvariant, BalanceNeverOverstated, PTL
=============================================================================
