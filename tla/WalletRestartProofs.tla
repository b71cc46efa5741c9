------------------------ MODULE WalletRestartProofs ------------------------
(***************************************************************************)
(* What is left of one-time addresses when the application stops anywhere  *)
(* and creates its wallet again, for every value of the constants and any  *)
(* number of restarts.                                                     *)
(***************************************************************************)
EXTENDS WalletRestart, WalletProofs

\* An entry of the table of a new wallet.
LEMMA InitialEntry ==
  ASSUME SavedOK, NEW known, NEW k \in 1 .. saved.last_addr + 1
  PROVE  LET e == InitialTable(saved, known)[k]
             ids == { o \in known : o.addr = k - 1 }
         IN  /\ e.addr = k - 1 /\ e.ids = ids
             /\ e \in [addr : {k - 1}, addr_index : {k - 1},
                       spent : BOOLEAN, ids : {ids}]
             /\ k - 1 < saved.first_unspent => e.spent
<1> USE MaxIndexAssumption DEF Index, SavedOK
<1> DEFINE ids == { o \in known : o.addr = k - 1 }
           isSpent == k - 1 < saved.first_unspent
           e == InitialTable(saved, known)[k]
<1>1. e = [addr |-> k - 1, addr_index |-> k - 1, spent |-> isSpent, ids |-> ids]
  BY DEF InitialTable
<1>2. isSpent \in BOOLEAN
  OBVIOUS
<1> HIDE DEF ids, isSpent, e
<1>3. e.addr = k - 1 /\ e.ids = ids /\ e.spent = isSpent
  BY <1>1
<1>4. e \in [addr : {k - 1}, addr_index : {k - 1}, spent : BOOLEAN, ids : {ids}]
  BY <1>1, <1>2
<1>5. isSpent => e.spent
  BY <1>3, Zenon
<1> QED
  BY <1>3, <1>4, <1>5 DEF ids, isSpent, e

\* A wallet made from stored indices is in order, whatever its refresh found.
LEMMA RestartBase ==
  ASSUME SavedOK, LedgerOK, Restart
  PROVE  BaseInv'
<1> USE MaxIndexAssumption DEF Index, SavedOK
<1> DEFINE last == saved.last_addr
<1>1. /\ last \in Nat /\ last_addr_index' = last
      /\ first_unspent_idx' \in Nat /\ first_unspent_idx' = saved.first_unspent
      /\ last_unspent_idx' \in Nat /\ last_unspent_idx' = saved.last_unspent
  BY DEF Restart
<1>2. spent_addr' \in bitmask_t
  BY PrefixMaskType DEF Restart
<1>3. ManagerOK'
  BY <1>1, <1>2 DEF ManagerOK, AMTypeOK, WindowInsideIssued
<1>4. PICK known \in {{}, ledger} : unspent' = InitialTable(saved, known)
  BY DEF Restart, Knowledge
<1>5. DOMAIN unspent' = 1 .. last + 1
  BY <1>4 DEF InitialTable
<1>6. unspent' \in Seq(Range(unspent'))
  <2>1. unspent' = [k \in 1 .. last + 1 |-> unspent'[k]] /\ last + 1 \in Nat
    BY <1>1, <1>4 DEF InitialTable
  <2> QED
    BY <2>1, FunctionSeq
<1>7. ASSUME NEW k \in DOMAIN unspent'
      PROVE  IsEntry(unspent[k])' /\ unspent'[k].addr = k - 1
  <2> DEFINE ids == { o \in known : o.addr = k - 1 }
  <2>1. /\ unspent'[k].addr = k - 1 /\ unspent'[k].ids = ids
        /\ unspent'[k] \in [addr : {k - 1}, addr_index : {k - 1},
                            spent : BOOLEAN, ids : {ids}]
    BY <1>4, <1>5, InitialEntry
  <2>2. k - 1 \in am_addresses'
    BY <1>1, <1>5 DEF am_addresses
  <2>3. \A o \in ids : o.addr = k - 1
    OBVIOUS
  <2> HIDE DEF ids
  <2> QED
    BY <2>1, <2>2, <2>3 DEF IsEntry
<1>8. TableOK'
  <2>1. ASSUME NEW k \in DOMAIN unspent', NEW l \in DOMAIN unspent',
               unspent'[k].addr = unspent'[l].addr
        PROVE  k = l
    BY <1>1, <1>5, <1>7, <2>1
  <2> QED
    BY <1>6, <1>7, <2>1 DEF TableOK
<1>9. CallOK' /\ LedgerOK'
  BY DEF Restart, CallOK, LedgerOK, node
<1> QED
  BY <1>3, <1>8, <1>9 DEF BaseInv

\* What is known of one restart of the list.
LEMMA RestartEntry ==
  ASSUME RestartsOK, NEW r \in DOMAIN restarts
  PROVE  restarts[r].posted \in Nat /\ restarts[r].posted <= Len(posted)
<1> DEFINE S == [posted : Nat, first_unspent : Nat]
<1>1. restarts \in Seq(S)
  BY DEF RestartsOK
<1> HIDE DEF S
<1>2. restarts[r] \in S
  BY <1>1
<1>3. restarts[r].posted \in Nat
  BY <1>2 DEF S
<1> QED
  BY <1>3 DEF RestartsOK

\* What a restart adds to the list of restarts.
LEMMA RestartsGrow ==
  ASSUME RestartsOK, SavedOK, Restart, posted \in Seq(Range(posted))
  PROVE  /\ RestartsOK'
         /\ restarts' # <<>>
         /\ restarts'[Len(restarts')].posted = Len(posted)
         /\ restarts'[Len(restarts')].first_unspent = saved.first_unspent
<1> DEFINE S == [posted : Nat, first_unspent : Nat]
           r == [posted |-> Len(posted), first_unspent |-> saved.first_unspent]
<1>1. r \in S /\ r.posted = Len(posted) /\ r.first_unspent = saved.first_unspent
  BY DEF SavedOK
<1>2. restarts \in Seq(S) /\ restarts' = Append(restarts, r) /\ posted' = posted
  BY DEF RestartsOK, Restart
<1> HIDE DEF r
<1>3. /\ restarts' \in Seq(S) /\ Len(restarts) \in Nat
      /\ Len(restarts') = Len(restarts) + 1
      /\ DOMAIN restarts = 1 .. Len(restarts)
      /\ DOMAIN restarts' = 1 .. Len(restarts) + 1
      /\ \A k \in DOMAIN restarts : restarts'[k] = restarts[k]
      /\ restarts'[Len(restarts) + 1] = r
  BY <1>1, <1>2
<1>4. ASSUME NEW k \in DOMAIN restarts' PROVE restarts'[k].posted <= Len(posted)
  <2>1. CASE k \in DOMAIN restarts
    BY <1>3, <2>1 DEF RestartsOK
  <2>2. CASE k = Len(restarts) + 1
    BY <1>1, <1>3, <2>2
  <2> QED
    BY <1>3, <2>1, <2>2
<1> QED
  BY <1>1, <1>2, <1>3, <1>4 DEF RestartsOK

\* A restart forgets the addresses from first_unspent on, and commits those
\* below it.
LEMMA RestartPaid ==
  ASSUME PaidOrForgotten, RestartsOK, SavedOK, LedgerOK, Restart
  PROVE  PaidOrForgotten'
<1> USE MaxIndexAssumption DEF Index, SavedOK
<1>1. posted' = posted /\ posted \in Seq(Range(posted))
  BY DEF Restart, PaidOrForgotten
<1>2. PICK known \in {{}, ledger} : unspent' = InitialTable(saved, known)
  BY DEF Restart, Knowledge
<1> SUFFICES ASSUME NEW i \in DOMAIN posted, NEW a \in Sources(posted[i])
             PROVE  a \in Nat /\ (Committed(a)' \/ Forgotten(i, a)')
  BY <1>1 DEF PaidOrForgotten
<1>3. a \in Nat /\ i \in Nat /\ i <= Len(posted)
  BY <1>1 DEF PaidOrForgotten
<1>4. CASE a >= saved.first_unspent
  <2>1. restarts'[Len(restarts')].posted >= i
    BY <1>1, <1>3, RestartsGrow
  <2> QED
    BY <1>1, <1>3, <1>4, <2>1, RestartsGrow DEF Forgotten
<1>5. CASE a < saved.first_unspent
  <2>1. a + 1 \in 1 .. saved.last_addr + 1 /\ a + 1 - 1 = a
    BY <1>3, <1>5
  <2>2. a + 1 \in DOMAIN unspent'
    BY <1>2, <2>1 DEF InitialTable
  <2>3. unspent'[a + 1].addr = a /\ unspent'[a + 1].spent
    <3> DEFINE k == a + 1
    <3>1. k \in 1 .. saved.last_addr + 1 /\ k - 1 = a
      BY <1>3, <1>5, <2>1
    <3> HIDE DEF k
    <3>2. unspent'[k].addr = a /\ unspent'[k].spent
      BY <1>2, <1>5, <3>1, InitialEntry
    <3> QED
      BY <3>2 DEF k
  <2> QED
    BY <1>3, <2>2, <2>3 DEF Committed, Live
<1> QED
  BY <1>3, <1>4, <1>5

\* A step without restart keeps what is committed, and what was forgotten
\* stays so; the payment handed over by this step is committed.
LEMMA StepPaid ==
  ASSUME BaseInv, PaidOrForgotten, UNCHANGED restarts,
         Quiet \/ Built \/ Posts \/ Marks, Evolves(unspent')
  PROVE  PaidOrForgotten'
<1>1. ASSUME NEW a, Committed(a) PROVE Committed(a)'
  BY <1>1, CommittedStays DEF Committed, Evolves
<1>2. ASSUME NEW i, NEW a, Forgotten(i, a) PROVE Forgotten(i, a)'
  BY <1>2 DEF Forgotten
<1>3. CASE posted' = posted
  BY <1>1, <1>2, <1>3 DEF PaidOrForgotten
<1>4. CASE Posts
  <2>1. ASSUME NEW a \in Sources(tx) PROVE a \in Nat /\ Committed(a)'
    <3>1. PICK k \in consumed : k \in DOMAIN unspent /\ unspent[k].addr = a
      BY <1>4 DEF Posts, BaseInv, CallOK
    <3>2. a \in Nat
      BY <3>1 DEF BaseInv, TableOK, IsEntry, am_addresses, ManagerOK, AMTypeOK
    <3>3. Committed(a)'
      BY <1>4, <3>1 DEF Posts, Committed, Live
    <3> QED
      BY <3>2, <3>3
  <2>2. posted \in Seq(Range(posted))
    BY DEF PaidOrForgotten
  <2>3. ASSUME NEW i \in DOMAIN posted', NEW a \in Sources(posted'[i])
        PROVE  a \in Nat /\ (Committed(a)' \/ Forgotten(i, a)')
    <3>1. CASE i \in DOMAIN posted
      BY <1>1, <1>2, <1>4, <2>2, <2>3, <3>1, PostedGrows DEF PaidOrForgotten
    <3>2. CASE i \notin DOMAIN posted
      <4>1. i = Len(posted) + 1
        BY <1>4, <2>2, <3>2, PostedGrows
      <4> QED
        BY <1>4, <2>1, <2>2, <2>3, <4>1, PostedGrows
    <3> QED
      BY <3>1, <3>2
  <2> QED
    BY <1>4, <2>2, <2>3, PostedGrows DEF PaidOrForgotten
<1> QED
  BY <1>3, <1>4 DEF Quiet, Built, Marks

\* The invariant holds when the first wallet_init returns.
LEMMA RestartInitInv == RestartInit => RestartInv
<1> SUFFICES ASSUME RestartInit PROVE RestartInv
  OBVIOUS
<1>1. WalletInv
  BY InitInv DEF RestartInit
<1>2. PaidOrForgotten /\ RestartsOK
  BY DEF RestartInit, Init, PaidOrForgotten, RestartsOK, Range
<1>3. SavedOK
  BY <1>1 DEF RestartInit, CurrentIndices, SavedOK, WalletInv, AMTypeOK,
              WindowInsideIssued
<1> QED
  BY <1>1, <1>2, <1>3 DEF RestartInv, WalletInv

\* The parts of the invariant that lemmas of the wallet speak of.
LEMMA RestartParts ==
  RestartInv <=> BaseInv /\ PaidOrForgotten /\ RestartsOK /\ SavedOK
BY DEF RestartInv, BaseInv, ManagerOK

\* A step of the wallet or of the node, and the storing of the indices.
LEMMA StepInv ==
  ASSUME RestartInv, [Next]_vars, UNCHANGED restarts,
         saved' = saved \/ (saved' = CurrentIndices /\ UNCHANGED vars)
  PROVE  RestartInv'
<1>1. BaseInv /\ PaidOrForgotten /\ RestartsOK /\ SavedOK
  BY RestartParts
<1>2. (Quiet \/ Built \/ Posts \/ Marks) /\ Evolves(unspent')
  BY <1>1, StepKinds, NextManager DEF BaseInv
<1>3. BaseInv' /\ PaidOrForgotten'
  BY <1>1, <1>2, NextBase, StepPaid
<1>4. RestartsOK'
  <2>1. posted \in Seq(Range(posted))
    BY <1>1 DEF PaidOrForgotten
  <2>2. Len(posted) \in Nat /\ Len(posted') \in Nat /\ Len(posted) <= Len(posted')
    <3>1. CASE posted' = posted
      BY <2>1, <3>1
    <3>2. CASE Posts
      BY <2>1, <3>2, PostedGrows
    <3> QED
      BY <1>2, <3>1, <3>2 DEF Quiet, Built, Marks
  <2>3. ASSUME NEW r \in DOMAIN restarts PROVE restarts[r].posted <= Len(posted')
    <3>1. restarts[r].posted \in Nat /\ restarts[r].posted <= Len(posted)
      BY <1>1, RestartEntry
    <3> QED
      BY <2>2, <3>1
  <2> QED
    BY <1>1, <2>3 DEF RestartsOK
<1>5. SavedOK'
  <2>1. CASE saved' = saved
    BY <1>1, <2>1 DEF SavedOK
  <2>2. CASE saved' = CurrentIndices
    BY <1>1, <2>2 DEF CurrentIndices, SavedOK, BaseInv, ManagerOK, AMTypeOK,
                      WindowInsideIssued
  <2> QED
    BY <2>1, <2>2
<1>6. (RestartInv <=> BaseInv /\ PaidOrForgotten /\ RestartsOK /\ SavedOK)'
  BY RestartParts, PTL
<1> QED
  BY <1>3, <1>4, <1>5, <1>6

\* Every step keeps the invariant.
LEMMA RestartNextInv == RestartInv /\ [RestartNext]_rvars => RestartInv'
<1> SUFFICES ASSUME RestartInv, [RestartNext]_rvars PROVE RestartInv'
  OBVIOUS
<1>1. CASE Next /\ UNCHANGED <<saved, restarts>>
  BY <1>1, StepInv
<1>2. CASE Save
  BY <1>2, StepInv DEF Save
<1>3. CASE UNCHANGED rvars
  BY <1>3, StepInv DEF rvars
<1>4. CASE Restart
  <2>1. BaseInv /\ PaidOrForgotten /\ RestartsOK /\ SavedOK
    BY RestartParts
  <2>2. BaseInv' /\ PaidOrForgotten' /\ RestartsOK'
    BY <1>4, <2>1, RestartBase, RestartPaid, RestartsGrow DEF BaseInv, PaidOrForgotten
  <2>3. SavedOK'
    BY <1>4, <2>1 DEF Restart, SavedOK
  <2>4. (RestartInv <=> BaseInv /\ PaidOrForgotten /\ RestartsOK /\ SavedOK)'
    BY RestartParts, PTL
  <2> QED
    BY <2>2, <2>3, <2>4
<1> QED
  BY <1>1, <1>2, <1>3, <1>4 DEF RestartNext

\* The invariant of a wallet that is created again holds throughout.
LEMMA RestartInvariant == RestartSpec => []RestartInv
<1> QED
  BY RestartInitInv, RestartNextInv, PTL DEF RestartSpec

\* What a payment about to be posted shares with an earlier one was forgotten
\* at the last restart.
LEMMA SharedForgotten ==
  ASSUME RestartInv, pc = "post", NEW i \in DOMAIN posted,
         NEW a \in Sources(posted[i]), a \in Sources(tx)
  PROVE  Forgotten(i, a)
<1>1. PICK l \in consumed :
        l \in DOMAIN unspent /\ unspent[l].addr = a /\ ~unspent[l].spent
  BY DEF RestartInv, CallOK
<1>2. ~Committed(a)
  <2> SUFFICES ASSUME NEW k \in DOMAIN unspent, unspent[k].addr = a, ~Live(k)
               PROVE  FALSE
    BY DEF Committed
  <2>1. k = l
    BY <1>1 DEF RestartInv, TableOK
  <2> QED
    BY <1>1, <2>1 DEF Live
<1> QED
  BY <1>2 DEF RestartInv, PaidOrForgotten

\* An address pays twice only across a restart that was told it is unspent.
THEOREM ReuseOnlyAfterRestart == RestartSpec => []ReuseNeedsRestart
<1>1. RestartInit => ReuseNeedsRestart
  BY DEF RestartInit, Init, ReuseNeedsRestart
<1>2. ASSUME RestartInv, ReuseNeedsRestart, [RestartNext]_rvars
      PROVE  ReuseNeedsRestart'
  <2>1. posted \in Seq(Range(posted)) /\ RestartsOK
    BY <1>2 DEF RestartInv, PaidOrForgotten
  <2>2. CASE Restart
    <3>1. posted' = posted
      BY <2>2 DEF Restart
    <3>2. \A r \in DOMAIN restarts : r \in DOMAIN restarts' /\ restarts'[r] = restarts[r]
      <4>1. PICK e : restarts' = Append(restarts, e)
        BY <2>2 DEF Restart
      <4>2. restarts \in Seq(Range(restarts) \union {e})
        BY <2>1 DEF RestartsOK, Range
      <4> QED
        BY <4>1, <4>2
    <3> QED
      BY <1>2, <3>1, <3>2 DEF ReuseNeedsRestart, Shared
  <2>3. CASE [Next]_vars /\ UNCHANGED restarts
    <3>1. Quiet \/ Built \/ Posts \/ Marks
      BY <1>2, <2>3, StepKinds, RestartParts DEF BaseInv
    <3>2. CASE posted' = posted
      BY <1>2, <2>3, <3>2 DEF ReuseNeedsRestart, Shared
    <3>3. CASE Posts
      <4> SUFFICES ASSUME NEW i \in DOMAIN posted', NEW j \in DOMAIN posted', i < j,
                          Shared(i, j)' # {}
                   PROVE  \E r \in DOMAIN restarts :
                            /\ restarts[r].posted \in i .. j - 1
                            /\ \A a \in Shared(i, j)' : a >= restarts[r].first_unspent
        BY <2>3 DEF ReuseNeedsRestart
      <4>1. i \in DOMAIN posted /\ posted'[i] = posted[i]
        BY <2>1, <3>3, PostedGrows
      <4>2. CASE j \in DOMAIN posted
        <5>1. Shared(i, j)' = Shared(i, j)
          BY <2>1, <3>3, <4>1, <4>2, PostedGrows DEF Shared
        <5> QED
          BY <1>2, <4>1, <4>2, <5>1 DEF ReuseNeedsRestart
      <4>3. CASE j = Len(posted) + 1
        <5>1. Shared(i, j)' = Sources(posted[i]) \intersect Sources(tx)
          BY <2>1, <3>3, <4>1, <4>3, PostedGrows DEF Shared
        <5>2. \A a \in Shared(i, j)' : Forgotten(i, a)
          BY <1>2, <3>3, <4>1, <5>1, SharedForgotten DEF Posts
        <5> DEFINE r == Len(restarts)
        <5>3. r \in DOMAIN restarts /\ restarts[r].posted \in Nat
              /\ restarts[r].posted <= Len(posted) /\ restarts[r].posted >= i
          <6>1. PICK a \in Shared(i, j)' : Forgotten(i, a)
            BY <5>2
          <6>2. restarts # <<>> /\ restarts[r].posted >= i
            BY <6>1 DEF Forgotten
          <6>3. r \in DOMAIN restarts
            BY <2>1, <6>2 DEF RestartsOK
          <6> QED
            BY <2>1, <6>2, <6>3, RestartEntry
        <5>4. restarts[r].posted \in i .. j - 1
          BY <2>1, <4>1, <4>3, <5>3
        <5>5. \A a \in Shared(i, j)' : a >= restarts[r].first_unspent
          BY <5>2 DEF Forgotten
        <5> QED
          BY <5>3, <5>4, <5>5
      <4> QED
        BY <2>1, <3>3, <4>2, <4>3, PostedGrows
    <3> QED
      BY <3>1, <3>2, <3>3 DEF Quiet, Built, Marks
  <2> QED
    BY <1>2, <2>2, <2>3 DEF RestartNext, Save, rvars
<1> QED
  BY <1>1, <1>2, RestartInvariant, PTL DEF RestartSpec
=============================================================================
