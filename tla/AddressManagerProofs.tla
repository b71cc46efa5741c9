------------------------ MODULE AddressManagerProofs ------------------------
(***************************************************************************)
(* The address manager for every byte size, every bound and every sequence *)
(* of calls.                                                               *)
(***************************************************************************)
EXTENDS AddressManager, TLAPS

-----------------------------------------------------------------------------
(* The bit mask.                                                           *)

\* A byte index is a natural number, and grows with the bit's index.
LEMMA ByteIndexNat ==
  ASSUME NEW i \in Nat
  PROVE  byte_index(i) \in Nat
BY BitmaskAssumption DEF byte_index

\* An earlier bit of a mask lies in the same byte or in an earlier one.
LEMMA ByteIndexMonotone ==
  ASSUME NEW i \in Nat, NEW j \in Nat, i <= j
  PROVE  byte_index(i) <= byte_index(j)
BY BitmaskAssumption DEF byte_index

\* What an operation leaves: a mask that has lost no byte, in which the bit was
\* set or cleared, or, when realloc failed, the mask as it was.
LEMMA SetOutcome ==
  ASSUME NEW mask \in bitmask_t, NEW index \in Nat,
         NEW m \in bitmask_op(mask, index, "SET")
  PROVE  /\ m \in bitmask_t
         /\ m.cap >= mask.cap
         /\ \/ m = mask /\ ReallocMayFail
            \/ m.bits = mask.bits \union {index} /\ Backed(m, index)
BY ByteIndexNat DEF bitmask_op, bitmask_t, ApplyOp, Backed

\* The same for the CLEAR with which am_get_address starts an address.
LEMMA ClearOutcome ==
  ASSUME NEW mask \in bitmask_t, NEW index \in Nat,
         NEW m \in bitmask_op(mask, index, "CLEAR")
  PROVE  /\ m \in bitmask_t
         /\ m.cap >= mask.cap
         /\ \/ m = mask /\ ReallocMayFail
            \/ m.bits = mask.bits \ {index} /\ Backed(m, index)
BY ByteIndexNat DEF bitmask_op, bitmask_t, ApplyOp, Backed

\* A mask with a prefix set is a mask.
LEMMA PrefixMaskType ==
  ASSUME NEW n \in Nat
  PROVE  PrefixMask(n) \in bitmask_t
<1>1. CASE n = 0
  BY <1>1 DEF PrefixMask, bitmask_new, bitmask_t
<1>2. CASE n # 0
  <2>1. n - 1 \in Nat
    BY <1>2
  <2>2. byte_index(n - 1) \in Nat
    BY <2>1, ByteIndexNat
  <2> QED
    BY <1>2, <2>2 DEF PrefixMask, bitmask_t
<1> QED
  BY <1>1, <1>2

-----------------------------------------------------------------------------
(* What the scans of the window return.                                    *)

\* The new first unspent index is the old one, or an unspent index below the
\* last address with only spent ones between.
LEMMA UpdateFirst ==
  ASSUME AMTypeOK, NEW mask, NEW heap,
         NEW i \in am_update_first_unspent_index(mask, heap)
  PROVE  \/ i = first_unspent_idx
         \/ /\ i \in first_unspent_idx .. last_addr_index - 1
            /\ \A j \in first_unspent_idx .. i - 1 :
                 am_is_spent_address(mask, heap, j)
<1> DEFINE found == { j \in first_unspent_idx .. last_addr_index - 1 :
                        ~am_is_spent_address(mask, heap, j) }
<1>1. CASE found = {}
  BY <1>1 DEF am_update_first_unspent_index
<1>2. CASE found # {}
  <2>1. i \in found /\ \A j \in found : i <= j
    BY <1>2 DEF am_update_first_unspent_index, Least
  <2> QED
    BY <2>1 DEF AMTypeOK
<1> QED
  BY <1>1, <1>2

\* The new last unspent index is the old one, or an unspent index below it
\* with only spent ones between.
LEMMA UpdateLast ==
  ASSUME AMTypeOK, NEW mask, NEW heap,
         NEW i \in am_update_last_unspent_index(mask, heap)
  PROVE  \/ i = last_unspent_idx
         \/ /\ i \in 1 .. last_unspent_idx
            /\ \A j \in i + 1 .. last_unspent_idx :
                 am_is_spent_address(mask, heap, j)
<1> DEFINE found == { j \in 1 .. last_unspent_idx :
                        ~am_is_spent_address(mask, heap, j) }
<1>1. CASE found = {}
  BY <1>1 DEF am_update_last_unspent_index
<1>2. CASE found # {}
  <2>1. i \in found /\ \A j \in found : j <= i
    BY <1>2 DEF am_update_last_unspent_index, Greatest
  <2> QED
    BY <2>1 DEF AMTypeOK
<1> QED
  BY <1>1, <1>2

-----------------------------------------------------------------------------
(* What a call does, in terms of the mask before and after.                *)

\* Marking leaves a mask in which the bit is set, or, after a failed realloc,
\* the old one.  Each end of the window stays, or moves inwards to an address
\* with only addresses that read as spent between.
LEMMA MarkOutcome ==
  ASSUME AMTypeOK, NEW index \in Nat, am_mark_spent_address(index)
  PROVE  /\ spent_addr' \in bitmask_t
         /\ spent_addr'.cap >= spent_addr.cap
         /\ \/ spent_addr' = spent_addr /\ ReallocMayFail
            \/ spent_addr'.bits = spent_addr.bits \union {index}
         /\ last_addr_index' = last_addr_index
         /\ \E heap \in HeapBits(spent_addr', last_addr_index) :
              /\ \/ first_unspent_idx' = first_unspent_idx
                 \/ /\ first_unspent_idx' \in first_unspent_idx .. last_addr_index - 1
                    /\ \A j \in first_unspent_idx .. first_unspent_idx' - 1 :
                         am_is_spent_address(spent_addr', heap, j)
              /\ \/ last_unspent_idx' = last_unspent_idx
                 \/ /\ last_unspent_idx' \in 1 .. last_unspent_idx
                    /\ \A j \in last_unspent_idx' + 1 .. last_unspent_idx :
                         am_is_spent_address(spent_addr', heap, j)
<1>1. PICK mask \in bitmask_op(spent_addr, index, "SET") :
        \E heap \in HeapBits(mask, last_addr_index) :
          /\ spent_addr' = mask
          /\ first_unspent_idx' \in
               am_update_first_unspent_index(mask, heap) \union {first_unspent_idx}
          /\ last_unspent_idx' \in
               am_update_last_unspent_index(mask, heap) \union {last_unspent_idx}
          /\ UNCHANGED last_addr_index
  BY DEF am_mark_spent_address
<1>2. PICK heap \in HeapBits(mask, last_addr_index) :
        /\ spent_addr' = mask
        /\ first_unspent_idx' \in
             am_update_first_unspent_index(mask, heap) \union {first_unspent_idx}
        /\ last_unspent_idx' \in
             am_update_last_unspent_index(mask, heap) \union {last_unspent_idx}
        /\ UNCHANGED last_addr_index
  BY <1>1
<1>3. /\ mask \in bitmask_t
      /\ mask.cap >= spent_addr.cap
      /\ \/ mask = spent_addr /\ ReallocMayFail
         \/ mask.bits = spent_addr.bits \union {index}
  BY SetOutcome DEF AMTypeOK
<1>4. \/ first_unspent_idx' = first_unspent_idx
      \/ /\ first_unspent_idx' \in first_unspent_idx .. last_addr_index - 1
         /\ \A j \in first_unspent_idx .. first_unspent_idx' - 1 :
              am_is_spent_address(mask, heap, j)
  BY <1>2, UpdateFirst
<1>5. \/ last_unspent_idx' = last_unspent_idx
      \/ /\ last_unspent_idx' \in 1 .. last_unspent_idx
         /\ \A j \in last_unspent_idx' + 1 .. last_unspent_idx :
              am_is_spent_address(mask, heap, j)
  BY <1>2, UpdateLast
<1> QED
  BY <1>2, <1>3, <1>4, <1>5

-----------------------------------------------------------------------------
(* Type correctness.                                                       *)

\* Every call is am_get_address or am_mark_spent_address of some address.
LEMMA NextCases ==
  ASSUME AMTypeOK, AMNext
  PROVE  \/ \E index \in Nat : am_get_address(index)
         \/ \E index \in Index : am_mark_spent_address(index)
<1>1. ASSUME NEW index \in Index, GetAddress(index)
      PROVE  \E i \in Nat : am_get_address(i)
  BY <1>1, MaxIndexAssumption DEF GetAddress, Index
<1>2. CASE GetNewAddress
  <2>1. last_addr_index + 1 \in Nat
    BY DEF AMTypeOK
  <2> QED
    BY <1>2, <2>1 DEF GetNewAddress, am_get_new_address
<1>3. CASE am_get_first_unspent_address
  BY <1>3 DEF am_get_first_unspent_address, AMTypeOK
<1>4. CASE am_get_last_unspent_address
  BY <1>4 DEF am_get_last_unspent_address, AMTypeOK
<1> QED
  BY <1>1, <1>2, <1>3, <1>4 DEF AMNext

\* am_new, and the indices wallet_init sets, give a well-typed manager.
LEMMA InitType == AMInit => AMTypeOK
<1>1. ASSUME InitFromIndices PROVE AMTypeOK
  <2>1. PICK last \in Index : \E first, top \in 0 .. last :
          /\ last_addr_index = last
          /\ first_unspent_idx = first
          /\ last_unspent_idx = top
          /\ spent_addr = PrefixMask(first)
    BY <1>1 DEF InitFromIndices
  <2>2. first_unspent_idx \in Nat /\ last_unspent_idx \in Nat
        /\ last_addr_index \in Nat
    BY <2>1, MaxIndexAssumption DEF Index
  <2> QED
    BY <2>1, <2>2, PrefixMaskType DEF AMTypeOK
<1>2. ASSUME InitFromMask PROVE AMTypeOK
  <2>1. PICK cap \in 1 .. byte_index(MaxIndex) + 1 :
        \E bits \in SUBSET { i \in Index : byte_index(i) < cap } :
          spent_addr = [cap |-> cap, bits |-> bits]
    BY <1>2 DEF InitFromMask
  <2>2. cap \in Nat /\ Index \subseteq Nat
    BY MaxIndexAssumption, ByteIndexNat DEF Index
  <2>3. spent_addr \in bitmask_t
    BY <2>1, <2>2 DEF bitmask_t
  <2>4. last_addr_index \in Index /\ first_unspent_idx = 0 /\ last_unspent_idx = 0
    BY <1>2 DEF InitFromMask
  <2> QED
    BY <2>2, <2>3, <2>4 DEF AMTypeOK
<1> QED
  BY <1>1, <1>2 DEF AMInit

\* Every operation of the manager keeps its types.
LEMMA NextType == AMTypeOK /\ [AMNext]_am => AMTypeOK'
<1> SUFFICES ASSUME AMTypeOK, [AMNext]_am PROVE AMTypeOK'
  OBVIOUS
<1> USE DEF AMTypeOK
<1>1. ASSUME NEW index \in Nat, am_get_address(index) PROVE AMTypeOK'
  BY <1>1, ClearOutcome DEF am_get_address
<1>2. ASSUME NEW index \in Index, am_mark_spent_address(index) PROVE AMTypeOK'
  <2>1. index \in Nat
    BY MaxIndexAssumption DEF Index
  <2> QED
    BY <1>2, <2>1, MarkOutcome
<1>3. CASE UNCHANGED am
  BY <1>3 DEF am
<1> QED
  BY <1>1, <1>2, <1>3, NextCases

\* The indices stay natural numbers and the mask a mask: no scan steps below 0.
THEOREM AMTypeCorrect == AMSpec => []AMTypeOK
<1> QED
  BY InitType, NextType, PTL DEF AMSpec

-----------------------------------------------------------------------------
(* The window.                                                             *)

\* The window lies inside the issued addresses after wallet_init.
LEMMA InitWindow == AMInit => WindowInsideIssued
<1>1. ASSUME InitFromIndices PROVE WindowInsideIssued
  BY <1>1, MaxIndexAssumption DEF InitFromIndices, Index, WindowInsideIssued
<1>2. ASSUME InitFromMask PROVE WindowInsideIssued
  BY <1>2, MaxIndexAssumption DEF InitFromMask, Index, WindowInsideIssued
<1> QED
  BY <1>1, <1>2 DEF AMInit

\* Neither a new address nor the two scans of am_mark_spent_address take an
\* index of the window past the last issued address.
LEMMA NextWindow ==
  AMTypeOK /\ WindowInsideIssued /\ [AMNext]_am => WindowInsideIssued'
<1> SUFFICES ASSUME AMTypeOK, WindowInsideIssued, [AMNext]_am
             PROVE  WindowInsideIssued'
  OBVIOUS
<1> USE DEF AMTypeOK, WindowInsideIssued
<1>1. ASSUME NEW index \in Nat, am_get_address(index)
      PROVE  WindowInsideIssued'
  BY <1>1 DEF am_get_address
<1>2. ASSUME NEW index \in Index, am_mark_spent_address(index)
      PROVE  WindowInsideIssued'
  <2>1. index \in Nat
    BY MaxIndexAssumption DEF Index
  <2> QED
    BY <1>2, <2>1, MarkOutcome
<1>3. CASE UNCHANGED am
  BY <1>3 DEF am
<1> QED
  BY <1>1, <1>2, <1>3, NextCases

\* Whatever is issued and marked, and even when reads leave the mask's buffer
\* and realloc fails, both ends of the window are issued addresses.
THEOREM WindowStaysInside == AMSpec => []WindowInsideIssued
<1> QED
  BY InitWindow, NextWindow, AMTypeCorrect, PTL DEF AMSpec

\* One step forgets no issued address that is marked.
LEMMA NextForgetsNothing ==
  ASSUME AMTypeOK, [AMNext]_am, NEW i \in am_addresses, i \in spent_addr.bits
  PROVE  i \in spent_addr'.bits
<1>1. ASSUME NEW index \in Nat, am_get_address(index)
      PROVE  i \in spent_addr'.bits
  <2>1. CASE index > last_addr_index
    <3>1. index # i
      BY <2>1 DEF am_addresses, AMTypeOK
    <3>2. spent_addr' \in bitmask_op(spent_addr, index, "CLEAR")
      BY <1>1, <2>1 DEF am_get_address
    <3> QED
      BY <3>1, <3>2, ClearOutcome DEF AMTypeOK
  <2>2. CASE ~(index > last_addr_index)
    BY <1>1, <2>2 DEF am_get_address
  <2> QED
    BY <2>1, <2>2
<1>2. ASSUME NEW index \in Index, am_mark_spent_address(index)
      PROVE  i \in spent_addr'.bits
  <2>1. index \in Nat
    BY MaxIndexAssumption DEF Index
  <2> QED
    BY <1>2, <2>1, MarkOutcome
<1>3. CASE UNCHANGED am
  BY <1>3 DEF am
<1> QED
  BY <1>1, <1>2, <1>3, NextCases

\* An issued address that is marked as spent stays marked.
THEOREM SpentIsForever == AMSpec => SpentNeverForgotten
<1>1. AMTypeOK /\ [AMNext]_am =>
        [ \A i \in am_addresses :
            i \in spent_addr.bits => i \in spent_addr'.bits ]_am
  BY NextForgetsNothing
<1> QED
  BY <1>1, AMTypeCorrect, PTL DEF AMSpec, SpentNeverForgotten

-----------------------------------------------------------------------------
(* A mask that covers the issued addresses, and a realloc that succeeds.   *)

\* A bit inside the buffer is read as it is, whatever lies behind.
LEMMA BackedRead ==
  ASSUME NEW mask \in bitmask_t, NEW heap, NEW i \in Nat, Backed(mask, i)
  PROVE  bitmask_get(mask, heap, i) <=> i \in mask.bits
<1>1. byte_index(i) # mask.cap
  BY ByteIndexNat DEF Backed, bitmask_t
<1> QED
  BY <1>1 DEF bitmask_get

\* The manager of BackedSpec starts with every issued bit in the buffer, and
\* with every address below first_unspent_idx spent.
LEMMA InitBacked == AMInit /\ AllBacked => BackedInv
<1> DEFINE Below == \A i \in am_addresses :
                      i < first_unspent_idx => i \in spent_addr.bits
<1>1. ASSUME InitFromIndices PROVE Below
  <2>1. PICK first \in Nat :
          first_unspent_idx = first /\ spent_addr = PrefixMask(first)
    BY <1>1, MaxIndexAssumption DEF InitFromIndices, Index
  <2>2. PrefixMask(first).bits = 0 .. first - 1
    BY DEF PrefixMask, bitmask_new
  <2> QED
    BY <2>1, <2>2 DEF am_addresses
<1>2. ASSUME InitFromMask PROVE Below
  BY <1>2 DEF InitFromMask, am_addresses
<1> QED
  BY <1>1, <1>2 DEF AMInit, BackedInv

\* Issuing an address extends the buffer to it, marking never shrinks it.
LEMMA NextAllBacked ==
  ASSUME ~ReallocMayFail, AMTypeOK, AllBacked, [AMNext]_am
  PROVE  AllBacked'
<1> USE DEF AMTypeOK
<1>1. ASSUME NEW index \in Nat, am_get_address(index)
      PROVE  AllBacked'
  <2>1. CASE index > last_addr_index
    <3>1. spent_addr' \in bitmask_t /\ Backed(spent_addr', index)
      <4>1. spent_addr' \in bitmask_op(spent_addr, index, "CLEAR")
        BY <1>1, <2>1 DEF am_get_address
      <4> QED
        BY <4>1, ClearOutcome
    <3>2. last_addr_index' = index
      BY <1>1, <2>1 DEF am_get_address
    <3>3. ASSUME NEW i \in 0 .. index PROVE Backed(spent_addr', i)
      <4>1. byte_index(i) <= byte_index(index)
        BY ByteIndexMonotone
      <4> QED
        BY <3>1, <4>1, ByteIndexNat DEF Backed, bitmask_t
    <3> QED
      BY <3>2, <3>3 DEF AllBacked, am_addresses
  <2>2. CASE ~(index > last_addr_index)
    BY <1>1, <2>2 DEF am_get_address, AllBacked, am_addresses
  <2> QED
    BY <2>1, <2>2
<1>2. ASSUME NEW index \in Index, am_mark_spent_address(index)
      PROVE  AllBacked'
  <2>1. index \in Nat
    BY MaxIndexAssumption DEF Index
  <2>2. /\ spent_addr' \in bitmask_t
        /\ spent_addr'.cap >= spent_addr.cap
        /\ last_addr_index' = last_addr_index
    BY <1>2, <2>1, MarkOutcome
  <2>3. ASSUME NEW i \in am_addresses PROVE Backed(spent_addr', i)
    BY <2>2, ByteIndexNat DEF AllBacked, Backed, am_addresses, bitmask_t
  <2> QED
    BY <2>2, <2>3 DEF AllBacked, am_addresses
<1>3. CASE UNCHANGED am
  BY <1>3 DEF am, AllBacked, am_addresses
<1> QED
  BY <1>1, <1>2, <1>3, NextCases

\* If realloc never fails, bitmask_op keeps the mask as long as the issued
\* addresses, and the scan passes over spent addresses only.
LEMMA NextBacked ==
  ASSUME ~ReallocMayFail, AMTypeOK, WindowInsideIssued, BackedInv, [AMNext]_am
  PROVE  BackedInv'
<1> USE DEF AMTypeOK, WindowInsideIssued
<1>1. AllBacked'
  BY NextAllBacked DEF BackedInv
<1>2. AMTypeOK' /\ WindowInsideIssued'
  BY NextType, NextWindow
<1>3. ASSUME NEW i \in am_addresses', i < first_unspent_idx'
      PROVE  i \in spent_addr'.bits
  <2>1. CASE i < first_unspent_idx
    <3>1. i \in am_addresses /\ i \in spent_addr.bits
      BY <2>1, <1>2 DEF BackedInv, am_addresses
    <3> QED
      BY <3>1, NextForgetsNothing
  <2>2. CASE ~(i < first_unspent_idx)
    <3>1. ASSUME NEW index \in Nat, am_get_address(index) PROVE FALSE
      BY <1>3, <3>1, <2>2 DEF am_get_address
    <3>2. ASSUME NEW index \in Index, am_mark_spent_address(index)
          PROVE  i \in spent_addr'.bits
      <4>1. index \in Nat
        BY MaxIndexAssumption DEF Index
      <4>2. PICK heap \in HeapBits(spent_addr', last_addr_index) :
              am_is_spent_address(spent_addr', heap, i)
        BY <1>3, <3>2, <4>1, <2>2, MarkOutcome DEF am_addresses
      <4>3. Backed(spent_addr', i) /\ spent_addr' \in bitmask_t /\ i \in Nat
        BY <1>1, <1>2 DEF AllBacked, am_addresses
      <4> QED
        BY <4>2, <4>3, BackedRead DEF am_is_spent_address
    <3>3. CASE UNCHANGED am
      BY <1>3, <3>3, <2>2 DEF am
    <3> QED
      BY <3>1, <3>2, <3>3, NextCases
  <2> QED
    BY <2>1, <2>2
<1> QED
  BY <1>1, <1>3 DEF BackedInv

\* With the mask that long no read leaves the buffer, and nothing unspent lies
\* below the start of am_unspent_addresses.
LEMMA BackedComplete ==
  AMTypeOK /\ WindowInsideIssued /\ BackedInv => UnspentListComplete
<1> SUFFICES ASSUME AMTypeOK, WindowInsideIssued, BackedInv,
                    NEW heap \in HeapBits(spent_addr, last_addr_index)
             PROVE  am_unspent_addresses(heap) = am_addresses \ spent_addr.bits
  BY DEF UnspentListComplete
<1> USE DEF AMTypeOK, WindowInsideIssued, am_addresses
<1>1. ASSUME NEW i \in am_addresses
      PROVE  am_is_spent_address(spent_addr, heap, i) <=> i \in spent_addr.bits
  BY BackedRead DEF am_is_spent_address, BackedInv, AllBacked
<1>2. ASSUME NEW i \in am_addresses, i \notin spent_addr.bits
      PROVE  i \in first_unspent_idx .. last_addr_index
  BY <1>2 DEF BackedInv
<1> QED
  BY <1>1, <1>2 DEF am_unspent_addresses

\* With a mask that covers the issued addresses from the start, and no failing
\* realloc, am_unspent_addresses lists every issued address not marked as
\* spent, and no other.
THEOREM UnspentListIsComplete ==
  ~ReallocMayFail => (BackedSpec => []UnspentListComplete)
<1> SUFFICES ASSUME ~ReallocMayFail PROVE BackedSpec => []UnspentListComplete
  OBVIOUS
<1> DEFINE IInv == AMTypeOK /\ WindowInsideIssued /\ BackedInv
<1>1. AMInit /\ AllBacked => IInv
  BY InitType, InitWindow, InitBacked
<1>2. IInv /\ [AMNext]_am => IInv'
  BY NextType, NextWindow, NextBacked
<1>3. IInv => UnspentListComplete
  BY BackedComplete
<1> QED
  BY <1>1, <1>2, <1>3, PTL DEF BackedSpec, BackedInit

\* One step keeps last_unspent_idx above every unspent issued address.
LEMMA NextTopBounds ==
  ASSUME ~ReallocMayFail, AMTypeOK, WindowInsideIssued, AllBacked, [AMNext]_am,
         TopBounds
  PROVE  TopBounds'
<1> USE DEF AMTypeOK, WindowInsideIssued
<1>1. AllBacked'
  BY NextAllBacked
<1>2. AMTypeOK'
  BY NextType
<1> SUFFICES ASSUME NEW i \in am_addresses', i > last_unspent_idx'
             PROVE  i \in spent_addr'.bits
  BY DEF TopBounds
<1>3. ASSUME NEW index \in Nat, am_get_address(index)
      PROVE  i \in spent_addr'.bits
  BY <1>3 DEF am_get_address, am_addresses, TopBounds
<1>4. ASSUME NEW index \in Index, am_mark_spent_address(index)
      PROVE  i \in spent_addr'.bits
  <2>1. index \in Nat
    BY MaxIndexAssumption DEF Index
  <2>2. i \in am_addresses
    BY <1>4, <2>1, MarkOutcome DEF am_addresses
  <2>3. CASE i > last_unspent_idx
    BY <2>2, <2>3, NextForgetsNothing DEF TopBounds
  <2>4. CASE ~(i > last_unspent_idx)
    <3>1. PICK heap \in HeapBits(spent_addr', last_addr_index) :
            am_is_spent_address(spent_addr', heap, i)
      BY <1>4, <2>1, <2>2, <2>4, MarkOutcome DEF am_addresses
    <3>2. Backed(spent_addr', i) /\ spent_addr' \in bitmask_t /\ i \in Nat
      BY <1>1, <1>2 DEF AllBacked, am_addresses
    <3> QED
      BY <3>1, <3>2, BackedRead DEF am_is_spent_address
  <2> QED
    BY <2>3, <2>4
<1>5. CASE UNCHANGED am
  BY <1>5 DEF am, am_addresses, TopBounds
<1> QED
  BY <1>3, <1>4, <1>5, NextCases

\* With such a mask and no failing realloc, no call makes am_get_last_unspent_address
\* return an address with an unspent one above it.
THEOREM TopStaysBound ==
  ~ReallocMayFail => (BackedSpec => TopBoundsKept)
<1> SUFFICES ASSUME ~ReallocMayFail PROVE BackedSpec => TopBoundsKept
  OBVIOUS
<1> DEFINE IInv == AMTypeOK /\ WindowInsideIssued /\ AllBacked
<1>1. AMInit /\ AllBacked => IInv
  BY InitType, InitWindow
<1>2. IInv /\ [AMNext]_am => IInv'
  BY NextType, NextWindow, NextAllBacked
<1>3. IInv /\ [AMNext]_am => [TopBounds => TopBounds']_am
  BY NextTopBounds
<1> QED
  BY <1>1, <1>2, <1>3, PTL DEF BackedSpec, BackedInit, TopBoundsKept

=============================================================================
