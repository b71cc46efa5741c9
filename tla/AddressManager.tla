--------------------------- MODULE AddressManager ---------------------------
(***************************************************************************)
(* wallet/address_manager.c: which addresses of a seed have been issued,   *)
(* which of them are spent, and the window first_unspent_idx ..            *)
(* last_unspent_idx the wallet works in.  An address is represented by its *)
(* index: address_get derives it from the seed and the index.              *)
(***************************************************************************)
EXTENDS Bitmask

CONSTANT MaxIndex   \* bound: no address above this index is issued or marked

ASSUME MaxIndexAssumption == MaxIndex \in Nat

VARIABLES
  last_addr_index,    \* the last issued address
  first_unspent_idx,
  last_unspent_idx,
  spent_addr          \* the mask of spent addresses

am == <<last_addr_index, first_unspent_idx, last_unspent_idx, spent_addr>>

Index == 0 .. MaxIndex

Least(S)    == { i \in S : \A j \in S : i <= j }
Greatest(S) == { i \in S : \A j \in S : j <= i }

-----------------------------------------------------------------------------
(* Creation.                                                               *)

\* am_new, then the three indices wallet_init overwrites: a mask with a spent
\* prefix, and a window inside the issued addresses.  wallet_init checks
\* neither its indices nor its seed; the model is of callers that give a seed
\* and the indices of a window.
InitFromIndices ==
  \E last \in Index : \E first, top \in 0 .. last :
    /\ last_addr_index = last
    /\ first_unspent_idx = first
    /\ last_unspent_idx = top
    /\ spent_addr = PrefixMask(first)

\* am_new with a mask of the caller, which it clones: of any size, and with
\* bits beyond the last address if the caller set them.
InitFromMask ==
  \E cap \in 1 .. byte_index(MaxIndex) + 1 :
  \E bits \in SUBSET { i \in Index : byte_index(i) < cap } :
    /\ last_addr_index \in Index
    /\ first_unspent_idx = 0
    /\ last_unspent_idx = 0
    /\ spent_addr = [cap |-> cap, bits |-> bits]

AMInit == InitFromIndices \/ InitFromMask

-----------------------------------------------------------------------------
(* Operations.                                                             *)

am_is_spent_address(mask, heap, index) == bitmask_get(mask, heap, index)

\* Mutation: a scan that runs one address too far.
UpdateFirst_PastLast(mask, heap) ==
  LET found == { i \in first_unspent_idx .. last_addr_index + 1 :
                   ~am_is_spent_address(mask, heap, i) }
  IN  IF found = {} THEN {first_unspent_idx} ELSE Least(found)

\* Mutation: a scan that keeps the last hit instead of the first.
UpdateFirst_LastHit(mask, heap) ==
  LET found == { i \in first_unspent_idx .. last_addr_index - 1 :
                   ~am_is_spent_address(mask, heap, i) }
  IN  IF found = {} THEN {first_unspent_idx} ELSE Greatest(found)

\* The first unspent index from the current one on; the scan stops before the
\* last address, and finding none leaves the index alone.
am_update_first_unspent_index(mask, heap) ==
  LET found == { i \in first_unspent_idx .. last_addr_index - 1 :
                   ~am_is_spent_address(mask, heap, i) }
  IN  IF found = {} THEN {first_unspent_idx} ELSE Least(found)

\* Mutation: without a hit the loop's last decrement is kept.
UpdateLast_StepsDown(mask, heap) ==
  LET found == { i \in 1 .. last_unspent_idx :
                   ~am_is_spent_address(mask, heap, i) }
  IN  IF found = {} THEN {last_unspent_idx - 1} ELSE Greatest(found)

\* The last unspent index from the current one down; the scan stops before 0.
am_update_last_unspent_index(mask, heap) ==
  LET found == { i \in 1 .. last_unspent_idx :
                   ~am_is_spent_address(mask, heap, i) }
  IN  IF found = {} THEN {last_unspent_idx} ELSE Greatest(found)

\* Mutation: >= for > in the test for a new address.
GetAddress_ClearsLast(index) ==
  /\ IF index >= last_addr_index
     THEN /\ spent_addr' \in bitmask_op(spent_addr, index, "CLEAR")
          /\ last_addr_index' = index
     ELSE UNCHANGED <<spent_addr, last_addr_index>>
  /\ last_unspent_idx' = IF index > last_unspent_idx THEN index
                                                     ELSE last_unspent_idx
  /\ UNCHANGED first_unspent_idx

\* Mutation: the last unspent index does not follow a new address.
GetAddress_TopStays(index) ==
  /\ IF index > last_addr_index
     THEN /\ spent_addr' \in bitmask_op(spent_addr, index, "CLEAR")
          /\ last_addr_index' = index
     ELSE UNCHANGED <<spent_addr, last_addr_index>>
  /\ UNCHANGED <<first_unspent_idx, last_unspent_idx>>

am_get_address(index) ==
  /\ IF index > last_addr_index
     THEN /\ spent_addr' \in bitmask_op(spent_addr, index, "CLEAR")
          /\ last_addr_index' = index
     ELSE UNCHANGED <<spent_addr, last_addr_index>>
  /\ last_unspent_idx' = IF index > last_unspent_idx THEN index
                                                     ELSE last_unspent_idx
  /\ UNCHANGED first_unspent_idx

am_get_new_address           == am_get_address(last_addr_index + 1)
am_get_first_unspent_address == am_get_address(first_unspent_idx)
am_get_last_unspent_address  == am_get_address(last_unspent_idx)

am_mark_spent_address(index) ==
  \E mask \in bitmask_op(spent_addr, index, "SET") :
  \E heap \in HeapBits(mask, last_addr_index) :
    /\ spent_addr' = mask
    /\ first_unspent_idx' \in
         IF index = first_unspent_idx
         THEN am_update_first_unspent_index(mask, heap)
         ELSE {first_unspent_idx}
    /\ last_unspent_idx' \in
         IF index = last_unspent_idx
         THEN am_update_last_unspent_index(mask, heap)
         ELSE {last_unspent_idx}
    /\ UNCHANGED last_addr_index

(* Lists of addresses, as the sets of their indices.                       *)

am_addresses == 0 .. last_addr_index

am_unspent_addresses(heap) ==
  { i \in first_unspent_idx .. last_addr_index :
      ~am_is_spent_address(spent_addr, heap, i) }

am_spent_addresses(heap) ==
  { i \in am_addresses : am_is_spent_address(spent_addr, heap, i) }

-----------------------------------------------------------------------------
(* Specification.                                                          *)

GetAddress(index) == index \in Index /\ am_get_address(index)
GetNewAddress     == last_addr_index < MaxIndex /\ am_get_new_address

AMNext ==
  \/ \E index \in Index : GetAddress(index)
  \/ GetNewAddress
  \/ am_get_first_unspent_address
  \/ am_get_last_unspent_address
  \/ \E index \in Index : am_mark_spent_address(index)

AMSpec == AMInit /\ [][AMNext]_am

\* Every issued address has its bit inside the buffer.
AllBacked == \A i \in am_addresses : Backed(spent_addr, i)

\* A manager whose mask covers the issued addresses from the start: a caller
\* of wallet_init whose last_addr lies in the byte of first_unspent - 1, or a
\* mask of the caller that is long enough.
BackedInit == AMInit /\ AllBacked
BackedSpec == BackedInit /\ [][AMNext]_am

-----------------------------------------------------------------------------
(* Properties.                                                             *)

AMTypeOK ==
  /\ last_addr_index \in Nat
  /\ first_unspent_idx \in Nat
  /\ last_unspent_idx \in Nat
  /\ spent_addr \in bitmask_t

\* The window never leaves the issued addresses, whatever is marked and even
\* when the mask cannot grow or is read past its end.  The remainder search
\* of wallet_build_outputs starts at first_unspent_idx and finds an address
\* only because of this.
WindowInsideIssued ==
  /\ first_unspent_idx <= last_addr_index
  /\ last_unspent_idx <= last_addr_index

\* An issued address once marked as spent stays so: am_get_address clears a
\* bit, and only that of an address issued by the same call.
SpentNeverForgotten ==
  [][ \A i \in am_addresses :
        i \in spent_addr.bits => i \in spent_addr'.bits ]_am

\* am_unspent_addresses starts at first_unspent_idx and still misses no
\* issued address that is not marked as spent (nor lists a spent one).
UnspentListComplete ==
  \A heap \in HeapBits(spent_addr, last_addr_index) :
    am_unspent_addresses(heap) = am_addresses \ spent_addr.bits

\* Why the list is complete: below first_unspent_idx every address is spent,
\* and no read of an issued address leaves the buffer.
BackedInv ==
  /\ AllBacked
  /\ \A i \in am_addresses : i < first_unspent_idx => i \in spent_addr.bits

\* Above last_unspent_idx every issued address is spent.
TopBounds ==
  \A i \in am_addresses : i > last_unspent_idx => i \in spent_addr.bits

\* No call loses that bound: am_update_last_unspent_index never skips an
\* unspent address on its way down.
TopBoundsKept == [][ TopBounds => TopBounds' ]_am
=============================================================================
