------------------------------ MODULE Bitmask ------------------------------
(***************************************************************************)
(* utils/bitmask.c: a bit set that grows by whole bytes.  Pure operators   *)
(* over a mask value; the owner of the mask (the address manager) keeps it *)
(* in a variable.                                                          *)
(*                                                                         *)
(* An allocation can fail and a read can leave the buffer, so an operation *)
(* has a set of possible outcomes.                                         *)
(***************************************************************************)
EXTENDS Naturals

CONSTANTS
  ByteBits,        \* bits per byte: 8 in the code, small in the runs
  ReallocMayFail   \* whether realloc may return NULL

ASSUME BitmaskAssumption ==
  /\ ByteBits \in Nat \ {0}
  /\ ReallocMayFail \in BOOLEAN

\* cap bytes are allocated; bits holds the indices of the bits that are 1.
bitmask_t == [cap : Nat, bits : SUBSET Nat]

byte_index(index) == index \div ByteBits

\* The allocated bytes contain the bit.
Backed(mask, index) == byte_index(index) < mask.cap

bitmask_new == [cap |-> 1, bits |-> {}]

\* The mask with bits 0 .. n-1 set, as n calls of bitmask_op(BITMASK_SET) on
\* a new mask leave it.
PrefixMask(n) ==
  IF n = 0 THEN bitmask_new
           ELSE [cap |-> byte_index(n - 1) + 1, bits |-> 0 .. n - 1]

ApplyOp(bits, index, op) ==
  CASE op = "CLEAR"  -> bits \ {index}
    [] op = "SET"    -> bits \union {index}
    [] op = "TOGGLE" -> (bits \union {index}) \ (bits \intersect {index})

\* The masks an operation can leave: the new bytes are zeroed before the bit
\* is changed, and a failed realloc changes nothing.
bitmask_op(mask, index, op) ==
  { [cap  |-> IF Backed(mask, index) THEN mask.cap ELSE byte_index(index) + 1,
     bits |-> ApplyOp(mask.bits, index, op)] }
  \union { m \in {mask} : ReallocMayFail /\ ~Backed(mask, index) }

\* The bits up to the last index of interest that can read as 1 in the byte
\* behind the buffer: any of them.
HeapBits(mask, last) == SUBSET { i \in 0 .. last : byte_index(i) = mask.cap }

\* The range check lets byte_index = cap through, so the byte behind the
\* buffer is read there; heap is what it holds.
bitmask_get(mask, heap, index) ==
  \/ index \in mask.bits
  \/ byte_index(index) = mask.cap /\ index \in heap
=============================================================================
