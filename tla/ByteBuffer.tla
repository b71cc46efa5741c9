----------------------------- MODULE ByteBuffer -----------------------------
(***************************************************************************)
(* utils/byte_buffer.c: a growing buffer.  Pure operators; the owner of a  *)
(* buffer keeps it in a variable.                                          *)
(*                                                                         *)
(* data is the allocated block, a sequence of exactly the allocated        *)
(* length, or Null.  What an allocation leaves uninitialised is Junk.  An  *)
(* allocation can fail, so an operation has a set of possible outcomes.    *)
(* Elements are bytes, or in a model of a user of this module any value    *)
(* that stands for a run of bytes; 0 is the terminator.                    *)
(***************************************************************************)
EXTENDS Base64

CONSTANTS
  Null,          \* the NULL pointer
  Junk,          \* an uninitialised byte
  Corrupted,     \* the outcome of a write outside a block
  AllocMayFail   \* whether malloc and realloc may return NULL

Byte  == 0 .. 255
Block == Seq(Byte \union {Junk})

byte_buf_t == [len : Nat, cap : Nat, data : Block \union {Null}]

\* NULL and the outcome of a bad write are no objects.
ASSUME ByteBufferAssumption ==
  /\ AllocMayFail \in BOOLEAN
  /\ Null # Corrupted
  /\ \A p \in {Null, Corrupted} : p \notin Block \union byte_buf_t

\* The length and the capacity are inside the block, and what the length covers
\* is initialised.
InBlock(b) ==
  /\ b.len \in Nat /\ b.cap \in Nat
  /\ b.len <= b.cap
  /\ b.cap <= IF b.data = Null THEN 0 ELSE Len(b.data)

Sound(b) ==
  /\ b \in byte_buf_t /\ InBlock(b)
  /\ \A i \in 1 .. b.len : b.data[i] \in Byte

\* The outcomes of a call whose own allocation can fail.
OrNull(outcomes) == outcomes \union { p \in {Null} : AllocMayFail }

malloc(n) == OrNull({ [i \in 1 .. n |-> Junk] })

realloc(data, n) ==
  OrNull({ [i \in 1 .. n |-> IF data # Null /\ i <= Len(data) THEN data[i] ELSE Junk] })

\* memcpy of the elements s behind the first at elements of a block.
Write(data, at, s) ==
  IF s = <<>> THEN data
  ELSE [i \in 1 .. Len(data) |->
          IF i - at \in 1 .. Len(s) THEN s[i - at] ELSE data[i]]

\* What a reader of len elements gets.
Content(buf) ==
  [i \in 1 .. buf.len |->
     IF buf.data # Null /\ i <= Len(buf.data) THEN buf.data[i] ELSE Junk]

-----------------------------------------------------------------------------
EmptyBuf == [len |-> 0, cap |-> 0, data |-> Null]

byte_buf_new == OrNull({EmptyBuf})

byte_buf_new_with_data(s) ==
  OrNull({ [len |-> Len(s), cap |-> Len(s), data |-> s] })

\* Mutation: the capacity is recorded although realloc failed.
Reserve_CapFirst(buf, n) ==
  IF buf.cap >= n THEN { [ok |-> TRUE, buf |-> buf] }
  ELSE { IF block = Null
           THEN [ok |-> FALSE, buf |-> [buf EXCEPT !.cap = n]]
           ELSE [ok |-> TRUE, buf |-> [buf EXCEPT !.data = block, !.cap = n]] :
         block \in realloc(buf.data, n) }

\* Mutation: malloc in the place of realloc.
Reserve_Fresh(buf, n) ==
  IF buf.cap >= n THEN { [ok |-> TRUE, buf |-> buf] }
  ELSE { IF block = Null
           THEN [ok |-> FALSE, buf |-> buf]
           ELSE [ok |-> TRUE, buf |-> [buf EXCEPT !.data = block, !.cap = n]] :
         block \in malloc(n) }

\* A failed realloc leaves the old block in place.
byte_buf_reserve(buf, n) ==
  IF buf.cap >= n THEN { [ok |-> TRUE, buf |-> buf] }
  ELSE { IF block = Null
           THEN [ok |-> FALSE, buf |-> buf]
           ELSE [ok |-> TRUE, buf |-> [buf EXCEPT !.data = block, !.cap = n]] :
         block \in realloc(buf.data, n) }

\* s overwrites the buffer from element at on and becomes its end.
PutAt(buf, at, s) ==
  { IF r.ok THEN [ok |-> TRUE, buf |-> [r.buf EXCEPT !.data = Write(@, at, s),
                                                     !.len = at + Len(s)]]
            ELSE r :
    r \in byte_buf_reserve(buf, at + Len(s)) }

byte_buf_set(buf, s)    == PutAt(buf, 0, s)
byte_buf_append(buf, s) == PutAt(buf, buf.len, s)

\* The last element is read before the length is checked: of a block of which
\* nothing is used, the byte in front of it is read.  A failed append is not
\* reported.
EndsWith0(buf) == IF buf.len = 0 THEN BOOLEAN ELSE { buf.data[buf.len] = 0 }

byte_buf2str(buf) ==
  IF buf = Null THEN {Null}
  ELSE IF buf.data = Null THEN {buf}
  ELSE UNION { IF terminated THEN {buf}
               ELSE { r.buf : r \in byte_buf_append(buf, <<0>>) } :
               terminated \in EndsWith0(buf) }

\* The block has the length of the source, whatever n is.
byte_buf_clonen(buf, n) ==
  { IF block = Null THEN Null
    ELSE IF n > Len(block) THEN Corrupted
    ELSE [len |-> n, cap |-> n, data |-> Write(block, 0, SubSeq(Content(buf), 1, n))] :
    block \in malloc(buf.len) }

\* Neither allocation is checked.
byte_buf2hex_string(buf) ==
  { [len |-> 2 * buf.len, cap |-> 2 * buf.len + 1,
     data |-> hex_encode(Content(buf)) \o <<0>>] }
    \union { p \in {Corrupted} : AllocMayFail }

\* base64_encode itself finds a block too small, or none.
byte_buf2base64(buf) ==
  IF buf.len = 0 THEN {Null}
  ELSE OrNull(
    { IF r.buf.cap < EncodeSize(Content(buf)) THEN Null
      ELSE [r.buf EXCEPT !.len = 4 * CeilDiv(buf.len, 3),
                         !.data = base64_encode(Content(buf)) \o <<0>>] :
      r \in byte_buf_reserve(EmptyBuf, EncodeSize(Content(buf))) })
=============================================================================
