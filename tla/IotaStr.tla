------------------------------ MODULE IotaStr ------------------------------
(***************************************************************************)
(* utils/iota_str.c: a growing C string.  Pure operators over a string     *)
(* [len, cap, buf], where buf is the allocated block or Null.              *)
(***************************************************************************)
EXTENDS ByteBuffer

iota_str_t == [len : Nat, cap : Nat, buf : Block \union {Null}]

ASSUME IotaStrAssumption == Corrupted \notin iota_str_t

\* The string holds a text and its terminator, inside its block.
Holds(s, text) ==
  /\ s.buf # Null
  /\ s.len < s.cap /\ s.cap <= Len(s.buf)
  /\ SubSeq(s.buf, 1, s.len + 1) = text \o <<0>>

iota_str_new(s) ==
  OrNull({ [len |-> Len(s), cap |-> Len(s) + 1, buf |-> s \o <<0>>] })

\* Mutation: no room for the terminator.
Append_NoTerminator(istr, s) ==
  IF istr.len + Len(s) <= istr.cap
  THEN { [istr EXCEPT !.buf = Write(@, istr.len, s), !.len = @ + Len(s)] }
  ELSE { IF block = Null THEN [istr EXCEPT !.buf = Null]
         ELSE [len |-> istr.len + Len(s), cap |-> istr.len + Len(s),
               buf |-> Write(block, istr.len, s)] :
         block \in realloc(istr.buf, istr.len + Len(s)) }

\* A failed realloc replaces the only pointer to the old block, which is lost;
\* length and capacity stay.  The call has failed iff buf is Null.
iota_str_appendn(istr, s) ==
  LET needed_cap == istr.len + Len(s) + 1
      Put(block) == [len |-> istr.len + Len(s), cap |-> Len(block),
                     buf |-> Write(block, istr.len, s \o <<0>>)]
  IN  IF needed_cap <= istr.cap
      THEN { IF istr.buf = Null THEN Corrupted ELSE Put(istr.buf) }
      ELSE { IF block = Null THEN [istr EXCEPT !.buf = Null] ELSE Put(block) :
             block \in realloc(istr.buf, needed_cap) }

\* The block has the capacity of the source, whatever n is.
iota_str_clonen(istr, n) ==
  { IF block = Null THEN Null
    ELSE IF n + 1 > Len(block) THEN Corrupted
    ELSE [len |-> n, cap |-> n + 1,
          buf |-> Write(block, 0, SubSeq(istr.buf, 1, n) \o <<0>>)] :
    block \in malloc(istr.cap) }
=============================================================================
