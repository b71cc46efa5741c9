------------------------------ MODULE Buffers ------------------------------
(***************************************************************************)
(* A user of utils/byte_buffer.c and utils/iota_str.c: any sequence of     *)
(* calls on one byte buffer or one string at a time, with allocations that *)
(* may fail at every call.                                                 *)
(***************************************************************************)
EXTENDS IotaStr

CONSTANTS
  Chunks,   \* the data passed to calls
  MaxLen    \* bound: the length of a buffer or string

ASSUME BuffersAssumption ==
  /\ Chunks \subseteq Seq(0 .. 255)
  /\ MaxLen \in Nat

VARIABLES
  buf,    \* the byte buffer, or Null
  str,    \* the string, or Null
  said,   \* what the successful calls on the string have put into it
  lost,   \* an append to the string has failed
  last,   \* the last call: what it was, its argument, what it returned
  res     \* the object or text it returned

vars == <<buf, str, said, lost, last, res>>

Live == res # Corrupted /\ str # Corrupted

Returns(call, arg, ok) == last' = [call |-> call, arg |-> arg, ok |-> ok]

Init ==
  /\ buf = Null /\ str = Null /\ said = <<>> /\ lost = FALSE
  /\ last = [call |-> "none", arg |-> <<>>, ok |-> TRUE]
  /\ res = Null

-----------------------------------------------------------------------------
(* The byte buffer.                                                        *)

HaveBuf == Live /\ buf # Null
BufCall == HaveBuf /\ UNCHANGED <<str, said, lost>>

\* A call that changes the buffer, with its possible outcomes.
Changing(call, arg, outcomes) ==
  /\ BufCall
  /\ \E r \in outcomes : buf' = r.buf /\ Returns(call, arg, r.ok)
  /\ res' = Null

Fits(n) == n <= MaxLen

New ==
  /\ Live /\ buf = Null /\ str = Null
  /\ buf' \in byte_buf_new
  /\ Returns("new", <<>>, TRUE) /\ res' = Null
  /\ UNCHANGED <<str, said, lost>>

NewWithData(s) ==
  /\ Live /\ buf = Null /\ str = Null
  /\ buf' \in byte_buf_new_with_data(s)
  /\ Returns("set", s, buf' # Null) /\ res' = Null
  /\ UNCHANGED <<str, said, lost>>

BufAppend(s) ==
  /\ Fits(buf.len + Len(s))
  /\ Changing("append", s, byte_buf_append(buf, s))
BufSet(s)    == Changing("set", s, byte_buf_set(buf, s))
BufReserve(n) == Changing("reserve", <<>>, byte_buf_reserve(buf, n))
BufToStr ==
  Changing("2str", <<>>, { [ok |-> TRUE, buf |-> b] : b \in byte_buf2str(buf) })

BufFree ==
  /\ BufCall
  /\ buf' = Null /\ Returns("free", <<>>, TRUE) /\ res' = Null

\* A call that returns an object of its own and leaves the buffer alone.
Converting(call, arg, outcomes) ==
  /\ BufCall
  /\ res' \in outcomes /\ Returns(call, arg, res' # Null)
  /\ UNCHANGED buf

BufClone(n) == Converting("clone", <<n>>, byte_buf_clonen(buf, n))
BufToHex    == Converting("hex", <<>>, byte_buf2hex_string(buf))
BufToBase64 == Converting("base64", <<>>, byte_buf2base64(buf))

\* base64_decode of the buffer as a text.
BufDecode ==
  /\ BufCall
  /\ LET src == Content(buf)
     IN  /\ Returns("decode", <<>>, DecodeValid(src))
         /\ res' = IF DecodeValid(src) THEN base64_decode(src) ELSE Null
  /\ UNCHANGED buf

-----------------------------------------------------------------------------
(* The string.                                                             *)

HaveStr == Live /\ str # Null
StrCall == HaveStr /\ res' = Null /\ UNCHANGED buf

StrNew(s) ==
  /\ Live /\ buf = Null /\ str = Null
  /\ str' \in iota_str_new(s)
  /\ said' = IF str' = Null THEN <<>> ELSE s
  /\ lost' = FALSE
  /\ Returns("str", <<>>, str' # Null) /\ res' = Null
  /\ UNCHANGED buf

StrAppend(s) ==
  /\ StrCall
  /\ Fits(str.len + Len(s))
  /\ str' \in iota_str_appendn(str, s)
  /\ lost' = (lost \/ str' = Corrupted \/ str'.buf = Null)
  /\ said' = IF lost' THEN said ELSE said \o s
  /\ Returns("str", <<>>, ~lost')

\* The caller goes on with a clone.  A string whose append failed is only
\* destroyed or appended to.
StrClone(n) ==
  /\ StrCall /\ ~lost
  /\ str' \in iota_str_clonen(str, n)
  /\ said' = IF str' = Null THEN <<>> ELSE SubSeq(said, 1, n)
  /\ UNCHANGED lost
  /\ Returns("str", <<>>, str' # Null)

StrDestroy ==
  /\ StrCall
  /\ str' = Null /\ said' = <<>> /\ lost' = FALSE
  /\ Returns("str", <<>>, TRUE)

-----------------------------------------------------------------------------
Next ==
  \/ New
  \/ \E s \in Chunks : NewWithData(s)
  \/ \E s \in Chunks : HaveBuf /\ BufAppend(s)
  \/ \E s \in Chunks : HaveBuf /\ BufSet(s)
  \/ \E n \in 0 .. MaxLen : HaveBuf /\ BufReserve(n)
  \/ HaveBuf /\ BufToStr
  \/ BufFree
  \/ \E n \in 0 .. MaxLen : HaveBuf /\ n <= buf.len /\ BufClone(n)
  \/ HaveBuf /\ BufToHex
  \/ HaveBuf /\ BufToBase64
  \/ BufDecode
  \/ \E s \in Chunks : StrNew(s)
  \/ \E s \in Chunks : StrAppend(s)
  \/ \E n \in 0 .. MaxLen : HaveStr /\ n <= str.len /\ StrClone(n)
  \/ StrDestroy

Spec == Init /\ [][Next]_vars

-----------------------------------------------------------------------------
(* Properties.                                                             *)

\* len and cap never promise more than is allocated, of the buffer and of
\* every object made from it, whatever allocation failed before.
Objects ==
  ({buf} \union { r \in {res} : last.call \in {"clone", "hex", "base64"} })
    \ {Null, Corrupted}

BuffersTypeOK ==
  /\ \A b \in Objects : InBlock(b)
  /\ last.ok \in BOOLEAN /\ lost \in BOOLEAN

\* The conversions lose nothing: what byte_buf2hex_string and byte_buf2base64
\* make decodes to the bytes of the buffer and is a C string; the size query
\* of base64_encode is exact; a clone is a prefix; base64_decode never writes
\* more than the size it asks for, whatever text it accepts.
IsText(b) == b.len < Len(b.data) /\ b.data[b.len + 1] = 0

Conversions ==
  buf # Null /\ res \notin {Null, Corrupted} =>
    LET src == Content(buf)
    IN  CASE last.call = "hex" ->
               IsText(res) /\ hex_decode_string(Content(res)) = src
          [] last.call = "base64" ->
               /\ IsText(res) /\ res.len + 1 = EncodeSize(src)
               /\ DecodeValid(Content(res))
               /\ base64_decode(Content(res)) = src
          [] last.call = "clone" -> Content(res) = SubSeq(src, 1, last.arg[1])
          [] last.call = "decode" -> Len(res) <= DecodeSize(src)
          [] OTHER -> TRUE

\* A string none of whose appends failed holds all that was put into it, with
\* a terminator inside its block.
StrFaithful == str \notin {Null, Corrupted} /\ ~lost => Holds(str, said)

\* The byte buffer implements a byte string: nothing of the old content is
\* lost when it grows, no uninitialised byte shows, and a call that reports
\* failure has changed nothing.
AsByteString ==
  INSTANCE ByteString WITH
    value <- IF buf = Null THEN <<>> ELSE Content(buf)

ImplementsByteString == AsByteString!Spec

(* Why these hold: the inductive invariant of the proofs, in parts.         *)

StrOK ==
  /\ str \in iota_str_t \union {Null, Corrupted}
  /\ said \in Seq(Byte)
  /\ StrFaithful

BuffersInv == BuffersTypeOK /\ (buf # Null => Sound(buf)) /\ StrOK
=============================================================================
