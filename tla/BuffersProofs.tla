--------------------------- MODULE BuffersProofs ---------------------------
(***************************************************************************)
(* A byte buffer and a string under any sequence of calls, from the lemmas *)
(* about the operators.                                                    *)
(***************************************************************************)
EXTENDS Buffers, ByteBufferProofs, TLAPS

-----------------------------------------------------------------------------
(* The calls keep the invariant.                                           *)

LEMMA BuffersInit == Init => BuffersInv
<1> SUFFICES ASSUME Init PROVE BuffersInv
  OBVIOUS
<1>1. buf = Null /\ str = Null /\ said = <<>> /\ lost = FALSE /\ last.ok = TRUE
      /\ res = Null
  BY DEF Init
<1>2. Objects = {}
  BY <1>1 DEF Objects
<1>3. BuffersTypeOK
  BY <1>1, <1>2 DEF BuffersTypeOK
<1>4. StrOK
  BY <1>1 DEF StrOK, StrFaithful
<1> QED
  BY <1>1, <1>3, <1>4 DEF BuffersInv

\* A call on the byte buffer leaves the string alone, keeps a sound buffer
\* sound, and returns nothing but a C object whose length its block covers.
LEMMA BufferCall ==
  ASSUME BuffersInv, UNCHANGED <<str, said, lost>>, last'.ok \in BOOLEAN,
         buf' # Null => Sound(buf'),
         res' \in {Null, Corrupted} \/ InBlock(res')
           \/ last'.call \notin {"clone", "hex", "base64"}
  PROVE  BuffersInv'
<1>1. StrOK'
  BY DEF BuffersInv, StrOK, StrFaithful, Holds
<1>2. ASSUME NEW b \in Objects' PROVE InBlock(b)
  <2>1. CASE b = buf'
    BY <1>2, <2>1 DEF Objects, Sound
  <2>2. CASE b = res' /\ last'.call \in {"clone", "hex", "base64"}
    BY <1>2, <2>2 DEF Objects
  <2> QED
    BY <1>2, <2>1, <2>2 DEF Objects
<1>3. lost' \in BOOLEAN
  BY DEF BuffersInv, BuffersTypeOK
<1> QED
  BY <1>1, <1>2, <1>3 DEF BuffersInv, BuffersTypeOK

\* A call on the string leaves the buffer alone.
LEMMA StringCall ==
  ASSUME BuffersInv, buf' = buf, res' = Null, last'.ok \in BOOLEAN,
         lost' \in BOOLEAN, StrOK'
  PROVE  BuffersInv'
<1>1. ASSUME NEW b \in Objects' PROVE InBlock(b)
  <2>1. b = buf' /\ b # Null
    BY <1>1 DEF Objects
  <2> QED
    BY <2>1 DEF BuffersInv, Sound
<1> QED
  BY <1>1 DEF BuffersInv, BuffersTypeOK

\* The string's part of the invariant, after a call on it.
LEMMA StrOKIf ==
  ASSUME str' \in iota_str_t \union {Null, Corrupted}, said' \in Seq(Byte),
         str' \notin {Null, Corrupted} /\ ~lost' => Holds(str', said')
  PROVE  StrOK'
BY DEF StrOK, StrFaithful, Holds

\* The calls that change the byte buffer.
LEMMA ChangingKeeps ==
  ASSUME BuffersInv, NEW call, NEW arg, NEW outcomes, Changing(call, arg, outcomes),
         \A r \in outcomes : r.ok \in BOOLEAN /\ Sound(r.buf)
  PROVE  BuffersInv'
<1>1. PICK r \in outcomes : buf' = r.buf /\ Returns(call, arg, r.ok)
  BY DEF Changing
<1>2. last'.ok = r.ok
  BY <1>1 DEF Returns
<1>3. UNCHANGED <<str, said, lost>> /\ res' = Null
  BY DEF Changing, BufCall
<1> QED
  BY <1>1, <1>2, <1>3, BufferCall

\* The calls that return an object.
LEMMA ConvertingKeeps ==
  ASSUME BuffersInv, NEW call, NEW arg, NEW outcomes, Converting(call, arg, outcomes),
         \A c \in outcomes : c \in {Null, Corrupted} \/ InBlock(c)
  PROVE  BuffersInv'
<1>1. /\ res' \in {Null, Corrupted} \/ InBlock(res')
      /\ buf' = buf /\ UNCHANGED <<str, said, lost>>
      /\ last'.ok \in BOOLEAN
  BY DEF Converting, BufCall, Returns
<1>2. buf' # Null => Sound(buf')
  BY <1>1 DEF BuffersInv
<1> QED
  BY <1>1, <1>2, BufferCall

LEMMA ChunkOK == \A s \in Chunks : s \in Seq(Byte)
BY BuffersAssumption DEF Byte

LEMMA BuffersNext == BuffersInv /\ [Next]_vars => BuffersInv'
<1> SUFFICES ASSUME BuffersInv, [Next]_vars PROVE BuffersInv'
  OBVIOUS
<1> USE ChunkOK
<1>0. buf # Null => Sound(buf) /\ buf.len \in Nat
  BY DEF BuffersInv, Sound, byte_buf_t
<1>1. CASE New
  <2>1. buf' = Null \/ buf' = EmptyBuf
    BY <1>1 DEF New, byte_buf_new, OrNull
  <2> QED
    BY <1>1, <2>1, EmptyOK, BufferCall DEF New, Returns
<1>2. ASSUME NEW s \in Chunks, NewWithData(s) PROVE BuffersInv'
  <2>1. (buf' # Null) \in BOOLEAN /\ last'.ok = (buf' # Null)
    BY <1>2 DEF NewWithData, Returns
  <2>2. buf' # Null => Sound(buf')
    BY <1>2, NewWithDataOK DEF NewWithData
  <2> QED
    BY <1>2, <2>1, <2>2, BufferCall DEF NewWithData
<1>3. ASSUME NEW s \in Chunks, HaveBuf, BufAppend(s) PROVE BuffersInv'
  <2>1. \A r \in byte_buf_append(buf, s) : r.ok \in BOOLEAN /\ Sound(r.buf)
    BY <1>0, <1>3, AppendOK DEF HaveBuf
  <2> QED
    BY <1>3, <2>1, ChangingKeeps DEF BufAppend
<1>4. ASSUME NEW s \in Chunks, HaveBuf, BufSet(s) PROVE BuffersInv'
  <2>1. \A r \in byte_buf_set(buf, s) : r.ok \in BOOLEAN /\ Sound(r.buf)
    BY <1>0, <1>4, SetOK DEF HaveBuf
  <2> QED
    BY <1>4, <2>1, ChangingKeeps DEF BufSet
<1>5. ASSUME NEW n \in 0 .. MaxLen, HaveBuf, BufReserve(n) PROVE BuffersInv'
  <2>1. \A r \in byte_buf_reserve(buf, n) : r.ok \in BOOLEAN /\ Sound(r.buf)
    BY <1>0, <1>5, BuffersAssumption, ReserveOK DEF HaveBuf
  <2> QED
    BY <1>5, <2>1, ChangingKeeps DEF BufReserve
<1>6. CASE HaveBuf /\ BufToStr
  <2> DEFINE outcomes == { [ok |-> TRUE, buf |-> b] : b \in byte_buf2str(buf) }
  <2>1. ASSUME NEW r \in outcomes PROVE r.ok \in BOOLEAN /\ Sound(r.buf)
    <3>1. PICK b \in byte_buf2str(buf) : r = [ok |-> TRUE, buf |-> b]
      OBVIOUS
    <3>2. Sound(b)
      BY <1>0, <1>6, ToStrOK DEF HaveBuf
    <3> QED
      BY <3>1, <3>2
  <2>2. Changing("2str", <<>>, outcomes)
    BY <1>6 DEF BufToStr
  <2> HIDE DEF outcomes
  <2> QED
    BY <2>1, <2>2, ChangingKeeps
<1>7. CASE BufFree
  BY <1>7, BufferCall DEF BufFree, BufCall, Returns
<1>8. ASSUME NEW n \in 0 .. MaxLen, HaveBuf, n <= buf.len, BufClone(n) PROVE BuffersInv'
  <2>1. n \in 0 .. buf.len
    BY <1>0, <1>8, BuffersAssumption DEF HaveBuf
  <2>2. \A c \in byte_buf_clonen(buf, n) : c \in {Null, Corrupted} \/ InBlock(c)
    BY <1>0, <1>8, <2>1, CloneOK DEF HaveBuf
  <2> QED
    BY <1>8, <2>2, ConvertingKeeps DEF BufClone
<1>9. CASE HaveBuf /\ BufToHex
  <2>1. \A c \in byte_buf2hex_string(buf) : c \in {Null, Corrupted} \/ InBlock(c)
    BY <1>0, <1>9, HexOK DEF HaveBuf
  <2> QED
    BY <1>9, <2>1, ConvertingKeeps DEF BufToHex
<1>10. CASE HaveBuf /\ BufToBase64
  <2>1. \A c \in byte_buf2base64(buf) : c \in {Null, Corrupted} \/ InBlock(c)
    BY <1>0, <1>10, Base64OK DEF HaveBuf
  <2> QED
    BY <1>10, <2>1, ConvertingKeeps DEF BufToBase64
<1>11. CASE BufDecode
  <2>1. /\ last'.call = "decode" /\ last'.ok = DecodeValid(Content(buf))
        /\ buf' = buf /\ UNCHANGED <<str, said, lost>>
    BY <1>11 DEF BufDecode, BufCall, Returns
  <2>2. DecodeValid(Content(buf)) \in BOOLEAN
    BY DEF DecodeValid
  <2> QED
    BY <1>0, <2>1, <2>2, BufferCall
<1>12. ASSUME NEW s \in Chunks, StrNew(s) PROVE BuffersInv'
  <2>1. StrOK'
    <3>1. str' = Null \/ (str' \in iota_str_t /\ Holds(str', s))
      BY <1>12, StrNewOK DEF StrNew
    <3>2. said' = IF str' = Null THEN <<>> ELSE s
      BY <1>12 DEF StrNew
    <3>3. said' \in Seq(Byte)
      BY <3>2
    <3>4. str' # Null => Holds(str', said')
      BY <3>1, <3>2
    <3> QED
      BY <3>1, <3>3, <3>4, StrOKIf
  <2> QED
    BY <1>12, <2>1, StringCall DEF StrNew, Returns
<1>13. ASSUME NEW s \in Chunks, StrAppend(s) PROVE BuffersInv'
  <2>1. str \in iota_str_t /\ said \in Seq(Byte) /\ (~lost => Holds(str, said))
    BY <1>13 DEF StrAppend, StrCall, HaveStr, Live, BuffersInv, StrOK, StrFaithful
  <2>2. /\ str' \in iota_str_t \union {Corrupted}
        /\ \A text \in Seq(Byte) :
             Holds(str, text) /\ str' # Corrupted /\ str'.buf # Null
               => Holds(str', text \o s)
    BY <1>13, <2>1, StrAppendOK DEF StrAppend
  <2>3. lost' = (lost \/ str' = Corrupted \/ str'.buf = Null)
    BY <1>13 DEF StrAppend
  <2>4. said' = IF lost' THEN said ELSE said \o s
    BY <1>13 DEF StrAppend
  <2>5. lost' \in BOOLEAN
    BY <2>3
  <2>6. said' \in Seq(Byte)
    BY <2>1, <2>4
  <2>7. ~lost' => Holds(str', said')
    BY <2>1, <2>2, <2>3, <2>4
  <2>8. StrOK'
    BY <2>2, <2>6, <2>7, StrOKIf
  <2> QED
    BY <1>13, <2>5, <2>8, StringCall DEF StrAppend, StrCall, Returns
<1>14. ASSUME NEW n \in 0 .. MaxLen, HaveStr, n <= str.len, StrClone(n) PROVE BuffersInv'
  <2>1. str \in iota_str_t /\ said \in Seq(Byte) /\ Holds(str, said)
    BY <1>14 DEF StrClone, StrCall, HaveStr, Live, BuffersInv, StrOK, StrFaithful
  <2>2. str.len \in Nat /\ n \in 0 .. str.len
    BY <1>14, <2>1, BuffersAssumption DEF iota_str_t
  <2>3. /\ SubSeq(said, 1, n) \in Seq(Byte)
        /\ str' = Null \/ (str' \in iota_str_t /\ Holds(str', SubSeq(said, 1, n)))
    BY <1>14, <2>1, <2>2, StrCloneOK DEF StrClone
  <2>4. said' = IF str' = Null THEN <<>> ELSE SubSeq(said, 1, n)
    BY <1>14 DEF StrClone
  <2>5. said' \in Seq(Byte) /\ (str' # Null => Holds(str', said'))
    BY <2>3, <2>4
  <2>6. StrOK'
    BY <2>3, <2>5, StrOKIf
  <2>7. lost' = lost /\ lost \in BOOLEAN
    BY <1>14 DEF StrClone, BuffersInv, BuffersTypeOK
  <2> QED
    BY <1>14, <2>6, <2>7, StringCall DEF StrClone, StrCall, Returns
<1>15. CASE StrDestroy
  <2>1. StrOK'
    BY <1>15 DEF StrDestroy, StrOK, StrFaithful
  <2> QED
    BY <1>15, <2>1, StringCall DEF StrDestroy, StrCall, Returns
<1>16. CASE UNCHANGED vars
  BY <1>16 DEF vars, BuffersInv, BuffersTypeOK, Objects, StrOK, StrFaithful, Holds
<1> QED
  BY <1>1, <1>2, <1>3, <1>4, <1>5, <1>6, <1>7, <1>8, <1>9, <1>10, <1>11, <1>12,
     <1>13, <1>14, <1>15, <1>16 DEF Next

LEMMA BuffersInvariant == Spec => []BuffersInv
BY BuffersInit, BuffersNext, PTL DEF Spec

\* The length and the capacity of a buffer, and of every text and clone made
\* from it, stay within the allocated block, whichever allocations fail.
THEOREM BuffersTypeCorrect == Spec => []BuffersTypeOK
<1>1. BuffersInv => BuffersTypeOK
  BY DEF BuffersInv
<1> QED
  BY <1>1, BuffersInvariant, PTL

\* A string that reports no failed append holds all that was put into it, and
\* a terminator, inside its block.
THEOREM StringHoldsAll == Spec => []StrFaithful
<1>1. BuffersInv => StrFaithful
  BY DEF BuffersInv, StrOK
<1> QED
  BY <1>1, BuffersInvariant, PTL

-----------------------------------------------------------------------------
(* The byte buffer implements the byte string.                             *)

value == IF buf = Null THEN <<>> ELSE Content(buf)

LEMMA Refines == BuffersInv /\ [Next]_vars => [AsByteString!Next]_<<value, last>>
<1> SUFFICES ASSUME BuffersInv, [Next]_vars
             PROVE  [AsByteString!Next]_<<value, last>>
  OBVIOUS
<1> USE ChunkOK
<1>0. buf # Null => Sound(buf) /\ buf.len \in Nat
  BY DEF BuffersInv, Sound, byte_buf_t
\* A call that returns something and leaves the content.
<1>1. ASSUME value' = value, last'.call \notin {"append", "set", "2str", "free"}
      PROVE  [AsByteString!Next]_<<value, last>>
  BY <1>1 DEF AsByteString!Next, AsByteString!Look, value
<1>2. CASE New
  <2>1. buf = Null /\ (buf' = Null \/ buf' = EmptyBuf)
    BY <1>2 DEF New, byte_buf_new, OrNull
  <2>2. value' = value
    BY <2>1, EmptyOK DEF value
  <2>3. last'.call = "new"
    BY <1>2 DEF New, Returns
  <2> QED
    BY <1>1, <2>2, <2>3
<1>3. ASSUME NEW s \in Chunks, NewWithData(s)
      PROVE  [AsByteString!Next]_<<value, last>>
  <2>1. value' = IF buf' # Null THEN s ELSE value
    BY <1>3, NewWithDataOK DEF NewWithData, value
  <2>2. (buf' # Null) \in BOOLEAN
    OBVIOUS
  <2>3. AsByteString!Assign(s, buf' # Null)
    BY <1>3, <2>1
       DEF NewWithData, Returns, AsByteString!Assign, AsByteString!Reports, value
  <2> QED
    BY <2>2, <2>3 DEF AsByteString!Next
<1>4. ASSUME NEW s \in Chunks, HaveBuf, BufAppend(s)
      PROVE  [AsByteString!Next]_<<value, last>>
  <2>1. PICK r \in byte_buf_append(buf, s) : buf' = r.buf /\ Returns("append", s, r.ok)
    BY <1>4 DEF BufAppend, Changing
  <2>2. /\ r.ok \in BOOLEAN /\ Sound(r.buf)
        /\ Content(r.buf) = IF r.ok THEN Content(buf) \o s ELSE Content(buf)
    BY <1>0, <1>4, AppendOK DEF HaveBuf
  <2>3. r.buf # Null
    BY <2>2, ByteBufferAssumption DEF Sound
  <2>4. AsByteString!Extend(s, r.ok)
    BY <1>4, <2>1, <2>2, <2>3
       DEF HaveBuf, Returns, AsByteString!Extend, AsByteString!Reports, value
  <2> QED
    BY <2>2, <2>4 DEF AsByteString!Next
<1>5. ASSUME NEW s \in Chunks, HaveBuf, BufSet(s)
      PROVE  [AsByteString!Next]_<<value, last>>
  <2>1. PICK r \in byte_buf_set(buf, s) : buf' = r.buf /\ Returns("set", s, r.ok)
    BY <1>5 DEF BufSet, Changing
  <2>2. /\ r.ok \in BOOLEAN /\ Sound(r.buf)
        /\ Content(r.buf) = IF r.ok THEN s ELSE Content(buf)
    BY <1>0, <1>5, SetOK DEF HaveBuf
  <2>3. r.buf # Null
    BY <2>2, ByteBufferAssumption DEF Sound
  <2>4. AsByteString!Assign(s, r.ok)
    BY <1>5, <2>1, <2>2, <2>3
       DEF HaveBuf, Returns, AsByteString!Assign, AsByteString!Reports, value
  <2> QED
    BY <2>2, <2>4 DEF AsByteString!Next
<1>6. ASSUME NEW n \in 0 .. MaxLen, HaveBuf, BufReserve(n)
      PROVE  [AsByteString!Next]_<<value, last>>
  <2>1. PICK r \in byte_buf_reserve(buf, n) :
          buf' = r.buf /\ Returns("reserve", <<>>, r.ok)
    BY <1>6 DEF BufReserve, Changing
  <2>2. /\ Sound(buf) /\ Sound(r.buf) /\ r.buf.len = buf.len
        /\ \A i \in 1 .. buf.len : r.buf.data[i] = buf.data[i]
    BY <1>0, <1>6, BuffersAssumption, ReserveOK DEF HaveBuf
  <2>3. buf # Null /\ r.buf # Null
    BY <2>2, ByteBufferAssumption DEF Sound
  <2>4. value' = value
    BY <2>1, <2>2, <2>3, SameContent DEF value
  <2>5. last'.call = "reserve"
    BY <2>1 DEF Returns
  <2> QED
    BY <1>1, <2>4, <2>5
<1>7. CASE HaveBuf /\ BufToStr
  <2>1. PICK c \in byte_buf2str(buf) : buf' = c /\ Returns("2str", <<>>, TRUE)
    <3> DEFINE outcomes == { [ok |-> TRUE, buf |-> b] : b \in byte_buf2str(buf) }
    <3>1. PICK r \in outcomes : buf' = r.buf /\ Returns("2str", <<>>, r.ok)
      <4>1. Changing("2str", <<>>, outcomes)
        BY <1>7 DEF BufToStr
      <4> HIDE DEF outcomes
      <4> QED
        BY <4>1 DEF Changing
    <3>2. PICK c \in byte_buf2str(buf) : r = [ok |-> TRUE, buf |-> c]
      OBVIOUS
    <3> QED
      BY <3>1, <3>2
  <2>2. /\ Sound(c)
        /\ Content(c) \in {Content(buf), Content(buf) \o << 0 >>}
        /\ Content(buf) # <<>> /\ Content(buf)[Len(Content(buf))] = 0
             => Content(c) = Content(buf)
    BY <1>0, <1>7, ToStrOK DEF HaveBuf
  <2>3. c # Null
    BY <2>2, ByteBufferAssumption DEF Sound
  <2>4. value = Content(buf) /\ value' = Content(c)
    BY <1>7, <2>1, <2>3 DEF HaveBuf, value
  <2>5. AsByteString!Terminate
    BY <2>1, <2>2, <2>4
       DEF Returns, AsByteString!Terminate, AsByteString!Reports, value
  <2> QED
    BY <2>5 DEF AsByteString!Next
<1>8. CASE BufFree
  <2>1. AsByteString!Clear
    BY <1>8 DEF BufFree, Returns, AsByteString!Clear, AsByteString!Reports
  <2> QED
    BY <2>1 DEF AsByteString!Next
<1>9. ASSUME NEW call \in {"clone", "hex", "base64"}, NEW arg, NEW outcomes,
             Converting(call, arg, outcomes)
      PROVE  [AsByteString!Next]_<<value, last>>
  <2>1. buf' = buf /\ last'.call = call
    BY <1>9 DEF Converting, Returns
  <2>2. value' = value
    BY <2>1 DEF value, Content
  <2> QED
    BY <1>1, <2>1, <2>2
<1>10. ASSUME NEW n \in 0 .. MaxLen, BufClone(n)
       PROVE  [AsByteString!Next]_<<value, last>>
  BY <1>9, <1>10 DEF BufClone
<1>11. CASE BufToHex
  BY <1>9, <1>11 DEF BufToHex
<1>12. CASE BufToBase64
  BY <1>9, <1>12 DEF BufToBase64
<1>13. ASSUME buf' = buf, last'.call \in {"decode", "str"}
       PROVE  [AsByteString!Next]_<<value, last>>
  <2>1. value' = value
    BY <1>13 DEF value, Content
  <2> QED
    BY <1>1, <1>13, <2>1
<1>14. CASE BufDecode
  BY <1>13, <1>14 DEF BufDecode, Returns
<1>15. ASSUME NEW s \in Chunks, StrNew(s) PROVE [AsByteString!Next]_<<value, last>>
  BY <1>13, <1>15 DEF StrNew, Returns
<1>16. ASSUME NEW s \in Chunks, StrAppend(s) PROVE [AsByteString!Next]_<<value, last>>
  BY <1>13, <1>16 DEF StrAppend, StrCall, Returns
<1>17. ASSUME NEW n \in 0 .. MaxLen, StrClone(n) PROVE [AsByteString!Next]_<<value, last>>
  BY <1>13, <1>17 DEF StrClone, StrCall, Returns
<1>18. CASE StrDestroy
  BY <1>13, <1>18 DEF StrDestroy, StrCall, Returns
<1>19. CASE UNCHANGED vars
  BY <1>19 DEF vars, value, Content
<1> QED
  BY <1>2, <1>3, <1>4, <1>5, <1>6, <1>7, <1>8, <1>10, <1>11, <1>12, <1>14, <1>15,
     <1>16, <1>17, <1>18, <1>19 DEF Next

\* The byte buffer behaves as a byte string: it keeps its content when it
\* grows, shows no uninitialised byte, and a call that reports failure has
\* changed nothing.
THEOREM BuffersImplementByteString == Spec => ImplementsByteString
<1>1. Init => AsByteString!Init
  BY DEF Init, AsByteString!Init
<1>2. BuffersInv /\ [Next]_vars
        => [AsByteString!Next]_<<IF buf = Null THEN <<>> ELSE Content(buf), last>>
  BY Refines DEF value
<1> QED
  BY <1>1, <1>2, BuffersInvariant, PTL DEF Spec, ImplementsByteString, AsByteString!Spec

-----------------------------------------------------------------------------
(* What is made from the buffer.                                            *)

\* A text with its terminator is shown without it.
LEMMA TextShown ==
  ASSUME NEW s \in Seq(Byte), NEW c,
         c = [len |-> Len(s), cap |-> Len(s) + 1, data |-> s \o << 0 >>]
  PROVE  IsText(c) /\ Content(c) = s
<1> DEFINE d == s \o << 0 >>
<1>1. << 0 >> \in Seq(Byte) /\ Len(<< 0 >>) = 1 /\ << 0 >>[1] = 0
  BY DEF Byte
<1>2. /\ Len(s) \in Nat /\ d \in Seq(Byte) /\ Len(d) = Len(s) + 1
      /\ \A i \in 1 .. Len(s) : d[i] = s[i]
      /\ d[Len(s) + 1] = 0
  BY <1>1
<1>3. d # Null
  <2>1. d \in Block
    BY <1>2, SeqMonotonic DEF Block
  <2> QED
    BY <2>1, ByteBufferAssumption
<1>4. c.len = Len(s) /\ c.data = d
  OBVIOUS
<1> HIDE DEF d
<1>5. Content(c) = [i \in 1 .. Len(s) |-> s[i]]
  BY <1>2, <1>3, <1>4 DEF Content
<1>6. s = [i \in 1 .. Len(s) |-> s[i]]
  BY SeqDef
<1>7. Content(c) = s
  BY <1>5, <1>6
<1>8. Len(s) < Len(d) /\ d[Len(s) + 1] = 0
  BY <1>2
<1>9. IsText(c)
  BY <1>4, <1>8, Zenon DEF IsText
<1> QED
  BY <1>7, <1>9

\* The hexadecimal text decodes to the buffer.
LEMMA HexTells ==
  ASSUME NEW b, Sound(b), NEW c \in byte_buf2hex_string(b), c # Corrupted
  PROVE  IsText(c) /\ hex_decode_string(Content(c)) = Content(b)
<1> DEFINE s == hex_encode(Content(b))
<1>1. Content(b) \in Seq(Byte) /\ Len(Content(b)) = b.len
  BY ContentOK
<1>2. s \in Seq(Byte) /\ Len(s) = 2 * b.len
  BY <1>1, HexLength
<1>3. c = [len |-> 2 * b.len, cap |-> 2 * b.len + 1, data |-> s \o << 0 >>]
  BY DEF byte_buf2hex_string
<1>4. hex_decode_string(s) = Content(b)
  BY <1>1, HexRoundTrip
<1> HIDE DEF s
<1>5. IsText(c) /\ Content(c) = s
  BY <1>2, <1>3, TextShown
<1> QED
  BY <1>4, <1>5

\* The base64 text decodes to the buffer, and has the size that was asked for.
LEMMA Base64Tells ==
  ASSUME NEW b, Sound(b), NEW c \in byte_buf2base64(b), c # Null
  PROVE  /\ IsText(c) /\ c.len + 1 = EncodeSize(Content(b))
         /\ DecodeValid(Content(c)) /\ base64_decode(Content(c)) = Content(b)
<1> DEFINE s == base64_encode(Content(b))
<1>1. Content(b) \in Seq(Byte)
  BY ContentOK
<1>2. /\ c = [len |-> Len(s), cap |-> Len(s) + 1, data |-> s \o << 0 >>]
      /\ EncodeSize(Content(b)) = Len(s) + 1
  BY Base64Is
<1>3. s \in Seq(Byte) /\ DecodeValid(s) /\ base64_decode(s) = Content(b)
  BY <1>1, Base64Length, EncodedValid, Base64RoundTrip
<1> HIDE DEF s
<1>4. IsText(c) /\ Content(c) = s
  BY <1>2, <1>3, TextShown
<1>5. c.len = Len(s)
  BY <1>2
<1> QED
  BY <1>2, <1>3, <1>4, <1>5

\* A call that returns nothing has converted nothing.
LEMMA NothingConverted == res' = Null => Conversions'
BY DEF Conversions

\* What a call that returns something says of it.
LEMMA Converted ==
  ASSUME NEW call, NEW arg, NEW outcomes, Converting(call, arg, outcomes)
  PROVE  /\ buf # Null /\ buf' = buf
         /\ last'.call = call /\ last'.arg = arg
         /\ res' \in outcomes
BY DEF Converting, BufCall, HaveBuf, Returns

\* After every call, what it returned tells the buffer.
LEMMA ConversionsNext == BuffersInv /\ Next => Conversions'
<1> SUFFICES ASSUME BuffersInv, Next PROVE Conversions'
  OBVIOUS
<1>1. buf # Null => Sound(buf) /\ buf.len \in Nat
  BY DEF BuffersInv, Sound, byte_buf_t
<1>2. ASSUME NEW n \in 0 .. MaxLen, HaveBuf, n <= buf.len, BufClone(n) PROVE Conversions'
  <2>1. /\ buf # Null /\ buf' = buf /\ last'.call = "clone" /\ last'.arg = << n >>
        /\ res' \in byte_buf_clonen(buf, n)
    BY <1>2, Converted DEF BufClone
  <2>2. n \in 0 .. buf.len
    BY <1>1, <1>2, <2>1, BuffersAssumption
  <2>3. res' \notin {Null, Corrupted} => Content(res') = SubSeq(Content(buf), 1, n)
    BY <1>1, <2>1, <2>2, CloneOK
  <2>4. last'.arg[1] = n
    BY <2>1
  <2>5. res' \notin {Null, Corrupted} => Content(res') = SubSeq(Content(buf'), 1, last'.arg[1])
    BY <2>1, <2>3, <2>4
  <2> QED
    BY <2>1, <2>5 DEF Conversions
<1>3. CASE HaveBuf /\ BufToHex
  <2>1. /\ buf # Null /\ buf' = buf /\ last'.call = "hex"
        /\ res' \in byte_buf2hex_string(buf)
    BY <1>3, Converted DEF BufToHex
  <2>2. res' # Corrupted => IsText(res') /\ hex_decode_string(Content(res')) = Content(buf)
    BY <1>1, <2>1, HexTells
  <2>3. res' # Corrupted => IsText(res') /\ hex_decode_string(Content(res')) = Content(buf')
    BY <2>1, <2>2
  <2> QED
    BY <2>1, <2>3 DEF Conversions
<1>4. CASE HaveBuf /\ BufToBase64
  <2>1. /\ buf # Null /\ buf' = buf /\ last'.call = "base64"
        /\ res' \in byte_buf2base64(buf)
    BY <1>4, Converted DEF BufToBase64
  <2>2. res' # Null =>
          /\ IsText(res') /\ res'.len + 1 = EncodeSize(Content(buf))
          /\ DecodeValid(Content(res')) /\ base64_decode(Content(res')) = Content(buf)
    BY <1>1, <2>1, Base64Tells
  <2>3. res' # Null =>
          /\ IsText(res') /\ res'.len + 1 = EncodeSize(Content(buf'))
          /\ DecodeValid(Content(res')) /\ base64_decode(Content(res')) = Content(buf')
    BY <2>1, <2>2
  <2> QED
    BY <2>1, <2>3 DEF Conversions
<1>5. CASE BufDecode
  <2> DEFINE src == Content(buf)
  <2>1. buf # Null /\ buf' = buf /\ last'.call = "decode"
    BY <1>5 DEF BufDecode, BufCall, HaveBuf, Returns
  <2>2. res' = IF DecodeValid(src) THEN base64_decode(src) ELSE Null
    BY <1>5 DEF BufDecode
  <2>3. src \in Seq(Byte)
    BY <1>1, <2>1, ContentOK
  <2>4. res' # Null => Len(res') <= DecodeSize(src)
    BY <2>2, <2>3, DecodeFits
  <2>5. res' # Null => Len(res') <= DecodeSize(Content(buf'))
    BY <2>1, <2>4
  <2> QED
    BY <2>1, <2>5 DEF Conversions
<1>6. CASE New \/ BufFree \/ StrDestroy
  BY <1>6, NothingConverted DEF New, BufFree, StrDestroy, StrCall
<1>7. CASE \E s \in Chunks :
             NewWithData(s) \/ BufAppend(s) \/ BufSet(s) \/ StrNew(s) \/ StrAppend(s)
  BY <1>7, NothingConverted
     DEF NewWithData, BufAppend, BufSet, Changing, StrNew, StrAppend, StrCall
<1>8. CASE BufToStr \/ \E n \in 0 .. MaxLen : BufReserve(n) \/ StrClone(n)
  BY <1>8, NothingConverted DEF BufToStr, BufReserve, Changing, StrClone, StrCall
<1> QED
  BY <1>2, <1>3, <1>4, <1>5, <1>6, <1>7, <1>8 DEF Next

\* The conversions lose nothing, for every content of the buffer: its
\* hexadecimal and its base64 text decode to it, base64_encode writes exactly
\* the size it asked for, a clone is a prefix, and base64_decode writes no more
\* than it asked for, whatever text it accepts.
THEOREM ConversionsLossless == Spec => []Conversions
<1>1. Init => Conversions
  BY DEF Init, Conversions
<1>2. Conversions /\ UNCHANGED vars => Conversions'
  BY DEF Conversions, vars, Content, IsText
<1>3. BuffersInv /\ Conversions /\ [Next]_vars => Conversions'
  BY <1>2, ConversionsNext
<1> QED
  BY <1>1, <1>3, BuffersInvariant, PTL DEF Spec
=============================================================================
