------------------------------- MODULE Base64 -------------------------------
(***************************************************************************)
(* utils/base64.c, and the hexadecimal text of utils/byte_buffer.c and     *)
(* core/address.c: conversions between byte strings and text.  Bytes and   *)
(* characters are numbers, characters by their ASCII code.                 *)
(***************************************************************************)
EXTENDS Integers, Sequences, FiniteSets, SequencesExt

Space == 32
CR    == 13
LF    == 10
Pad   == 61          \* '='

CeilDiv(a, b) == (a + b - 1) \div b

-----------------------------------------------------------------------------
(* base64_encode.                                                          *)

base64_enc_map(digit) ==
  CASE digit < 26 -> 65 + digit
    [] digit \in 26 .. 51 -> 71 + digit
    [] digit \in 52 .. 61 -> digit - 4
    [] digit = 62 -> 43
    [] OTHER -> 47

\* The length the size query (dst = NULL) asks for: the text and a terminator.
EncodeSize(src) ==
  IF src = <<>> THEN 0 ELSE 4 * CeilDiv(Len(src), 3) + 1

\* Mutation: the padding starts a character early.
Encode_PadsEarly(src) ==
  [k \in 1 .. 4 * CeilDiv(Len(src), 3) |->
     LET first == 3 * ((k - 1) \div 4)
         C(j)  == IF first + j <= Len(src) THEN src[first + j] ELSE 0
     IN  CASE k % 4 = 1 -> base64_enc_map(C(1) \div 4)
           [] k % 4 = 2 -> base64_enc_map((C(1) % 4) * 16 + C(2) \div 16)
           [] k % 4 = 3 -> IF first + 2 >= Len(src) THEN Pad
                           ELSE base64_enc_map((C(2) % 16) * 4 + C(3) \div 64)
           [] k % 4 = 0 -> IF first + 3 > Len(src) THEN Pad
                           ELSE base64_enc_map(C(3) % 64)]

\* Four characters per group of three bytes; the bytes a last group lacks
\* count as 0 and are written as padding.
base64_encode(src) ==
  [k \in 1 .. 4 * CeilDiv(Len(src), 3) |->
     LET first == 3 * ((k - 1) \div 4)
         C(j)  == IF first + j <= Len(src) THEN src[first + j] ELSE 0
     IN  CASE k % 4 = 1 -> base64_enc_map(C(1) \div 4)
           [] k % 4 = 2 -> base64_enc_map((C(1) % 4) * 16 + C(2) \div 16)
           [] k % 4 = 3 -> IF first + 2 > Len(src) THEN Pad
                           ELSE base64_enc_map((C(2) % 16) * 4 + C(3) \div 64)
           [] k % 4 = 0 -> IF first + 3 > Len(src) THEN Pad
                           ELSE base64_enc_map(C(3) % 64)]

-----------------------------------------------------------------------------
(* base64_decode.                                                          *)

IsDigit(c) == \E d \in 0 .. 63 : base64_enc_map(d) = c
Digit(c)   == IF c = Pad THEN 0 ELSE CHOOSE d \in 0 .. 63 : base64_enc_map(d) = c

\* The elements of s at the positions in keep, in their order.
Kept(s, keep) ==
  FoldLeftDomain(LAMBDA kept, k : IF k \in keep THEN Append(kept, s[k]) ELSE kept, <<>>, s)

\* What the second pass does not skip.
Symbols(src) == Kept(src, { k \in DOMAIN src : src[k] \notin {Space, CR, LF} })
Pads(s)      == Cardinality({ i \in DOMAIN s : s[i] = Pad })

EndsLine(src, i) ==
  src[i] = LF \/ (src[i] = CR /\ i < Len(src) /\ src[i + 1] = LF)

\* The first pass: spaces only before the end of a line or of the text, at
\* most two padding characters, no digit behind one, and nothing else.
DecodeValid(src) ==
  /\ Pads(src) <= 2
  /\ \A i, j \in DOMAIN src : i < j /\ src[i] = Pad => ~IsDigit(src[j])
  /\ \A i \in DOMAIN src :
       \/ EndsLine(src, i) \/ src[i] = Pad \/ IsDigit(src[i])
       \/ /\ src[i] = Space
          /\ \A j \in i + 1 .. Len(src) :
               (\A k \in i .. j - 1 : src[k] = Space) =>
                 src[j] = Space \/ EndsLine(src, j)

\* The length the first pass promises, and dst must have.
DecodeSize(src) ==
  LET n == Len(Symbols(src))
  IN  IF n = 0 THEN 0
      ELSE 6 * (n \div 8) + (6 * (n % 8) + 7) \div 8 - Pads(src)

\* The second pass: each complete group of four symbols gives three bytes,
\* less one for every padding character so far.
base64_decode(src) ==
  LET s == Symbols(src)
      Group(g) ==
        LET d(i)  == Digit(s[4 * g + i])
            bytes == << d(1) * 4 + d(2) \div 16,
                        (d(2) % 16) * 16 + d(3) \div 4,
                        (d(3) % 4) * 64 + d(4) >>
        IN  SubSeq(bytes, 1, 3 - Pads(SubSeq(s, 1, 4 * g + 4)))
  IN  FlattenSeq([g \in 1 .. Len(s) \div 4 |-> Group(g - 1)])

-----------------------------------------------------------------------------
(* byte_buf2hex_string and hex_decode_string.                              *)

hex_table(n) == IF n < 10 THEN 48 + n ELSE 55 + n

hex_encode(src) ==
  [k \in 1 .. 2 * Len(src) |->
     LET byte == src[CeilDiv(k, 2)]
     IN  hex_table(IF k % 2 = 1 THEN byte \div 16 ELSE byte % 16)]

\* A letter counts in either case, and any other character as 0.
HexValue(c) ==
  CASE c \in 48 .. 57 -> c - 48
    [] c \in 65 .. 70 -> c - 55
    [] c \in 97 .. 102 -> c - 87
    [] OTHER -> 0

hex_decode_string(str) ==
  [i \in 1 .. Len(str) \div 2 |->
     16 * HexValue(str[2 * i - 1]) + HexValue(str[2 * i])]
=============================================================================
