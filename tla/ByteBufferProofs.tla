------------------------- MODULE ByteBufferProofs -------------------------
(***************************************************************************)
(* The operators of ByteBuffer, IotaStr and Base64 for every input, any    *)
(* length, and any allocation failing: what a buffer shows and a string    *)
(* holds after each, and the hexadecimal and the base64 text of any bytes. *)
(***************************************************************************)
EXTENDS IotaStr, FoldProofs, TLAPS, SequenceTheorems, FiniteSetTheorems

-----------------------------------------------------------------------------
(* The operators of byte_buffer.c.                                         *)

\* A function on 1 .. n is a sequence of length n.
LEMMA IsSeq ==
  ASSUME NEW S, NEW n \in Nat, NEW f \in [1 .. n -> S]
  PROVE  f \in Seq(S) /\ Len(f) = n
BY SeqDef

\* What a buffer shows are as many initialised bytes as its length says.
LEMMA ContentOK ==
  ASSUME NEW b, Sound(b)
  PROVE  /\ Content(b) \in Seq(Byte) /\ Len(Content(b)) = b.len
         /\ \A i \in 1 .. b.len : Content(b)[i] = b.data[i]
<1>1. b.len \in Nat /\ b.cap \in Nat /\ b.len <= b.cap
  BY DEF Sound, InBlock
<1>2. ASSUME NEW i \in 1 .. b.len
      PROVE  b.data # Null /\ i <= Len(b.data) /\ b.data[i] \in Byte
  <2>1. b.data # Null /\ b.cap <= Len(b.data)
    BY <1>1, <1>2 DEF Sound, InBlock
  <2>2. b.data \in Block
    BY <2>1 DEF Sound, byte_buf_t
  <2>3. Len(b.data) \in Nat
    BY <2>2 DEF Block
  <2> QED
    BY <1>1, <1>2, <2>1, <2>3 DEF Sound
<1>3. Content(b) = [i \in 1 .. b.len |-> b.data[i]]
  BY <1>2 DEF Content
<1>4. Content(b) \in [1 .. b.len -> Byte]
  BY <1>2, <1>3
<1> QED
  BY <1>1, <1>3, <1>4, IsSeq

\* memcpy into a block.
LEMMA WriteOK ==
  ASSUME NEW data \in Block, NEW at \in Nat, NEW s \in Seq(Byte)
  PROVE  LET w == Write(data, at, s)
         IN  /\ w \in Block /\ Len(w) = Len(data)
             /\ \A i \in 1 .. Len(data) :
                  w[i] = IF i - at \in 1 .. Len(s) THEN s[i - at] ELSE data[i]
<1> DEFINE w == Write(data, at, s)
           E == Byte \union {Junk}
<1>1. Len(data) \in Nat /\ Len(s) \in Nat /\ data \in [1 .. Len(data) -> E]
      /\ s \in [1 .. Len(s) -> Byte]
  BY DEF Block
<1>2. CASE s = <<>>
  <2>1. w = data /\ Len(s) = 0
    BY <1>2 DEF Write
  <2> QED
    BY <1>1, <2>1
<1>3. CASE s # <<>>
  <2>1. w = [i \in 1 .. Len(data) |->
               IF i - at \in 1 .. Len(s) THEN s[i - at] ELSE data[i]]
    BY <1>3 DEF Write
  <2> HIDE DEF w
  <2>2. w \in [1 .. Len(data) -> E]
    BY <1>1, <2>1
  <2>3. w \in Seq(E) /\ Len(w) = Len(data)
    <3> HIDE DEF E
    <3> QED
      BY <1>1, <2>2, IsSeq
  <2> QED
    BY <2>1, <2>3 DEF Block, w
<1> QED
  BY <1>2, <1>3

\* A block that realloc or malloc returns has the length asked for, and
\* realloc keeps what was in the old one.
LEMMA NewBlockOK ==
  ASSUME NEW data \in Block \union {Null}, NEW n \in Nat, NEW block,
         block = [i \in 1 .. n |-> IF data # Null /\ i <= Len(data) THEN data[i] ELSE Junk]
  PROVE  /\ block \in Block /\ Len(block) = n /\ block # Null
         /\ \A i \in 1 .. n : data # Null /\ i <= Len(data) => block[i] = data[i]
<1> DEFINE E == Byte \union {Junk}
           old(i) == data # Null /\ i <= Len(data)
           f == [i \in 1 .. n |-> IF old(i) THEN data[i] ELSE Junk]
<1>1. block = f
  OBVIOUS
<1>2. ASSUME NEW i \in 1 .. n PROVE f[i] \in E /\ (old(i) => f[i] = data[i])
  <2>1. CASE old(i)
    <3>1. data \in Seq(E)
      BY <2>1 DEF Block
    <3>2. data[i] \in E
      <4> HIDE DEF E
      <4> QED
        BY <2>1, <3>1
    <3> QED
      BY <2>1, <3>2
  <2>2. CASE ~old(i)
    BY <2>2
  <2> QED
    BY <2>1, <2>2
<1>3. f \in [1 .. n -> E]
  <2> HIDE DEF E, old
  <2> QED
    BY <1>2
<1> HIDE DEF E, f
<1>4. f \in Seq(E) /\ Len(f) = n
  BY <1>3, IsSeq
<1>5. block \in Block
  BY <1>1, <1>4 DEF Block, E
<1>6. block # Null
  BY <1>5, ByteBufferAssumption
<1> QED
  BY <1>1, <1>2, <1>4, <1>5, <1>6

LEMMA ReallocOK ==
  ASSUME NEW data \in Block \union {Null}, NEW n \in Nat,
         NEW block \in realloc(data, n), block # Null
  PROVE  /\ block \in Block /\ Len(block) = n
         /\ \A i \in 1 .. n : data # Null /\ i <= Len(data) => block[i] = data[i]
<1>1. block = [i \in 1 .. n |-> IF data # Null /\ i <= Len(data) THEN data[i] ELSE Junk]
  BY DEF realloc, OrNull
<1> QED
  BY <1>1, NewBlockOK

LEMMA MallocOK ==
  ASSUME NEW n \in Nat, NEW block \in malloc(n), block # Null
  PROVE  block \in Block /\ Len(block) = n
<1> DEFINE E == Byte \union {Junk}
           f == [i \in 1 .. n |-> Junk]
<1>1. block = f
  BY DEF malloc, OrNull
<1>2. f \in [1 .. n -> E]
  OBVIOUS
<1> HIDE DEF E, f
<1>3. f \in Seq(E) /\ Len(f) = n
  BY <1>2, IsSeq
<1> QED
  BY <1>1, <1>3 DEF Block, E

\* A larger capacity keeps the content, and a failed realloc the buffer.
LEMMA ReserveOK ==
  ASSUME NEW b, Sound(b), NEW n \in Nat, NEW r \in byte_buf_reserve(b, n)
  PROVE  /\ r.ok \in BOOLEAN
         /\ Sound(r.buf) /\ r.buf.len = b.len
         /\ \A i \in 1 .. b.len : r.buf.data[i] = b.data[i]
         /\ r.ok => r.buf.cap >= n
         /\ r.buf.cap \in {b.cap, n}
         /\ ~r.ok => r.buf = b
<1>1. b.cap \in Nat /\ b.len \in Nat /\ b.data \in Block \union {Null} /\ b.len <= b.cap
  BY DEF Sound, byte_buf_t, InBlock
<1>2. CASE r = [ok |-> TRUE, buf |-> b] /\ b.cap >= n
  BY <1>2
<1>3. CASE r = [ok |-> FALSE, buf |-> b]
  BY <1>3
<1>4. CASE b.cap < n /\ \E block \in realloc(b.data, n) :
             block # Null /\ r = [ok |-> TRUE, buf |-> [b EXCEPT !.data = block, !.cap = n]]
  <2>1. PICK block \in realloc(b.data, n) :
          block # Null /\ r = [ok |-> TRUE, buf |-> [b EXCEPT !.data = block, !.cap = n]]
    BY <1>4
  <2>2. /\ block \in Block /\ Len(block) = n
        /\ \A i \in 1 .. n : b.data # Null /\ i <= Len(b.data) => block[i] = b.data[i]
    BY <1>1, <2>1, ReallocOK
  <2> DEFINE c == [b EXCEPT !.data = block, !.cap = n]
  <2>3. c \in byte_buf_t /\ c.len = b.len /\ c.cap = n /\ c.data = block
    BY <1>1, <2>2 DEF Sound, byte_buf_t
  <2>4. r.ok /\ r.buf = c
    BY <2>1
  <2> HIDE DEF c
  <2>5. ASSUME NEW i \in 1 .. b.len PROVE c.data[i] = b.data[i] /\ b.data[i] \in Byte
    <3>1. b.data # Null /\ b.cap <= Len(b.data)
      BY <1>1 DEF Sound, InBlock
    <3>2. Len(b.data) \in Nat
      BY <1>1, <3>1 DEF Block
    <3> QED
      BY <1>1, <1>4, <2>2, <2>3, <3>1, <3>2 DEF Sound
  <2>6. Sound(c)
    BY <1>1, <1>4, <2>1, <2>2, <2>3, <2>5 DEF Sound, InBlock
  <2> QED
    BY <2>3, <2>4, <2>5, <2>6
<1>5. CASE b.cap >= n
  BY <1>2, <1>5 DEF byte_buf_reserve
<1>6. CASE b.cap < n
  <2>0. ~(b.cap >= n)
    BY <1>1, <1>6
  <2>1. PICK block \in realloc(b.data, n) :
          r = IF block = Null THEN [ok |-> FALSE, buf |-> b]
              ELSE [ok |-> TRUE, buf |-> [b EXCEPT !.data = block, !.cap = n]]
    BY <2>0, Zenon DEF byte_buf_reserve
  <2> QED
    BY <1>3, <1>4, <1>6, <2>1
<1> QED
  BY <1>1, <1>5, <1>6

\* byte_buf_append and byte_buf_set keep what is in front of the place they
\* write to, if there is memory, and change nothing otherwise.
LEMMA PutOK ==
  ASSUME NEW b, Sound(b), NEW at \in 0 .. b.len, NEW s \in Seq(Byte),
         NEW r \in PutAt(b, at, s)
  PROVE  /\ r.ok \in BOOLEAN /\ Sound(r.buf)
         /\ ~r.ok => r.buf = b
         /\ r.ok => /\ r.buf.len = at + Len(s)
                    /\ \A i \in 1 .. at : r.buf.data[i] = b.data[i]
                    /\ \A i \in 1 .. Len(s) : r.buf.data[at + i] = s[i]
<1> DEFINE n == at + Len(s)
           Put(q) == [q.buf EXCEPT !.data = Write(@, at, s), !.len = n]
<1>1. b.len \in Nat /\ at \in Nat /\ at <= b.len /\ Len(s) \in Nat /\ n \in Nat
  BY DEF Sound, byte_buf_t
<1>2. PICK q \in byte_buf_reserve(b, n) :
        r = IF q.ok THEN [ok |-> TRUE, buf |-> Put(q)] ELSE q
  BY Zenon DEF PutAt
<1>3. /\ q.ok \in BOOLEAN
      /\ Sound(q.buf) /\ q.buf.len = b.len
      /\ \A i \in 1 .. b.len : q.buf.data[i] = b.data[i]
      /\ q.ok => q.buf.cap >= n
      /\ ~q.ok => q.buf = b
  <2> HIDE DEF n
  <2> QED
    BY <1>1, <1>2, ReserveOK
<1>4. CASE ~q.ok
  <2>1. r = q
    BY <1>2, <1>4
  <2> QED
    BY <1>3, <1>4, <2>1
<1>5. CASE q.ok
  <2> DEFINE c == q.buf
             w == Write(c.data, at, s)
  <2>1. r = [ok |-> TRUE, buf |-> Put(q)]
    BY <1>2, <1>5
  <2>2. r.ok /\ r.buf = [c EXCEPT !.data = w, !.len = n]
    BY <2>1
  <2>3. /\ c \in byte_buf_t /\ c.cap \in Nat /\ c.cap >= n
        /\ c.cap <= IF c.data = Null THEN 0 ELSE Len(c.data)
        /\ c.data # Null => c.data \in Block /\ Len(c.data) \in Nat
    <3>1. c.data \in Block \union {Null}
      BY <1>3 DEF Sound, byte_buf_t
    <3> QED
      BY <1>3, <1>5, <3>1 DEF Sound, InBlock, byte_buf_t, Block
  <2> HIDE DEF c
  <2>4. /\ w \in Block \union {Null}
        /\ c.cap <= IF w = Null THEN 0 ELSE Len(w)
        /\ \A i \in 1 .. at : w[i] = c.data[i]
        /\ \A i \in 1 .. Len(s) : w[at + i] = s[i]
    <3>1. CASE s = <<>>
      <4>1. w = c.data
        BY <3>1 DEF Write
      <4>2. Len(s) = 0
        BY <3>1
      <4> HIDE DEF w
      <4> QED
        BY <2>3, <4>1, <4>2
    <3>2. CASE s # <<>>
      <4>1. Len(s) > 0
        BY <3>2
      <4>2. c.data # Null /\ c.data \in Block /\ n <= Len(c.data)
        BY <1>1, <2>3, <4>1
      <4>3. /\ w \in Block /\ Len(w) = Len(c.data)
            /\ \A i \in 1 .. Len(c.data) :
                 w[i] = IF i - at \in 1 .. Len(s) THEN s[i - at] ELSE c.data[i]
        BY <1>1, <4>2, WriteOK
      <4>4. w # Null
        BY <4>3, ByteBufferAssumption
      <4> HIDE DEF w
      <4>5. ASSUME NEW i \in 1 .. at PROVE w[i] = c.data[i]
        BY <1>1, <2>3, <4>2, <4>3
      <4>6. ASSUME NEW i \in 1 .. Len(s) PROVE w[at + i] = s[i]
        <5>1. at + i \in 1 .. Len(c.data) /\ at + i - at = i
          BY <1>1, <2>3, <4>2
        <5> QED
          BY <4>3, <5>1
      <4> QED
        BY <2>3, <4>2, <4>3, <4>4, <4>5, <4>6
    <3> QED
      BY <3>1, <3>2
  <2> HIDE DEF w
  <2>5. r.buf \in byte_buf_t /\ r.buf.len = n /\ r.buf.cap = c.cap /\ r.buf.data = w
    BY <1>1, <2>2, <2>3, <2>4 DEF byte_buf_t
  <2>6. \A i \in 1 .. at : r.buf.data[i] = b.data[i] /\ b.data[i] \in Byte
    BY <1>1, <1>3, <2>4, <2>5 DEF c, Sound
  <2>7. ASSUME NEW i \in 1 .. n PROVE r.buf.data[i] \in Byte
    <3>1. CASE i <= at
      BY <1>1, <2>6, <3>1
    <3>2. CASE i > at
      <4>1. i - at \in 1 .. Len(s) /\ at + (i - at) = i
        BY <1>1, <3>2
      <4>2. r.buf.data[i] = s[i - at]
        BY <2>4, <2>5, <4>1
      <4> QED
        BY <4>1, <4>2
    <3> QED
      BY <1>1, <3>1, <3>2
  <2>8. Sound(r.buf)
    BY <1>1, <2>3, <2>4, <2>5, <2>7 DEF Sound, InBlock
  <2> QED
    BY <2>2, <2>4, <2>5, <2>6, <2>8
<1> QED
  BY <1>3, <1>4, <1>5

\* Two buffers with the same elements show the same.
LEMMA SameContent ==
  ASSUME NEW b, Sound(b), NEW c, Sound(c), c.len = b.len,
         \A i \in 1 .. b.len : c.data[i] = b.data[i]
  PROVE  Content(c) = Content(b)
<1>1. /\ Content(b) \in Seq(Byte) /\ Len(Content(b)) = b.len
      /\ \A i \in 1 .. b.len : Content(b)[i] = b.data[i]
  BY ContentOK
<1>2. /\ Content(c) \in Seq(Byte) /\ Len(Content(c)) = c.len
      /\ \A i \in 1 .. c.len : Content(c)[i] = c.data[i]
  BY ContentOK
<1> QED
  BY <1>1, <1>2, SeqEqual

\* What a buffer shows after byte_buf_append.
LEMMA AppendOK ==
  ASSUME NEW b, Sound(b), NEW s \in Seq(Byte), NEW r \in byte_buf_append(b, s)
  PROVE  /\ r.ok \in BOOLEAN /\ Sound(r.buf)
         /\ Content(r.buf) = IF r.ok THEN Content(b) \o s ELSE Content(b)
         /\ ~r.ok => r.buf = b
         /\ r.ok => r.buf.len = b.len + Len(s)
<1>1. b.len \in Nat /\ b.len \in 0 .. b.len /\ r \in PutAt(b, b.len, s)
  BY DEF Sound, byte_buf_t, byte_buf_append
<1>2. /\ r.ok \in BOOLEAN /\ Sound(r.buf)
      /\ ~r.ok => r.buf = b
      /\ r.ok => /\ r.buf.len = b.len + Len(s)
                 /\ \A i \in 1 .. b.len : r.buf.data[i] = b.data[i]
                 /\ \A i \in 1 .. Len(s) : r.buf.data[b.len + i] = s[i]
  <2> DEFINE at == b.len
  <2>1. at \in 0 .. b.len /\ r \in PutAt(b, at, s) /\ at = b.len
    BY <1>1
  <2> HIDE DEF at
  <2> QED
    BY <1>1, <2>1, PutOK
<1>3. CASE ~r.ok
  BY <1>2, <1>3
<1>4. CASE r.ok
  <2> DEFINE c == Content(b)
             d == Content(r.buf)
  <2>1. c \in Seq(Byte) /\ Len(c) = b.len /\ \A i \in 1 .. b.len : c[i] = b.data[i]
    BY ContentOK
  <2>2. /\ d \in Seq(Byte) /\ Len(d) = r.buf.len
        /\ \A i \in 1 .. r.buf.len : d[i] = r.buf.data[i]
    BY <1>2, ContentOK
  <2> HIDE DEF c, d
  <2>3. /\ c \o s \in Seq(Byte) /\ Len(c \o s) = Len(c) + Len(s)
        /\ \A i \in 1 .. Len(c) + Len(s) :
             (c \o s)[i] = IF i <= Len(c) THEN c[i] ELSE s[i - Len(c)]
    BY <2>1, ConcatProperties
  <2>4. Len(s) \in Nat /\ Len(d) \in Nat /\ Len(d) = Len(c \o s)
    BY <1>2, <1>4, <2>1, <2>2, <2>3
  <2>5. ASSUME NEW i \in 1 .. Len(d) PROVE d[i] = (c \o s)[i]
    <3>1. CASE i <= b.len
      BY <1>1, <1>2, <1>4, <2>1, <2>2, <2>3, <2>4, <3>1
    <3>2. CASE i > b.len
      <4>1. i - b.len \in 1 .. Len(s) /\ b.len + (i - b.len) = i
        BY <1>1, <1>2, <1>4, <2>2, <2>4, <3>2
      <4>2. d[i] = s[i - b.len]
        BY <1>2, <1>4, <2>2, <4>1
      <4>3. (c \o s)[i] = s[i - b.len]
        BY <1>1, <1>2, <1>4, <2>1, <2>2, <2>3, <3>2
      <4> QED
        BY <4>2, <4>3
    <3> QED
      BY <1>1, <2>4, <3>1, <3>2
  <2>6. d = c \o s
    <3> DEFINE cs == c \o s
    <3>1. cs \in Seq(Byte) /\ Len(d) = Len(cs) /\ \A i \in 1 .. Len(d) : d[i] = cs[i]
      BY <2>3, <2>4, <2>5
    <3> HIDE DEF cs
    <3>2. d = cs
      BY <2>2, <3>1, SeqEqual
    <3> QED
      BY <3>2 DEF cs
  <2> QED
    BY <1>2, <1>4, <2>6 DEF c, d
<1> QED
  BY <1>2, <1>3, <1>4

\* What a buffer shows after byte_buf_set.
LEMMA SetOK ==
  ASSUME NEW b, Sound(b), NEW s \in Seq(Byte), NEW r \in byte_buf_set(b, s)
  PROVE  /\ r.ok \in BOOLEAN /\ Sound(r.buf)
         /\ Content(r.buf) = IF r.ok THEN s ELSE Content(b)
<1>1. b.len \in Nat /\ 0 \in 0 .. b.len /\ r \in PutAt(b, 0, s) /\ Len(s) \in Nat
  BY DEF Sound, byte_buf_t, byte_buf_set
<1>2. /\ r.ok \in BOOLEAN /\ Sound(r.buf)
      /\ ~r.ok => r.buf = b
      /\ r.ok => /\ r.buf.len = Len(s)
                 /\ \A i \in 1 .. Len(s) : r.buf.data[i] = s[i]
  BY <1>1, PutOK
<1>3. CASE ~r.ok
  BY <1>2, <1>3
<1>4. CASE r.ok
  <2>1. /\ Content(r.buf) \in Seq(Byte) /\ Len(Content(r.buf)) = r.buf.len
        /\ \A i \in 1 .. r.buf.len : Content(r.buf)[i] = r.buf.data[i]
    BY <1>2, ContentOK
  <2> QED
    BY <1>2, <1>4, <2>1, SeqEqual
<1> QED
  BY <1>2, <1>3, <1>4

\* byte_buf2str leaves a terminated content alone, and adds at most one 0.
LEMMA ToStrOK ==
  ASSUME NEW b, Sound(b), NEW c \in byte_buf2str(b)
  PROVE  /\ Sound(c)
         /\ Content(c) \in {Content(b), Content(b) \o << 0 >>}
         /\ Content(b) # <<>> /\ Content(b)[Len(Content(b))] = 0 => Content(c) = Content(b)
<1>1. b # Null
  BY ByteBufferAssumption DEF Sound
<1>2. \/ c = b
      \/ \E t \in EndsWith0(b) : ~t /\ \E r \in byte_buf_append(b, << 0 >>) : c = r.buf
  BY <1>1, Zenon DEF byte_buf2str
<1>3. CASE c = b
  BY <1>3
<1>4. CASE \E t \in EndsWith0(b) : ~t /\ \E r \in byte_buf_append(b, << 0 >>) : c = r.buf
  <2>1. << 0 >> \in Seq(Byte)
    BY DEF Byte
  <2>2. PICK r \in byte_buf_append(b, << 0 >>) : c = r.buf
    BY <1>4
  <2>3. /\ r.ok \in BOOLEAN /\ Sound(r.buf)
        /\ Content(r.buf) = IF r.ok THEN Content(b) \o << 0 >> ELSE Content(b)
    BY <2>1, AppendOK
  <2>4. Content(b) # <<>> => Content(b)[Len(Content(b))] # 0
    <3>1. /\ Content(b) \in Seq(Byte) /\ Len(Content(b)) = b.len
          /\ \A i \in 1 .. b.len : Content(b)[i] = b.data[i]
      BY ContentOK
    <3>2. Content(b) # <<>> => b.len # 0 /\ b.len \in 1 .. b.len
      BY <3>1
    <3>3. b.len # 0 => b.data[b.len] # 0
      BY <1>4, Zenon DEF EndsWith0
    <3> QED
      BY <3>1, <3>2, <3>3
  <2> QED
    BY <2>2, <2>3, <2>4
<1> QED
  BY <1>2, <1>3, <1>4

\* A block of the length of the text and its terminator.
LEMMA TextInBlock ==
  ASSUME NEW s \in Seq(Byte), NEW c,
         c = [len |-> Len(s), cap |-> Len(s) + 1, data |-> s \o << 0 >>]
  PROVE  InBlock(c)
<1> DEFINE d == s \o << 0 >>
<1>1. << 0 >> \in Seq(Byte) /\ Len(<< 0 >>) = 1
  BY DEF Byte
<1>2. d \in Seq(Byte) /\ Len(d) = Len(s) + 1
  BY <1>1, ConcatProperties
<1>3. d \in Block
  BY <1>2, SeqMonotonic DEF Block
<1>4. d # Null /\ Len(s) \in Nat
  <2> HIDE DEF d
  <2> QED
    BY <1>3, ByteBufferAssumption
<1> HIDE DEF d
<1>5. c.len = Len(s) /\ c.cap = Len(s) + 1 /\ c.data = d
  BY DEF d
<1>6. c.len \in Nat /\ c.cap \in Nat /\ c.len <= c.cap
  BY <1>4, <1>5
<1>7. c.data # Null /\ c.cap = Len(c.data)
  BY <1>2, <1>4, <1>5
<1>8. c.cap <= (IF c.data = Null THEN 0 ELSE Len(c.data))
  BY <1>6, <1>7
<1> QED
  BY <1>6, <1>8, Zenon DEF InBlock

\* A clone is no longer than its block and shows the first bytes of the buffer.
LEMMA CloneOK ==
  ASSUME NEW b, Sound(b), NEW n \in 0 .. b.len, NEW c \in byte_buf_clonen(b, n),
         c \notin {Null, Corrupted}
  PROVE  InBlock(c) /\ Content(c) = SubSeq(Content(b), 1, n)
<1> DEFINE t == SubSeq(Content(b), 1, n)
           w(block) == Write(block, 0, t)
<1>1. /\ b.len \in Nat /\ n \in Nat /\ n <= b.len
      /\ Content(b) \in Seq(Byte) /\ Len(Content(b)) = b.len
  BY ContentOK DEF Sound, byte_buf_t
<1>2. t \in Seq(Byte) /\ Len(t) = n
  BY <1>1, SubSeqProperties
<1>3. PICK block \in malloc(b.len) :
        c = IF block = Null THEN Null
            ELSE IF n > Len(block) THEN Corrupted
            ELSE [len |-> n, cap |-> n, data |-> w(block)]
  BY Zenon DEF byte_buf_clonen
<1>4. block # Null
  BY <1>3
<1>5. block \in Block /\ Len(block) = b.len
  BY <1>1, <1>4, MallocOK
<1> DEFINE d == w(block)
<1>6. c = [len |-> n, cap |-> n, data |-> d]
  BY <1>1, <1>3, <1>4, <1>5
<1>7. /\ d \in Block /\ Len(d) = b.len
      /\ \A i \in 1 .. b.len : d[i] = IF i - 0 \in 1 .. Len(t) THEN t[i - 0] ELSE block[i]
  <2> HIDE DEF t
  <2>1. 0 \in Nat
    OBVIOUS
  <2>2. /\ d \in Block /\ Len(d) = Len(block)
        /\ \A i \in 1 .. Len(block) : d[i] = IF i - 0 \in 1 .. Len(t) THEN t[i - 0] ELSE block[i]
    BY <1>2, <1>5, <2>1, WriteOK, Zenon
  <2> QED
    BY <1>5, <2>2
<1> HIDE DEF d, t
<1>8. \A i \in 1 .. n : d[i] = t[i] /\ i <= Len(d)
  BY <1>1, <1>2, <1>7
<1>9. c.len = n /\ c.cap = n /\ c.data = d /\ d # Null
  BY <1>6, <1>7, ByteBufferAssumption
<1>10. Content(c) = [i \in 1 .. n |-> t[i]]
  BY <1>8, <1>9 DEF Content
<1>11. t = [i \in 1 .. n |-> t[i]]
  BY <1>2, SeqDef
<1>12. InBlock(c)
  BY <1>1, <1>7, <1>9 DEF InBlock
<1> QED
  BY <1>10, <1>11, <1>12 DEF t

\* Two characters for each byte.
LEMMA HexLength ==
  ASSUME NEW s \in Seq(Byte)
  PROVE  hex_encode(s) \in Seq(Byte) /\ Len(hex_encode(s)) = 2 * Len(s)
<1>1. 2 * Len(s) \in Nat
  OBVIOUS
<1>2. ASSUME NEW k \in 1 .. 2 * Len(s)
      PROVE  hex_encode(s)[k] \in Byte
  <2> DEFINE j == CeilDiv(k, 2)
  <2>1. j \in 1 .. Len(s)
    BY DEF CeilDiv
  <2>2. s[j] \in Byte
    <3> HIDE DEF j
    <3> QED
      BY <2>1
  <2> DEFINE byte == s[j]
             digit == IF k % 2 = 1 THEN byte \div 16 ELSE byte % 16
  <2>3. digit \in 0 .. 15
    <3>1. byte \in 0 .. 255
      BY <2>2 DEF Byte
    <3> HIDE DEF byte
    <3> QED
      BY <3>1
  <2>4. hex_encode(s)[k] = hex_table(digit)
    BY DEF hex_encode
  <2> HIDE DEF digit
  <2> QED
    BY <2>3, <2>4 DEF hex_table, Byte
<1>3. hex_encode(s) \in [1 .. 2 * Len(s) -> Byte]
  BY <1>2 DEF hex_encode
<1> QED
  BY <1>1, <1>3, IsSeq

\* The block of the hexadecimal text holds it and a terminator.
LEMMA HexOK ==
  ASSUME NEW b, Sound(b), NEW c \in byte_buf2hex_string(b)
  PROVE  c = Corrupted \/ InBlock(c)
<1>1. Content(b) \in Seq(Byte) /\ Len(Content(b)) = b.len
  BY ContentOK
<1> DEFINE s == hex_encode(Content(b))
<1>2. s \in Seq(Byte) /\ Len(s) = 2 * b.len
  BY <1>1, HexLength
<1>3. \/ c = Corrupted
      \/ c = [len |-> 2 * b.len, cap |-> 2 * b.len + 1, data |-> s \o << 0 >>]
  BY DEF byte_buf2hex_string
<1> HIDE DEF s
<1> QED
  BY <1>2, <1>3, TextInBlock

\* The alphabet of base64 is ASCII.
LEMMA AlphabetOK ==
  ASSUME NEW d \in 0 .. 63
  PROVE  base64_enc_map(d) \in Byte
<1>1. CASE d < 26
  BY <1>1 DEF base64_enc_map, Byte
<1>2. CASE d \in 26 .. 51
  BY <1>2 DEF base64_enc_map, Byte
<1>3. CASE d \in 52 .. 61
  BY <1>3 DEF base64_enc_map, Byte
<1>4. CASE d = 62
  BY <1>4 DEF base64_enc_map, Byte
<1>5. CASE d = 63
  BY <1>5 DEF base64_enc_map, Byte
<1> QED
  BY <1>1, <1>2, <1>3, <1>4, <1>5

\* Four characters for each group of three bytes.
LEMMA Base64Length ==
  ASSUME NEW s \in Seq(Byte)
  PROVE  LET m == 4 * CeilDiv(Len(s), 3)
         IN  m \in Nat /\ base64_encode(s) \in Seq(Byte) /\ Len(base64_encode(s)) = m
<1> DEFINE m == 4 * CeilDiv(Len(s), 3)
<1>1. m \in Nat
  BY DEF CeilDiv
<1>2. ASSUME NEW k \in 1 .. m
      PROVE  base64_encode(s)[k] \in Byte
  <2> DEFINE first == 3 * ((k - 1) \div 4)
             C(j) == IF first + j <= Len(s) THEN s[first + j] ELSE 0
             c1 == C(1)
             c2 == C(2)
             c3 == C(3)
  <2>1. first \in Nat
    BY <1>1
  <2>2. c1 \in Byte /\ c2 \in Byte /\ c3 \in Byte
    <3> HIDE DEF first
    <3>1. ASSUME NEW j \in {1, 2, 3} PROVE C(j) \in Byte
      <4>1. CASE first + j <= Len(s)
        <5>1. first + j \in 1 .. Len(s)
          BY <2>1, <4>1
        <5>2. s[first + j] \in Byte
          BY <5>1
        <5> QED
          BY <4>1, <5>2
      <4>2. CASE ~(first + j <= Len(s))
        BY <4>2 DEF Byte
      <4> QED
        BY <4>1, <4>2
    <3> HIDE DEF C
    <3> QED
      BY <3>1
  <2>3. ASSUME NEW d \in 0 .. 63 PROVE base64_enc_map(d) \in Byte
    BY AlphabetOK
  <2>4. base64_encode(s)[k] =
          CASE k % 4 = 1 -> base64_enc_map(c1 \div 4)
            [] k % 4 = 2 -> base64_enc_map((c1 % 4) * 16 + c2 \div 16)
            [] k % 4 = 3 -> IF first + 2 > Len(s) THEN Pad
                            ELSE base64_enc_map((c2 % 16) * 4 + c3 \div 64)
            [] k % 4 = 0 -> IF first + 3 > Len(s) THEN Pad
                            ELSE base64_enc_map(c3 % 64)
    BY DEF base64_encode
  <2> HIDE DEF c1, c2, c3, C, first
  <2>5. /\ c1 \div 4 \in 0 .. 63
        /\ (c1 % 4) * 16 + c2 \div 16 \in 0 .. 63
        /\ (c2 % 16) * 4 + c3 \div 64 \in 0 .. 63
        /\ c3 % 64 \in 0 .. 63
    BY <2>2 DEF Byte
  <2>6. Pad \in Byte
    BY DEF Pad, Byte
  <2>7. k % 4 \in {0, 1, 2, 3}
    BY <1>1
  <2> QED
    BY <2>3, <2>4, <2>5, <2>6, <2>7
<1>3. base64_encode(s) = [k \in 1 .. m |-> base64_encode(s)[k]]
  BY DEF base64_encode
<1> HIDE DEF m
<1>4. base64_encode(s) \in [1 .. m -> Byte]
  BY <1>2, <1>3
<1> QED
  BY <1>1, <1>4, IsSeq DEF m

\* What byte_buf2base64 returns, if anything.
LEMMA Base64Is ==
  ASSUME NEW b, Sound(b), NEW c \in byte_buf2base64(b), c # Null
  PROVE  LET s == base64_encode(Content(b))
         IN  /\ b.len # 0
             /\ c = [len |-> Len(s), cap |-> Len(s) + 1, data |-> s \o << 0 >>]
             /\ EncodeSize(Content(b)) = Len(s) + 1
<1> DEFINE s == base64_encode(Content(b))
           n == EncodeSize(Content(b))
<1>1. Content(b) \in Seq(Byte) /\ Len(Content(b)) = b.len
  BY ContentOK
<1>2. s \in Seq(Byte) /\ Len(s) = 4 * CeilDiv(b.len, 3)
  BY <1>1, Base64Length
<1>3. b.len # 0
  BY DEF byte_buf2base64
<1>4. n = Len(s) + 1
  <2>1. Content(b) # <<>>
    BY <1>1, <1>3
  <2> QED
    BY <1>1, <1>2, <2>1 DEF EncodeSize
<1>5. c = Null \/ \E r \in byte_buf_reserve(EmptyBuf, n) :
        c = IF r.buf.cap < n THEN Null
            ELSE [r.buf EXCEPT !.len = 4 * CeilDiv(b.len, 3), !.data = s \o << 0 >>]
  BY <1>3, Zenon DEF byte_buf2base64, OrNull
<1> HIDE DEF s, n
<1>6. PICK r \in byte_buf_reserve(EmptyBuf, n) :
        c = IF r.buf.cap < n THEN Null
            ELSE [r.buf EXCEPT !.len = 4 * CeilDiv(b.len, 3), !.data = s \o << 0 >>]
  BY <1>5
<1>7. Sound(EmptyBuf) /\ EmptyBuf.cap = 0
  BY DEF Sound, InBlock, byte_buf_t, EmptyBuf
<1>8. Sound(r.buf) /\ r.buf.cap \in {0, n}
  BY <1>2, <1>4, <1>6, <1>7, ReserveOK
<1>9. c = [r.buf EXCEPT !.len = 4 * CeilDiv(b.len, 3), !.data = s \o << 0 >>]
      /\ r.buf.cap = n
  BY <1>2, <1>4, <1>6, <1>8
<1> DEFINE d == s \o << 0 >>
           e == r.buf
<1>10. c = [len |-> Len(s), cap |-> Len(s) + 1, data |-> d]
  <2>1. e \in byte_buf_t /\ e.cap = Len(s) + 1
    BY <1>4, <1>8, <1>9 DEF Sound
  <2>2. c = [e EXCEPT !.len = Len(s), !.data = d]
    BY <1>2, <1>9
  <2> HIDE DEF d, e
  <2> QED
    BY <2>1, <2>2 DEF byte_buf_t
<1> QED
  BY <1>3, <1>4, <1>10 DEF s, n

\* The block of the base64 text holds it and a terminator.
LEMMA Base64OK ==
  ASSUME NEW b, Sound(b), NEW c \in byte_buf2base64(b)
  PROVE  c = Null \/ InBlock(c)
<1> DEFINE s == base64_encode(Content(b))
<1>1. Content(b) \in Seq(Byte)
  BY ContentOK
<1>2. s \in Seq(Byte)
  BY <1>1, Base64Length
<1>3. c # Null => c = [len |-> Len(s), cap |-> Len(s) + 1, data |-> s \o << 0 >>]
  BY Base64Is
<1> HIDE DEF s
<1> QED
  BY <1>2, <1>3, TextInBlock

\* A buffer made from data shows it.
LEMMA NewWithDataOK ==
  ASSUME NEW s \in Seq(Byte), NEW b \in byte_buf_new_with_data(s), b # Null
  PROVE  Sound(b) /\ Content(b) = s
<1>1. b = [len |-> Len(s), cap |-> Len(s), data |-> s]
  BY DEF byte_buf_new_with_data, OrNull
<1>2. s \in Block /\ Len(s) \in Nat
  BY SeqMonotonic DEF Block
<1>3. s # Null
  BY <1>2, ByteBufferAssumption
<1>4. b \in byte_buf_t /\ b.len = Len(s) /\ b.cap = Len(s) /\ b.data = s
  BY <1>1, <1>2 DEF byte_buf_t
<1>5. Sound(b)
  BY <1>2, <1>3, <1>4 DEF Sound, InBlock
<1>6. /\ Content(b) \in Seq(Byte) /\ Len(Content(b)) = b.len
      /\ \A i \in 1 .. b.len : Content(b)[i] = b.data[i]
  BY <1>5, ContentOK
<1> QED
  BY <1>4, <1>5, <1>6, SeqEqual

\* An empty buffer covers nothing.
LEMMA EmptyOK == Sound(EmptyBuf) /\ Content(EmptyBuf) = <<>>
<1>1. EmptyBuf.len = 0 /\ Sound(EmptyBuf)
  BY DEF EmptyBuf, Sound, InBlock, byte_buf_t
<1>2. Content(EmptyBuf) \in Seq(Byte) /\ Len(Content(EmptyBuf)) = 0
  BY <1>1, ContentOK
<1> QED
  BY <1>1, <1>2, EmptySeq

-----------------------------------------------------------------------------
(* The operators of iota_str.c.                                            *)

\* A block starts with a text and its terminator iff its elements are those.
LEMMA TextOf ==
  ASSUME NEW d \in Block, NEW n \in Nat, n < Len(d), NEW text \in Seq(Byte)
  PROVE  SubSeq(d, 1, n + 1) = text \o << 0 >>
           <=> /\ Len(text) = n
               /\ \A i \in 1 .. n : d[i] = text[i]
               /\ d[n + 1] = 0
<1> DEFINE E == Byte \union {Junk}
           head == SubSeq(d, 1, n + 1)
           zero == << 0 >>
           line == text \o zero
<1>1. d \in Seq(E) /\ Len(d) \in Nat /\ Len(text) \in Nat
  BY DEF Block
<1>2. zero \in Seq(Byte) /\ Len(zero) = 1 /\ zero[1] = 0
  BY DEF Byte
<1>3. /\ head \in Seq(E) /\ Len(head) = n + 1
      /\ \A i \in 1 .. n + 1 : head[i] = d[i]
  <2> HIDE DEF E
  <2> DEFINE m == n + 1
  <2>1. m \in 1 .. Len(d)
    BY <1>1
  <2>2. m \in Nat /\ m >= 1
    OBVIOUS
  <2> HIDE DEF m
  <2>3. /\ SubSeq(d, 1, m) \in Seq(E) /\ Len(SubSeq(d, 1, m)) = m
        /\ \A i \in 1 .. m : SubSeq(d, 1, m)[i] = d[i]
    BY <1>1, <2>1, <2>2, SubSeqProperties
  <2> QED
    BY <2>3 DEF m
<1> HIDE DEF zero, head
<1>4. /\ line \in Seq(Byte) /\ Len(line) = Len(text) + 1
      /\ \A i \in 1 .. Len(text) : line[i] = text[i]
      /\ line[Len(text) + 1] = 0
  <2>1. /\ line \in Seq(Byte) /\ Len(line) = Len(text) + Len(zero)
        /\ \A i \in 1 .. Len(text) + Len(zero) :
             line[i] = IF i <= Len(text) THEN text[i] ELSE zero[i - Len(text)]
    BY <1>2, ConcatProperties
  <2> HIDE DEF line
  <2>2. ASSUME NEW i \in 1 .. Len(text) PROVE line[i] = text[i]
    BY <1>1, <1>2, <2>1
  <2>3. line[Len(text) + 1] = 0
    <3> DEFINE k == Len(text) + 1
    <3>1. k \in 1 .. Len(text) + Len(zero) /\ ~(k <= Len(text)) /\ k - Len(text) = 1
      BY <1>1, <1>2
    <3> HIDE DEF k
    <3>2. line[k] = 0
      BY <1>2, <2>1, <3>1
    <3> QED
      BY <3>2 DEF k
  <2> QED
    BY <1>2, <2>1, <2>2, <2>3
<1>5. line \in Seq(E)
  BY <1>4, SeqMonotonic
<1> HIDE DEF line, E
<1>6. ASSUME head = line
      PROVE  Len(text) = n /\ (\A i \in 1 .. n : d[i] = text[i]) /\ d[n + 1] = 0
  BY <1>1, <1>3, <1>4, <1>6
<1>7. ASSUME Len(text) = n, \A i \in 1 .. n : d[i] = text[i], d[n + 1] = 0
      PROVE  head = line
  <2>1. ASSUME NEW i \in 1 .. n + 1 PROVE head[i] = line[i]
    <3>1. i \in 1 .. n \/ i = n + 1
      OBVIOUS
    <3> QED
      BY <1>3, <1>4, <1>7, <3>1
  <2> QED
    BY <1>3, <1>4, <1>5, <1>7, <2>1, SeqEqual
<1> QED
  BY <1>6, <1>7 DEF head, line, zero

\* The object iota_str_new makes holds its text.
LEMMA StrNewOK ==
  ASSUME NEW s \in Seq(Byte), NEW u \in iota_str_new(s)
  PROVE  u = Null \/ (u \in iota_str_t /\ Holds(u, s))
<1> DEFINE d == s \o << 0 >>
<1>1. << 0 >> \in Seq(Byte) /\ Len(<< 0 >>) = 1
  BY DEF Byte
<1>2. d \in Seq(Byte) /\ Len(d) = Len(s) + 1 /\ Len(s) \in Nat
  BY <1>1, ConcatProperties
<1>3. d \in Block
  BY <1>2, SeqMonotonic DEF Block
<1>4. SubSeq(d, 1, Len(s) + 1) = d
  <2> HIDE DEF d
  <2> QED
    BY <1>2, SubSeqFull
<1>5. u = Null \/ u = [len |-> Len(s), cap |-> Len(s) + 1, buf |-> d]
  BY DEF iota_str_new, OrNull
<1>6. CASE u # Null
  <2>1. d # Null
    <3> HIDE DEF d
    <3> QED
      BY <1>3, ByteBufferAssumption
  <2> DEFINE e == d
  <2>2. u = [len |-> Len(s), cap |-> Len(s) + 1, buf |-> e]
    BY <1>5, <1>6
  <2>3. e \in Block /\ e # Null /\ Len(e) = Len(s) + 1 /\ SubSeq(e, 1, Len(s) + 1) = e
    BY <1>2, <1>3, <1>4, <2>1
  <2> HIDE DEF e
  <2>4. u \in iota_str_t /\ u.len = Len(s) /\ u.cap = Len(s) + 1 /\ u.buf = e
    BY <1>2, <2>2, <2>3 DEF iota_str_t
  <2>5. SubSeq(u.buf, 1, u.len + 1) = s \o << 0 >>
    BY <2>3, <2>4 DEF e
  <2> QED
    BY <1>2, <2>3, <2>4, <2>5 DEF Holds
<1> QED
  BY <1>6

\* What iota_str_appendn makes: the string has room for the terminator behind
\* the addition, which overwrites the old one.
LEMMA StrAppendOK ==
  ASSUME NEW t \in iota_str_t, NEW s \in Seq(Byte), NEW u \in iota_str_appendn(t, s)
  PROVE  /\ u \in iota_str_t \union {Corrupted}
         /\ t.buf # Null => u # Corrupted
         /\ \A text \in Seq(Byte) :
              Holds(t, text) /\ u # Corrupted /\ u.buf # Null => Holds(u, text \o s)
<1> DEFINE n == t.len + Len(s)
           zero == << 0 >>
           line == s \o zero
           w(block) == Write(block, t.len, line)
           Put(block) == [len |-> n, cap |-> Len(block), buf |-> w(block)]
<1>1. /\ t.len \in Nat /\ t.cap \in Nat /\ t.buf \in Block \union {Null}
      /\ Len(s) \in Nat /\ n \in Nat
  BY DEF iota_str_t
<1>2. zero \in Seq(Byte) /\ Len(zero) = 1 /\ zero[1] = 0
  BY DEF Byte
<1>3. /\ line \in Seq(Byte) /\ Len(line) = Len(s) + 1
      /\ \A i \in 1 .. Len(s) : line[i] = s[i]
      /\ line[Len(s) + 1] = 0
  <2> HIDE DEF zero
  <2>1. /\ line \in Seq(Byte) /\ Len(line) = Len(s) + Len(zero)
        /\ \A i \in 1 .. Len(s) + Len(zero) :
             line[i] = IF i <= Len(s) THEN s[i] ELSE zero[i - Len(s)]
    BY <1>2, ConcatProperties
  <2> HIDE DEF line
  <2>2. ASSUME NEW i \in 1 .. Len(s) PROVE line[i] = s[i]
    BY <1>1, <1>2, <2>1
  <2>3. line[Len(s) + 1] = 0
    <3> DEFINE k == Len(s) + 1
    <3>1. k \in 1 .. Len(s) + Len(zero) /\ ~(k <= Len(s)) /\ k - Len(s) = 1
      BY <1>1, <1>2
    <3> HIDE DEF k
    <3>2. line[k] = 0
      BY <1>2, <2>1, <3>1
    <3> QED
      BY <3>2 DEF k
  <2> QED
    BY <1>2, <2>1, <2>2, <2>3
<1>4. \/ u = Corrupted /\ t.buf = Null
      \/ n + 1 <= t.cap /\ t.buf # Null /\ u = Put(t.buf)
      \/ u = [t EXCEPT !.buf = Null]
      \/ n + 1 > t.cap /\ \E block \in realloc(t.buf, n + 1) : block # Null /\ u = Put(block)
  <2>1. CASE n + 1 <= t.cap
    BY <2>1, Zenon DEF iota_str_appendn
  <2>2. CASE ~(n + 1 <= t.cap)
    <3>1. PICK block \in realloc(t.buf, n + 1) :
            u = IF block = Null THEN [t EXCEPT !.buf = Null] ELSE Put(block)
      BY <2>2, Zenon DEF iota_str_appendn
    <3>2. n + 1 > t.cap
      BY <1>1, <2>2
    <3> HIDE DEF Put
    <3>3. CASE block = Null
      BY <3>1, <3>3
    <3>4. CASE block # Null
      BY <3>1, <3>2, <3>4, Zenon
    <3> QED
      BY <3>3, <3>4
  <2> QED
    BY <2>1, <2>2
<1> HIDE DEF line, zero, n
\* Both ways to get room end with the same write.
<1>5. ASSUME NEW block \in Block, u = Put(block)
      PROVE  /\ u \in iota_str_t
             /\ \A text \in Seq(Byte) :
                  /\ Holds(t, text) /\ n + 1 <= Len(block)
                  /\ \A i \in 1 .. t.len : block[i] = t.buf[i]
                  => Holds(u, text \o s)
  <2> DEFINE d == w(block)
  <2>1. /\ d \in Block /\ Len(d) = Len(block)
        /\ \A i \in 1 .. Len(block) :
             d[i] = IF i - t.len \in 1 .. Len(line) THEN line[i - t.len] ELSE block[i]
    <3> DEFINE at == t.len
    <3>1. at \in Nat /\ line \in Seq(Byte)
      BY <1>1, <1>3
    <3> HIDE DEF at
    <3>2. LET v == Write(block, at, line)
          IN  /\ v \in Block /\ Len(v) = Len(block)
              /\ \A i \in 1 .. Len(block) :
                   v[i] = IF i - at \in 1 .. Len(line) THEN line[i - at] ELSE block[i]
      BY <3>1, WriteOK
    <3> QED
      BY <3>2 DEF at
  <2>2. u = [len |-> n, cap |-> Len(block), buf |-> d]
    BY <1>5
  <2> HIDE DEF d
  <2>3. Len(block) \in Nat /\ d # Null
    BY <2>1, ByteBufferAssumption DEF Block
  <2>4. u \in iota_str_t /\ u.len = n /\ u.cap = Len(block) /\ u.buf = d
    BY <1>1, <2>1, <2>2, <2>3 DEF iota_str_t
  <2>5. ASSUME NEW text \in Seq(Byte), Holds(t, text), n + 1 <= Len(block),
               \A i \in 1 .. t.len : block[i] = t.buf[i]
        PROVE  Holds(u, text \o s)
    <3> DEFINE all == text \o s
               tb == t.buf
               tl == t.len
    <3>1. /\ Len(text) = t.len
          /\ \A i \in 1 .. t.len : t.buf[i] = text[i]
      <4>1. tb \in Block /\ tl \in Nat /\ tl < Len(tb)
        <5>1. tb \in Block
          BY <1>1, <2>5 DEF Holds
        <5>2. Len(tb) \in Nat
          <6> HIDE DEF tb
          <6> QED
            BY <5>1 DEF Block
        <5> QED
          BY <1>1, <2>5, <5>1, <5>2 DEF Holds
      <4>2. SubSeq(tb, 1, tl + 1) = text \o << 0 >>
        BY <2>5 DEF Holds
      <4> HIDE DEF tb, tl
      <4>3. Len(text) = tl /\ \A i \in 1 .. tl : tb[i] = text[i]
        BY <4>1, <4>2, TextOf
      <4> QED
        BY <4>3 DEF tb, tl
    <3>2. /\ all \in Seq(Byte) /\ Len(all) = Len(text) + Len(s)
          /\ \A i \in 1 .. Len(text) + Len(s) :
               all[i] = IF i <= Len(text) THEN text[i] ELSE s[i - Len(text)]
      BY ConcatProperties
    <3> HIDE DEF all
    <3>3. Len(all) = n /\ n < Len(d) /\ n + 1 <= Len(d)
      BY <1>1, <2>1, <2>3, <2>5, <3>1, <3>2 DEF n
    <3>4. ASSUME NEW i \in 1 .. n PROVE d[i] = all[i]
      <4>1. i \in 1 .. Len(block) /\ i \in 1 .. Len(text) + Len(s)
        BY <1>1, <2>1, <2>3, <3>1, <3>3 DEF n
      <4>2. CASE i <= t.len
        <5>1. i - t.len \notin 1 .. Len(line) /\ i \in 1 .. t.len
          BY <1>1, <1>3, <4>1, <4>2
        <5> QED
          BY <1>1, <2>1, <2>5, <3>1, <3>2, <4>1, <4>2, <5>1
      <4>3. CASE ~(i <= t.len)
        <5> DEFINE j == i - t.len
        <5>1. j \in 1 .. Len(s) /\ j \in 1 .. Len(line)
          BY <1>1, <1>3, <3>1, <4>1, <4>3
        <5>2. d[i] = line[j] /\ all[i] = s[j]
          BY <1>1, <2>1, <3>1, <3>2, <4>1, <4>3, <5>1
        <5> HIDE DEF j
        <5> QED
          BY <1>3, <5>1, <5>2
      <4> QED
        BY <4>2, <4>3
    <3>5. d[n + 1] = 0
      <4> DEFINE k == n + 1
      <4>1. k \in 1 .. Len(block) /\ k - t.len = Len(s) + 1 /\ k - t.len \in 1 .. Len(line)
        BY <1>1, <1>3, <2>1, <2>3, <3>3 DEF n
      <4> HIDE DEF k
      <4>2. d[k] = line[k - t.len]
        BY <2>1, <4>1
      <4>3. d[k] = 0
        BY <1>3, <4>1, <4>2
      <4> QED
        BY <4>3 DEF k
    <3>6. SubSeq(d, 1, n + 1) = all \o << 0 >>
      BY <1>1, <2>1, <3>2, <3>3, <3>4, <3>5, TextOf
    <3>7. u.buf # Null /\ u.len < u.cap /\ u.cap <= Len(u.buf)
      BY <1>1, <2>1, <2>3, <2>4, <3>3
    <3>8. SubSeq(u.buf, 1, u.len + 1) = all \o << 0 >>
      BY <2>4, <3>6
    <3> QED
      BY <3>7, <3>8 DEF Holds, all
  <2> QED
    BY <2>4, <2>5
<1>6. CASE u = Corrupted /\ t.buf = Null
  BY <1>6
<1>7. CASE u = [t EXCEPT !.buf = Null]
  <2>1. u \in iota_str_t /\ u.buf = Null
    BY <1>1, <1>7 DEF iota_str_t
  <2> QED
    BY <2>1, IotaStrAssumption
<1>8. CASE n + 1 <= t.cap /\ t.buf # Null /\ u = Put(t.buf)
  <2>1. t.buf \in Block
    BY <1>1, <1>8
  <2>2. u \in iota_str_t
    BY <1>5, <1>8, <2>1
  <2>3. ASSUME NEW text \in Seq(Byte), Holds(t, text)
        PROVE  Holds(u, text \o s)
    <3>1. t.cap <= Len(t.buf)
      BY <2>3 DEF Holds
    <3>2. Len(t.buf) \in Nat
      BY <2>1 DEF Block
    <3>3. n + 1 <= Len(t.buf)
      BY <1>1, <1>8, <3>1, <3>2
    <3> QED
      BY <1>5, <1>8, <2>1, <2>3, <3>3
  <2> QED
    BY <2>2, <2>3, IotaStrAssumption
<1>9. CASE n + 1 > t.cap /\ \E block \in realloc(t.buf, n + 1) : block # Null /\ u = Put(block)
  <2>1. PICK block \in realloc(t.buf, n + 1) : block # Null /\ u = Put(block)
    BY <1>9
  <2>2. /\ block \in Block /\ Len(block) = n + 1
        /\ \A i \in 1 .. n + 1 : t.buf # Null /\ i <= Len(t.buf) => block[i] = t.buf[i]
    <3> DEFINE m == n + 1
    <3>1. m \in Nat
      BY <1>1
    <3> HIDE DEF m
    <3>2. block \in realloc(t.buf, m)
      BY <2>1 DEF m
    <3>3. /\ block \in Block /\ Len(block) = m
          /\ \A i \in 1 .. m : t.buf # Null /\ i <= Len(t.buf) => block[i] = t.buf[i]
      BY <1>1, <2>1, <3>1, <3>2, ReallocOK
    <3> QED
      BY <3>3 DEF m
  <2>3. u \in iota_str_t
    BY <1>5, <2>1, <2>2
  <2>4. ASSUME NEW text \in Seq(Byte), Holds(t, text)
        PROVE  Holds(u, text \o s)
    <3>1. t.buf # Null /\ t.len < t.cap /\ t.cap <= Len(t.buf)
      BY <2>4 DEF Holds
    <3>2. Len(t.buf) \in Nat
      BY <1>1, <3>1 DEF Block
    <3>3. ASSUME NEW i \in 1 .. t.len PROVE block[i] = t.buf[i]
      <4>1. i \in 1 .. n + 1 /\ i <= Len(t.buf)
        BY <1>1, <1>9, <3>1, <3>2
      <4> QED
        BY <2>2, <3>1, <4>1
    <3>4. n + 1 <= Len(block)
      BY <1>1, <2>2
    <3> QED
      BY <1>5, <2>1, <2>2, <2>4, <3>3, <3>4
  <2> QED
    BY <2>3, <2>4, IotaStrAssumption
<1> QED
  BY <1>4, <1>6, <1>7, <1>8, <1>9

\* A clone of at most the whole string holds the prefix.
LEMMA StrCloneOK ==
  ASSUME NEW t \in iota_str_t, NEW text \in Seq(Byte), Holds(t, text),
         NEW n \in 0 .. t.len, NEW u \in iota_str_clonen(t, n)
  PROVE  /\ SubSeq(text, 1, n) \in Seq(Byte)
         /\ u = Null \/ (u \in iota_str_t /\ Holds(u, SubSeq(text, 1, n)))
<1> DEFINE zero == << 0 >>
           part == SubSeq(t.buf, 1, n)
           line == part \o zero
           w(block) == Write(block, 0, line)
           pre == SubSeq(text, 1, n)
<1>1. /\ t.len \in Nat /\ t.cap \in Nat /\ t.buf \in Block /\ Len(t.buf) \in Nat
      /\ t.len < t.cap /\ t.cap <= Len(t.buf) /\ n \in Nat /\ n <= t.len
  <2>1. t.len \in Nat /\ t.cap \in Nat /\ t.buf \in Block
    BY DEF iota_str_t, Holds
  <2>2. Len(t.buf) \in Nat
    BY <2>1 DEF Block
  <2> QED
    BY <2>1, <2>2 DEF Holds
<1>2. Len(text) = t.len /\ \A i \in 1 .. t.len : t.buf[i] = text[i]
  <2> DEFINE tb == t.buf
             tl == t.len
  <2>1. tb \in Block /\ tl \in Nat /\ tl < Len(tb)
    BY <1>1
  <2>2. SubSeq(tb, 1, tl + 1) = text \o << 0 >>
    BY DEF Holds
  <2> HIDE DEF tb, tl
  <2>3. Len(text) = tl /\ \A i \in 1 .. tl : tb[i] = text[i]
    BY <2>1, <2>2, TextOf
  <2> QED
    BY <2>3 DEF tb, tl
<1>3. pre \in Seq(Byte) /\ Len(pre) = n /\ \A i \in 1 .. n : pre[i] = text[i]
  BY <1>1, <1>2, SubSeqProperties
<1>4. part \in Seq(Byte) /\ part = pre
  <2>1. /\ part \in Block /\ Len(part) = n
        /\ \A i \in 1 .. n : part[i] = t.buf[i]
    <3> DEFINE E == Byte \union {Junk}
               tb == t.buf
    <3>1. tb \in Seq(E) /\ n <= Len(tb)
      BY <1>1 DEF Block
    <3> HIDE DEF E, tb
    <3>2. /\ SubSeq(tb, 1, n) \in Seq(E) /\ Len(SubSeq(tb, 1, n)) = n
          /\ \A i \in 1 .. n : SubSeq(tb, 1, n)[i] = tb[i]
      BY <1>1, <3>1, SubSeqProperties
    <3> QED
      BY <3>2 DEF E, tb, Block
  <2> HIDE DEF part, pre
  <2>2. part \in Seq(Byte \union {Junk}) /\ pre \in Seq(Byte \union {Junk})
    BY <1>3, <2>1, SeqMonotonic DEF Block
  <2>3. \A i \in 1 .. n : part[i] = pre[i]
    BY <1>1, <1>2, <1>3, <2>1
  <2>4. part = pre
    <3> DEFINE E == Byte \union {Junk}
    <3>1. part \in Seq(E) /\ pre \in Seq(E)
      BY <2>2
    <3> HIDE DEF E
    <3> QED
      BY <1>3, <2>1, <2>3, <3>1, SeqEqual
  <2> QED
    BY <1>3, <2>4
<1>5. zero \in Seq(Byte) /\ Len(zero) = 1 /\ zero[1] = 0
  BY DEF Byte
<1> HIDE DEF part, pre, zero
<1>6. /\ line \in Seq(Byte) /\ Len(line) = n + 1
      /\ \A i \in 1 .. n : line[i] = pre[i]
      /\ line[n + 1] = 0
  <2>0. Len(part) = n
    BY <1>3, <1>4
  <2>1. /\ line \in Seq(Byte) /\ Len(line) = Len(part) + Len(zero)
        /\ \A i \in 1 .. Len(part) + Len(zero) :
             line[i] = IF i <= Len(part) THEN part[i] ELSE zero[i - Len(part)]
    BY <1>4, <1>5, ConcatProperties
  <2> HIDE DEF line
  <2>2. ASSUME NEW i \in 1 .. n PROVE line[i] = pre[i]
    BY <1>1, <1>4, <1>5, <2>0, <2>1
  <2>3. line[n + 1] = 0
    <3> DEFINE k == n + 1
    <3>1. k \in 1 .. Len(part) + Len(zero) /\ ~(k <= Len(part)) /\ k - Len(part) = 1
      BY <1>1, <1>5, <2>0
    <3> HIDE DEF k
    <3>2. line[k] = 0
      BY <1>5, <2>1, <3>1
    <3> QED
      BY <3>2 DEF k
  <2> QED
    BY <1>5, <2>0, <2>1, <2>2, <2>3
<1>7. PICK block \in malloc(t.cap) :
        u = IF block = Null THEN Null
            ELSE IF n + 1 > Len(block) THEN Corrupted
            ELSE [len |-> n, cap |-> n + 1, buf |-> w(block)]
  BY Zenon DEF iota_str_clonen, line, part, zero
<1>8. CASE block # Null
  <2>1. block \in Block /\ Len(block) = t.cap
    BY <1>1, <1>8, MallocOK
  <2> DEFINE d == w(block)
  <2>2. u = [len |-> n, cap |-> n + 1, buf |-> d]
    BY <1>1, <1>7, <1>8, <2>1
  <2>3. /\ d \in Block /\ Len(d) = Len(block)
        /\ \A i \in 1 .. Len(block) :
             d[i] = IF i - 0 \in 1 .. Len(line) THEN line[i - 0] ELSE block[i]
    <3> DEFINE at == 0
    <3>1. at \in Nat /\ line \in Seq(Byte)
      BY <1>6
    <3> HIDE DEF at, line
    <3>2. LET v == Write(block, at, line)
          IN  /\ v \in Block /\ Len(v) = Len(block)
              /\ \A i \in 1 .. Len(block) :
                   v[i] = IF i - at \in 1 .. Len(line) THEN line[i - at] ELSE block[i]
      BY <2>1, <3>1, WriteOK
    <3> QED
      BY <3>2 DEF at
  <2> HIDE DEF d, line
  <2>4. d # Null
    BY <2>3, ByteBufferAssumption
  <2>5. u \in iota_str_t /\ u.len = n /\ u.cap = n + 1 /\ u.buf = d
    BY <1>1, <2>2, <2>3 DEF iota_str_t
  <2>6. \A i \in 1 .. n + 1 : d[i] = line[i]
    BY <1>1, <1>6, <2>1, <2>3
  <2>7. SubSeq(d, 1, n + 1) = pre \o << 0 >>
    <3>1. n < Len(d)
      BY <1>1, <2>1, <2>3
    <3>2. \A i \in 1 .. n : d[i] = pre[i]
      BY <1>1, <1>6, <2>6
    <3>3. d[n + 1] = 0
      BY <1>1, <1>6, <2>6
    <3> QED
      BY <1>1, <1>3, <2>3, <3>1, <3>2, <3>3, TextOf
  <2>8. SubSeq(u.buf, 1, u.len + 1) = pre \o << 0 >>
    BY <2>5, <2>7
  <2>9. u.buf # Null /\ u.len < u.cap /\ u.cap <= Len(u.buf)
    BY <1>1, <2>1, <2>3, <2>4, <2>5
  <2> QED
    BY <1>3, <2>5, <2>8, <2>9 DEF Holds, pre
<1>9. CASE block = Null
  BY <1>3, <1>7, <1>9 DEF pre
<1> QED
  BY <1>8, <1>9

-----------------------------------------------------------------------------
(* The hexadecimal text.                                                   *)

\* A digit that byte_buf2hex_string writes is read back as it was.
LEMMA HexDigit ==
  ASSUME NEW n \in 0 .. 15
  PROVE  HexValue(hex_table(n)) = n
<1>1. CASE n < 10
  <2>1. hex_table(n) = 48 + n /\ 48 + n \in 48 .. 57
    BY <1>1 DEF hex_table
  <2> QED
    BY <2>1 DEF HexValue
<1>2. CASE n >= 10
  <2>1. hex_table(n) = 55 + n /\ 55 + n \in 65 .. 70 /\ 55 + n \notin 48 .. 57
    BY <1>2 DEF hex_table
  <2> QED
    BY <2>1 DEF HexValue
<1> QED
  BY <1>1, <1>2

\* hex_decode_string gives back the bytes byte_buf2hex_string was given,
\* whatever they are: an id or a color survives being written and read.
THEOREM HexRoundTrip ==
  ASSUME NEW src \in Seq(Byte)
  PROVE  hex_decode_string(hex_encode(src)) = src
<1> DEFINE h == hex_encode(src)
<1>1. h \in Seq(Byte) /\ Len(h) = 2 * Len(src) /\ Len(src) \in Nat
  BY HexLength
<1>2. ASSUME NEW i \in 1 .. Len(src)
      PROVE  16 * HexValue(h[2 * i - 1]) + HexValue(h[2 * i]) = src[i]
  <2> DEFINE byte == src[i]
  <2>1. byte \in 0 .. 255
    <3>1. src[i] \in Byte
      OBVIOUS
    <3> QED
      BY <3>1 DEF Byte
  <2>2. h[2 * i - 1] = hex_table(byte \div 16)
    <3> DEFINE k == 2 * i - 1
    <3>1. k \in 1 .. 2 * Len(src) /\ k % 2 = 1 /\ CeilDiv(k, 2) = i
      BY <1>1 DEF CeilDiv
    <3> HIDE DEF k
    <3>2. h[k] = hex_table(byte \div 16)
      BY <3>1 DEF hex_encode
    <3> QED
      BY <3>2 DEF k
  <2>3. h[2 * i] = hex_table(byte % 16)
    <3> DEFINE k == 2 * i
    <3>1. k \in 1 .. 2 * Len(src) /\ k % 2 = 0 /\ CeilDiv(k, 2) = i
      BY <1>1 DEF CeilDiv
    <3> HIDE DEF k
    <3>2. h[k] = hex_table(byte % 16)
      BY <3>1 DEF hex_encode
    <3> QED
      BY <3>2 DEF k
  <2> HIDE DEF byte, h
  <2>4. byte \div 16 \in 0 .. 15 /\ byte % 16 \in 0 .. 15
        /\ 16 * (byte \div 16) + (byte % 16) = byte
    BY <2>1
  <2>5. HexValue(h[2 * i - 1]) = byte \div 16 /\ HexValue(h[2 * i]) = byte % 16
    BY <2>2, <2>3, <2>4, HexDigit
  <2> QED
    BY <2>4, <2>5 DEF byte
<1>3. Len(h) \div 2 = Len(src)
  <2> HIDE DEF h
  <2> QED
    BY <1>1
<1>4. hex_decode_string(h) = [i \in 1 .. Len(src) |-> src[i]]
  <2> HIDE DEF h
  <2> QED
    BY <1>2, <1>3 DEF hex_decode_string
<1>5. src = [i \in 1 .. Len(src) |-> src[i]]
  BY SeqDef
<1> QED
  BY <1>4, <1>5

-----------------------------------------------------------------------------
(* What is kept of a sequence.                                             *)

\* What is kept of s up to its element k, for k from 0 to its length.
IsKept(c, s, keep) ==
  /\ c[0] = <<>>
  /\ \A k \in 1 .. Len(s) :
       c[k] = IF k \in keep THEN Append(c[k - 1], s[k]) ELSE c[k - 1]
  /\ c[Len(s)] = Kept(s, keep)

\* The fold by which Kept is defined goes that way.
LEMMA KeptIs ==
  ASSUME NEW S, NEW s \in Seq(S), NEW keep
  PROVE  \E c \in [0 .. Len(s) -> Seq(S)] : IsKept(c, s, keep)
<1> DEFINE n == Len(s)
           V == Seq(S)
           E(v, k) == IF k \in keep THEN Append(v, s[k]) ELSE v
           F == [x \in (1 .. n) \X V |-> E(x[2], x[1])]
           dom == [i \in DOMAIN s |-> i]
           Is(it) == it = [t \in SUBSET DOMAIN dom |->
                             IF t = {} THEN <<>> ELSE E(it[t \ {Max(t)}], dom[Max(t)])]
           it == CHOOSE it : Is(it)
           c == [k \in 0 .. n |-> it[1 .. k]]
<1>1. /\ n \in Nat /\ DOMAIN s = 1 .. n /\ DOMAIN dom = 1 .. n
      /\ \A k \in 1 .. n : s[k] \in S /\ dom[k] = k
  OBVIOUS
<1>2. <<>> \in V
  OBVIOUS
<1>3. \A v \in V, k \in 1 .. n : E(v, k) \in V
  BY <1>1
<1> HIDE DEF n, V, E, dom
<1>4. F \in [(1 .. n) \X V -> V]
  BY <1>3
<1> HIDE DEF F
<1>5. PICK f : IsFold(f, n, V, <<>>, F)
  BY <1>1, <1>2, <1>4, FoldExists
<1>6. Is(f)
  <2>1. /\ f \in [SUBSET (1 .. n) -> V]
        /\ \A t \in SUBSET (1 .. n) :
             f[t] = IF t = {} THEN <<>> ELSE F[<<Max(t), f[t \ {Max(t)}]>>]
    BY <1>5 DEF IsFold
  <2>2. ASSUME NEW t \in SUBSET (1 .. n), t # {}
        PROVE  F[<<Max(t), f[t \ {Max(t)}]>>] = E(f[t \ {Max(t)}], dom[Max(t)])
    <3>1. Max(t) \in 1 .. n
      BY <1>1, <2>2, MaxIn
    <3>2. f[t \ {Max(t)}] \in V
      BY <2>1
    <3> QED
      BY <1>1, <3>1, <3>2 DEF F
  <2> QED
    BY <1>1, <2>1, <2>2
<1>7. Is(it)
  BY <1>6
<1>8. Kept(s, keep) = it[1 .. n]
  BY <1>1 DEF Kept, FoldLeftDomain, FoldLeft, MapThenFoldSet, E, dom
<1>9. ASSUME NEW k \in 1 .. n
      PROVE  it[1 .. k] = E(it[1 .. k - 1], k)
  <2>1. /\ Max(1 .. k) = k /\ (1 .. k) \ {k} = 1 .. k - 1
        /\ 1 .. k \in SUBSET (1 .. n) /\ 1 .. k # {}
    BY <1>1, MaxOfInterval
  <2> QED
    BY <1>1, <1>7, <2>1
<1>10. it[{}] = <<>>
  BY <1>1, <1>7
<1> HIDE DEF it
<1>11. /\ c[0] = <<>> /\ c[n] = Kept(s, keep)
       /\ \A k \in 1 .. n : k \in 0 .. n /\ k - 1 \in 0 .. n /\ c[k] = E(c[k - 1], k)
  <2>1. 1 .. 0 = {} /\ 0 \in 0 .. n /\ n \in 0 .. n
    BY <1>1
  <2>2. ASSUME NEW k \in 1 .. n
        PROVE  k \in 0 .. n /\ k - 1 \in 0 .. n /\ c[k] = it[1 .. k] /\ c[k - 1] = it[1 .. k - 1]
    BY <1>1
  <2> QED
    BY <1>8, <1>9, <1>10, <2>1, <2>2
<1>12. IsKept(c, s, keep)
  <2> HIDE DEF c
  <2> QED
    BY <1>11 DEF IsKept, E, n
<1>13. \A k \in 0 .. n : c[k] \in V
  <2>1. c[0] \in V
    BY <1>2, <1>11
  <2>2. \A k \in 1 .. n : c[k - 1] \in V => c[k] \in V
    BY <1>3, <1>11
  <2> HIDE DEF c
  <2> QED
    BY <1>1, <2>1, <2>2, ChainIn
<1>14. c \in [0 .. n -> V]
  BY <1>13
<1> QED
  BY <1>12, <1>14 DEF n, V

\* What is kept comes from a kept position, in ascending order of positions.
LEMMA KeptFrom ==
  ASSUME NEW S, NEW s \in Seq(S), NEW keep
  PROVE  /\ Kept(s, keep) \in Seq(S)
         /\ \E at \in [DOMAIN Kept(s, keep) -> DOMAIN s \intersect keep] :
              /\ \A j \in DOMAIN Kept(s, keep) : Kept(s, keep)[j] = s[at[j]]
              /\ \A i, j \in DOMAIN Kept(s, keep) : i < j => at[i] < at[j]
              /\ \A k \in DOMAIN s \intersect keep : \E j \in DOMAIN Kept(s, keep) : at[j] = k
<1> DEFINE n == Len(s)
           From(t, k, at) ==
             /\ at \in [1 .. Len(t) -> (1 .. k) \intersect keep]
             /\ \A j \in 1 .. Len(t) : t[j] = s[at[j]]
             /\ \A i, j \in 1 .. Len(t) : i < j => at[i] < at[j]
             /\ \A l \in (1 .. k) \intersect keep : \E j \in 1 .. Len(t) : at[j] = l
<1>1. n \in Nat /\ DOMAIN s = 1 .. n /\ \A k \in 1 .. n : s[k] \in S
  OBVIOUS
<1>2. PICK c \in [0 .. n -> Seq(S)] : IsKept(c, s, keep)
  BY KeptIs
<1> DEFINE Good == { k \in 0 .. n : \E at : From(c[k], k, at) }
<1> HIDE DEF n
<1>3. /\ c[0] = <<>> /\ c[n] = Kept(s, keep)
      /\ \A k \in 1 .. n : c[k] = IF k \in keep THEN Append(c[k - 1], s[k]) ELSE c[k - 1]
      /\ \A k \in 0 .. n : c[k] \in Seq(S)
  BY <1>2 DEF IsKept, n
<1>4. 0 \in Good
  <2> DEFINE at == [j \in {} |-> 0]
  <2>1. Len(<<>>) = 0 /\ 1 .. 0 = {} /\ 0 \in 0 .. n
    BY <1>1
  <2>2. From(<<>>, 0, at)
    BY <2>1
  <2> HIDE DEF From
  <2> QED
    BY <1>3, <2>1, <2>2
<1>5. ASSUME NEW k \in 0 .. n - 1, k \in Good
      PROVE  k + 1 \in Good
  <2> DEFINE m == k + 1
             t == c[k]
             l == Len(t)
  <2>1. m \in 1 .. n /\ m \in 0 .. n /\ m - 1 = k /\ k \in Nat /\ k \in 0 .. n
    BY <1>1
  <2>2. PICK at : From(t, k, at)
    BY <1>5
  <2>3. t \in Seq(S) /\ l \in Nat
    BY <1>3, <2>1
  <2>4. 1 .. m = (1 .. k) \union {m} /\ m \notin 1 .. k /\ \A i \in 1 .. k : i < m
    BY <2>1
  <2>5. c[m] = IF m \in keep THEN Append(t, s[m]) ELSE t
    BY <1>3, <2>1
  <2> HIDE DEF m, t
  <2>6. CASE m \notin keep
    <3>1. c[m] = t /\ (1 .. m) \intersect keep = (1 .. k) \intersect keep
      BY <2>4, <2>5, <2>6
    <3>2. From(c[m], m, at)
      BY <2>2, <3>1
    <3> QED
      BY <2>1, <3>2 DEF m
  <2>7. CASE m \in keep
    <3> DEFINE u == Append(t, s[m])
               more == [j \in 1 .. l + 1 |-> IF j = l + 1 THEN m ELSE at[j]]
    <3>1. /\ c[m] = u /\ Len(u) = l + 1 /\ u[l + 1] = s[m]
          /\ \A j \in 1 .. l : u[j] = t[j]
      BY <1>1, <2>1, <2>3, <2>5, <2>7
    <3>2. \A j \in 1 .. l + 1 : j \in 1 .. l \/ j = l + 1
      BY <2>3
    <3>3. /\ more[l + 1] = m /\ \A j \in 1 .. l : more[j] = at[j] /\ at[j] \in (1 .. k) \intersect keep
      BY <2>2, <2>3
    <3>4. more \in [1 .. l + 1 -> (1 .. m) \intersect keep]
      <4>1. \A j \in 1 .. l + 1 : more[j] \in (1 .. m) \intersect keep
        BY <2>4, <2>7, <3>2, <3>3
      <4> QED
        BY <4>1
    <3> HIDE DEF u, more
    <3>5. \A j \in 1 .. l + 1 : u[j] = s[more[j]]
      BY <2>2, <3>1, <3>2, <3>3
    <3>6. ASSUME NEW i \in 1 .. l + 1, NEW j \in 1 .. l + 1, i < j PROVE more[i] < more[j]
      <4>1. i \in 1 .. l
        BY <2>3, <3>6
      <4>2. CASE j \in 1 .. l
        BY <2>2, <3>3, <3>6, <4>1, <4>2
      <4>3. CASE j = l + 1
        BY <2>4, <3>3, <4>1, <4>3
      <4> QED
        BY <3>2, <4>2, <4>3
    <3>7. ASSUME NEW p \in (1 .. m) \intersect keep PROVE \E j \in 1 .. l + 1 : more[j] = p
      <4>1. CASE p = m
        <5>1. l + 1 \in 1 .. l + 1
          BY <2>3
        <5> QED
          BY <3>3, <4>1, <5>1
      <4>2. CASE p # m
        <5>1. p \in (1 .. k) \intersect keep
          BY <2>4, <4>2
        <5>2. PICK j \in 1 .. l : at[j] = p
          BY <2>2, <5>1
        <5>3. j \in 1 .. l + 1
          BY <2>3
        <5> QED
          BY <3>3, <5>2, <5>3
      <4> QED
        BY <4>1, <4>2
    <3>8. From(c[m], m, more)
      BY <3>1, <3>4, <3>5, <3>6, <3>7
    <3> QED
      BY <2>1, <3>8 DEF m
  <2> QED
    BY <2>6, <2>7
<1>6. n \in Good
  <2> HIDE DEF Good
  <2>1. \A k \in 0 .. n - 1 : k \in Good => k + 1 \in Good
    BY <1>5
  <2>2. n \in Nat /\ n \in 0 .. n
    BY <1>1
  <2>3. \A k \in 0 .. n : k \in Good
    BY <1>4, <2>1, <2>2, InductionTo
  <2> QED
    BY <2>2, <2>3
<1>7. n \in 0 .. n
  BY <1>1
<1> DEFINE r == Kept(s, keep)
<1>8. r = c[n] /\ r \in Seq(S)
  BY <1>3, <1>7
<1> HIDE DEF From, r
<1>9. PICK at : From(r, n, at)
  BY <1>6, <1>8
<1>10. DOMAIN r = 1 .. Len(r)
  BY <1>8
<1>11. /\ at \in [DOMAIN r -> DOMAIN s \intersect keep]
       /\ \A j \in DOMAIN r : r[j] = s[at[j]]
       /\ \A i, j \in DOMAIN r : i < j => at[i] < at[j]
       /\ \A k \in DOMAIN s \intersect keep : \E j \in DOMAIN r : at[j] = k
  BY <1>1, <1>9, <1>10 DEF From
<1> QED
  BY <1>8, <1>11 DEF r

\* If all is kept, nothing changes.
LEMMA KeptAll ==
  ASSUME NEW S, NEW s \in Seq(S), NEW keep, DOMAIN s \subseteq keep
  PROVE  Kept(s, keep) = s
<1> DEFINE n == Len(s)
<1>1. n \in Nat /\ DOMAIN s = 1 .. n /\ \A k \in 1 .. n : s[k] \in S /\ k \in keep
  OBVIOUS
<1>2. PICK c \in [0 .. n -> Seq(S)] : IsKept(c, s, keep)
  BY KeptIs
<1> DEFINE All == { k \in 0 .. n : c[k] = SubSeq(s, 1, k) }
<1>3. 0 \in All
  BY <1>1, <1>2 DEF IsKept
<1>4. ASSUME NEW k \in 0 .. n - 1, k \in All PROVE k + 1 \in All
  <2>1. k + 1 \in 1 .. n /\ k + 1 \in 0 .. n /\ (k + 1) - 1 = k
    BY <1>1
  <2>2. c[k + 1] = Append(c[k], s[k + 1])
    <3>1. k + 1 \in 1 .. Len(s) /\ k + 1 \in keep
      BY <1>1, <2>1
    <3> QED
      BY <1>2, <2>1, <3>1 DEF IsKept
  <2>3. Append(SubSeq(s, 1, k), s[k + 1]) = SubSeq(s, 1, k + 1)
    BY <1>1, <2>1
  <2> QED
    BY <1>4, <2>1, <2>2, <2>3
<1>5. n \in All
  <2> HIDE DEF All, n
  <2>1. \A k \in 0 .. n - 1 : k \in All => k + 1 \in All
    BY <1>4
  <2>2. n \in Nat /\ n \in 0 .. n
    BY <1>1
  <2>3. \A k \in 0 .. n : k \in All
    BY <1>3, <2>1, <2>2, InductionTo
  <2> QED
    BY <2>2, <2>3
<1>6. SubSeq(s, 1, n) = s
  OBVIOUS
<1> QED
  BY <1>2, <1>5, <1>6 DEF IsKept

-----------------------------------------------------------------------------
(* The base64 text.                                                         *)

\* The digits and their characters: a character of the text stands for one digit.
LEMMA DigitOf ==
  ASSUME NEW d \in 0 .. 63
  PROVE  /\ Digit(base64_enc_map(d)) = d /\ IsDigit(base64_enc_map(d))
         /\ base64_enc_map(d) \notin {Space, CR, LF, Pad}
<1>1. ASSUME NEW e \in 0 .. 63
      PROVE  base64_enc_map(e) =
               IF e < 26 THEN 65 + e ELSE IF e < 52 THEN 71 + e ELSE IF e < 62 THEN e - 4
               ELSE IF e = 62 THEN 43 ELSE 47
  <2>1. CASE e < 26
    BY <2>1 DEF base64_enc_map
  <2>2. CASE e \in 26 .. 51
    BY <2>2 DEF base64_enc_map
  <2>3. CASE e \in 52 .. 61
    BY <2>3 DEF base64_enc_map
  <2>4. CASE e = 62
    BY <2>4 DEF base64_enc_map
  <2>5. CASE e = 63
    BY <2>5 DEF base64_enc_map
  <2> QED
    BY <2>1, <2>2, <2>3, <2>4, <2>5
<1>2. \A e \in 0 .. 63 : base64_enc_map(e) = base64_enc_map(d) => e = d
  BY <1>1
<1>3. base64_enc_map(d) \notin {Space, CR, LF, Pad}
  BY <1>1 DEF Space, CR, LF, Pad
<1>4. IsDigit(base64_enc_map(d))
  BY DEF IsDigit
<1> HIDE DEF base64_enc_map
<1> QED
  BY <1>2, <1>3, <1>4 DEF Digit

\* Padding stands for no digit.
LEMMA PadIsNoDigit == ~IsDigit(Pad)
<1> SUFFICES ASSUME NEW d \in 0 .. 63, base64_enc_map(d) = Pad PROVE FALSE
  BY DEF IsDigit
<1> QED
  BY DigitOf

\* Byte j of the group of three that follows the first bytes, 0 where there is none.
ByteAt(s, first, j) == IF first + j <= Len(s) THEN s[first + j] ELSE 0

\* It is a byte.
LEMMA ByteAtOK ==
  ASSUME NEW s \in Seq(Byte), NEW first \in Nat, NEW j \in 1 .. 3
  PROVE  ByteAt(s, first, j) \in 0 .. 255
<1>1. CASE first + j <= Len(s)
  <2>1. first + j \in 1 .. Len(s)
    BY <1>1
  <2>2. s[first + j] \in Byte
    BY <2>1
  <2> QED
    BY <1>1, <2>2 DEF ByteAt, Byte
<1>2. CASE ~(first + j <= Len(s))
  BY <1>2 DEF ByteAt
<1> QED
  BY <1>1, <1>2

\* The four characters of group g, counted from 0.
LEMMA Characters ==
  ASSUME NEW s \in Seq(Byte), NEW g \in 0 .. CeilDiv(Len(s), 3) - 1
  PROVE  LET e    == base64_encode(s)
             C(j) == ByteAt(s, 3 * g, j)
         IN  /\ e[4 * g + 1] = base64_enc_map(C(1) \div 4)
             /\ e[4 * g + 2] = base64_enc_map((C(1) % 4) * 16 + C(2) \div 16)
             /\ e[4 * g + 3] = IF 3 * g + 2 > Len(s) THEN Pad
                               ELSE base64_enc_map((C(2) % 16) * 4 + C(3) \div 64)
             /\ e[4 * g + 4] = IF 3 * g + 3 > Len(s) THEN Pad ELSE base64_enc_map(C(3) % 64)
<1> DEFINE m == 4 * CeilDiv(Len(s), 3)
           B(k, j) == ByteAt(s, 3 * ((k - 1) \div 4), j)
<1>1. CeilDiv(Len(s), 3) \in Nat /\ g \in Nat
  BY DEF CeilDiv
<1>2. ASSUME NEW k \in 1 .. m
      PROVE  base64_encode(s)[k] =
          CASE k % 4 = 1 -> base64_enc_map(B(k, 1) \div 4)
            [] k % 4 = 2 -> base64_enc_map((B(k, 1) % 4) * 16 + B(k, 2) \div 16)
            [] k % 4 = 3 -> IF 3 * ((k - 1) \div 4) + 2 > Len(s) THEN Pad
                            ELSE base64_enc_map((B(k, 2) % 16) * 4 + B(k, 3) \div 64)
            [] k % 4 = 0 -> IF 3 * ((k - 1) \div 4) + 3 > Len(s) THEN Pad
                            ELSE base64_enc_map(B(k, 3) % 64)
  BY DEF base64_encode, ByteAt
<1>3. ASSUME NEW i \in 1 .. 4
      PROVE  LET k == 4 * g + i IN k \in 1 .. m /\ (k - 1) \div 4 = g /\ k % 4 = i % 4
  BY <1>1
<1>4. 1 % 4 = 1 /\ 2 % 4 = 2 /\ 3 % 4 = 3 /\ 4 % 4 = 0
  OBVIOUS
<1> DEFINE e    == base64_encode(s)
           C(j) == ByteAt(s, 3 * g, j)
<1> HIDE DEF m, e
<1>5. \A k \in 1 .. m : e[k] =
          CASE k % 4 = 1 -> base64_enc_map(B(k, 1) \div 4)
            [] k % 4 = 2 -> base64_enc_map((B(k, 1) % 4) * 16 + B(k, 2) \div 16)
            [] k % 4 = 3 -> IF 3 * ((k - 1) \div 4) + 2 > Len(s) THEN Pad
                            ELSE base64_enc_map((B(k, 2) % 16) * 4 + B(k, 3) \div 64)
            [] k % 4 = 0 -> IF 3 * ((k - 1) \div 4) + 3 > Len(s) THEN Pad
                            ELSE base64_enc_map(B(k, 3) % 64)
  BY <1>2 DEF e
<1>6. e[4 * g + 1] = base64_enc_map(C(1) \div 4)
  <2> DEFINE k == 4 * g + 1
  <2>1. k \in 1 .. m /\ (k - 1) \div 4 = g /\ k % 4 = 1
    BY <1>3, <1>4
  <2> HIDE DEF k
  <2>2. e[k] = base64_enc_map(C(1) \div 4)
    BY <1>5, <2>1
  <2> QED
    BY <2>2 DEF k
<1>7. e[4 * g + 2] = base64_enc_map((C(1) % 4) * 16 + C(2) \div 16)
  <2> DEFINE k == 4 * g + 2
  <2>1. k \in 1 .. m /\ (k - 1) \div 4 = g /\ k % 4 = 2
    BY <1>3, <1>4
  <2> HIDE DEF k
  <2>3. B(k, 1) = C(1) /\ B(k, 2) = C(2)
    BY <2>1
  <2> HIDE DEF B, C
  <2>2. e[k] = base64_enc_map((C(1) % 4) * 16 + C(2) \div 16)
    BY <1>5, <2>1, <2>3
  <2> QED
    BY <2>2 DEF k
<1>8. e[4 * g + 3] = IF 3 * g + 2 > Len(s) THEN Pad ELSE base64_enc_map((C(2) % 16) * 4 + C(3) \div 64)
  <2> DEFINE k == 4 * g + 3
  <2>1. k \in 1 .. m /\ (k - 1) \div 4 = g /\ k % 4 = 3
    BY <1>3, <1>4
  <2> HIDE DEF k
  <2>2. e[k] = IF 3 * g + 2 > Len(s) THEN Pad ELSE base64_enc_map((C(2) % 16) * 4 + C(3) \div 64)
    BY <1>5, <2>1
  <2> QED
    BY <2>2 DEF k
<1>9. e[4 * g + 4] = IF 3 * g + 3 > Len(s) THEN Pad ELSE base64_enc_map(C(3) % 64)
  <2> DEFINE k == 4 * g + 4
  <2>1. k \in 1 .. m /\ (k - 1) \div 4 = g /\ k % 4 = 0
    BY <1>3, <1>4
  <2> HIDE DEF k
  <2>2. e[k] = IF 3 * g + 3 > Len(s) THEN Pad ELSE base64_enc_map(C(3) % 64)
    BY <1>5, <2>1
  <2> QED
    BY <2>2 DEF k
<1> QED
  BY <1>6, <1>7, <1>8, <1>9 DEF e

\* The groups of three bytes: all but the last are full.
Groups(s) == CeilDiv(Len(s), 3)

\* The last group lacks at most two bytes; each group is four characters.
LEMMA GroupsAre ==
  ASSUME NEW s \in Seq(Byte)
  PROVE  /\ Groups(s) \in Nat /\ Len(s) \in Nat
         /\ 3 * Groups(s) - Len(s) \in 0 .. 2
         /\ base64_encode(s) \in Seq(Byte) /\ Len(base64_encode(s)) = 4 * Groups(s)
<1>1. base64_encode(s) \in Seq(Byte) /\ Len(base64_encode(s)) = 4 * Groups(s)
  BY Base64Length DEF Groups
<1>2. Len(s) \in Nat
  OBVIOUS
<1>3. Groups(s) \in Nat /\ 3 * Groups(s) - Len(s) \in 0 .. 2
  BY <1>2 DEF Groups, CeilDiv
<1> QED
  BY <1>1, <1>2, <1>3

\* Three bytes as four digits, and back.
LEMMA DigitsOfBytes ==
  ASSUME NEW a \in 0 .. 255, NEW b \in 0 .. 255, NEW c \in 0 .. 255
  PROVE  LET d1 == a \div 4
             d2 == (a % 4) * 16 + b \div 16
             d3 == (b % 16) * 4 + c \div 64
             d4 == c % 64
         IN  /\ d1 \in 0 .. 63 /\ d2 \in 0 .. 63 /\ d3 \in 0 .. 63 /\ d4 \in 0 .. 63
             /\ d1 * 4 + d2 \div 16 = a
             /\ (d2 % 16) * 16 + d3 \div 4 = b
             /\ (d3 % 4) * 64 + d4 = c
OBVIOUS

\* Where the padding is.
PadAt(s, k) ==
  \/ k = 4 * Groups(s) /\ Len(s) # 3 * Groups(s)
  \/ k = 4 * Groups(s) - 1 /\ Len(s) = 3 * Groups(s) - 2

\* The text ends with a padding character for each byte its last group lacks,
\* and has no other; what else is in it are digits.
LEMMA EncodedAt ==
  ASSUME NEW s \in Seq(Byte), NEW k \in 1 .. 4 * Groups(s)
  PROVE  LET c == base64_encode(s)[k]
         IN  /\ c = Pad <=> PadAt(s, k)
             /\ c # Pad => IsDigit(c)
             /\ c \notin {Space, CR, LF}
<1> DEFINE g == (k - 1) \div 4
           G == Groups(s)
           e == base64_encode(s)
           C(j) == ByteAt(s, 3 * g, j)
           a == C(1)
           b == C(2)
           c3 == C(3)
           d1 == a \div 4
           d2 == (a % 4) * 16 + b \div 16
           d3 == (b % 16) * 4 + c3 \div 64
           d4 == c3 % 64
<1>1. G \in Nat /\ Len(s) \in Nat /\ 3 * G - Len(s) \in 0 .. 2
  BY GroupsAre
<1>2. g \in 0 .. G - 1 /\ g \in Nat /\ k \in {4 * g + 1, 4 * g + 2, 4 * g + 3, 4 * g + 4}
  BY <1>1
<1>3. g \in 0 .. CeilDiv(Len(s), 3) - 1
  BY <1>2 DEF Groups
<1>4. /\ e[4 * g + 1] = base64_enc_map(d1)
      /\ e[4 * g + 2] = base64_enc_map(d2)
      /\ e[4 * g + 3] = IF 3 * g + 2 > Len(s) THEN Pad ELSE base64_enc_map(d3)
      /\ e[4 * g + 4] = IF 3 * g + 3 > Len(s) THEN Pad ELSE base64_enc_map(d4)
  BY <1>3, Characters
<1>5. a \in 0 .. 255 /\ b \in 0 .. 255 /\ c3 \in 0 .. 255
  BY <1>2, ByteAtOK
<1> HIDE DEF g, G, e, C, a, b, c3
<1>6. d1 \in 0 .. 63 /\ d2 \in 0 .. 63 /\ d3 \in 0 .. 63 /\ d4 \in 0 .. 63
  <2>1. d1 \in 0 .. 63 /\ d4 \in 0 .. 63
    BY <1>5
  <2>2. d2 \in 0 .. 63
    BY <1>5
  <2>3. d3 \in 0 .. 63
    BY <1>5
  <2> QED
    BY <2>1, <2>2, <2>3
<1> HIDE DEF d1, d2, d3, d4
<1>7. \A d \in {d1, d2, d3, d4} : /\ base64_enc_map(d) # Pad /\ IsDigit(base64_enc_map(d))
                                  /\ base64_enc_map(d) \notin {Space, CR, LF}
  BY <1>6, DigitOf
<1>8. Pad \notin {Space, CR, LF}
  BY DEF Pad, Space, CR, LF
<1>9. CASE k = 4 * g + 1
  BY <1>1, <1>2, <1>4, <1>7, <1>9 DEF e, G, PadAt
<1>10. CASE k = 4 * g + 2
  BY <1>1, <1>2, <1>4, <1>7, <1>10 DEF e, G, PadAt
<1>11. CASE k = 4 * g + 3
  <2>1. 3 * g + 2 > Len(s) <=> k = 4 * G - 1 /\ Len(s) = 3 * G - 2
    BY <1>1, <1>2, <1>11
  <2>2. k # 4 * G
    BY <1>1, <1>2, <1>11
  <2> QED
    BY <1>4, <1>7, <1>8, <1>11, <2>1, <2>2 DEF e, G, PadAt
<1>12. CASE k = 4 * g + 4
  <2>1. 3 * g + 3 > Len(s) <=> k = 4 * G /\ Len(s) # 3 * G
    BY <1>1, <1>2, <1>12
  <2>2. k # 4 * G - 1
    BY <1>1, <1>2, <1>12
  <2> QED
    BY <1>4, <1>7, <1>8, <1>12, <2>1, <2>2 DEF e, G, PadAt
<1> QED
  BY <1>2, <1>9, <1>10, <1>11, <1>12

\* Nothing of it is skipped.
LEMMA EncodedSymbols ==
  ASSUME NEW s \in Seq(Byte)
  PROVE  Symbols(base64_encode(s)) = base64_encode(s)
<1> DEFINE e == base64_encode(s)
<1>1. e \in Seq(Byte) /\ Len(e) = 4 * Groups(s)
  BY GroupsAre
<1>2. \A k \in DOMAIN e : e[k] \notin {Space, CR, LF}
  BY <1>1, EncodedAt
<1> HIDE DEF e
<1>3. DOMAIN e \subseteq { k \in DOMAIN e : e[k] \notin {Space, CR, LF} }
  BY <1>2
<1>4. Symbols(e) = e
  BY <1>1, <1>3, KeptAll DEF Symbols
<1> QED
  BY <1>4 DEF e

\* The padding up to the end of a group is that of the last group.
LEMMA EncodedPads ==
  ASSUME NEW s \in Seq(Byte), NEW g \in 1 .. Groups(s)
  PROVE  Pads(SubSeq(base64_encode(s), 1, 4 * g))
           = IF g < Groups(s) THEN 0 ELSE 3 * Groups(s) - Len(s)
<1> DEFINE G == Groups(s)
           e == base64_encode(s)
           p == SubSeq(e, 1, 4 * g)
           I == { i \in DOMAIN p : p[i] = Pad }
<1>1. G \in Nat /\ Len(s) \in Nat /\ 3 * G - Len(s) \in 0 .. 2 /\ e \in Seq(Byte) /\ Len(e) = 4 * G
  BY GroupsAre
<1>2. \A k \in 1 .. 4 * G : e[k] = Pad <=> PadAt(s, k)
  BY EncodedAt
<1> HIDE DEF G, e
<1>3. g \in 1 .. G
  BY DEF G
<1>4. DOMAIN p = 1 .. 4 * g /\ \A k \in 1 .. 4 * g : p[k] = e[k]
  BY <1>1, <1>3
<1> HIDE DEF p
<1>5. I = { k \in 1 .. 4 * g : PadAt(s, k) }
  <2>1. \A k \in 1 .. 4 * g : k \in 1 .. 4 * G
    BY <1>1, <1>3
  <2> QED
    BY <1>2, <1>4, <2>1
<1>p. \A k : PadAt(s, k) <=>
               \/ k = 4 * G /\ Len(s) # 3 * G
               \/ k = 4 * G - 1 /\ Len(s) = 3 * G - 2
  BY DEF PadAt, G
<1>q. Pads(SubSeq(base64_encode(s), 1, 4 * g)) = Cardinality(I)
  BY DEF Pads, e, p
<1>r. g < Groups(s) <=> g < G
  BY DEF G
<1>t. Groups(s) = G
  BY DEF G
<1> HIDE DEF I
<1>6. CASE g < G \/ Len(s) = 3 * G
  <2>1. I = {}
    BY <1>1, <1>3, <1>5, <1>6, <1>p
  <2>2. Cardinality(I) = 0
    BY <2>1, FS_EmptySet
  <2> QED
    BY <1>1, <1>3, <1>6, <2>2, <1>q, <1>t
<1>7. CASE g = G /\ Len(s) = 3 * G - 1
  <2>1. I = {4 * G}
    BY <1>1, <1>3, <1>5, <1>7, <1>p
  <2>2. Cardinality(I) = 1
    BY <2>1, FS_Singleton
  <2>3. 3 * G - Len(s) = 1 /\ ~(g < G)
    BY <1>1, <1>3, <1>7
  <2> QED
    BY <2>2, <2>3, <1>q, <1>t
<1>8. CASE g = G /\ Len(s) = 3 * G - 2
  <2> DEFINE a == 4 * G - 1
             b == 4 * G
  <2>1. a # b
    BY <1>1
  <2>2. I = {a} \union {b}
    BY <1>1, <1>3, <1>5, <1>8, <1>p
  <2> HIDE DEF a, b
  <2>3. Cardinality(I) = 2
    <3>1. IsFiniteSet({a}) /\ Cardinality({a}) = 1
      BY FS_Singleton
    <3>2. Cardinality({a} \union {b}) = IF b \in {a} THEN 1 ELSE 1 + 1
      BY <3>1, FS_AddElement
    <3> QED
      BY <2>1, <2>2, <3>2
  <2>4. 3 * G - Len(s) = 2 /\ ~(g < G)
    BY <1>1, <1>3, <1>8
  <2> QED
    BY <2>3, <2>4, <1>q, <1>t
<1> QED
  BY <1>1, <1>3, <1>6, <1>7, <1>8

\* The three bytes that group g of the symbols stands for, and those of them
\* that are written.
GroupBytes(s, g) ==
  LET d(i) == Digit(s[4 * g + i])
  IN  << d(1) * 4 + d(2) \div 16, (d(2) % 16) * 16 + d(3) \div 4, (d(3) % 4) * 64 + d(4) >>

GroupOf(s, g) == SubSeq(GroupBytes(s, g), 1, 3 - Pads(SubSeq(s, 1, 4 * g + 4)))

\* base64_decode in terms of its groups.
LEMMA DecodedIs ==
  ASSUME NEW src
  PROVE  base64_decode(src) =
           FlattenSeq([g \in 1 .. Len(Symbols(src)) \div 4 |-> GroupOf(Symbols(src), g - 1)])
BY Zenon DEF base64_decode, GroupOf, GroupBytes

\* base64_decode accepts what base64_encode writes.
LEMMA EncodedValid ==
  ASSUME NEW s \in Seq(Byte)
  PROVE  DecodeValid(base64_encode(s))
<1> DEFINE e == base64_encode(s)
           G == Groups(s)
<1>1. G \in Nat /\ Len(s) \in Nat /\ 3 * G - Len(s) \in 0 .. 2 /\ e \in Seq(Byte) /\ Len(e) = 4 * G
  BY GroupsAre
<1>2. \A k \in 1 .. 4 * G : /\ e[k] = Pad <=> PadAt(s, k)
                            /\ e[k] # Pad => IsDigit(e[k])
  BY EncodedAt
<1>3. Pads(e) <= 2
  <2>1. CASE G = 0
    <3>1. DOMAIN e = {}
      BY <1>1, <2>1
    <3>2. Pads(e) = 0
      BY <3>1, FS_EmptySet DEF Pads
    <3> QED
      BY <3>2
  <2>2. CASE G > 0
    <3>1. SubSeq(e, 1, 4 * G) = e
      <4> HIDE DEF e, G
      <4> QED
        BY <1>1
    <3>2. Pads(SubSeq(e, 1, 4 * G)) \in 0 .. 2
      BY <1>1, <2>2, EncodedPads
    <3> HIDE DEF e, G
    <3>3. Pads(e) \in 0 .. 2
      BY <3>1, <3>2, Zenon
    <3> QED
      BY <3>3
  <2> QED
    BY <1>1, <2>1, <2>2
<1> HIDE DEF e
<1>4. ASSUME NEW i \in DOMAIN e, NEW j \in DOMAIN e, i < j, e[i] = Pad
      PROVE  ~IsDigit(e[j])
  <2>1. i \in 1 .. 4 * G /\ j \in 1 .. 4 * G
    BY <1>1, <1>4
  <2>2. PadAt(s, i)
    BY <1>2, <1>4, <2>1
  <2>3. PadAt(s, j)
    BY <1>1, <1>4, <2>1, <2>2 DEF PadAt, G
  <2> QED
    BY <1>2, <2>1, <2>3, PadIsNoDigit
<1>5. \A i \in DOMAIN e : e[i] = Pad \/ IsDigit(e[i])
  BY <1>1, <1>2
<1>6. DecodeValid(e)
  BY <1>3, <1>4, <1>5 DEF DecodeValid
<1> QED
  BY <1>6 DEF e

\* A group of the text stands for the bytes it was made of.
LEMMA GroupBack ==
  ASSUME NEW s \in Seq(Byte), NEW g \in 0 .. Groups(s) - 1
  PROVE  GroupBytes(base64_encode(s), g)
           = << ByteAt(s, 3 * g, 1), ByteAt(s, 3 * g, 2), ByteAt(s, 3 * g, 3) >>
<1> DEFINE e == base64_encode(s)
           C(j) == ByteAt(s, 3 * g, j)
           a == C(1)
           b == C(2)
           c == C(3)
           d1 == a \div 4
           d2 == (a % 4) * 16 + b \div 16
           d3 == (b % 16) * 4 + c \div 64
           d4 == c % 64
<1>1. Groups(s) \in Nat /\ Len(s) \in Nat /\ g \in Nat
  BY GroupsAre
<1>2. g \in 0 .. CeilDiv(Len(s), 3) - 1
  BY DEF Groups
<1>3. /\ e[4 * g + 1] = base64_enc_map(d1)
      /\ e[4 * g + 2] = base64_enc_map(d2)
      /\ e[4 * g + 3] = IF 3 * g + 2 > Len(s) THEN Pad ELSE base64_enc_map(d3)
      /\ e[4 * g + 4] = IF 3 * g + 3 > Len(s) THEN Pad ELSE base64_enc_map(d4)
  BY <1>2, Characters
<1>4. a \in 0 .. 255 /\ b \in 0 .. 255 /\ c \in 0 .. 255
  BY <1>1, ByteAtOK
<1>5. /\ 3 * g + 2 > Len(s) => b = 0 /\ c = 0
      /\ 3 * g + 3 > Len(s) => c = 0
  BY <1>1 DEF ByteAt
<1> HIDE DEF e, C, a, b, c
<1>6. d1 \in 0 .. 63 /\ d4 \in 0 .. 63
  BY <1>4
<1>7. d2 \in 0 .. 63
  BY <1>4
<1>8. d3 \in 0 .. 63
  BY <1>4
<1>9. /\ 3 * g + 2 > Len(s) => d3 = 0
      /\ 3 * g + 3 > Len(s) => d4 = 0
  BY <1>5
<1>10. d1 * 4 + d2 \div 16 = a
  BY <1>4
<1>11. (d2 % 16) * 16 + d3 \div 4 = b
  BY <1>4
<1>12. (d3 % 4) * 64 + d4 = c
  BY <1>4
<1> HIDE DEF d1, d2, d3, d4
<1>13. Digit(Pad) = 0
  BY DEF Digit
<1>14. Digit(e[4 * g + 1]) = d1 /\ Digit(e[4 * g + 2]) = d2
  BY <1>3, <1>6, <1>7, DigitOf
<1>15. Digit(e[4 * g + 3]) = d3
  BY <1>3, <1>8, <1>9, <1>13, DigitOf
<1>16. Digit(e[4 * g + 4]) = d4
  BY <1>3, <1>6, <1>9, <1>13, DigitOf
<1>17. GroupBytes(e, g) = << a, b, c >>
  BY <1>10, <1>11, <1>12, <1>14, <1>15, <1>16 DEF GroupBytes
<1> QED
  BY <1>17 DEF e, C, a, b, c

\* The first n of three values.
LEMMA FirstOfThree ==
  ASSUME NEW S, NEW x \in S, NEW y \in S, NEW z \in S, NEW n \in 0 .. 3
  PROVE  /\ SubSeq(<< x, y, z >>, 1, n) \in Seq(S) /\ Len(SubSeq(<< x, y, z >>, 1, n)) = n
         /\ \A i \in 1 .. n : SubSeq(<< x, y, z >>, 1, n)[i] = << x, y, z >>[i]
<1> DEFINE t == << x, y, z >>
<1>1. t \in Seq(S) /\ Len(t) = 3
  OBVIOUS
<1> HIDE DEF t
<1> DEFINE u == SubSeq(t, 1, n)
<1>2. \A i \in 1 .. n : t[i] \in S
  <2>1. \A i \in 1 .. n : i \in 1 .. 3
    OBVIOUS
  <2>2. \A i \in 1 .. 3 : t[i] \in S
    BY <1>1, ElementOfSeq
  <2> HIDE DEF u
  <2> QED
    BY <2>1, <2>2
<1>3. /\ u \in Seq(S) /\ Len(u) = IF 1 <= n THEN n - 1 + 1 ELSE 0
      /\ \A i \in 1 .. n - 1 + 1 : u[i] = t[1 + i - 1]
  BY <1>2, SubSeqProperties
<1> HIDE DEF u
<1>4. u \in Seq(S) /\ Len(u) = n /\ \A i \in 1 .. n : u[i] = t[i]
  BY <1>3
<1> QED
  BY <1>4 DEF t, u

\* A group of the text gives back the bytes it has.
LEMMA GroupGiven ==
  ASSUME NEW s \in Seq(Byte), NEW k \in 1 .. Groups(s)
  PROVE  LET p == GroupOf(base64_encode(s), k - 1)
             n == IF k < Groups(s) THEN 3 ELSE Len(s) - 3 * (k - 1)
         IN  /\ p \in Seq(Byte) /\ Len(p) = n /\ n \in 1 .. 3
             /\ \A i \in 1 .. n : 3 * (k - 1) + i \in 1 .. Len(s) /\ p[i] = s[3 * (k - 1) + i]
<1> DEFINE e == base64_encode(s)
           G == Groups(s)
           g == k - 1
           n == IF k < Groups(s) THEN 3 ELSE Len(s) - 3 * (k - 1)
           C(j) == ByteAt(s, 3 * g, j)
<1>1. G \in Nat /\ Len(s) \in Nat /\ 3 * G - Len(s) \in 0 .. 2
  BY GroupsAre
<1>2. g \in 0 .. Groups(s) - 1 /\ g \in Nat /\ 4 * g + 4 = 4 * k
  BY <1>1
<1>3. GroupBytes(e, g) = << C(1), C(2), C(3) >>
  BY <1>2, GroupBack
<1>4. Pads(SubSeq(e, 1, 4 * g + 4)) = IF k < G THEN 0 ELSE 3 * G - Len(s)
  BY <1>2, EncodedPads
<1>5. n \in 1 .. 3 /\ \A i \in 1 .. n : 3 * g + i \in 1 .. Len(s)
  BY <1>1
<1>6. 3 - Pads(SubSeq(e, 1, 4 * g + 4)) = n
  BY <1>1, <1>4
<1>7. C(1) \in Byte /\ C(2) \in Byte /\ C(3) \in Byte
  BY <1>2, ByteAtOK DEF Byte
<1>8. \A i \in 1 .. n : C(i) = s[3 * g + i]
  BY <1>1, <1>5 DEF ByteAt
<1> HIDE DEF C, e, G, n
<1>9. GroupOf(e, g) = SubSeq(<< C(1), C(2), C(3) >>, 1, n)
  BY <1>3, <1>6 DEF GroupOf
<1>10. n \in 0 .. 3
  BY <1>5
<1> DEFINE c1 == C(1)
           c2 == C(2)
           c3 == C(3)
<1>a. c1 \in Byte /\ c2 \in Byte /\ c3 \in Byte /\ GroupOf(e, g) = SubSeq(<< c1, c2, c3 >>, 1, n)
  BY <1>7, <1>9
<1>12. \A i \in 1 .. n : << c1, c2, c3 >>[i] = C(i)
  BY <1>10
<1> HIDE DEF c1, c2, c3, g
<1>11. /\ GroupOf(e, g) \in Seq(Byte) /\ Len(GroupOf(e, g)) = n
       /\ \A i \in 1 .. n : GroupOf(e, g)[i] = << c1, c2, c3 >>[i]
  BY <1>10, <1>a, FirstOfThree
<1>13. \A i \in 1 .. n : 3 * g + i \in 1 .. Len(s) /\ GroupOf(e, g)[i] = s[3 * g + i]
  BY <1>5, <1>8, <1>11, <1>12
<1> QED
  BY <1>5, <1>11, <1>13 DEF e, n, g

\* base64_decode gives back the bytes base64_encode was given.
THEOREM Base64RoundTrip ==
  ASSUME NEW s \in Seq(Byte)
  PROVE  base64_decode(base64_encode(s)) = s
<1> DEFINE e == base64_encode(s)
           G == Groups(s)
           N == Len(s)
           parts == [k \in 1 .. G |-> GroupOf(e, k - 1)]
           all == FlattenSeq(parts)
           P(k) == IF k < G THEN 3 ELSE N - 3 * (k - 1)
<1>1. G \in Nat /\ N \in Nat /\ 3 * G - N \in 0 .. 2 /\ Len(e) = 4 * G
  BY GroupsAre
<1>2. base64_decode(e) = all
  <2>1. Symbols(e) = e
    BY EncodedSymbols
  <2>2. Len(e) \div 4 = G
    <3> HIDE DEF e, G
    <3> QED
      BY <1>1
  <2> HIDE DEF e, G
  <2> QED
    BY <2>1, <2>2, DecodedIs
<1>3. \A k \in 1 .. G :
        /\ GroupOf(e, k - 1) \in Seq(Byte) /\ Len(GroupOf(e, k - 1)) = P(k) /\ P(k) \in 1 .. 3
        /\ \A i \in 1 .. P(k) : GroupOf(e, k - 1)[i] = s[3 * (k - 1) + i]
  BY GroupGiven
<1> HIDE DEF e, G, N
<1>4. parts \in Seq(Seq(Byte)) /\ Len(parts) = G
  <2>1. parts \in [1 .. G -> Seq(Byte)]
    BY <1>3
  <2> HIDE DEF parts
  <2> QED
    BY <1>1, <2>1, IsSeq
<1>5. \A k \in 1 .. G : /\ Len(parts[k]) = P(k) /\ P(k) \in 1 .. 3
                        /\ \A i \in 1 .. P(k) : parts[k][i] = s[3 * (k - 1) + i]
  BY <1>3
<1> HIDE DEF parts
<1>6. PICK at :
        /\ Begins(at, parts) /\ Len(all) = at[G]
        /\ \A k \in 1 .. G : \A i \in 1 .. Len(parts[k]) : all[at[k - 1] + i] = parts[k][i]
  <2>1. \E at : /\ Begins(at, parts)
                /\ Len(FlattenSeq(parts)) = at[Len(parts)]
                /\ \A k \in 1 .. Len(parts) :
                     /\ at[k] <= at[Len(parts)]
                     /\ \A i \in 1 .. Len(parts[k]) :
                          FlattenSeq(parts)[at[k - 1] + i] = parts[k][i]
    BY <1>4, FlattenParts
  <2> HIDE DEF all
  <2> QED
    BY <1>4, <2>1 DEF all
<1>7. all \in Seq(Byte)
  BY <1>4, FlattenParts
<1>8. \A k \in 0 .. G : at[k] = IF k < G THEN 3 * k ELSE N
  <2> DEFINE Good == { k \in 0 .. G : at[k] = IF k < G THEN 3 * k ELSE N }
  <2>1. 0 \in Good
    BY <1>1, <1>6 DEF Begins
  <2>2. ASSUME NEW k \in 0 .. G - 1, k \in Good PROVE k + 1 \in Good
    <3>1. k + 1 \in 1 .. G /\ k + 1 \in 0 .. G /\ (k + 1) - 1 = k
      BY <1>1
    <3>a. at[k + 1] = at[(k + 1) - 1] + Len(parts[k + 1])
      BY <1>4, <1>6, <3>1 DEF Begins
    <3>2. at[k + 1] = at[k] + P(k + 1)
      BY <1>5, <3>1, <3>a
    <3>b. k < G
      BY <1>1
    <3>3. at[k] = 3 * k
      BY <2>2, <3>b
    <3>4. at[k + 1] = IF k + 1 < G THEN 3 * (k + 1) ELSE N
      BY <1>1, <3>1, <3>2, <3>3
    <3> QED
      BY <3>1, <3>4
  <2> HIDE DEF Good
  <2>3. \A k \in 0 .. G : k \in Good
    BY <1>1, <2>1, <2>2, InductionTo
  <2> QED
    BY <2>3 DEF Good
<1>9. Len(all) = N
  BY <1>1, <1>6, <1>8
<1>10. ASSUME NEW x \in 1 .. N PROVE all[x] = s[x]
  <2> DEFINE k == (x - 1) \div 3 + 1
             i == x - 3 * (k - 1)
  <2>1. k \in 1 .. G /\ k - 1 \in 0 .. G /\ i \in 1 .. 3 /\ x = 3 * (k - 1) + i
    BY <1>1
  <2>2. k - 1 < G
    BY <1>1, <2>1
  <2>3. i \in 1 .. P(k)
    BY <1>1, <2>1
  <2> HIDE DEF k, i, P
  <2>4. at[k - 1] = 3 * (k - 1)
    BY <1>8, <2>1, <2>2
  <2>5. all[at[k - 1] + i] = parts[k][i] /\ parts[k][i] = s[3 * (k - 1) + i]
    BY <1>5, <1>6, <2>1, <2>3
  <2> QED
    BY <2>1, <2>4, <2>5
<1> HIDE DEF all
<1>11. all = s
  BY <1>7, <1>9, <1>10, SeqEqual DEF N
<1> QED
  BY <1>2, <1>11 DEF e

\* The padding among the first m characters.
PadsTo(s, m) == { i \in 1 .. m : s[i] = Pad }

\* There are no more than characters.
LEMMA PadsFinite ==
  ASSUME NEW s, NEW m \in Nat
  PROVE  IsFiniteSet(PadsTo(s, m)) /\ Cardinality(PadsTo(s, m)) \in 0 .. m
<1>1. IsFiniteSet(1 .. m) /\ Cardinality(1 .. m) = m
  BY FS_Interval
<1>2. PadsTo(s, m) \in SUBSET (1 .. m)
  BY DEF PadsTo
<1>3. IsFiniteSet(PadsTo(s, m)) /\ Cardinality(PadsTo(s, m)) <= m
  BY <1>1, <1>2, FS_Subset
<1> QED
  BY <1>3, FS_CardinalityType

\* They are what base64_decode counts.
LEMMA PadsOfPrefix ==
  ASSUME NEW s \in Seq(Byte), NEW m \in 0 .. Len(s)
  PROVE  Pads(SubSeq(s, 1, m)) = Cardinality(PadsTo(s, m))
<1> DEFINE p == SubSeq(s, 1, m)
<1>1. DOMAIN p = 1 .. m /\ \A i \in 1 .. m : p[i] = s[i]
  OBVIOUS
<1> HIDE DEF p
<1>2. { i \in DOMAIN p : p[i] = Pad } = PadsTo(s, m)
  BY <1>1 DEF PadsTo
<1> QED
  BY <1>2 DEF Pads, p

\* What base64_decode keeps of a text it accepts: padding and digits, and no
\* padding is lost.
LEMMA SymbolsOK ==
  ASSUME NEW src \in Seq(Byte), DecodeValid(src)
  PROVE  LET s == Symbols(src)
         IN  /\ s \in Seq(Byte)
             /\ \A j \in 1 .. Len(s) : Digit(s[j]) \in 0 .. 63
             /\ \A m \in 0 .. Len(s) :
                  /\ Cardinality(PadsTo(s, m)) <= Pads(src)
                  /\ Pads(src) <= Cardinality(PadsTo(s, m)) + (Len(s) - m)
<1> DEFINE keep == { k \in DOMAIN src : src[k] \notin {Space, CR, LF} }
           s == Symbols(src)
           n == Len(s)
           J == { k \in DOMAIN src : src[k] = Pad }
<1>1. s = Kept(src, keep)
  BY DEF Symbols
<1> HIDE DEF s
<1>2. s \in Seq(Byte)
  BY <1>1, KeptFrom
<1>3. PICK at \in [DOMAIN s -> DOMAIN src \intersect keep] :
        /\ \A j \in DOMAIN s : s[j] = src[at[j]]
        /\ \A i, j \in DOMAIN s : i < j => at[i] < at[j]
        /\ \A k \in DOMAIN src \intersect keep : \E j \in DOMAIN s : at[j] = k
  <2> HIDE DEF keep
  <2> QED
    BY <1>1, KeptFrom
<1>4. DOMAIN s = 1 .. n /\ n \in Nat
  BY <1>2
<1>5. \A j \in 1 .. n : /\ at[j] \in DOMAIN src /\ at[j] \in Nat /\ s[j] = src[at[j]]
                        /\ src[at[j]] \notin {Space, CR, LF}
  BY <1>3, <1>4
<1>6. \A i, j \in 1 .. n : at[i] = at[j] => i = j
  <2> SUFFICES ASSUME NEW i \in 1 .. n, NEW j \in 1 .. n, at[i] = at[j], i # j PROVE FALSE
    OBVIOUS
  <2>1. at[i] \in Nat /\ at[j] \in Nat
    BY <1>5
  <2>2. i < j => at[i] < at[j]
    BY <1>3, <1>4
  <2>3. j < i => at[j] < at[i]
    BY <1>3, <1>4
  <2>4. i < j \/ j < i
    BY <1>4
  <2> HIDE DEF keep, n
  <2> QED
    BY <2>1, <2>2, <2>3, <2>4
<1>7. \A k \in J : \E j \in 1 .. n : at[j] = k
  <2>1. Pad \notin {Space, CR, LF}
    BY DEF Pad, Space, CR, LF
  <2>2. \A k \in J : k \in DOMAIN src \intersect keep
    BY <2>1
  <2> QED
    BY <1>3, <1>4, <2>2
<1>8. IsFiniteSet(J) /\ Cardinality(J) \in Nat /\ Pads(src) = Cardinality(J)
  <2>1. J = PadsTo(src, Len(src)) /\ Len(src) \in Nat
    BY DEF PadsTo
  <2> HIDE DEF J
  <2>2. IsFiniteSet(J) /\ Cardinality(J) \in Nat
    BY <2>1, PadsFinite
  <2> QED
    BY <2>2 DEF Pads, J
<1>9. ASSUME NEW j \in 1 .. n PROVE Digit(s[j]) \in 0 .. 63
  <2> DEFINE c == src[at[j]]
  <2>1. at[j] \in DOMAIN src /\ s[j] = c /\ c \notin {Space, CR, LF}
    BY <1>5
  <2>2. c = Pad \/ IsDigit(c)
    BY <2>1 DEF DecodeValid, EndsLine
  <2> HIDE DEF c
  <2>3. CASE c = Pad
    BY <2>1, <2>3 DEF Digit
  <2>4. CASE IsDigit(c)
    <3>1. PICK d \in 0 .. 63 : base64_enc_map(d) = c
      BY <2>4 DEF IsDigit
    <3> QED
      BY <2>1, <3>1, DigitOf
  <2> QED
    BY <2>2, <2>3, <2>4
<1> HIDE DEF J, n
<1>10. ASSUME NEW m \in 0 .. n
       PROVE  Cardinality(PadsTo(s, m)) <= Cardinality(J)
  <2> DEFINE I == PadsTo(s, m)
             f == [i \in I |-> at[i]]
  <2>1. \A i \in I : i \in 1 .. n /\ s[i] = Pad
    BY <1>4 DEF PadsTo
  <2>2. \A i \in I : at[i] \in J
    BY <1>5, <2>1 DEF J
  <2>3. \A i, j \in I : at[i] = at[j] => i = j
    BY <1>6, <2>1
  <2> HIDE DEF I
  <2>4. f \in Injection(I, J)
    BY <2>2, <2>3 DEF Injection, IsInjective
  <2> HIDE DEF f
  <2>5. Cardinality(I) <= Cardinality(J)
    BY <1>8, <2>4, FS_Injection
  <2> QED
    BY <2>5 DEF I
<1>11. ASSUME NEW m \in 0 .. n
       PROVE  Cardinality(J) <= Cardinality(PadsTo(s, m)) + (n - m)
  <2> DEFINE I == PadsTo(s, m)
             X == PadsTo(s, n)
             R == m + 1 .. n
             f == [i \in X |-> at[i]]
  <2>1. IsFiniteSet(I) /\ Cardinality(I) \in Nat /\ IsFiniteSet(X) /\ Cardinality(X) \in Nat
    BY <1>4, PadsFinite
  <2>2. IsFiniteSet(R) /\ Cardinality(R) = n - m
    <3>1. m + 1 \in Int /\ n \in Int /\ (m + 1 > n => n - m = 0) /\ n - (m + 1) + 1 = n - m
      BY <1>4
    <3>2. /\ IsFiniteSet(m + 1 .. n)
          /\ Cardinality(m + 1 .. n) = IF m + 1 > n THEN 0 ELSE n - (m + 1) + 1
      BY <3>1, FS_Interval
    <3> QED
      BY <3>1, <3>2
  <2>3. \A i \in X : i \in 1 .. n /\ s[i] = Pad
    BY DEF PadsTo
  <2>4. \A i \in X : at[i] \in J
    BY <1>5, <2>3 DEF J
  <2>5. \A k \in J : \E i \in X : at[i] = k
    BY <1>5, <1>7 DEF PadsTo, J
  <2>6. X \subseteq I \union R
    BY <1>4 DEF PadsTo
  <2> HIDE DEF I, X, R
  <2>7. f \in Surjection(X, J)
    BY <2>4, <2>5 DEF Surjection
  <2> HIDE DEF f
  <2>8. Cardinality(J) <= Cardinality(X)
    BY <2>1, <2>7, FS_Surjection
  <2>9. /\ IsFiniteSet(I \union R)
        /\ Cardinality(I \union R) = Cardinality(I) + Cardinality(R) - Cardinality(I \intersect R)
    BY <2>1, <2>2, FS_Union
  <2>10. Cardinality(I \intersect R) \in Nat
    <3>1. IsFiniteSet(I \intersect R)
      BY <2>1, FS_Subset
    <3> QED
      BY <3>1, FS_CardinalityType
  <2>11. Cardinality(X) <= Cardinality(I \union R)
    BY <2>6, <2>9, FS_Subset
  <2>12. Cardinality(J) <= Cardinality(I) + (n - m)
    BY <1>4, <1>8, <2>1, <2>2, <2>8, <2>9, <2>10, <2>11
  <2> QED
    BY <2>12 DEF I
<1> QED
  BY <1>2, <1>8, <1>9, <1>10, <1>11 DEF s, n

\* A group of accepted symbols writes three bytes less one for each padding
\* character so far.
LEMMA GroupLength ==
  ASSUME NEW s \in Seq(Byte), \A j \in 1 .. Len(s) : Digit(s[j]) \in 0 .. 63,
         NEW k \in 1 .. Len(s) \div 4, Cardinality(PadsTo(s, 4 * k)) <= 2
  PROVE  /\ GroupOf(s, k - 1) \in Seq(Int)
         /\ Len(GroupOf(s, k - 1)) = 3 - Cardinality(PadsTo(s, 4 * k))
<1> DEFINE g == k - 1
           c == Cardinality(PadsTo(s, 4 * k))
           d(i) == Digit(s[4 * g + i])
           d1 == d(1)
           d2 == d(2)
           d3 == d(3)
           d4 == d(4)
           x == d1 * 4 + d2 \div 16
           y == (d2 % 16) * 16 + d3 \div 4
           z == (d3 % 4) * 64 + d4
<1>1. Len(s) \in Nat /\ 4 * k \in 0 .. Len(s) /\ 4 * k \in Nat /\ 4 * g + 4 = 4 * k
  OBVIOUS
<1>2. \A i \in 1 .. 4 : 4 * g + i \in 1 .. Len(s)
  BY <1>1
<1>3. d1 \in 0 .. 63 /\ d2 \in 0 .. 63 /\ d3 \in 0 .. 63 /\ d4 \in 0 .. 63
  BY <1>2
<1>4. Pads(SubSeq(s, 1, 4 * g + 4)) = c
  BY <1>1, PadsOfPrefix
<1>5. c \in 0 .. 2
  BY <1>1, PadsFinite
<1>6. GroupBytes(s, g) = << x, y, z >>
  BY DEF GroupBytes
<1> HIDE DEF d, d1, d2, d3, d4, c
<1>7. x \in Int /\ y \in Int /\ z \in Int
  <2>1. x \in Int
    BY <1>3
  <2>2. y \in Int
    BY <1>3
  <2>3. z \in Int
    BY <1>3
  <2> QED
    BY <2>1, <2>2, <2>3
<1>8. GroupOf(s, g) = SubSeq(<< x, y, z >>, 1, 3 - c)
  BY <1>4, <1>6 DEF GroupOf
<1>9. 3 - c \in 0 .. 3
  BY <1>5
<1> HIDE DEF x, y, z, g
<1>10. GroupOf(s, g) \in Seq(Int) /\ Len(GroupOf(s, g)) = 3 - c
  BY <1>7, <1>8, <1>9, FirstOfThree
<1> QED
  BY <1>10 DEF c, g

\* base64_decode writes no more than the size it asks for, whatever it accepts.
LEMMA DecodeFits ==
  ASSUME NEW src \in Seq(Byte), DecodeValid(src)
  PROVE  Len(base64_decode(src)) <= DecodeSize(src)
<1> DEFINE s == Symbols(src)
           n == Len(s)
           q == n \div 4
           P(k) == Cardinality(PadsTo(s, 4 * k))
           parts == [k \in 1 .. q |-> GroupOf(s, k - 1)]
           all == FlattenSeq(parts)
<1>1. /\ s \in Seq(Byte)
      /\ \A j \in 1 .. n : Digit(s[j]) \in 0 .. 63
      /\ \A m \in 0 .. n : /\ Cardinality(PadsTo(s, m)) <= Pads(src)
                           /\ Pads(src) <= Cardinality(PadsTo(s, m)) + (n - m)
  BY SymbolsOK
<1>2. base64_decode(src) = all
  BY DecodedIs
<1>3. DecodeSize(src) = IF n = 0 THEN 0
                        ELSE 6 * (n \div 8) + (6 * (n % 8) + 7) \div 8 - Pads(src)
  BY DEF DecodeSize
<1> HIDE DEF s
<1>4. n \in Nat
  BY <1>1
<1> HIDE DEF n
<1>5. q \in Nat /\ \A k \in 0 .. q : 4 * k \in 0 .. n /\ 4 * k \in Nat
  BY <1>4
<1>6. Pads(src) \in 0 .. 2
  <2>1. Pads(src) <= 2
    BY DEF DecodeValid
  <2>2. { i \in DOMAIN src : src[i] = Pad } = PadsTo(src, Len(src)) /\ Len(src) \in Nat
    BY DEF PadsTo
  <2>3. Cardinality(PadsTo(src, Len(src))) \in Nat
    BY <2>2, PadsFinite
  <2>4. Pads(src) = Cardinality(PadsTo(src, Len(src)))
    BY <2>2 DEF Pads
  <2> QED
    BY <2>1, <2>3, <2>4
<1>7. \A k \in 0 .. q : P(k) \in 0 .. 2
  <2> SUFFICES ASSUME NEW k \in 0 .. q PROVE P(k) \in 0 .. 2
    OBVIOUS
  <2>1. 4 * k \in 0 .. n /\ 4 * k \in Nat
    BY <1>5
  <2>2. P(k) <= Pads(src)
    BY <1>1, <2>1
  <2>3. P(k) \in 0 .. 4 * k
    BY <2>1, PadsFinite
  <2> HIDE DEF P, q
  <2> QED
    BY <1>6, <2>2, <2>3
<1>8. P(0) = 0
  <2>1. PadsTo(s, 4 * 0) = {}
    BY DEF PadsTo
  <2> QED
    BY <2>1, FS_EmptySet
<1>9. Pads(src) <= P(q) + (n - 4 * q)
  BY <1>1, <1>5
<1>10. ASSUME NEW k \in 1 .. q
       PROVE  GroupOf(s, k - 1) \in Seq(Int) /\ Len(GroupOf(s, k - 1)) = 3 - P(k)
  <2>1. Cardinality(PadsTo(s, 4 * k)) <= 2
    BY <1>5, <1>7
  <2>2. k \in 1 .. Len(s) \div 4
    BY DEF n
  <2> HIDE DEF q
  <2> QED
    BY <1>1, <2>1, <2>2, GroupLength DEF n
<1> HIDE DEF q, P
<1>11. parts \in Seq(Seq(Int)) /\ Len(parts) = q
  <2>1. parts \in [1 .. q -> Seq(Int)]
    BY <1>10
  <2> HIDE DEF parts
  <2> QED
    BY <1>5, <2>1, IsSeq
<1>12. \A k \in 1 .. q : Len(parts[k]) = 3 - P(k)
  BY <1>10
<1> HIDE DEF parts
<1>13. PICK at : Begins(at, parts) /\ Len(all) = at[q]
  <2>1. \E at : /\ Begins(at, parts)
                /\ Len(FlattenSeq(parts)) = at[Len(parts)]
                /\ \A k \in 1 .. Len(parts) :
                     /\ at[k] <= at[Len(parts)]
                     /\ \A i \in 1 .. Len(parts[k]) :
                          FlattenSeq(parts)[at[k - 1] + i] = parts[k][i]
    BY <1>11, FlattenParts
  <2> HIDE DEF all
  <2> QED
    BY <1>11, <2>1 DEF all
<1> HIDE DEF all
<1>14. at[0] = 0 /\ \A k \in 0 .. q : at[k] \in Nat
  BY <1>11, <1>13 DEF Begins
<1>15. at[q] <= 3 * q - P(q)
  <2> DEFINE Good == { k \in 0 .. q : at[k] <= 3 * k - P(k) }
  <2>1. 0 \in Good
    BY <1>5, <1>8, <1>14
  <2>2. ASSUME NEW k \in 0 .. q - 1, k \in Good PROVE k + 1 \in Good
    <3>1. k + 1 \in 1 .. q /\ k + 1 \in 0 .. q /\ (k + 1) - 1 = k /\ k \in 0 .. q
      BY <1>5
    <3>2. at[k + 1] = at[(k + 1) - 1] + Len(parts[k + 1])
      BY <1>11, <1>13, <3>1 DEF Begins
    <3>3. at[k + 1] = at[k] + (3 - P(k + 1))
      BY <1>12, <3>1, <3>2
    <3>4. at[k] <= 3 * k - P(k)
      BY <2>2
    <3>5. P(k) \in 0 .. 2 /\ P(k + 1) \in 0 .. 2 /\ at[k] \in Nat
      BY <1>7, <1>14, <3>1
    <3>6. at[k + 1] <= 3 * (k + 1) - P(k + 1)
      BY <3>3, <3>4, <3>5
    <3> QED
      BY <3>1, <3>6
  <2> HIDE DEF Good
  <2>3. \A k \in 0 .. q : k \in Good
    BY <1>5, <2>1, <2>2, InductionTo
  <2>4. q \in 0 .. q
    BY <1>5
  <2> QED
    BY <2>3, <2>4 DEF Good
<1> DEFINE L == at[q]
           Q == P(q)
           p == Pads(src)
<1>16. /\ L \in Nat /\ Q \in 0 .. 2 /\ p \in 0 .. 2 /\ q = n \div 4
       /\ L <= 3 * q - Q /\ p <= Q + (n - 4 * q)
  <2>1. q \in 0 .. q
    BY <1>5
  <2> QED
    BY <1>6, <1>7, <1>9, <1>14, <1>15, <2>1 DEF q
<1> HIDE DEF L, Q, p
<1>17. CASE n = 0
  BY <1>2, <1>3, <1>13, <1>16, <1>17 DEF L
<1>18. CASE n # 0
  <2>1. L <= 6 * (n \div 8) + (6 * (n % 8) + 7) \div 8 - p
    <3>1. n \div 8 \in Nat /\ n % 8 \in 0 .. 7 /\ n = 8 * (n \div 8) + (n % 8)
      BY <1>4
    <3>2. q = 2 * (n \div 8) + (n % 8) \div 4
      BY <1>4, <1>16
    <3> DEFINE a == n \div 8
               r == n % 8
    <3> HIDE DEF a, r
    <3>3. a \in Nat /\ r \in 0 .. 7 /\ n = 8 * a + r /\ q = 2 * a + r \div 4
      BY <3>1, <3>2 DEF a, r
    <3>4. L <= 6 * a + (6 * r + 7) \div 8 - p
      BY <1>16, <3>3
    <3> QED
      BY <3>4 DEF a, r
  <2> QED
    BY <1>2, <1>3, <1>13, <1>18, <2>1 DEF L, p
<1> QED
  BY <1>17, <1>18
=============================================================================
