----------------------------- MODULE ApiProofs -----------------------------
(***************************************************************************)
(* A call of the client API for every answer of the node in any pieces,    *)
(* and any allocation failing: its string and its response buffer, what it *)
(* frees, what its result means, and the table it leaves to its caller.    *)
(***************************************************************************)
EXTENDS Api, ByteBufferProofs, FoldProofs, TLAPS

LEMMA Texts ==
  /\ url \in Seq(Byte) /\ cmd_str \in Seq(Byte) /\ << 0 >> \in Seq(Byte)
  /\ \A k \in 0 .. 3 : <<k>> \in Seq(Byte) /\ Len(<<k>>) = 1
BY DEF url, cmd_str, Byte

\* Where no allocation fails, an append to a buffer takes place.
LEMMA SureAppend ==
  ASSUME NEW b, Sound(b), NEW s \in Seq(Byte), NEW r \in Sure!byte_buf_append(b, s)
  PROVE  r.ok /\ r.buf.len = b.len + Len(s)
<1> DEFINE n == b.len + Len(s)
           f == [i \in 1 .. n |-> IF b.data # Null /\ i <= Len(b.data) THEN b.data[i] ELSE Junk]
           Put(q) == [ok |-> TRUE, buf |-> [q.buf EXCEPT !.data = Sure!Write(@, b.len, s),
                                                         !.len = n]]
<1>1. b.len \in Nat /\ n \in Nat /\ b.data \in Block \union {Null} /\ b \in byte_buf_t
  BY DEF Sound, byte_buf_t
<1>2. PICK q \in Sure!byte_buf_reserve(b, n) : r = IF q.ok THEN Put(q) ELSE q
  BY Zenon DEF Sure!byte_buf_append, Sure!PutAt
<1>3. q.ok /\ q.buf \in byte_buf_t
  <2>1. CASE b.cap >= n
    <3>1. q = [ok |-> TRUE, buf |-> b]
      BY <1>2, <2>1 DEF Sure!byte_buf_reserve
    <3> QED
      BY <1>1, <3>1
  <2>2. CASE ~(b.cap >= n)
    <3>1. PICK block \in Sure!realloc(b.data, n) :
            q = IF block = Null THEN [ok |-> FALSE, buf |-> b]
                ELSE [ok |-> TRUE, buf |-> [b EXCEPT !.data = block, !.cap = n]]
      BY <1>2, <2>2, Zenon DEF Sure!byte_buf_reserve
    <3>2. block = f
      BY DEF Sure!realloc, Sure!OrNull
    <3> HIDE DEF n
    <3>3. block # Null /\ block \in Block
      BY <1>1, <3>2, NewBlockOK
    <3>4. q = [ok |-> TRUE, buf |-> [b EXCEPT !.data = block, !.cap = n]]
      BY <3>1, <3>3
    <3> QED
      BY <1>1, <3>3, <3>4 DEF byte_buf_t
  <2> QED
    BY <2>1, <2>2
<1>4. r = Put(q)
  BY <1>2, <1>3
<1> DEFINE c == q.buf
           w == Sure!Write(c.data, b.len, s)
<1>5. r = [ok |-> TRUE, buf |-> [c EXCEPT !.data = w, !.len = n]]
  BY <1>4
<1>6. c \in byte_buf_t
  BY <1>3
<1> HIDE DEF c, w, n
<1> QED
  BY <1>5, <1>6 DEF byte_buf_t, n

\* Where no allocation fails, byte_buf2str adds the 0 that is not there.
LEMMA ZeroAdded ==
  ASSUME NEW b, Sound(b), b.data # Null, b.len > 0, b.data[b.len] # 0,
         NEW c \in byte_buf2str(b), c \in Sure!byte_buf2str(b)
  PROVE  Content(c) = Content(b) \o << 0 >> /\ c.data # Null
<1> DEFINE zero == << 0 >>
<1>1. b # Null
  BY ByteBufferAssumption DEF Sound
<1>2. b.len \in Nat /\ b.len # 0
  BY DEF Sound, byte_buf_t
<1>3. zero \in Seq(Byte) /\ Len(zero) = 1
  BY Texts
<1>4. EndsWith0(b) = {FALSE} /\ Sure!EndsWith0(b) = {FALSE}
  BY <1>2 DEF EndsWith0, Sure!EndsWith0
<1>5. PICK r \in byte_buf_append(b, zero) : c = r.buf
  BY <1>1, <1>4 DEF byte_buf2str
<1>6. PICK q \in Sure!byte_buf_append(b, zero) : c = q.buf
  BY <1>1, <1>4 DEF Sure!byte_buf2str
<1> HIDE DEF zero
<1>7. /\ r.ok \in BOOLEAN /\ Sound(c)
      /\ Content(c) = IF r.ok THEN Content(b) \o zero ELSE Content(b)
      /\ ~r.ok => c = b
  BY <1>3, <1>5, AppendOK
<1>8. c.len = b.len + 1
  BY <1>3, <1>6, SureAppend
<1>9. r.ok
  BY <1>2, <1>7, <1>8
<1>10. c.data # Null
  BY <1>2, <1>7, <1>8 DEF Sound, InBlock
<1> QED
  BY <1>7, <1>9, <1>10 DEF zero

\* A response that has an element gets its terminator, unless there is no
\* memory for it.
LEMMA Terminated ==
  ASSUME NEW b, Sound(b), b.data # Null, b.len > 0, NEW c \in byte_buf2str(b)
  PROVE  Contains(Content(c), 0) \/ c \notin Sure!byte_buf2str(b)
<1> DEFINE zero == << 0 >>
<1>1. b # Null
  BY ByteBufferAssumption DEF Sound
<1>2. b.len \in Nat /\ b.len # 0
  BY DEF Sound, byte_buf_t
<1>3. zero \in Seq(Byte) /\ Len(zero) = 1 /\ zero[1] = 0
  BY Texts
<1>4. /\ Content(b) \in Seq(Byte) /\ Len(Content(b)) = b.len
      /\ \A i \in 1 .. b.len : Content(b)[i] = b.data[i]
  BY ContentOK
<1>5. CASE b.data[b.len] = 0
  <2>1. EndsWith0(b) = {TRUE}
    BY <1>2, <1>5 DEF EndsWith0
  <2>2. c = b
    BY <1>1, <2>1 DEF byte_buf2str
  <2>3. b.len \in 1 .. b.len /\ Content(b)[b.len] = 0
    BY <1>2, <1>4, <1>5
  <2> QED
    BY <1>4, <2>2, <2>3 DEF Contains
<1>6. CASE b.data[b.len] # 0
  <2> SUFFICES ASSUME c \in Sure!byte_buf2str(b) PROVE Contains(Content(c), 0)
    OBVIOUS
  <2> DEFINE t == Content(b)
             k == b.len + 1
             all == t \o zero
  <2>1. Content(c) = all /\ t \in Seq(Byte) /\ Len(t) = b.len
    BY <1>4, <1>6, ZeroAdded
  <2> HIDE DEF t, zero
  <2>2. /\ Len(all) = Len(t) + Len(zero)
        /\ \A i \in 1 .. Len(t) + Len(zero) :
             all[i] = IF i <= Len(t) THEN t[i] ELSE zero[i - Len(t)]
    BY <1>3, <2>1, ConcatProperties
  <2>3. k \in 1 .. Len(t) + Len(zero) /\ ~(k <= Len(t)) /\ k - Len(t) = 1
    BY <1>2, <1>3, <2>1
  <2>4. Len(all) = k /\ k \in 1 .. Len(all)
    BY <1>2, <1>3, <2>1, <2>2
  <2> HIDE DEF k, all
  <2>5. all[k] = 0
    BY <1>3, <2>2, <2>3
  <2> QED
    BY <2>1, <2>4, <2>5 DEF Contains
<1> QED
  BY <1>5, <1>6

-----------------------------------------------------------------------------
(* The tables.                                                             *)

Unique(t, field) == \A j, k \in DOMAIN t : t[j][field] = t[k][field] => j = k

\* An entry whose key is not there keeps the keys unique, and so does HASH_DEL.
LEMMA AppendUnique ==
  ASSUME NEW S, NEW t \in Seq(S), NEW e \in S, NEW field, Unique(t, field),
         HASH_FIND(t, field, e[field]) = {}
  PROVE  Append(t, e) \in Seq(S) /\ Unique(Append(t, e), field)
<1> DEFINE u == Append(t, e)
           n == Len(t)
<1>1. /\ u \in Seq(S) /\ n \in Nat /\ DOMAIN t = 1 .. n /\ DOMAIN u = 1 .. n + 1
      /\ u[n + 1] = e /\ \A k \in 1 .. n : u[k] = t[k]
  OBVIOUS
<1>2. \A k \in 1 .. n : t[k][field] # e[field]
  BY <1>1 DEF HASH_FIND
<1>3. \A k \in 1 .. n + 1 : k \in 1 .. n \/ k = n + 1
  BY <1>1
<1> HIDE DEF u, n
<1>4. Unique(u, field)
  <2> SUFFICES ASSUME NEW j \in 1 .. n + 1, NEW k \in 1 .. n + 1, u[j][field] = u[k][field]
               PROVE  j = k
    BY <1>1 DEF Unique
  <2>1. CASE j \in 1 .. n /\ k \in 1 .. n
    BY <1>1, <2>1 DEF Unique
  <2>2. CASE j \in 1 .. n /\ k = n + 1
    <3>1. u[j] = t[j] /\ u[k] = e
      BY <1>1, <2>2
    <3> QED
      BY <1>2, <2>2, <3>1
  <2>3. CASE j = n + 1 /\ k \in 1 .. n
    <3>1. u[k] = t[k] /\ u[j] = e
      BY <1>1, <2>3
    <3> QED
      BY <1>2, <2>3, <3>1
  <2> QED
    BY <1>3, <2>1, <2>2, <2>3
<1> QED
  BY <1>1, <1>4 DEF u

LEMMA DeleteUnique ==
  ASSUME NEW S, NEW t \in Seq(S), NEW field, NEW key, Unique(t, field)
  PROVE  HASH_DEL(t, field, key) \in Seq(S) /\ Unique(HASH_DEL(t, field, key), field)
<1> DEFINE found == HASH_FIND(t, field, key)
           i == Min(found)
           n == Len(t)
           u == RemoveAt(t, i)
<1>1. n \in Nat /\ DOMAIN t = 1 .. n
  OBVIOUS
<1>2. CASE found = {}
  BY <1>2 DEF HASH_DEL
<1>3. CASE found # {}
  <2>1. HASH_DEL(t, field, key) = u
    BY <1>3 DEF HASH_DEL
  <2>2. found \in SUBSET Nat /\ found \subseteq 1 .. n
    BY <1>1 DEF HASH_FIND
  <2> HIDE DEF found
  <2>3. \E k \in found : \A m \in found : k <= m
    BY <1>3, <2>2, LeastNat
  <2>4. i \in found
    BY <2>3 DEF Min
  <2>5. i \in 1 .. n
    BY <2>2, <2>4
  <2> HIDE DEF i
  <2>6. /\ u \in Seq(S) /\ Len(u) = n - 1
        /\ \A k \in 1 .. n - 1 : u[k] = t[IF k < i THEN k ELSE k + 1]
    BY <2>5, RemoveIndex DEF n
  <2> HIDE DEF u, n
  <2>7. DOMAIN u = 1 .. n - 1
    BY <2>6
  <2>8. Unique(u, field)
    <3> SUFFICES ASSUME NEW j \in 1 .. n - 1, NEW k \in 1 .. n - 1, u[j][field] = u[k][field]
                 PROVE  j = k
      BY <2>7 DEF Unique
    <3> DEFINE fj == IF j < i THEN j ELSE j + 1
               fk == IF k < i THEN k ELSE k + 1
    <3>1. fj \in 1 .. n /\ fk \in 1 .. n /\ (fj = fk => j = k)
      BY <1>1, <2>5
    <3>2. u[j] = t[fj] /\ u[k] = t[fk]
      BY <2>6
    <3> HIDE DEF fj, fk
    <3>3. t[fj][field] = t[fk][field]
      BY <3>2
    <3>4. fj = fk
      BY <1>1, <3>1, <3>3 DEF Unique
    <3> QED
      BY <3>1, <3>4
  <2> QED
    BY <2>1, <2>6, <2>8
<1> QED
  BY <1>2, <1>3

LEMMA SeqFacts ==
  ASSUME NEW S, NEW t \in Seq(S)
  PROVE  /\ Len(t) \in Nat /\ DOMAIN t = 1 .. Len(t)
         /\ \A k \in 1 .. Len(t) : t[k] \in S
OBVIOUS

\* What the tables hold.  W are amounts; R relates the state of an output to
\* the amounts of its balances.
Amount == { GotInt64(v, 0) : v \in Int \union {Missing} }

State == [Flags -> BOOLEAN]

BalancesIn(W) ==
  { t \in Seq([color : Colors \union {Zero}, value : W]) : Unique(t, "color") }

AmountsOf(R, st) == { v \in Amount : <<st, v>> \in R }

OutputIn(R) ==
  UNION { [id : Ids \union {Zero}, balances : BalancesIn(AmountsOf(R, st)), st : {st}] :
          st \in State }

OutputsIn(R) == { t \in Seq(OutputIn(R)) : Unique(t, "id") }

EntryIn(R) ==
  [addr : Addresses \union {Zero}, addr_index : {0}, spent : BOOLEAN, ids : OutputsIn(R)]

TableIn(R) == { t \in Seq(EntryIn(R)) : Unique(t, "addr") }

LEMMA EmptyTables ==
  ASSUME NEW W, NEW R
  PROVE  <<>> \in BalancesIn(W) /\ <<>> \in OutputsIn(R) /\ <<>> \in TableIn(R)
<1>1. \A S : <<>> \in Seq(S)
  OBVIOUS
<1>2. \A field : Unique(<<>>, field)
  BY DEF Unique
<1> QED
  BY <1>1, <1>2 DEF BalancesIn, OutputsIn, TableIn

LEMMA AddBalance ==
  ASSUME NEW W, NEW t \in BalancesIn(W), NEW c \in Colors \union {Zero}, NEW v \in W
  PROVE  balance_ht_add(t, c, v) \subseteq BalancesIn(W)
<1> DEFINE S == [color : Colors \union {Zero}, value : W]
           e == [color |-> c, value |-> v]
<1>1. t \in Seq(S) /\ Unique(t, "color") /\ e \in S /\ e["color"] = c
  BY DEF BalancesIn
<1>2. CASE HASH_FIND(t, "color", c) # {}
  BY <1>2 DEF balance_ht_add
<1>3. CASE HASH_FIND(t, "color", c) = {}
  <2>1. balance_ht_add(t, c, v) \subseteq {t, Append(t, e)}
    BY <1>3 DEF balance_ht_add, Added
  <2> HIDE DEF S, e
  <2>2. Append(t, e) \in Seq(S) /\ Unique(Append(t, e), "color")
    BY <1>1, <1>3, AppendUnique
  <2> QED
    BY <1>1, <2>1, <2>2 DEF BalancesIn, S
<1> QED
  BY <1>2, <1>3

\* A clone has no more than what it is made from.
LEMMA CloneBalances ==
  ASSUME NEW W, NEW t \in BalancesIn(W)
  PROVE  balance_ht_clone(t) \subseteq BalancesIn(W)
<1> DEFINE n == Len(t)
           E(v, e) == UNION { balance_ht_add(u, e.color, e.value) : u \in v }
           V == SUBSET BalancesIn(W)
           F == [x \in (1 .. n) \X V |-> E(x[2], t[x[1]])]
           Is(it) == it = [s \in SUBSET DOMAIN t |->
                             IF s = {} THEN {<<>>}
                             ELSE E(it[s \ {Max(s)}], t[Max(s)])]
           it == CHOOSE it : Is(it)
<1>0. t \in Seq([color : Colors \union {Zero}, value : W])
  BY DEF BalancesIn
<1>1. n \in Nat /\ DOMAIN t = 1 .. n
      /\ \A k \in 1 .. n : t[k] \in [color : Colors \union {Zero}, value : W]
  BY <1>0, SeqFacts
<1>2. \A v \in V, k \in 1 .. n : E(v, t[k]) \in V
  <2> SUFFICES ASSUME NEW v \in V, NEW k \in 1 .. n, NEW u \in v
               PROVE  balance_ht_add(u, t[k].color, t[k].value) \subseteq BalancesIn(W)
    OBVIOUS
  <2>1. t[k].color \in Colors \union {Zero} /\ t[k].value \in W /\ u \in BalancesIn(W)
    BY <1>1
  <2> QED
    BY <2>1, AddBalance
<1>3. {<<>>} \in V
  BY EmptyTables
<1> HIDE DEF n, V, E
<1>4. F \in [(1 .. n) \X V -> V]
  BY <1>2
<1> HIDE DEF F
<1>5. PICK f : IsFold(f, n, V, {<<>>}, F)
  BY <1>1, <1>3, <1>4, FoldExists
<1>6. Is(f)
  <2>1. /\ f \in [SUBSET (1 .. n) -> V]
        /\ \A s \in SUBSET (1 .. n) :
             f[s] = IF s = {} THEN {<<>>} ELSE F[<<Max(s), f[s \ {Max(s)}]>>]
    BY <1>5 DEF IsFold
  <2>2. ASSUME NEW s \in SUBSET (1 .. n), s # {}
        PROVE  F[<<Max(s), f[s \ {Max(s)}]>>] = E(f[s \ {Max(s)}], t[Max(s)])
    <3>1. Max(s) \in 1 .. n
      BY <1>1, <2>2, MaxIn
    <3>2. f[s \ {Max(s)}] \in V
      BY <2>1
    <3> QED
      BY <3>1, <3>2 DEF F
  <2> QED
    BY <1>1, <2>1, <2>2
<1>7. Is(it)
  BY <1>6
<1>8. it[{}] \in V
  <2>1. it[{}] = {<<>>}
    BY <1>1, <1>7
  <2> QED
    BY <1>3, <2>1
<1>9. ASSUME NEW s \in SUBSET (1 .. n), s # {}, it[s \ {Max(s)}] \in V PROVE it[s] \in V
  <2>1. Max(s) \in 1 .. n
    BY <1>1, <1>9, MaxIn
  <2>2. it[s] = E(it[s \ {Max(s)}], t[Max(s)])
    BY <1>1, <1>7, <1>9
  <2> QED
    BY <1>2, <1>9, <2>1, <2>2
<1>10. balance_ht_clone(t) = it[1 .. n]
  BY <1>1 DEF balance_ht_clone, Collected, FoldLeft, MapThenFoldSet, E
<1> HIDE DEF it
<1>11. it[1 .. n] \in V
  BY <1>1, <1>8, <1>9, FoldIn
<1> QED
  BY <1>10, <1>11 DEF V

\* An output of a table.
LEMMA OutputIs ==
  ASSUME NEW R, NEW e
  PROVE  e \in OutputIn(R) <=>
           /\ e = [id |-> e.id, balances |-> e.balances, st |-> e.st]
           /\ e.id \in Ids \union {Zero} /\ e.st \in State
           /\ e.balances \in BalancesIn(AmountsOf(R, e.st))
<1> HIDE DEF State
<1>1. ASSUME e \in OutputIn(R)
      PROVE  /\ e = [id |-> e.id, balances |-> e.balances, st |-> e.st]
             /\ e.id \in Ids \union {Zero} /\ e.st \in State
             /\ e.balances \in BalancesIn(AmountsOf(R, e.st))
  <2>1. PICK st \in State :
          e \in [id : Ids \union {Zero}, balances : BalancesIn(AmountsOf(R, st)), st : {st}]
    BY <1>1 DEF OutputIn
  <2> QED
    BY <2>1
<1>2. ASSUME e = [id |-> e.id, balances |-> e.balances, st |-> e.st],
             e.id \in Ids \union {Zero}, e.st \in State,
             e.balances \in BalancesIn(AmountsOf(R, e.st))
      PROVE  e \in OutputIn(R)
  <2>1. e \in [id : Ids \union {Zero}, balances : BalancesIn(AmountsOf(R, e.st)), st : {e.st}]
    BY <1>2
  <2> QED
    BY <1>2, <2>1 DEF OutputIn
<1> QED
  BY <1>1, <1>2

LEMMA AddOutput ==
  ASSUME NEW R, NEW t \in OutputsIn(R), NEW id \in Ids \union {Zero}, NEW st \in State,
         NEW balances \in BalancesIn(AmountsOf(R, st))
  PROVE  output_ids_add(t, id, balances, st) \subseteq OutputsIn(R)
<1>1. t \in Seq(OutputIn(R)) /\ Unique(t, "id")
  BY DEF OutputsIn
<1>2. CASE HASH_FIND(t, "id", id) # {}
  BY <1>2 DEF output_ids_add
<1>3. CASE HASH_FIND(t, "id", id) = {}
  <2> SUFFICES ASSUME NEW b \in balance_ht_clone(balances),
                      NEW u \in Added(t, [id |-> id, balances |-> b, st |-> st])
               PROVE  u \in OutputsIn(R)
    BY <1>3 DEF output_ids_add
  <2> DEFINE e == [id |-> id, balances |-> b, st |-> st]
  <2>1. b \in BalancesIn(AmountsOf(R, st))
    BY CloneBalances
  <2>2. e \in OutputIn(R) /\ e["id"] = id
    BY <2>1, OutputIs
  <2>3. u \in {t, Append(t, e)}
    BY DEF Added
  <2> HIDE DEF e
  <2>4. Append(t, e) \in Seq(OutputIn(R)) /\ Unique(Append(t, e), "id")
    BY <1>1, <1>3, <2>2, AppendUnique
  <2> QED
    BY <1>1, <2>3, <2>4 DEF OutputsIn
<1> QED
  BY <1>2, <1>3

\* A clone has no more than what it is made from.
LEMMA CloneOutputs ==
  ASSUME NEW R, NEW t \in OutputsIn(R)
  PROVE  output_ids_clone(t) \subseteq OutputsIn(R)
<1> DEFINE n == Len(t)
           E(v, e) == UNION { output_ids_add(u, e.id, e.balances, e.st) : u \in v }
           V == SUBSET OutputsIn(R)
           F == [x \in (1 .. n) \X V |-> E(x[2], t[x[1]])]
           Is(it) == it = [s \in SUBSET DOMAIN t |->
                             IF s = {} THEN {<<>>}
                             ELSE E(it[s \ {Max(s)}], t[Max(s)])]
           it == CHOOSE it : Is(it)
<1>0. t \in Seq(OutputIn(R))
  BY DEF OutputsIn
<1>1. n \in Nat /\ DOMAIN t = 1 .. n /\ \A k \in 1 .. n : t[k] \in OutputIn(R)
  BY <1>0, SeqFacts
<1>2. \A v \in V, k \in 1 .. n : E(v, t[k]) \in V
  <2> SUFFICES ASSUME NEW v \in V, NEW k \in 1 .. n, NEW u \in v
               PROVE  output_ids_add(u, t[k].id, t[k].balances, t[k].st) \subseteq OutputsIn(R)
    OBVIOUS
  <2> DEFINE e == t[k]
  <2>1. e \in OutputIn(R) /\ u \in OutputsIn(R)
    BY <1>1
  <2> HIDE DEF e
  <2>2. /\ e.id \in Ids \union {Zero} /\ e.st \in State
        /\ e.balances \in BalancesIn(AmountsOf(R, e.st))
    BY <2>1, OutputIs
  <2>3. output_ids_add(u, e.id, e.balances, e.st) \subseteq OutputsIn(R)
    BY <2>1, <2>2, AddOutput
  <2> QED
    BY <2>3 DEF e
<1>3. {<<>>} \in V
  BY EmptyTables
<1> HIDE DEF n, V, E
<1>4. F \in [(1 .. n) \X V -> V]
  BY <1>2
<1> HIDE DEF F
<1>5. PICK f : IsFold(f, n, V, {<<>>}, F)
  BY <1>1, <1>3, <1>4, FoldExists
<1>6. Is(f)
  <2>1. /\ f \in [SUBSET (1 .. n) -> V]
        /\ \A s \in SUBSET (1 .. n) :
             f[s] = IF s = {} THEN {<<>>} ELSE F[<<Max(s), f[s \ {Max(s)}]>>]
    BY <1>5 DEF IsFold
  <2>2. ASSUME NEW s \in SUBSET (1 .. n), s # {}
        PROVE  F[<<Max(s), f[s \ {Max(s)}]>>] = E(f[s \ {Max(s)}], t[Max(s)])
    <3>1. Max(s) \in 1 .. n
      BY <1>1, <2>2, MaxIn
    <3>2. f[s \ {Max(s)}] \in V
      BY <2>1
    <3> QED
      BY <3>1, <3>2 DEF F
  <2> QED
    BY <1>1, <2>1, <2>2
<1>7. Is(it)
  BY <1>6
<1>8. it[{}] \in V
  <2>1. it[{}] = {<<>>}
    BY <1>1, <1>7
  <2> QED
    BY <1>3, <2>1
<1>9. ASSUME NEW s \in SUBSET (1 .. n), s # {}, it[s \ {Max(s)}] \in V PROVE it[s] \in V
  <2>1. Max(s) \in 1 .. n
    BY <1>1, <1>9, MaxIn
  <2>2. it[s] = E(it[s \ {Max(s)}], t[Max(s)])
    BY <1>1, <1>7, <1>9
  <2> QED
    BY <1>2, <1>9, <2>1, <2>2
<1>10. output_ids_clone(t) = it[1 .. n]
  BY <1>1 DEF output_ids_clone, Collected, FoldLeft, MapThenFoldSet, E
<1> HIDE DEF it
<1>11. it[1 .. n] \in V
  BY <1>1, <1>8, <1>9, FoldIn
<1> QED
  BY <1>10, <1>11 DEF V

\* What is appended comes from the other table.
LEMMA AppendOutputs ==
  ASSUME NEW R, NEW old \in OutputsIn(R), NEW ids \in OutputsIn(R)
  PROVE  AppendedIds(old, ids) \subseteq OutputsIn(R)
<1> DEFINE n == Len(ids)
           E(v, e) == UNION { output_ids_add(u, e.id, e.balances, e.st) : u \in v }
           V == SUBSET OutputsIn(R)
           F == [x \in (1 .. n) \X V |-> E(x[2], ids[x[1]])]
           Is(it) == it = [s \in SUBSET DOMAIN ids |->
                             IF s = {} THEN {old}
                             ELSE E(it[s \ {Max(s)}], ids[Max(s)])]
           it == CHOOSE it : Is(it)
<1>0. ids \in Seq(OutputIn(R))
  BY DEF OutputsIn
<1>1. n \in Nat /\ DOMAIN ids = 1 .. n /\ \A k \in 1 .. n : ids[k] \in OutputIn(R)
  BY <1>0, SeqFacts
<1>2. \A v \in V, k \in 1 .. n : E(v, ids[k]) \in V
  <2> SUFFICES ASSUME NEW v \in V, NEW k \in 1 .. n, NEW u \in v
               PROVE  output_ids_add(u, ids[k].id, ids[k].balances, ids[k].st) \subseteq OutputsIn(R)
    OBVIOUS
  <2> DEFINE e == ids[k]
  <2>1. e \in OutputIn(R) /\ u \in OutputsIn(R)
    BY <1>1
  <2> HIDE DEF e
  <2>2. /\ e.id \in Ids \union {Zero} /\ e.st \in State
        /\ e.balances \in BalancesIn(AmountsOf(R, e.st))
    BY <2>1, OutputIs
  <2>3. output_ids_add(u, e.id, e.balances, e.st) \subseteq OutputsIn(R)
    BY <2>1, <2>2, AddOutput
  <2> QED
    BY <2>3 DEF e
<1>3. {old} \in V
  OBVIOUS
<1> HIDE DEF n, V, E
<1>4. F \in [(1 .. n) \X V -> V]
  BY <1>2
<1> HIDE DEF F
<1>5. PICK f : IsFold(f, n, V, {old}, F)
  BY <1>1, <1>3, <1>4, FoldExists
<1>6. Is(f)
  <2>1. /\ f \in [SUBSET (1 .. n) -> V]
        /\ \A s \in SUBSET (1 .. n) :
             f[s] = IF s = {} THEN {old} ELSE F[<<Max(s), f[s \ {Max(s)}]>>]
    BY <1>5 DEF IsFold
  <2>2. ASSUME NEW s \in SUBSET (1 .. n), s # {}
        PROVE  F[<<Max(s), f[s \ {Max(s)}]>>] = E(f[s \ {Max(s)}], ids[Max(s)])
    <3>1. Max(s) \in 1 .. n
      BY <1>1, <2>2, MaxIn
    <3>2. f[s \ {Max(s)}] \in V
      BY <2>1
    <3> QED
      BY <3>1, <3>2 DEF F
  <2> QED
    BY <1>1, <2>1, <2>2
<1>7. Is(it)
  BY <1>6
<1>8. it[{}] \in V
  <2>1. it[{}] = {old}
    BY <1>1, <1>7
  <2> QED
    BY <1>3, <2>1
<1>9. ASSUME NEW s \in SUBSET (1 .. n), s # {}, it[s \ {Max(s)}] \in V PROVE it[s] \in V
  <2>1. Max(s) \in 1 .. n
    BY <1>1, <1>9, MaxIn
  <2>2. it[s] = E(it[s \ {Max(s)}], ids[Max(s)])
    BY <1>1, <1>7, <1>9
  <2> QED
    BY <1>2, <1>9, <2>1, <2>2
<1>10. AppendedIds(old, ids) = it[1 .. n]
  BY <1>1 DEF AppendedIds, FoldLeft, MapThenFoldSet, E
<1> HIDE DEF it
<1>11. it[1 .. n] \in V
  BY <1>1, <1>8, <1>9, FoldIn
<1> QED
  BY <1>10, <1>11 DEF V

LEMMA AddEntry ==
  ASSUME NEW R, NEW t \in TableIn(R), NEW addr \in Addresses \union {Zero},
         NEW ids \in OutputsIn(R)
  PROVE  unspent_outputs_add(t, addr, 0, ids) \subseteq TableIn(R)
<1>1. t \in Seq(EntryIn(R)) /\ Unique(t, "addr")
  BY DEF TableIn
<1>2. CASE HASH_FIND(t, "addr", addr) # {}
  BY <1>2 DEF unspent_outputs_add
<1>3. CASE HASH_FIND(t, "addr", addr) = {}
  <2> SUFFICES ASSUME NEW c \in output_ids_clone(ids),
                      NEW u \in Added(t, [addr |-> addr, addr_index |-> 0,
                                          spent |-> FALSE, ids |-> c])
               PROVE  u \in TableIn(R)
    BY <1>3 DEF unspent_outputs_add
  <2> DEFINE e == [addr |-> addr, addr_index |-> 0, spent |-> FALSE, ids |-> c]
  <2>1. c \in OutputsIn(R)
    BY CloneOutputs
  <2>2. e \in EntryIn(R) /\ e["addr"] = addr
    BY <2>1 DEF EntryIn
  <2>3. u \in {t, Append(t, e)}
    BY DEF Added
  <2> HIDE DEF e
  <2>4. Append(t, e) \in Seq(EntryIn(R)) /\ Unique(Append(t, e), "addr")
    BY <1>1, <1>3, <2>2, AppendUnique
  <2> QED
    BY <1>1, <2>3, <2>4 DEF TableIn
<1> QED
  BY <1>2, <1>3

\* The ids of an entry replaced.
LEMMA PutIds ==
  ASSUME NEW R, NEW t \in TableIn(R), NEW k \in DOMAIN t, NEW c \in OutputsIn(R)
  PROVE  [t EXCEPT ![k].ids = c] \in TableIn(R)
<1> DEFINE S == EntryIn(R)
           u == [t EXCEPT ![k].ids = c]
           e == [t[k] EXCEPT !.ids = c]
           n == Len(t)
<1>1. t \in Seq(S) /\ Unique(t, "addr")
  BY DEF TableIn
<1>2. n \in Nat /\ DOMAIN t = 1 .. n /\ \A j \in 1 .. n : t[j] \in S
  BY <1>1, SeqFacts
<1>3. e \in S /\ e.addr = t[k].addr
  BY <1>2 DEF EntryIn
<1>4. \A j \in 1 .. n : u[j] = IF j = k THEN e ELSE t[j]
  BY <1>2
<1>5. u = [j \in 1 .. n |-> u[j]]
  BY <1>2
<1> HIDE DEF S, u, e, n
<1>6. u \in [1 .. n -> S]
  BY <1>2, <1>3, <1>4, <1>5
<1>7. u \in Seq(S) /\ DOMAIN u = 1 .. n
  BY <1>2, <1>6, IsSeq
<1>8. \A j \in 1 .. n : u[j].addr = t[j].addr
  BY <1>3, <1>4
<1>9. Unique(u, "addr")
  BY <1>1, <1>2, <1>7, <1>8 DEF Unique
<1> QED
  BY <1>7, <1>9 DEF TableIn, S, u

\* A clone has no more than what it is made from.
LEMMA CloneTable ==
  ASSUME NEW R, NEW t \in TableIn(R)
  PROVE  unspent_outputs_clone(t) \subseteq TableIn(R)
<1> DEFINE n == Len(t)
           E(v, e) == UNION { unspent_outputs_add(u, e.addr, e.addr_index, e.ids) : u \in v }
           V == SUBSET TableIn(R)
           F == [x \in (1 .. n) \X V |-> E(x[2], t[x[1]])]
           Is(it) == it = [s \in SUBSET DOMAIN t |->
                             IF s = {} THEN {<<>>}
                             ELSE E(it[s \ {Max(s)}], t[Max(s)])]
           it == CHOOSE it : Is(it)
<1>0. t \in Seq(EntryIn(R))
  BY DEF TableIn
<1>1. n \in Nat /\ DOMAIN t = 1 .. n /\ \A k \in 1 .. n : t[k] \in EntryIn(R)
  BY <1>0, SeqFacts
<1>2. \A v \in V, k \in 1 .. n : E(v, t[k]) \in V
  <2> SUFFICES ASSUME NEW v \in V, NEW k \in 1 .. n, NEW u \in v
               PROVE  unspent_outputs_add(u, t[k].addr, t[k].addr_index, t[k].ids)
                        \subseteq TableIn(R)
    OBVIOUS
  <2>1. /\ t[k].addr \in Addresses \union {Zero} /\ t[k].addr_index = 0
        /\ t[k].ids \in OutputsIn(R) /\ u \in TableIn(R)
    BY <1>1 DEF EntryIn
  <2> QED
    BY <2>1, AddEntry
<1>3. {<<>>} \in V
  BY EmptyTables
<1> HIDE DEF n, V, E
<1>4. F \in [(1 .. n) \X V -> V]
  BY <1>2
<1> HIDE DEF F
<1>5. PICK f : IsFold(f, n, V, {<<>>}, F)
  BY <1>1, <1>3, <1>4, FoldExists
<1>6. Is(f)
  <2>1. /\ f \in [SUBSET (1 .. n) -> V]
        /\ \A s \in SUBSET (1 .. n) :
             f[s] = IF s = {} THEN {<<>>} ELSE F[<<Max(s), f[s \ {Max(s)}]>>]
    BY <1>5 DEF IsFold
  <2>2. ASSUME NEW s \in SUBSET (1 .. n), s # {}
        PROVE  F[<<Max(s), f[s \ {Max(s)}]>>] = E(f[s \ {Max(s)}], t[Max(s)])
    <3>1. Max(s) \in 1 .. n
      BY <1>1, <2>2, MaxIn
    <3>2. f[s \ {Max(s)}] \in V
      BY <2>1
    <3> QED
      BY <3>1, <3>2 DEF F
  <2> QED
    BY <1>1, <2>1, <2>2
<1>7. Is(it)
  BY <1>6
<1>8. it[{}] \in V
  <2>1. it[{}] = {<<>>}
    BY <1>1, <1>7
  <2> QED
    BY <1>3, <2>1
<1>9. ASSUME NEW s \in SUBSET (1 .. n), s # {}, it[s \ {Max(s)}] \in V PROVE it[s] \in V
  <2>1. Max(s) \in 1 .. n
    BY <1>1, <1>9, MaxIn
  <2>2. it[s] = E(it[s \ {Max(s)}], t[Max(s)])
    BY <1>1, <1>7, <1>9
  <2> QED
    BY <1>2, <1>9, <2>1, <2>2
<1>10. unspent_outputs_clone(t) = it[1 .. n]
  BY <1>1 DEF unspent_outputs_clone, Collected, FoldLeft, MapThenFoldSet, E
<1> HIDE DEF it
<1>11. it[1 .. n] \in V
  BY <1>1, <1>8, <1>9, FoldIn
<1> QED
  BY <1>10, <1>11 DEF V

LEMMA StateIs ==
  ASSUME NEW fields \in StateDoc \union {Missing}
  PROVE  inclusion_state(fields) \in State
<1>1. CASE fields = Missing
  BY <1>1 DEF inclusion_state, State
<1>2. CASE fields # Missing
  <2>1. \A flag \in Flags : KeyOf(flag) \in Flags
    BY DEF Flags, KeyOf
  <2>2. \A flag \in Flags : fields[KeyOf(flag)] \in BOOLEAN \union {Missing}
    BY <1>2, <2>1 DEF StateDoc
  <2>3. \A flag \in Flags : Got(fields[KeyOf(flag)], FALSE) \in BOOLEAN
    BY <2>2 DEF Got
  <2> QED
    BY <1>2, <2>3 DEF inclusion_state, State
<1> QED
  BY <1>1, <1>2

\* A call on a table.
LEMMA EditsOK ==
  ASSUME NEW R, got \in TableIn(R), NEW addr \in Addresses, NEW u \in EditedTables(addr)
  PROVE  u \in TableIn(R)
<1> DEFINE S == EntryIn(R)
           n == Len(got)
           other == { got[k].ids : k \in DOMAIN got }
<1>1. got \in Seq(S) /\ Unique(got, "addr")
  BY DEF TableIn
<1>2. n \in Nat /\ DOMAIN got = 1 .. n /\ \A k \in 1 .. n : got[k] \in S
  BY <1>1, SeqFacts
<1>3. other \subseteq OutputsIn(R) /\ \A k \in DOMAIN got : got[k].ids \in OutputsIn(R)
  BY <1>2 DEF EntryIn
<1>4. ASSUME NEW b \in BOOLEAN, u = unspent_outputs_set_spent(got, addr, b)
      PROVE  u \in TableIn(R)
  <2> DEFINE E(k) == IF got[k].addr = addr THEN [got[k] EXCEPT !.spent = b] ELSE got[k]
  <2>1. u = [k \in 1 .. n |-> E(k)]
    BY <1>2, <1>4 DEF unspent_outputs_set_spent
  <2>2. \A k \in 1 .. n : E(k) \in S /\ E(k).addr = got[k].addr
    BY <1>2 DEF EntryIn
  <2> HIDE DEF E, S, n
  <2>3. u \in [1 .. n -> S] /\ \A k \in 1 .. n : u[k].addr = got[k].addr
    BY <2>1, <2>2
  <2>4. u \in Seq(S) /\ DOMAIN u = 1 .. n
    BY <1>2, <2>3, IsSeq
  <2>5. Unique(u, "addr")
    BY <1>1, <1>2, <2>3, <2>4 DEF Unique
  <2> QED
    BY <2>4, <2>5 DEF TableIn, S
<1>5. CASE u = unspent_outputs_remove(got, addr)
  BY <1>1, <1>5, DeleteUnique DEF unspent_outputs_remove, TableIn
<1>6. ASSUME NEW k \in DOMAIN got, NEW c \in OutputsIn(R), u = [got EXCEPT ![k].ids = c]
      PROVE  u \in TableIn(R)
  BY <1>6, PutIds
<1>7. ASSUME NEW ids \in other, u \in unspent_outputs_update(got, addr, ids)
      PROVE  u \in TableIn(R)
  <2>1. u = got \/ \E k \in DOMAIN got : \E c \in output_ids_clone(ids) :
                      u = [got EXCEPT ![k].ids = c]
    BY <1>7 DEF unspent_outputs_update, WithIds, HASH_FIND
  <2>2. output_ids_clone(ids) \subseteq OutputsIn(R)
    BY <1>3, CloneOutputs
  <2> QED
    BY <1>6, <2>1, <2>2
<1>8. ASSUME NEW ids \in other, u \in unspent_outputs_append_id(got, addr, ids)
      PROVE  u \in TableIn(R)
  <2>1. u = got \/ \E k \in DOMAIN got : \E c \in AppendedIds(got[k].ids, ids) :
                      u = [got EXCEPT ![k].ids = c]
    BY <1>8 DEF unspent_outputs_append_id, WithIds, HASH_FIND
  <2>2. \A k \in DOMAIN got : AppendedIds(got[k].ids, ids) \subseteq OutputsIn(R)
    BY <1>3, AppendOutputs
  <2> QED
    BY <1>6, <2>1, <2>2
<1>9. ASSUME NEW ids \in other, u \in unspent_outputs_add(got, addr, 0, ids)
      PROVE  u \in TableIn(R)
  BY <1>3, <1>9, AddEntry
<1>10. ASSUME NEW id \in Ids,
              u \in WithIds(got, addr, LAMBDA old :
                      output_ids_update(old, id, <<>>, inclusion_state(Missing)))
       PROVE  u \in TableIn(R)
  <2> DEFINE st == inclusion_state(Missing)
  <2>1. u = got \/ \E k \in DOMAIN got : \E c \in output_ids_update(got[k].ids, id, <<>>, st) :
                      u = [got EXCEPT ![k].ids = c]
    BY <1>10 DEF WithIds, HASH_FIND
  <2>2. st \in State
    BY StateIs
  <2> HIDE DEF st
  <2>3. ASSUME NEW t \in OutputsIn(R)
        PROVE  output_ids_update(t, id, <<>>, st) \subseteq OutputsIn(R)
    <3>1. HASH_DEL(t, "id", id) \in OutputsIn(R)
      BY DeleteUnique DEF OutputsIn
    <3>2. <<>> \in BalancesIn(AmountsOf(R, st))
      BY EmptyTables
    <3> QED
      BY <2>2, <3>1, <3>2, AddOutput DEF output_ids_update
  <2> QED
    BY <1>3, <1>6, <2>1, <2>3
<1>11. CASE u \in unspent_outputs_clone(got)
  BY <1>11, CloneTable
<1>12. \/ \E b \in BOOLEAN : u = unspent_outputs_set_spent(got, addr, b)
       \/ u = unspent_outputs_remove(got, addr)
       \/ \E ids \in other : u \in unspent_outputs_update(got, addr, ids)
       \/ \E ids \in other : u \in unspent_outputs_append_id(got, addr, ids)
       \/ \E ids \in other : u \in unspent_outputs_add(got, addr, 0, ids)
       \/ \E id \in Ids : u \in WithIds(got, addr, LAMBDA old :
                                  output_ids_update(old, id, <<>>, inclusion_state(Missing)))
       \/ u \in unspent_outputs_clone(got)
  BY Zenon DEF EditedTables
<1> QED
  BY <1>4, <1>5, <1>7, <1>8, <1>9, <1>10, <1>11, <1>12

-----------------------------------------------------------------------------
(* What the reply leaves in the table.                                     *)

ColorText == STRING \union {Zero}

LEMMA ColorIs == ASSUME NEW str PROVE ColorOf(str) \in Colors \union {Zero}
BY DEF ColorOf

\* The amounts of a list of balances.
ListedAmounts(js) ==
  { a \in Amount : js # Missing /\ \E j \in DOMAIN js : a = GotInt64(js[j].value, 0) }

\* What DeserBalances makes of a list that is there.
FoldedBalances(js, color_str) ==
  FoldLeft(LAMBDA outs, elm : UNION { DeserBalance(s, elm) : s \in outs },
           { [balances |-> <<>>, color_str |-> color_str] }, js)

\* The table of an output has amounts that are listed for it.
LEMMA BalancesOK ==
  ASSUME NEW js \in Seq(BalanceDoc), NEW W, NEW color_str \in ColorText,
         \A j \in DOMAIN js : GotInt64(js[j].value, 0) \in W
  PROVE  FoldedBalances(js, color_str) \subseteq [balances : BalancesIn(W), color_str : ColorText]
<1> DEFINE n == Len(js)
           E(v, e) == UNION { DeserBalance(s, e) : s \in v }
           V == SUBSET [balances : BalancesIn(W), color_str : ColorText]
           F == [x \in (1 .. n) \X V |-> E(x[2], js[x[1]])]
           Is(it) == it = [s \in SUBSET DOMAIN js |->
                             IF s = {} THEN { [balances |-> <<>>, color_str |-> color_str] }
                             ELSE E(it[s \ {Max(s)}], js[Max(s)])]
           it == CHOOSE it : Is(it)
<1>1. n \in Nat /\ DOMAIN js = 1 .. n /\ \A k \in 1 .. n : js[k] \in BalanceDoc
  BY SeqFacts
<1>2. \A v \in V, k \in 1 .. n : E(v, js[k]) \in V
  <2> SUFFICES ASSUME NEW v \in V, NEW k \in 1 .. n, NEW s \in v, NEW u \in DeserBalance(s, js[k])
               PROVE  u \in [balances : BalancesIn(W), color_str : ColorText]
    OBVIOUS
  <2> DEFINE elm == js[k]
             color_str2 == Got(elm.color, s.color_str)
             color == ColorOf(color_str2)
             value == GotInt64(elm.value, 0)
  <2>1. s.balances \in BalancesIn(W) /\ s.color_str \in ColorText
    OBVIOUS
  <2>2. value \in W /\ color \in Colors \union {Zero}
    BY <1>1, ColorIs
  <2>3. color_str2 \in ColorText
    <3>1. elm.color \in STRING \union {Missing}
      BY <1>1 DEF BalanceDoc
    <3> QED
      BY <2>1, <3>1 DEF Got, ColorText
  <2>4. PICK b \in balance_ht_add(s.balances, color, value) :
          u = [balances |-> b, color_str |-> color_str2]
    BY DEF DeserBalance
  <2> HIDE DEF value, color, color_str2
  <2>5. b \in BalancesIn(W)
    BY <2>1, <2>2, <2>4, AddBalance
  <2> QED
    BY <2>3, <2>4, <2>5
<1>3. { [balances |-> <<>>, color_str |-> color_str] } \in V
  BY EmptyTables
<1> HIDE DEF n, V, E
<1>4. F \in [(1 .. n) \X V -> V]
  BY <1>2
<1> HIDE DEF F
<1>5. PICK f : IsFold(f, n, V, { [balances |-> <<>>, color_str |-> color_str] }, F)
  BY <1>1, <1>3, <1>4, FoldExists
<1>6. Is(f)
  <2>1. /\ f \in [SUBSET (1 .. n) -> V]
        /\ \A s \in SUBSET (1 .. n) :
             f[s] = IF s = {} THEN { [balances |-> <<>>, color_str |-> color_str] } ELSE F[<<Max(s), f[s \ {Max(s)}]>>]
    BY <1>5 DEF IsFold
  <2>2. ASSUME NEW s \in SUBSET (1 .. n), s # {}
        PROVE  F[<<Max(s), f[s \ {Max(s)}]>>] = E(f[s \ {Max(s)}], js[Max(s)])
    <3>1. Max(s) \in 1 .. n
      BY <1>1, <2>2, MaxIn
    <3>2. f[s \ {Max(s)}] \in V
      BY <2>1
    <3> QED
      BY <3>1, <3>2 DEF F
  <2> QED
    BY <1>1, <2>1, <2>2
<1>7. Is(it)
  BY <1>6
<1>8. it[{}] \in V
  <2>1. it[{}] = { [balances |-> <<>>, color_str |-> color_str] }
    BY <1>1, <1>7
  <2> QED
    BY <1>3, <2>1
<1>9. ASSUME NEW s \in SUBSET (1 .. n), s # {}, it[s \ {Max(s)}] \in V PROVE it[s] \in V
  <2>1. Max(s) \in 1 .. n
    BY <1>1, <1>9, MaxIn
  <2>2. it[s] = E(it[s \ {Max(s)}], js[Max(s)])
    BY <1>1, <1>7, <1>9
  <2> QED
    BY <1>2, <1>9, <2>1, <2>2
<1>10. FoldedBalances(js, color_str) = it[1 .. n]
  BY <1>1 DEF FoldedBalances, FoldLeft, MapThenFoldSet, E
<1> HIDE DEF it
<1>11. it[1 .. n] \in V
  BY <1>1, <1>8, <1>9, FoldIn
<1> QED
  BY <1>10, <1>11 DEF V

\* R has what every listed output says: a state and an amount together.
SaysOnly(js, R) ==
  \A i \in DOMAIN js : js[i].balances \notin {Missing, NotArray} =>
    \A j \in DOMAIN js[i].balances :
      <<inclusion_state(js[i].st), GotInt64(js[i].balances[j].value, 0)>> \in R

OutputsSoFar(R) ==
  [ret : {0, -1}, ids : OutputsIn(R), id : Ids \union {Zero}, color_str : ColorText, st : State]

LEMMA OutputTaken ==
  ASSUME NEW R, NEW s \in OutputsSoFar(R), NEW elm \in OutputDoc,
         elm.balances \notin {Missing, NotArray} =>
           \A j \in DOMAIN elm.balances :
             <<inclusion_state(elm.st), GotInt64(elm.balances[j].value, 0)>> \in R,
         NEW u \in DeserOutput(s, elm)
  PROVE  u \in OutputsSoFar(R)
<1> DEFINE id == IF elm.id \in Ids THEN elm.id ELSE s.id
           st == inclusion_state(elm.st)
           js == IF elm.balances = Missing THEN <<>> ELSE elm.balances
<1>0. /\ s.ret \in {0, -1} /\ s.ids \in OutputsIn(R) /\ s.id \in Ids \union {Zero}
      /\ s.color_str \in ColorText /\ s.st \in State
  BY DEF OutputsSoFar
<1>1. CASE s.ret # 0
  <2>1. u = s
    BY <1>1 DEF DeserOutput
  <2> QED
    BY <2>1
<1>2. CASE s.ret = 0 /\ elm.balances = NotArray
  <2>1. u = [s EXCEPT !.ret = -1]
    BY <1>2 DEF DeserOutput
  <2> QED
    BY <2>1 DEF OutputsSoFar
<1>3. CASE s.ret = 0 /\ elm.balances # NotArray
  <2>1. PICK b \in DeserBalances(elm.balances, s.color_str) :
          u \in { [s EXCEPT !.id = id, !.st = st, !.color_str = b.color_str, !.ids = t] :
                  t \in output_ids_add(s.ids, id, b.balances, st) }
    BY <1>3 DEF DeserOutput
  <2>2. PICK t \in output_ids_add(s.ids, id, b.balances, st) :
          u = [s EXCEPT !.id = id, !.st = st, !.color_str = b.color_str, !.ids = t]
    BY <2>1
  <2>3. b \in FoldedBalances(js, s.color_str)
    BY <2>1 DEF DeserBalances, FoldedBalances
  <2>4. js \in Seq(BalanceDoc)
    <3>1. elm.balances \in Seq(BalanceDoc) \union {Missing, NotArray}
      BY DEF OutputDoc
    <3> QED
      BY <1>3, <3>1
  <2>5. id \in Ids \union {Zero}
    BY <1>0
  <2>6. st \in State
    <3>1. elm.st \in StateDoc \union {Missing}
      BY DEF OutputDoc
    <3> QED
      BY <3>1, StateIs
  <2>7. \A j \in DOMAIN js : GotInt64(js[j].value, 0) \in AmountsOf(R, st)
    <3> SUFFICES ASSUME NEW j \in DOMAIN js PROVE GotInt64(js[j].value, 0) \in AmountsOf(R, st)
      OBVIOUS
    <3>1. js[j] \in BalanceDoc
      BY <2>4
    <3>2. js[j].value \in Int \union {Missing}
      BY <3>1 DEF BalanceDoc
    <3>3. GotInt64(js[j].value, 0) \in Amount
      BY <3>2 DEF Amount
    <3>4. elm.balances # Missing /\ js = elm.balances
      OBVIOUS
    <3>5. <<st, GotInt64(js[j].value, 0)>> \in R
      BY <1>3, <3>4
    <3> QED
      BY <3>3, <3>5 DEF AmountsOf
  <2> HIDE DEF id, st, js
  <2>8. b \in [balances : BalancesIn(AmountsOf(R, st)), color_str : ColorText]
    BY <1>0, <2>3, <2>4, <2>7, BalancesOK
  <2>9. t \in OutputsIn(R)
    BY <1>0, <2>2, <2>5, <2>6, <2>8, AddOutput
  <2> QED
    BY <2>2, <2>5, <2>6, <2>8, <2>9 DEF OutputsSoFar
<1> QED
  BY <1>1, <1>2, <1>3

\* What deser_output_ids makes of a list that is there.
FoldedOutputs(js) ==
  FoldLeft(LAMBDA outs, elm : UNION { DeserOutput(s, elm) : s \in outs },
           { [ret |-> 0, ids |-> <<>>, id |-> Zero, color_str |-> Zero,
              st |-> inclusion_state(Missing)] }, js)

\* The outputs of an address hold what their elements say.
LEMMA OutputsOK ==
  ASSUME NEW R, NEW js \in Seq(OutputDoc), SaysOnly(js, R)
  PROVE  FoldedOutputs(js) \subseteq OutputsSoFar(R)
<1> DEFINE n == Len(js)
           first == { [ret |-> 0, ids |-> <<>>, id |-> Zero, color_str |-> Zero,
                        st |-> inclusion_state(Missing)] }
           E(v, e) == UNION { DeserOutput(s, e) : s \in v }
           V == SUBSET OutputsSoFar(R)
           F == [x \in (1 .. n) \X V |-> E(x[2], js[x[1]])]
           Is(it) == it = [s \in SUBSET DOMAIN js |->
                             IF s = {} THEN first
                             ELSE E(it[s \ {Max(s)}], js[Max(s)])]
           it == CHOOSE it : Is(it)
<1>1. n \in Nat /\ DOMAIN js = 1 .. n /\ \A k \in 1 .. n : js[k] \in OutputDoc
  BY SeqFacts
<1>2. \A v \in V, k \in 1 .. n : E(v, js[k]) \in V
  <2> SUFFICES ASSUME NEW v \in V, NEW k \in 1 .. n, NEW s \in v, NEW u \in DeserOutput(s, js[k])
               PROVE  u \in OutputsSoFar(R)
    OBVIOUS
  <2>1. s \in OutputsSoFar(R) /\ js[k] \in OutputDoc
    BY <1>1
  <2>2. js[k].balances \notin {Missing, NotArray} =>
           \A j \in DOMAIN js[k].balances :
             <<inclusion_state(js[k].st), GotInt64(js[k].balances[j].value, 0)>> \in R
    BY <1>1 DEF SaysOnly
  <2> QED
    BY <2>1, <2>2, OutputTaken
<1>3. first \in V
  <2>1. inclusion_state(Missing) \in State
    BY StateIs
  <2> QED
    BY <2>1, EmptyTables DEF OutputsSoFar, ColorText
<1> HIDE DEF n, V, E
<1>4. F \in [(1 .. n) \X V -> V]
  BY <1>2
<1> HIDE DEF F
<1>5. PICK f : IsFold(f, n, V, first, F)
  BY <1>1, <1>3, <1>4, FoldExists
<1>6. Is(f)
  <2>1. /\ f \in [SUBSET (1 .. n) -> V]
        /\ \A s \in SUBSET (1 .. n) :
             f[s] = IF s = {} THEN first ELSE F[<<Max(s), f[s \ {Max(s)}]>>]
    BY <1>5 DEF IsFold
  <2>2. ASSUME NEW s \in SUBSET (1 .. n), s # {}
        PROVE  F[<<Max(s), f[s \ {Max(s)}]>>] = E(f[s \ {Max(s)}], js[Max(s)])
    <3>1. Max(s) \in 1 .. n
      BY <1>1, <2>2, MaxIn
    <3>2. f[s \ {Max(s)}] \in V
      BY <2>1
    <3> QED
      BY <3>1, <3>2 DEF F
  <2> QED
    BY <1>1, <2>1, <2>2
<1>7. Is(it)
  BY <1>6
<1>8. it[{}] \in V
  <2>1. it[{}] = first
    BY <1>1, <1>7
  <2> QED
    BY <1>3, <2>1
<1>9. ASSUME NEW s \in SUBSET (1 .. n), s # {}, it[s \ {Max(s)}] \in V PROVE it[s] \in V
  <2>1. Max(s) \in 1 .. n
    BY <1>1, <1>9, MaxIn
  <2>2. it[s] = E(it[s \ {Max(s)}], js[Max(s)])
    BY <1>1, <1>7, <1>9
  <2> QED
    BY <1>2, <1>9, <2>1, <2>2
<1>10. FoldedOutputs(js) = it[1 .. n]
  BY <1>1 DEF FoldedOutputs, FoldLeft, MapThenFoldSet, E
<1> HIDE DEF it
<1>11. it[1 .. n] \in V
  BY <1>1, <1>8, <1>9, FoldIn
<1> QED
  BY <1>10, <1>11 DEF V

LEMMA IdsOK ==
  ASSUME NEW R, NEW js \in Seq(OutputDoc) \union {Missing},
         js # Missing => SaysOnly(js, R), NEW r \in deser_output_ids(js)
  PROVE  r.ret \in {0, -1} /\ r.ids \in OutputsIn(R)
<1> DEFINE list == IF js = Missing THEN <<>> ELSE js
<1>1. list \in Seq(OutputDoc) /\ SaysOnly(list, R)
  BY DEF SaysOnly
<1>2. r \in FoldedOutputs(list)
  BY DEF deser_output_ids, FoldedOutputs
<1> HIDE DEF list
<1>3. r \in OutputsSoFar(R)
  BY <1>1, <1>2, OutputsOK
<1> QED
  BY <1>3 DEF OutputsSoFar

\* The same for the list of addresses.
AllSayOnly(js, R) ==
  \A k \in DOMAIN js : js[k].output_ids \notin {Missing, NotArray} =>
    SaysOnly(js[k].output_ids, R)

AddressesSoFar(R) ==
  [ret : {0, -1}, stop : BOOLEAN, addr : Addresses \union {Zero}, table : TableIn(R)]

LEMMA AddressTaken ==
  ASSUME NEW R, NEW s \in AddressesSoFar(R), NEW elm \in AddressDoc,
         elm.output_ids \notin {Missing, NotArray} => SaysOnly(elm.output_ids, R),
         NEW u \in DeserAddress(s, elm)
  PROVE  u \in AddressesSoFar(R)
<1> DEFINE addr == IF elm.address \in Addresses THEN elm.address ELSE s.addr
<1>0. /\ s.ret \in {0, -1} /\ s.stop \in BOOLEAN /\ s.addr \in Addresses \union {Zero}
      /\ s.table \in TableIn(R)
  BY DEF AddressesSoFar
<1>1. CASE s.stop
  <2>1. u = s
    BY <1>1 DEF DeserAddress
  <2> QED
    BY <2>1
<1>2. CASE ~s.stop /\ elm.output_ids = NotArray
  <2>1. u = [s EXCEPT !.stop = TRUE]
    BY <1>2 DEF DeserAddress
  <2> QED
    BY <2>1 DEF AddressesSoFar
<1>3. CASE ~s.stop /\ elm.output_ids # NotArray
  <2>1. PICK r \in deser_output_ids(elm.output_ids) :
          u \in IF r.ret # 0 THEN { [s EXCEPT !.stop = TRUE, !.ret = r.ret] }
                ELSE { [s EXCEPT !.addr = addr, !.table = t,
                          !.ret = IF elm.output_ids = Missing THEN @ ELSE 0] :
                       t \in unspent_outputs_add(s.table, addr, 0, r.ids) }
    BY <1>3 DEF DeserAddress
  <2>2. elm.output_ids \in Seq(OutputDoc) \union {Missing}
    BY <1>3 DEF AddressDoc
  <2>3. r.ret \in {0, -1} /\ r.ids \in OutputsIn(R)
    BY <1>3, <2>1, <2>2, IdsOK
  <2>4. addr \in Addresses \union {Zero}
    BY <1>0
  <2> HIDE DEF addr
  <2>5. CASE r.ret # 0
    <3>1. u = [s EXCEPT !.stop = TRUE, !.ret = r.ret]
      BY <2>1, <2>5
    <3> QED
      BY <2>3, <3>1 DEF AddressesSoFar
  <2>6. CASE r.ret = 0
    <3>1. PICK t \in unspent_outputs_add(s.table, addr, 0, r.ids) :
            u = [s EXCEPT !.addr = addr, !.table = t,
                          !.ret = IF elm.output_ids = Missing THEN @ ELSE 0]
      BY <2>1, <2>6
    <3>2. t \in TableIn(R)
      BY <1>0, <2>3, <2>4, <3>1, AddEntry
    <3> QED
      BY <1>0, <2>4, <3>1, <3>2 DEF AddressesSoFar
  <2> QED
    BY <2>5, <2>6
<1> QED
  BY <1>0, <1>1, <1>2, <1>3

\* The table holds what the elements of its addresses say.
LEMMA AddressesOK ==
  ASSUME NEW R, NEW js \in Seq(AddressDoc), AllSayOnly(js, R), NEW table \in TableIn(R)
  PROVE  DeserAddresses(js, table) \subseteq AddressesSoFar(R)
<1> DEFINE n == Len(js)
           first == { [ret |-> -1, stop |-> FALSE, addr |-> Zero, table |-> table] }
           E(v, e) == UNION { DeserAddress(s, e) : s \in v }
           V == SUBSET AddressesSoFar(R)
           F == [x \in (1 .. n) \X V |-> E(x[2], js[x[1]])]
           Is(it) == it = [s \in SUBSET DOMAIN js |->
                             IF s = {} THEN first
                             ELSE E(it[s \ {Max(s)}], js[Max(s)])]
           it == CHOOSE it : Is(it)
<1>1. n \in Nat /\ DOMAIN js = 1 .. n /\ \A k \in 1 .. n : js[k] \in AddressDoc
  BY SeqFacts
<1>2. \A v \in V, k \in 1 .. n : E(v, js[k]) \in V
  <2> SUFFICES ASSUME NEW v \in V, NEW k \in 1 .. n, NEW s \in v, NEW u \in DeserAddress(s, js[k])
               PROVE  u \in AddressesSoFar(R)
    OBVIOUS
  <2>1. s \in AddressesSoFar(R) /\ js[k] \in AddressDoc
    BY <1>1
  <2>2. js[k].output_ids \notin {Missing, NotArray} => SaysOnly(js[k].output_ids, R)
    BY <1>1 DEF AllSayOnly
  <2> QED
    BY <2>1, <2>2, AddressTaken
<1>3. first \in V
  BY DEF AddressesSoFar
<1> HIDE DEF n, V, E
<1>4. F \in [(1 .. n) \X V -> V]
  BY <1>2
<1> HIDE DEF F
<1>5. PICK f : IsFold(f, n, V, first, F)
  BY <1>1, <1>3, <1>4, FoldExists
<1>6. Is(f)
  <2>1. /\ f \in [SUBSET (1 .. n) -> V]
        /\ \A s \in SUBSET (1 .. n) :
             f[s] = IF s = {} THEN first ELSE F[<<Max(s), f[s \ {Max(s)}]>>]
    BY <1>5 DEF IsFold
  <2>2. ASSUME NEW s \in SUBSET (1 .. n), s # {}
        PROVE  F[<<Max(s), f[s \ {Max(s)}]>>] = E(f[s \ {Max(s)}], js[Max(s)])
    <3>1. Max(s) \in 1 .. n
      BY <1>1, <2>2, MaxIn
    <3>2. f[s \ {Max(s)}] \in V
      BY <2>1
    <3> QED
      BY <3>1, <3>2 DEF F
  <2> QED
    BY <1>1, <2>1, <2>2
<1>7. Is(it)
  BY <1>6
<1>8. it[{}] \in V
  <2>1. it[{}] = first
    BY <1>1, <1>7
  <2> QED
    BY <1>3, <2>1
<1>9. ASSUME NEW s \in SUBSET (1 .. n), s # {}, it[s \ {Max(s)}] \in V PROVE it[s] \in V
  <2>1. Max(s) \in 1 .. n
    BY <1>1, <1>9, MaxIn
  <2>2. it[s] = E(it[s \ {Max(s)}], js[Max(s)])
    BY <1>1, <1>7, <1>9
  <2> QED
    BY <1>2, <1>9, <2>1, <2>2
<1>10. DeserAddresses(js, table) = it[1 .. n]
  BY <1>1 DEF DeserAddresses, FoldLeft, MapThenFoldSet, E
<1> HIDE DEF it
<1>11. it[1 .. n] \in V
  BY <1>1, <1>8, <1>9, FoldIn
<1> QED
  BY <1>10, <1>11 DEF V

\* get_unspent_outputs: the caller's table gets nothing the reply does not say.
LEMMA UnspentTaken ==
  ASSUME NEW R, NEW doc \in UnspentDoc, NEW table \in TableIn(R),
         doc.unspent \notin {Missing, NotArray} => AllSayOnly(doc.unspent, R),
         NEW r \in deser_unspent_outputs(doc, table)
  PROVE  /\ r.ret \in {0, -1} /\ r.got \in TableIn(R) /\ r.leaked \subseteq {"err"}
         /\ doc.error = Missing => r.leaked = {}
<1>1. PICK error \in deser_error(doc) :
        r \in IF error THEN { [ret |-> 0, got |-> table, leaked |-> {"err"}] }
          ELSE IF doc.unspent \in {Missing, NotArray, <<>>}
               THEN { [ret |-> -1, got |-> table, leaked |-> {}] }
          ELSE { [ret |-> IF s.stop THEN s.ret ELSE 0, got |-> s.table, leaked |-> {}] :
                 s \in DeserAddresses(doc.unspent, table) }
  BY Zenon DEF deser_unspent_outputs
<1>2. doc.error = Missing => error = FALSE
  BY DEF deser_error
<1>3. CASE error
  BY <1>1, <1>2, <1>3
<1>4. CASE ~error /\ doc.unspent \in {Missing, NotArray, <<>>}
  BY <1>1, <1>4
<1>5. CASE ~error /\ doc.unspent \notin {Missing, NotArray, <<>>}
  <2>1. PICK s \in DeserAddresses(doc.unspent, table) :
          r = [ret |-> IF s.stop THEN s.ret ELSE 0, got |-> s.table, leaked |-> {}]
    BY <1>1, <1>5
  <2>2. doc.unspent \in Seq(AddressDoc)
    BY <1>5 DEF UnspentDoc
  <2>3. AllSayOnly(doc.unspent, R)
    BY <1>5
  <2>4. s \in AddressesSoFar(R)
    BY <2>1, <2>2, <2>3, AddressesOK
  <2> QED
    BY <2>1, <2>4 DEF AddressesSoFar
<1> QED
  BY <1>3, <1>4, <1>5

-----------------------------------------------------------------------------
(* The steps of a call.                                                    *)

LEMMA ApiInit == Init => ApiInv
BY DEF Init, ApiInv, CmdOK, ResOK, CrashNeedsOom

\* The url gets its command.
LEMMA AppendCmdOK == ApiInv /\ AppendCmd => ApiInv'
<1> SUFFICES ASSUME ApiInv, AppendCmd PROVE ApiInv'
  OBVIOUS
<1>1. /\ phase = "append" /\ cmd' \in iota_str_appendn(cmd, cmd_str)
      /\ oom' = (oom \/ cmd'.buf = Null)
      /\ phase' \in {"returned", "done"} \/ (cmd'.buf # Null /\ phase' = "buffers")
  BY DEF AppendCmd, Fail, Goto
<1>2. cmd \in iota_str_t /\ Holds(cmd, url) /\ cmd.buf # Null
  BY <1>1 DEF ApiInv, CmdOK, Holds
<1>3. cmd' # Corrupted /\ (cmd'.buf # Null => Holds(cmd', url \o cmd_str))
  BY <1>1, <1>2, StrAppendOK, Texts
<1>4. CmdOK'
  BY <1>1, <1>3 DEF CmdOK, Holds, url, cmd_str
<1>5. ResOK' /\ oom' \in BOOLEAN /\ CrashNeedsOom'
  BY <1>1 DEF ApiInv, ResOK, CrashNeedsOom
<1> QED
  BY <1>4, <1>5 DEF ApiInv

SentOK == sent \in 0 .. 3

LEMMA SentInvariant == Spec => []SentOK
<1>1. Init => SentOK
  BY DEF Init, SentOK
<1>2. SentOK /\ [Next]_vars => SentOK'
  <2> SUFFICES ASSUME SentOK, [Next]_vars PROVE SentOK'
    OBVIOUS
  <2>1. CASE Deliver
    BY <2>1 DEF Deliver, SentOK, Parts
  <2>2. CASE sent' = sent
    BY <2>2 DEF SentOK
  <2>3. sent' = sent \/ Deliver
    BY DEF Next, LocalStep, vars, conn, Call, AppendCmd, NewBuffers, BuildRequest,
           Performed, ToStr, Parse, Done, NodeAnswers, Broken, EditTable
  <2> QED
    BY <2>1, <2>2, <2>3
<1> QED
  BY <1>1, <1>2, PTL DEF Spec

\* A piece of the answer reaches the response buffer, or not.
LEMMA DeliverOK == ApiInv /\ SentOK /\ Deliver => ApiInv'
<1> SUFFICES ASSUME ApiInv, SentOK, Deliver PROVE ApiInv'
  OBVIOUS
<1>1. /\ phase = "perform" /\ phase' = phase /\ cmd' = cmd
      /\ reply # Null /\ sent < Parts
  BY DEF Deliver
<1>2. PICK r \in HandOver(sent + 1) : res' = r.buf /\ oom' = (oom \/ ~r.ok)
  BY DEF Deliver
<1>3. Sound(res) /\ (res.data # Null => res.len > 0)
  BY <1>1 DEF ApiInv, ResOK
<1>4. sent + 1 \in 0 .. 3
  BY <1>1 DEF SentOK, Parts
<1>5. Sound(r.buf) /\ (r.buf.data # Null => r.buf.len > 0)
  <2>1. CASE r = [ok |-> TRUE, buf |-> res]
    BY <1>3, <2>1
  <2>2. CASE r \in byte_buf_append(res, <<sent + 1>>)
    <3> DEFINE s == <<sent + 1>>
    <3>1. s \in Seq(Byte) /\ Len(s) = 1
      BY <1>4, Texts
    <3>2. r \in byte_buf_append(res, s)
      BY <2>2
    <3> HIDE DEF s
    <3>3. /\ r.ok \in BOOLEAN /\ Sound(r.buf)
          /\ Content(r.buf) = IF r.ok THEN Content(res) \o s ELSE Content(res)
          /\ ~r.ok => r.buf = res
          /\ r.ok => r.buf.len = res.len + Len(s)
      BY <1>3, <3>1, <3>2, AppendOK, Zenon
    <3>4. res.len \in Nat
      BY <1>3 DEF Sound, byte_buf_t
    <3> QED
      BY <1>3, <3>1, <3>3, <3>4
  <2> QED
    BY <1>2, <2>1, <2>2 DEF HandOver
<1>6. CmdOK'
  BY <1>1 DEF ApiInv, CmdOK, Holds, url, cmd_str
<1>7. ResOK'
  BY <1>1, <1>2, <1>5 DEF ResOK
<1>8. oom' \in BOOLEAN /\ CrashNeedsOom'
  BY <1>1, <1>2 DEF ApiInv, CrashNeedsOom
<1> QED
  BY <1>6, <1>7, <1>8 DEF ApiInv

\* The response gets its terminator.
LEMMA ToStrKeeps == ApiInv /\ ToStr => ApiInv'
<1> SUFFICES ASSUME ApiInv, ToStr PROVE ApiInv'
  OBVIOUS
<1>1. /\ phase = "str" /\ phase' = "parse" /\ cmd' = cmd
      /\ res' \in byte_buf2str(res)
      /\ oom' = (oom \/ res' \notin Sure!byte_buf2str(res))
  BY DEF ToStr, Goto
<1>2. Sound(res) /\ (res.data # Null => res.len > 0)
  BY <1>1 DEF ApiInv, ResOK
<1>3. res'.data # Null => oom' \/ Contains(Content(res'), 0)
  <2>1. CASE res.data # Null
    BY <1>1, <1>2, <2>1, Terminated
  <2>2. CASE res.data = Null
    <3>1. res # Null
      BY <1>2, ByteBufferAssumption DEF Sound
    <3>2. res' = res
      BY <1>1, <2>2, <3>1 DEF byte_buf2str
    <3> QED
      BY <2>2, <3>2
  <2> QED
    BY <2>1, <2>2
<1>4. ResOK'
  BY <1>1, <1>3 DEF ResOK, Content, Contains
<1>5. CmdOK'
  BY <1>1 DEF ApiInv, CmdOK, Holds, url, cmd_str
<1>6. oom' \in BOOLEAN /\ CrashNeedsOom'
  BY <1>1 DEF ApiInv, CrashNeedsOom
<1> QED
  BY <1>4, <1>5, <1>6 DEF ApiInv

LEMMA ApiNext == ApiInv /\ SentOK /\ [Next]_vars => ApiInv'
<1> SUFFICES ASSUME ApiInv, SentOK, [Next]_vars PROVE ApiInv'
  OBVIOUS
<1> USE DEF Goto, Fail
\* A step that leaves the string and the response alone, and the phase.
<1>0. ASSUME UNCHANGED <<phase, cmd, res, oom>> PROVE ApiInv'
  BY <1>0 DEF ApiInv, CmdOK, ResOK, CrashNeedsOom, Holds, url, cmd_str, Content, Contains
\* A step to the end of the call.
<1>a. ASSUME phase' \in {"done", "returned"}, oom' \in BOOLEAN PROVE ApiInv'
  BY <1>a DEF ApiInv, CmdOK, ResOK, CrashNeedsOom
<1>1. CASE Call
  <2>1. cmd' \in iota_str_new(url) /\ oom' = (oom \/ cmd' = Null)
    BY <1>1 DEF Call
  <2>2. cmd' = Null \/ (cmd' \in iota_str_t /\ Holds(cmd', url))
    BY <2>1, StrNewOK, Texts
  <2>3. phase' = "returned" \/ (cmd' # Null /\ phase' = "append")
    BY <1>1 DEF Call
  <2>4. oom' \in BOOLEAN
    BY <2>1
  <2>5. CASE phase' = "returned"
    BY <1>a, <2>4, <2>5
  <2>6. CASE cmd' # Null /\ phase' = "append"
    <3>1. CmdOK'
      BY <2>2, <2>6 DEF CmdOK, Holds, url
    <3> QED
      BY <2>4, <2>6, <3>1 DEF ApiInv, ResOK, CrashNeedsOom
  <2> QED
    BY <2>3, <2>5, <2>6
<1>2. CASE AppendCmd
  BY <1>2, AppendCmdOK
<1>3. CASE NewBuffers
  <2>1. CASE phase' = "done" /\ oom' = TRUE
    BY <1>a, <2>1
  <2>2. CASE res' # Null /\ phase' \in {"perform", "build"} /\ oom' = oom
    <3>1. res' = EmptyBuf
      BY <1>3, <2>2 DEF NewBuffers, byte_buf_new, OrNull
    <3>2. Sound(res') /\ res'.data = Null
      BY <3>1, EmptyOK DEF EmptyBuf
    <3>3. CmdOK'
      BY <1>3, <2>2 DEF NewBuffers, ApiInv, CmdOK, Holds, url, cmd_str
    <3> QED
      BY <2>2, <3>2, <3>3 DEF ApiInv, ResOK, CrashNeedsOom
  <2> QED
    BY <1>3, <2>1, <2>2 DEF NewBuffers
<1>4. CASE BuildRequest
  <2>1. UNCHANGED <<cmd, res>> /\ phase = "build" /\ oom' \in BOOLEAN
        /\ phase' \in {"perform", "done"}
    BY <1>4 DEF BuildRequest, ApiInv
  <2>2. CASE phase' = "perform"
    BY <2>1, <2>2 DEF ApiInv, CmdOK, ResOK, CrashNeedsOom, Holds, url, cmd_str
  <2> QED
    BY <1>a, <2>1, <2>2
<1>5. CASE Deliver
  BY <1>5, DeliverOK
<1>6. CASE Performed
  BY <1>6 DEF Performed, ApiInv, CmdOK, ResOK, CrashNeedsOom, Holds, url, cmd_str
<1>7. CASE ToStr
  BY <1>7, ToStrKeeps
<1>8. CASE Parse
  <2>1. UNCHANGED <<cmd, res>> /\ phase = "parse"
    BY <1>8 DEF Parse
  <2>2. CASE phase' = "done" /\ oom' \in BOOLEAN
    BY <1>a, <2>2
  <2>3. CASE res.data # Null /\ ~Contains(Content(res), 0) /\ phase' = "crashed" /\ oom' = oom
    <3>1. oom
      BY <2>1, <2>3 DEF ApiInv, ResOK
    <3> QED
      BY <2>1, <2>3, <3>1 DEF ApiInv, CmdOK, ResOK, CrashNeedsOom
  <2>4. \/ phase' = "done" /\ oom' \in BOOLEAN
        \/ res.data # Null /\ ~Contains(Content(res), 0) /\ phase' = "crashed" /\ oom' = oom
    BY <1>8 DEF Parse, ApiInv
  <2> QED
    BY <2>2, <2>3, <2>4
<1>9. CASE Done
  BY <1>9, <1>a DEF Done, ApiInv
<1>10. CASE NodeAnswers
  BY <1>0, <1>10 DEF NodeAnswers
<1>11. CASE Broken
  BY <1>11, <1>a DEF Broken, ApiInv
<1>12. ASSUME NEW addr, EditTable(addr) PROVE ApiInv'
  BY <1>0, <1>12 DEF EditTable
<1>13. CASE UNCHANGED vars
  BY <1>0, <1>13 DEF vars
<1> QED
  BY <1>1, <1>2, <1>3, <1>4, <1>5, <1>6, <1>7, <1>8, <1>9, <1>10, <1>11, <1>12, <1>13
     DEF Next, LocalStep

LEMMA ApiInvariant == Spec => []ApiInv
BY ApiInit, ApiNext, SentInvariant, PTL DEF Spec

\* No request leaves before its url is whole and terminated, whatever
\* allocation failed on the way.
THEOREM UrlIsWhole == Spec => []UrlWhole
<1>1. ApiInv => UrlWhole
  BY DEF ApiInv, CmdOK, UrlWhole, Holds
<1> QED
  BY <1>1, ApiInvariant, PTL

\* As long as allocations succeed the parser is handed a terminated text or
\* NULL, for any answer, in any pieces, over both clients.
THEOREM CrashOnlyOutOfMemory == Spec => []CrashNeedsOom
<1>1. ApiInv => CrashNeedsOom
  BY DEF ApiInv
<1> QED
  BY <1>1, ApiInvariant, PTL

-----------------------------------------------------------------------------
(* The response, the result, and who owns what.                            *)

\* A text in front of a 0, or up to the end.
LEMMA TextIs ==
  ASSUME NEW b, NEW t \in Seq(Byte), \A i \in 1 .. Len(t) : t[i] # 0,
         Content(b) \in {t, t \o << 0 >>}
  PROVE  Text(b) = t
<1> DEFINE zero == << 0 >>
           all == Content(b)
           n == Len(t)
           ends == { k \in DOMAIN all : all[k] = 0 }
<1>1. n \in Nat /\ DOMAIN t = 1 .. n
  OBVIOUS
<1>2. Text(b) = IF ends = {} THEN all ELSE SubSeq(all, 1, Min(ends) - 1)
  BY DEF Text
<1>3. CASE all = t
  BY <1>1, <1>2, <1>3
<1>4. CASE all = t \o zero
  <2>1. zero \in Seq(Byte) /\ Len(zero) = 1 /\ zero[1] = 0
    BY Texts
  <2> HIDE DEF zero, all
  <2>0. /\ t \o zero \in Seq(Byte) /\ Len(t \o zero) = Len(t) + Len(zero)
        /\ \A i \in 1 .. Len(t) + Len(zero) :
             (t \o zero)[i] = IF i <= Len(t) THEN t[i] ELSE zero[i - Len(t)]
    BY <2>1, ConcatProperties
  <2>2. /\ all \in Seq(Byte) /\ Len(all) = n + 1
        /\ \A i \in 1 .. n + 1 : all[i] = IF i <= n THEN t[i] ELSE zero[i - n]
    BY <1>4, <2>0, <2>1
  <2>3. all[n + 1] = 0 /\ DOMAIN all = 1 .. n + 1 /\ \A i \in 1 .. n : all[i] = t[i]
    <3>1. n + 1 \in 1 .. n + 1 /\ ~(n + 1 <= n) /\ n + 1 - n = 1
      BY <1>1
    <3>2. \A i \in 1 .. n : i \in 1 .. n + 1 /\ i <= n
      BY <1>1
    <3> HIDE DEF n
    <3> QED
      BY <1>1, <2>1, <2>2, <3>1, <3>2
  <2>4. ends = {n + 1}
    <3>1. \A k \in 1 .. n + 1 : k \in 1 .. n \/ k = n + 1
      BY <1>1
    <3>2. n + 1 \in 1 .. n + 1
      BY <1>1
    <3> QED
      BY <2>3, <3>1, <3>2
  <2>5. Min(ends) = n + 1
    BY <1>1, <2>4 DEF Min
  <2>6. Text(b) = SubSeq(all, 1, n)
    <3>0. ends # {}
      BY <2>4
    <3> DEFINE min == Min(ends)
    <3>1. ends # {} /\ min - 1 = n
      <4>1. min = n + 1
        BY <2>5
      <4> HIDE DEF ends, n, min
      <4> QED
        BY <1>1, <3>0, <4>1
    <3> DEFINE last == Min(ends) - 1
    <3>2. Text(b) = SubSeq(all, 1, last) /\ last = n
      BY <1>2, <3>1
    <3> HIDE DEF last
    <3> QED
      BY <3>2
  <2> DEFINE u == SubSeq(all, 1, n)
  <2>7. u \in Seq(Byte) /\ Len(u) = n /\ \A i \in 1 .. n : u[i] = all[i]
    BY <1>1, <2>2, SubSeqProperties
  <2>8. u = t
    <3> HIDE DEF u, n
    <3> QED
      BY <1>1, <2>3, <2>7, SeqEqual DEF n
  <2> QED
    BY <2>6, <2>8
<1> QED
  BY <1>3, <1>4

LEMMA PiecesOK ==
  ASSUME ReplyOK
  PROVE  /\ Pieces \in Seq(Byte) /\ Len(Pieces) = (IF chunked THEN 0 ELSE sent)
         /\ \A i \in 1 .. Len(Pieces) : Pieces[i] = i /\ Pieces[i] # 0
         /\ sent \in 0 .. 3
<1>1. sent \in 0 .. 3 /\ chunked \in BOOLEAN
  BY DEF ReplyOK, Parts
<1>2. CASE chunked
  <2>1. Pieces = <<>>
    BY <1>2 DEF Pieces
  <2> QED
    BY <1>1, <1>2, <2>1
<1>3. CASE ~chunked
  <2>1. Pieces = [i \in 1 .. sent |-> i]
    BY <1>3 DEF Pieces
  <2>2. \A i \in 1 .. sent : i \in Byte
    BY <1>1 DEF Byte
  <2>3. [i \in 1 .. sent |-> i] \in [1 .. sent -> Byte]
    BY <2>2
  <2>4. [i \in 1 .. sent |-> i] \in Seq(Byte) /\ Len([i \in 1 .. sent |-> i]) = sent
    BY <1>1, <2>3, IsSeq
  <2> QED
    BY <1>1, <1>3, <2>1, <2>4
<1> QED
  BY <1>1, <1>2, <1>3

\* As long as no allocation fails the parser sees the reply or nothing of use.
LEMMA ParsedIs ==
  ASSUME ReplyOK, ResponseOK, ~oom, phase = "parse"
  PROVE  /\ ParsedFrom(res) \subseteq {reply, Nonsense}
         /\ Heard /\ reply # Empty => ParsedFrom(res) = {reply}
<1>1. Text(res) = Pieces /\ (Pieces # <<>> => res.data # Null)
  BY DEF ResponseOK
<1>2. /\ Pieces \in Seq(Byte) /\ Len(Pieces) = (IF chunked THEN 0 ELSE sent)
      /\ \A i \in 1 .. Len(Pieces) : Pieces[i] = i
  BY PiecesOK
<1>3. Pieces # <<1, 3>>
  <2>1. CASE Len(Pieces) = 2
    <3>1. Pieces[2] = 2
      BY <1>2, <2>1
    <3> QED
      BY <3>1
  <2>2. CASE Len(Pieces) # 2
    BY <2>2
  <2> QED
    BY <2>1, <2>2
<1>4. ASSUME Heard, reply # Empty
      PROVE  Pieces = <<1, 2, 3>> /\ Pieces # <<>>
  <2>1. ~chunked /\ sent = 3
    BY <1>4 DEF Heard, Answered, Parts
  <2>2. Pieces = [i \in 1 .. 3 |-> i]
    BY <2>1 DEF Pieces
  <2>3. [i \in 1 .. 3 |-> i] = <<1, 2, 3>>
    OBVIOUS
  <2> QED
    BY <2>2, <2>3
<1> QED
  BY <1>1, <1>3, <1>4 DEF ParsedFrom

\* Nothing happens to a call but a step of its caller on the table.
LEMMA CallFrame ==
  CallInv /\ UNCHANGED <<api, client, phase, cmd, req, res, leaked, ret, conn, oom>>
          /\ edits' \in 0 .. MaxEdits
          /\ (got' = got \/ (api = "unspent" /\ phase = "returned"))
    => CallInv'
<1> SUFFICES ASSUME CallInv,
                    UNCHANGED <<api, client, phase, cmd, req, res, leaked, ret, conn, oom>>,
                    edits' \in 0 .. MaxEdits,
                    got' = got \/ (api = "unspent" /\ phase = "returned")
             PROVE  CallInv'
  OBVIOUS
<1>1. ReplyOK'
  BY DEF CallInv, conn, ReplyOK, Parts, HasId
<1>2. ResponseOK'
  BY DEF CallInv, conn, ResponseOK, Pieces, Content, Text
<1>3. OwnersOK'
  BY DEF CallInv, conn, OwnersOK, IsError, BeforeResult
<1>4. ResultOK'
  BY DEF CallInv, conn, ResultOK, IdMeansApplied, Heard, Answered, Parts, BeforeResult
<1> QED
  BY <1>1, <1>2, <1>3, <1>4 DEF CallInv

\* The call ends, with what it has.
LEMMA CallEnds ==
  CallInv /\ phase' = "done" /\ ret' = -1 /\ phase \in BeforeResult
          /\ UNCHANGED <<api, client, got, conn, edits>>
          /\ (\A b \in {req', res'} \ {Null} : Sound(b))
          /\ leaked' \subseteq {"cmd", "cmd.buf", "text", "json", "err"}
          /\ (oom' \/ (leaked' = leaked /\ ~oom))
    => CallInv'
<1> SUFFICES ASSUME CallInv, phase' = "done", ret' = -1, phase \in BeforeResult,
                    UNCHANGED <<api, client, got, conn, edits>>,
                    \A b \in {req', res'} \ {Null} : Sound(b),
                    leaked' \subseteq {"cmd", "cmd.buf", "text", "json", "err"},
                    oom' \/ (leaked' = leaked /\ ~oom)
             PROVE  CallInv'
  OBVIOUS
<1>1. ReplyOK'
  BY DEF CallInv, conn, ReplyOK, Parts, HasId
<1>2. ResponseOK'
  BY DEF ResponseOK
<1>3. OwnersOK'
  BY DEF CallInv, conn, OwnersOK, IsError, BeforeResult
<1>4. ResultOK'
  BY DEF CallInv, conn, ResultOK, IdMeansApplied, Heard, Answered, Parts, BeforeResult
<1> QED
  BY <1>1, <1>2, <1>3, <1>4 DEF CallInv

LEMMA CallInit == Init => CallInv
<1> SUFFICES ASSUME Init PROVE CallInv
  OBVIOUS
<1>1. ReplyOK
  <2>1. Parts \in {0, 3}
    BY DEF Parts
  <2>2. sent = 0 /\ 0 \in 0 .. Parts /\ chunked = FALSE /\ reply = Null /\ phase = "call"
    BY <2>1 DEF Init
  <2> QED
    BY <2>2 DEF ReplyOK
<1>2. ResponseOK
  BY DEF Init, ResponseOK
<1>3. OwnersOK
  BY DEF Init, OwnersOK, BeforeResult
<1>4. ResultOK
  BY DEF Init, ResultOK, IdMeansApplied, BeforeResult
<1>5. 0 \in 0 .. MaxEdits
  BY ApiAssumption
<1> QED
  BY <1>1, <1>2, <1>3, <1>4, <1>5 DEF CallInv, Init, BeforeResult

\* What a step shows of the first invariant, for the lemmas that follow.
LEMMA BufferStays == ASSUME NEW b, Sound(b), NEW s \in Seq(Byte), NEW c
                     PROVE  /\ \A r \in byte_buf_append(b, s) : Sound(r.buf) /\ r.buf # Null
                            /\ c \in byte_buf2str(b) => Sound(c) /\ c # Null
<1>1. \A r \in byte_buf_append(b, s) : Sound(r.buf)
  BY AppendOK
<1>2. c \in byte_buf2str(b) => Sound(c)
  BY ToStrOK
<1>3. \A d : Sound(d) => d # Null
  BY ByteBufferAssumption DEF Sound
<1> QED
  BY <1>1, <1>2, <1>3

LEMMA CallStarts ==
  ASSUME CallInv, ApiInv, Call \/ AppendCmd \/ NewBuffers
  PROVE  CallInv'
<1> USE DEF Goto, Fail
<1>0. edits \in 0 .. MaxEdits /\ leaked \subseteq {"cmd", "cmd.buf", "text", "json", "err"}
  BY DEF CallInv, OwnersOK
<1>1. CASE Call
  <2>1. /\ phase = "call" /\ oom' = (oom \/ cmd' = Null)
        /\ UNCHANGED <<api, client, req, res, leaked, got, conn, edits>>
        /\ \/ cmd' = Null /\ phase' = "returned" /\ ret' = -1
           \/ cmd' # Null /\ phase' = "append" /\ ret' = ret
    BY <1>1 DEF Call
  <2>2. ReplyOK'
    BY <2>1 DEF CallInv, conn, ReplyOK, Parts, HasId
  <2>3. ResponseOK'
    BY <2>1 DEF ResponseOK
  <2>4. OwnersOK'
    BY <2>1 DEF CallInv, conn, OwnersOK, IsError, BeforeResult
  <2>5. ResultOK'
    BY <2>1 DEF CallInv, conn, ResultOK, IdMeansApplied, BeforeResult
  <2> QED
    BY <2>1, <2>2, <2>3, <2>4, <2>5 DEF CallInv, BeforeResult
<1>2. CASE AppendCmd
  <2>1. /\ phase = "append" /\ oom' = (oom \/ cmd'.buf = Null)
        /\ UNCHANGED <<api, client, req, res, got, conn, edits>>
        /\ \/ /\ cmd'.buf = Null /\ ret' = -1
              /\ phase' = IF api = "info" THEN "returned" ELSE "done"
              /\ leaked' = leaked \union {"cmd.buf"}
                             \union (IF api = "info" THEN {"cmd"} ELSE {})
           \/ cmd'.buf # Null /\ phase' = "buffers" /\ ret' = ret /\ leaked' = leaked
    BY <1>2 DEF AppendCmd
  <2>2. ReplyOK'
    BY <2>1 DEF CallInv, conn, ReplyOK, Parts, HasId
  <2>3. ResponseOK'
    BY <2>1 DEF ResponseOK
  <2>4. OwnersOK'
    <3>1. CASE cmd'.buf = Null
      <4>1. oom' /\ req' = Null /\ res' = Null
        BY <2>1, <3>1 DEF CallInv, OwnersOK
      <4>2. leaked' \subseteq {"cmd", "cmd.buf", "text", "json", "err"}
        BY <1>0, <2>1, <3>1
      <4>3. phase' \in {"returned", "done"} /\ (phase' = "returned" => "cmd" \in leaked')
        BY <2>1, <3>1
      <4> QED
        BY <4>1, <4>2, <4>3 DEF OwnersOK
    <3>2. CASE cmd'.buf # Null
      BY <2>1, <3>2 DEF CallInv, conn, OwnersOK, IsError, BeforeResult
    <3> QED
      BY <3>1, <3>2
  <2>5. ResultOK'
    BY <2>1 DEF CallInv, conn, ResultOK, IdMeansApplied, BeforeResult
  <2>6. phase' \in {"returned", "done", "buffers"}
    BY <2>1
  <2> QED
    BY <2>1, <2>2, <2>3, <2>4, <2>5, <2>6 DEF CallInv, BeforeResult
<1>3. CASE NewBuffers
  <2>1. /\ phase = "buffers" /\ req' \in {Null, EmptyBuf} /\ res' \in {Null, EmptyBuf}
        /\ UNCHANGED <<api, client, cmd, leaked, got, conn, edits>>
        /\ \/ phase' = "done" /\ ret' = -1 /\ oom' = TRUE
           \/ /\ res' # Null /\ ret' = ret /\ oom' = oom
              /\ phase' = IF api = "info" THEN "perform" ELSE "build"
              /\ api # "info" => req' # Null
    BY <1>3 DEF NewBuffers, byte_buf_new, OrNull
  <2>2. \A b \in {req', res'} \ {Null} : Sound(b)
    BY <2>1, EmptyOK
  <2>3. CASE phase' = "done" /\ ret' = -1 /\ oom' = TRUE
    BY <1>0, <2>1, <2>2, <2>3, CallEnds DEF BeforeResult
  <2>4. CASE /\ res' # Null /\ ret' = ret /\ oom' = oom
             /\ phase' = IF api = "info" THEN "perform" ELSE "build"
             /\ api # "info" => req' # Null
    <3>1. phase' \in {"perform", "build"} /\ res' = EmptyBuf
      BY <2>1, <2>4
    <3>2. ReplyOK' /\ sent' = 0
      BY <2>1, <2>4, <3>1 DEF CallInv, conn, ReplyOK, Parts, HasId
    <3>3. Pieces' = <<>>
      <4>1. [i \in 1 .. 0 |-> i] = <<>>
        OBVIOUS
      <4> QED
        BY <3>2, <4>1 DEF Pieces
    <3>4. ResponseOK'
      <4>1. Content(res') = <<>>
        BY <3>1, EmptyOK
      <4> QED
        BY <3>1, <3>3, <4>1 DEF ResponseOK
    <3>5. OwnersOK'
      BY <2>1, <2>2, <2>4, <3>1 DEF CallInv, conn, OwnersOK, IsError, BeforeResult
    <3>6. ResultOK'
      BY <2>1, <2>4, <3>1 DEF CallInv, conn, ResultOK, IdMeansApplied, BeforeResult
    <3>7. phase' \in {"perform", "build"} /\ api' \in Calls
      BY <2>1, <3>1 DEF CallInv
    <3> QED
      BY <1>0, <2>1, <3>2, <3>4, <3>5, <3>6, <3>7 DEF CallInv, BeforeResult
  <2> QED
    BY <2>1, <2>3, <2>4
<1> QED
  BY <1>1, <1>2, <1>3

LEMMA RequestBuilt == ASSUME CallInv, BuildRequest PROVE CallInv'
<1> USE DEF Goto, Fail
<1>1. /\ phase = "build" /\ req # Null /\ Sound(req)
      /\ UNCHANGED <<api, client, cmd, res, got, conn, edits>>
  BY DEF BuildRequest, CallInv, OwnersOK
<1>2. CASE phase' = "done" /\ ret' = -1 /\ oom' = TRUE /\ UNCHANGED <<req, leaked>>
  <2>1. /\ \A b \in {req', res'} \ {Null} : Sound(b)
        /\ leaked' \subseteq {"cmd", "cmd.buf", "text", "json", "err"}
    BY <1>1, <1>2 DEF CallInv, OwnersOK
  <2> QED
    BY <1>1, <1>2, <2>1, CallEnds DEF BeforeResult
<1>3. CASE /\ \E body \in {Body, BodyLacksField} : req' \in WithBody(body)
           /\ oom => oom'
           /\ phase' = "perform" /\ ret' = ret
           /\ leaked' = leaked \union (IF api = "funds" THEN {"text"} ELSE {})
  <2>1. Sound(req') /\ req' # Null
    <3>1. PICK body \in {Body, BodyLacksField} : req' \in WithBody(body)
      BY <1>3
    <3>2. body \in 0 .. 3
      BY DEF Body, BodyLacksField
    <3> DEFINE s == <<body>>
    <3>3. s \in Seq(Byte)
      BY <3>2, Texts
    <3>4. PICK r \in byte_buf_append(req, s) : req' \in byte_buf2str(r.buf)
      BY <3>1 DEF WithBody
    <3> HIDE DEF s
    <3>5. Sound(r.buf)
      BY <1>1, <3>3, <3>4, BufferStays
    <3> QED
      BY <3>3, <3>4, <3>5, BufferStays
  <2>2. ReplyOK'
    BY <1>1, <1>3 DEF CallInv, conn, ReplyOK, Parts, HasId
  <2>3. ResponseOK'
    BY <1>1, <1>3 DEF CallInv, conn, ResponseOK, Pieces, Content
  <2>4. OwnersOK'
    <3>1. leaked' \subseteq {"cmd", "cmd.buf", "text", "json", "err"}
      BY <1>1, <1>3 DEF CallInv, OwnersOK
    <3>2. ~oom' => leaked' \subseteq (IF api = "funds" THEN {"text"} ELSE {})
      BY <1>1, <1>3 DEF CallInv, OwnersOK, BeforeResult
    <3>3. \A b \in {req', res'} \ {Null} : Sound(b)
      BY <1>1, <2>1 DEF CallInv, OwnersOK
    <3> QED
      BY <1>1, <1>3, <3>1, <3>2, <3>3 DEF OwnersOK
  <2>5. ResultOK'
    BY <1>1, <1>3 DEF CallInv, conn, ResultOK, IdMeansApplied, BeforeResult
  <2> QED
    BY <1>1, <1>3, <2>2, <2>3, <2>4, <2>5 DEF CallInv, BeforeResult
<1>4. \/ phase' = "done" /\ ret' = -1 /\ oom' = TRUE /\ UNCHANGED <<req, leaked>>
      \/ /\ \E body \in {Body, BodyLacksField} : req' \in WithBody(body)
         /\ oom => oom'
         /\ phase' = "perform" /\ ret' = ret
         /\ leaked' = leaked \union (IF api = "funds" THEN {"text"} ELSE {})
  BY DEF BuildRequest
<1> QED
  BY <1>2, <1>3, <1>4

LEMMA PieceAdded ==
  ASSUME NEW n \in 0 .. 2
  PROVE  [i \in 1 .. n |-> i] \o <<n + 1>> = [i \in 1 .. n + 1 |-> i]
<1> DEFINE s == [i \in 1 .. n |-> i]
           t == <<n + 1>>
           u == [i \in 1 .. n + 1 |-> i]
           st == s \o t
<1>1. s \in [1 .. n -> Nat] /\ u \in [1 .. n + 1 -> Nat] /\ n \in Nat /\ n + 1 \in Nat
  OBVIOUS
<1>2. s \in Seq(Nat) /\ Len(s) = n /\ u \in Seq(Nat) /\ Len(u) = n + 1
  BY <1>1, IsSeq
<1>3. t \in Seq(Nat) /\ Len(t) = 1 /\ t[1] = n + 1
  OBVIOUS
<1>4. /\ st \in Seq(Nat) /\ Len(st) = Len(s) + Len(t)
      /\ \A i \in 1 .. Len(s) + Len(t) :
           st[i] = IF i <= Len(s) THEN s[i] ELSE t[i - Len(s)]
  BY <1>2, <1>3, ConcatProperties
<1>5. \A i \in 1 .. n : s[i] = i
  OBVIOUS
<1>6. \A i \in 1 .. n + 1 : u[i] = i
  OBVIOUS
<1>7. \A i \in 1 .. n + 1 : (i <= n /\ i \in 1 .. n) \/ (i = n + 1 /\ ~(i <= n) /\ i - n = 1)
  BY <1>1
<1> HIDE DEF s, t, u, st
<1>8. \A i \in 1 .. n + 1 : st[i] = u[i]
  BY <1>2, <1>3, <1>4, <1>5, <1>6, <1>7
<1>9. st = u
  BY <1>1, <1>2, <1>3, <1>4, <1>8, SeqEqual
<1> QED
  BY <1>9 DEF s, t, u, st

\* A piece is heard, or thrown away by the client that expects no chunks.
LEMMA PieceDelivered == ASSUME CallInv, ApiInv, Deliver PROVE CallInv'
<1>1. /\ phase = "perform" /\ reply # Null /\ sent < Parts /\ sent' = sent + 1
      /\ UNCHANGED <<api, client, phase, cmd, req, leaked, ret, got, reply, applied, chunked,
                     edits>>
  BY DEF Deliver
<1>2. PICK r \in HandOver(sent + 1) : res' = r.buf /\ oom' = (oom \/ ~r.ok)
  BY DEF Deliver
<1>3. Sound(res) /\ res # Null
  BY <1>1, ByteBufferAssumption DEF ApiInv, ResOK, Sound
<1>4. /\ Parts \in 0 .. 3 /\ Parts' = Parts /\ sent \in 0 .. 2 /\ sent + 1 \in 0 .. Parts
      /\ chunked \in BOOLEAN /\ (chunked => client = "esp32")
  BY <1>1 DEF CallInv, ReplyOK, Parts
<1>5. /\ Sound(r.buf) /\ r.ok \in BOOLEAN
      /\ r.ok => Content(r.buf) = IF chunked THEN Content(res) ELSE Content(res) \o <<sent + 1>>
  <2>1. CASE chunked
    <3>1. r = [ok |-> TRUE, buf |-> res]
      BY <1>2, <1>4, <2>1 DEF HandOver
    <3> QED
      BY <1>3, <2>1, <3>1
  <2>2. CASE ~chunked
    <3> DEFINE s == <<sent + 1>>
    <3>1. s \in Seq(Byte)
      <4>1. sent + 1 \in 0 .. 3
        BY <1>4
      <4> QED
        BY <4>1, Texts
    <3>2. r \in byte_buf_append(res, s)
      BY <1>2, <2>2 DEF HandOver
    <3> HIDE DEF s
    <3>3. /\ r.ok \in BOOLEAN /\ Sound(r.buf)
          /\ Content(r.buf) = IF r.ok THEN Content(res) \o s ELSE Content(res)
      BY <1>3, <3>1, <3>2, AppendOK
    <3> QED
      BY <2>2, <3>3 DEF s
  <2> QED
    BY <1>4, <2>1, <2>2
<1>6. ReplyOK'
  BY <1>1, <1>4 DEF CallInv, ReplyOK, HasId
<1>7. ResponseOK'
  <2> SUFFICES ASSUME ~oom' PROVE Content(res') = Pieces'
    BY <1>1 DEF ResponseOK
  <2>1. r.ok /\ Content(res) = Pieces
    BY <1>1, <1>2, <1>5 DEF CallInv, ResponseOK
  <2>2. CASE chunked
    BY <1>1, <1>2, <1>5, <2>1, <2>2 DEF Pieces
  <2>3. CASE ~chunked
    <3>1. Content(res') = [i \in 1 .. sent |-> i] \o <<sent + 1>>
      BY <1>2, <1>5, <2>1, <2>3 DEF Pieces
    <3>2. Pieces' = [i \in 1 .. sent + 1 |-> i]
      BY <1>1, <2>3 DEF Pieces
    <3> QED
      BY <1>4, <3>1, <3>2, PieceAdded
  <2> QED
    BY <2>2, <2>3
<1>8. OwnersOK'
  <2>1. \A b \in {req', res'} \ {Null} : Sound(b)
    BY <1>1, <1>2, <1>5 DEF CallInv, OwnersOK
  <2>2. oom => oom'
    BY <1>2
  <2> QED
    BY <1>1, <2>1, <2>2 DEF CallInv, OwnersOK, IsError, BeforeResult
<1>9. ResultOK'
  BY <1>1 DEF CallInv, ResultOK, IdMeansApplied, BeforeResult
<1> QED
  BY <1>1, <1>6, <1>7, <1>8, <1>9 DEF CallInv

LEMMA NodeActs == ASSUME CallInv, NodeAnswers PROVE CallInv'
<1>1. /\ phase = "perform" /\ reply = Null
      /\ reply' \in Replies[api] \union {Nonsense, Empty}
      /\ HasId(reply') => applied'
      /\ chunked' \in IF client = "esp32" THEN BOOLEAN ELSE {FALSE}
      /\ UNCHANGED <<api, client, phase, cmd, req, res, leaked, ret, got, sent, oom, edits>>
  BY DEF NodeAnswers
<1>2. sent' = 0 /\ sent = 0
  BY <1>1 DEF CallInv, ReplyOK
<1>3. ReplyOK'
  <2>1. Parts' \in {0, 3}
    BY DEF Parts
  <2>2. sent' \in 0 .. Parts'
    BY <1>2, <2>1
  <2>3. chunked' \in BOOLEAN /\ (chunked' => client' = "esp32")
    BY <1>1
  <2>4. HasId(reply)' => applied'
    BY <1>1 DEF HasId
  <2> QED
    BY <1>1, <1>2, <2>2, <2>3, <2>4 DEF ReplyOK
<1>4. Pieces' = <<>> /\ Pieces = <<>>
  <2>1. [i \in 1 .. 0 |-> i] = <<>>
    OBVIOUS
  <2> QED
    BY <1>2, <2>1 DEF Pieces
<1>5. ResponseOK'
  BY <1>1, <1>4 DEF CallInv, ResponseOK, Content
<1>6. OwnersOK'
  <2>1. ~oom => leaked \subseteq (IF api = "funds" THEN {"text"} ELSE {})
    BY <1>1 DEF CallInv, OwnersOK, BeforeResult
  <2> QED
    BY <1>1, <2>1 DEF CallInv, OwnersOK, BeforeResult
<1>7. ResultOK'
  BY <1>1 DEF CallInv, ResultOK, IdMeansApplied, BeforeResult
<1> QED
  BY <1>1, <1>3, <1>5, <1>6, <1>7 DEF CallInv

LEMMA HeardAll == ASSUME CallInv, Performed PROVE CallInv'
<1>1. /\ phase = "perform" /\ reply # Null /\ phase' = "str"
      /\ UNCHANGED <<api, client, cmd, req, res, leaked, ret, got, conn, oom, edits>>
  BY DEF Performed, Goto
<1>2. ReplyOK'
  BY <1>1 DEF CallInv, conn, ReplyOK, Parts, HasId
<1>3. ResponseOK'
  BY <1>1 DEF CallInv, conn, ResponseOK, Pieces, Content
<1>4. OwnersOK'
  BY <1>1 DEF CallInv, conn, OwnersOK, IsError, BeforeResult
<1>5. ResultOK'
  BY <1>1 DEF CallInv, conn, ResultOK, IdMeansApplied, BeforeResult
<1> QED
  BY <1>1, <1>2, <1>3, <1>4, <1>5 DEF CallInv, BeforeResult

LEMMA TransferBroken == ASSUME CallInv, Broken PROVE CallInv'
<1>1. /\ phase = "perform" /\ phase' = "done" /\ ret' = -1
      /\ UNCHANGED <<api, client, cmd, req, res, leaked, got, conn, oom, edits>>
  BY DEF Broken, Fail
<1>2. /\ \A b \in {req', res'} \ {Null} : Sound(b)
      /\ leaked' \subseteq {"cmd", "cmd.buf", "text", "json", "err"}
  BY <1>1 DEF CallInv, OwnersOK
<1> QED
  BY <1>1, <1>2, CallEnds DEF BeforeResult

\* Whatever a document says is a state and an amount.
LEMMA DocsSay ==
  ASSUME NEW doc \in UnspentDoc, doc.unspent \notin {Missing, NotArray}
  PROVE  AllSayOnly(doc.unspent, State \X Amount)
<1>1. doc.unspent \in Seq(AddressDoc)
  BY DEF UnspentDoc
<1> SUFFICES ASSUME NEW k \in DOMAIN doc.unspent,
                    doc.unspent[k].output_ids \notin {Missing, NotArray},
                    NEW i \in DOMAIN doc.unspent[k].output_ids,
                    doc.unspent[k].output_ids[i].balances \notin {Missing, NotArray},
                    NEW j \in DOMAIN doc.unspent[k].output_ids[i].balances
             PROVE  /\ inclusion_state(doc.unspent[k].output_ids[i].st) \in State
                    /\ GotInt64(doc.unspent[k].output_ids[i].balances[j].value, 0) \in Amount
  BY DEF AllSayOnly, SaysOnly
<1> DEFINE e == doc.unspent[k]
           o == e.output_ids[i]
           b == o.balances[j]
<1>2. e \in AddressDoc
  BY <1>1
<1>3. e.output_ids \in Seq(OutputDoc)
  BY <1>2 DEF AddressDoc
<1>4. o \in OutputDoc
  BY <1>3
<1>5. o.st \in StateDoc \union {Missing} /\ o.balances \in Seq(BalanceDoc)
  BY <1>4 DEF OutputDoc
<1>6. b \in BalanceDoc
  BY <1>5
<1>7. b.value \in Int \union {Missing}
  BY <1>6 DEF BalanceDoc
<1> QED
  BY <1>5, <1>7, StateIs DEF Amount

LEMMA TextEnded == ASSUME CallInv, ApiInv, ToStr PROVE CallInv'
<1>1. /\ phase = "str" /\ phase' = "parse"
      /\ res' \in byte_buf2str(res)
      /\ oom' = (oom \/ res' \notin Sure!byte_buf2str(res))
      /\ UNCHANGED <<api, client, cmd, req, leaked, ret, got, conn, edits>>
  BY DEF ToStr, Goto
<1>2. Sound(res) /\ res # Null /\ (res.data # Null => res.len > 0) /\ res.len \in Nat
  BY <1>1, ByteBufferAssumption DEF ApiInv, ResOK, Sound, byte_buf_t
<1>3. ReplyOK /\ ResponseOK
  BY DEF CallInv
<1>4. ReplyOK'
  BY <1>1, <1>3 DEF conn, ReplyOK, Parts, HasId
<1>5. ResponseOK'
  <2> SUFFICES ASSUME ~oom'
               PROVE  Text(res') = Pieces' /\ (Pieces' # <<>> => res'.data # Null)
    BY <1>1 DEF ResponseOK
  <2>1. ~oom /\ res' \in Sure!byte_buf2str(res)
    BY <1>1
  <2>2. Content(res) = Pieces /\ Pieces' = Pieces
    BY <1>1, <1>3, <2>1 DEF ResponseOK, conn, Pieces
  <2>3. /\ Pieces \in Seq(Byte) /\ Len(Pieces) \in Nat
        /\ \A i \in 1 .. Len(Pieces) : Pieces[i] # 0
    BY <1>3, PiecesOK
  <2>4. /\ Len(Content(res)) = res.len
        /\ \A i \in 1 .. res.len : Content(res)[i] = res.data[i]
    BY <1>2, ContentOK
  <2>5. CASE res.data = Null
    <3>1. res' = res
      BY <1>1, <1>2, <2>5 DEF byte_buf2str
    <3>2. res.len = 0
      BY <1>2, <2>5 DEF Sound, InBlock
    <3>3. Pieces = <<>>
      BY <2>2, <2>3, <2>4, <3>2, EmptySeq
    <3>4. Text(res) = Pieces
      BY <2>2, <2>3, TextIs
    <3> QED
      BY <2>2, <3>1, <3>3, <3>4
  <2>6. CASE res.data # Null
    <3>1. res.len > 0 /\ res.len \in 1 .. res.len /\ Len(Pieces) = res.len
      BY <1>2, <2>2, <2>4, <2>6
    <3>2. res.data[res.len] # 0
      BY <2>2, <2>3, <2>4, <3>1
    <3>3. Content(res') = Pieces \o << 0 >> /\ res'.data # Null
      BY <1>1, <1>2, <2>1, <2>2, <2>6, <3>1, <3>2, ZeroAdded
    <3>4. Text(res') = Pieces
      BY <2>3, <3>3, TextIs
    <3> QED
      BY <2>2, <3>3, <3>4
  <2> QED
    BY <2>5, <2>6
<1>6. OwnersOK'
  <2>1. \A b \in {req', res'} \ {Null} : Sound(b)
    <3>1. Sound(res')
      BY <1>1, <1>2, ToStrOK
    <3> QED
      BY <1>1, <3>1 DEF CallInv, OwnersOK
  <2>2. oom => oom'
    BY <1>1
  <2> QED
    BY <1>1, <2>1, <2>2 DEF CallInv, conn, OwnersOK, IsError, BeforeResult
<1>7. ResultOK'
  BY <1>1 DEF CallInv, conn, ResultOK, IdMeansApplied, BeforeResult
<1> QED
  BY <1>1, <1>4, <1>5, <1>6, <1>7 DEF CallInv, BeforeResult

\* What the parsers make of a document, with the types a table has.
LEMMA ParserResult ==
  ASSUME NEW doc, api \in Calls, phase = "parse",
         got = (IF api = "unspent" THEN <<>> ELSE Junk),
         api = "unspent" => doc \in UnspentDoc \union {Nonsense, Empty},
         NEW r \in Deserialized(doc)
  PROVE  /\ r.leaked \subseteq {"err", "json"}
         /\ doc \in {Nonsense, Empty} => r.got = got /\ r.leaked = {}
         /\ api = "unspent" => /\ r.ret \in {0, -1}
                               /\ doc \notin {Nonsense, Empty} /\ doc.error = Missing =>
                                    r.leaked = {}
                               /\ r.leaked \subseteq {"err"}
         /\ api # "unspent" /\ doc \notin {Nonsense, Empty} =>
              /\ api = "info" => r.leaked = {}
              /\ doc.error = Missing => r.leaked = {}
         /\ api \in {"send", "funds"} /\ doc \notin {Nonsense, Empty} /\ r.got # Junk =>
              doc.id # Missing /\ r.got = doc.id
         /\ /\ api = "info" /\ doc \notin {Nonsense, Empty}
            /\ Missing \notin {doc.version, doc.id, doc.synced}
            => r.got = doc.synced
<1>1. CASE doc \in {Nonsense, Empty}
  <2>1. r = [ret |-> -1, got |-> got, leaked |-> {}]
    BY <1>1 DEF Deserialized
  <2> QED
    BY <1>1, <2>1
<1>2. CASE doc \notin {Nonsense, Empty} /\ api = "unspent"
  <2> DEFINE R == State \X Amount
  <2>1. r \in deser_unspent_outputs(doc, got)
    BY <1>2 DEF Deserialized
  <2>2. doc \in UnspentDoc /\ got \in TableIn(R)
    BY <1>2, EmptyTables
  <2>3. doc.unspent \notin {Missing, NotArray} => AllSayOnly(doc.unspent, R)
    BY <2>2, DocsSay
  <2> HIDE DEF R
  <2>4. /\ r.ret \in {0, -1} /\ r.got \in TableIn(R) /\ r.leaked \subseteq {"err"}
        /\ doc.error = Missing => r.leaked = {}
    BY <2>1, <2>2, <2>3, UnspentTaken
  <2> QED
    BY <1>2, <2>4
<1>3. CASE doc \notin {Nonsense, Empty} /\ api \in {"send", "funds"}
  <2>1. r \in deser_msg_id(doc, Junk)
    BY <1>3 DEF Deserialized
  <2>2. PICK error \in deser_error(doc) :
          r = IF error THEN [ret |-> -1, got |-> Junk, leaked |-> {"err", "json"}]
              ELSE [ret |-> IF doc.id = Missing THEN -1 ELSE 0, got |-> Got(doc.id, Junk),
                    leaked |-> {}]
    BY <2>1 DEF deser_msg_id
  <2>3. doc.error = Missing => error = FALSE
    BY DEF deser_error
  <2>4. CASE error
    BY <1>3, <2>2, <2>3, <2>4
  <2>5. CASE ~error
    BY <1>3, <2>2, <2>5 DEF Got
  <2> QED
    BY <2>4, <2>5
<1>4. CASE doc \notin {Nonsense, Empty} /\ api = "info"
  <2>1. r \in deser_node_info(doc, Junk)
    BY <1>4 DEF Deserialized
  <2> QED
    BY <1>4, <2>1 DEF deser_node_info, Got
<1> QED
  BY <1>1, <1>2, <1>3, <1>4 DEF Calls

\* What the parser is handed is a document of its type.
LEMMA ParsedType ==
  ASSUME CallInv, phase = "parse", api = "unspent",
         NEW doc \in ParsedFrom(res) \union { n \in {Nonsense} : AllocMayFail }
  PROVE  doc \in UnspentDoc \union {Nonsense, Empty}
<1>1. reply \in Replies["unspent"] \union {Nonsense, Empty}
  BY DEF CallInv, ReplyOK
<1>2. Replies["unspent"] \union Torn["unspent"] \subseteq UnspentDoc
  BY ApiAssumption
<1>3. doc \in {reply, Nonsense} \union Torn["unspent"]
  BY DEF ParsedFrom
<1> QED
  BY <1>1, <1>2, <1>3

LEMMA ReplyParsed == ASSUME CallInv, Parse PROVE CallInv'
<1> USE DEF Goto
<1>1. /\ phase = "parse" /\ api \in Calls /\ UNCHANGED <<api, client, cmd, req, res, conn, edits>>
      /\ ret = 0 /\ got = IF api = "unspent" THEN <<>> ELSE Junk
      /\ ~oom => leaked \subseteq (IF api = "funds" THEN {"text"} ELSE {})
      /\ leaked \subseteq {"cmd", "cmd.buf", "text", "json", "err"}
      /\ ReplyOK /\ ResponseOK
  BY DEF Parse, CallInv, ResultOK, OwnersOK, BeforeResult
<1>2. CASE phase' = "crashed" /\ UNCHANGED <<got, ret, leaked, oom>>
  <2>1. ReplyOK'
    BY <1>1, <1>2 DEF conn, ReplyOK, Parts, HasId
  <2>2. ResponseOK'
    BY <1>2 DEF ResponseOK
  <2>3. OwnersOK'
    BY <1>1, <1>2 DEF CallInv, conn, OwnersOK, IsError, BeforeResult
  <2>4. ResultOK'
    BY <1>1, <1>2 DEF CallInv, conn, ResultOK, IdMeansApplied, BeforeResult
  <2> QED
    BY <1>1, <1>2, <2>1, <2>2, <2>3, <2>4 DEF CallInv, BeforeResult
<1>3. ASSUME NEW doc \in ParsedFrom(res) \union { n \in {Nonsense} : AllocMayFail },
             NEW r \in Deserialized(doc),
             got' = r.got, ret' = Result(r), leaked' = leaked \union r.leaked,
             oom \/ doc \notin ParsedFrom(res) => oom', phase' = "done"
      PROVE  CallInv'
  <2>1. /\ r.leaked \subseteq {"err", "json"}
        /\ doc \in {Nonsense, Empty} => r.got = got /\ r.leaked = {}
        /\ api = "unspent" => /\ r.ret \in {0, -1}
                              /\ doc \notin {Nonsense, Empty} /\ doc.error = Missing =>
                                   r.leaked = {}
                              /\ r.leaked \subseteq {"err"}
        /\ api # "unspent" /\ doc \notin {Nonsense, Empty} =>
             /\ api = "info" => r.leaked = {}
             /\ doc.error = Missing => r.leaked = {}
        /\ api \in {"send", "funds"} /\ doc \notin {Nonsense, Empty} /\ r.got # Junk =>
             doc.id # Missing /\ r.got = doc.id
        /\ /\ api = "info" /\ doc \notin {Nonsense, Empty}
           /\ Missing \notin {doc.version, doc.id, doc.synced}
           => r.got = doc.synced
    BY <1>1, <1>3, ParsedType, ParserResult
  <2>2. /\ ~oom' => ~oom /\ doc \in {reply, Nonsense}
        /\ Heard' /\ reply # Empty => doc = reply
    <3>1. ASSUME ~oom' PROVE ~oom /\ doc \in ParsedFrom(res)
      BY <1>3, <3>1
    <3>2. Heard' => ~oom' /\ (~oom => Heard)
      BY <1>1 DEF Heard, Answered, Parts, conn
    <3> QED
      BY <1>1, <3>1, <3>2, ParsedIs
  <2>3. reply # Null /\ reply \in Replies[api] \union {Nonsense, Empty} /\ (HasId(reply) => applied)
    BY <1>1 DEF ReplyOK
  <2>4. ReplyOK'
    BY <1>1, <1>3 DEF conn, ReplyOK, Parts, HasId
  <2>5. ResponseOK'
    BY <1>3 DEF ResponseOK
  <2>6. OwnersOK'
    <3>1. \A b \in {req', res'} \ {Null} : Sound(b)
      BY <1>1 DEF CallInv, OwnersOK
    <3>2. leaked' \subseteq {"cmd", "cmd.buf", "text", "json", "err"}
      BY <1>1, <1>3, <2>1
    <3>3. ASSUME ~oom'
          PROVE  leaked' \subseteq
                   (IF api = "funds" THEN {"text"} ELSE {})
                     \union (IF IsError(reply)
                             THEN IF api = "unspent" THEN {"err"} ELSE {"err", "json"} ELSE {})
      <4>1. leaked \subseteq (IF api = "funds" THEN {"text"} ELSE {})
        BY <1>1, <2>2, <3>3
      <4>2. CASE r.leaked = {}
        BY <1>3, <4>1, <4>2
      <4>3. CASE r.leaked # {}
        <5>1. doc \notin {Nonsense, Empty} /\ doc = reply /\ api # "info" /\ doc.error # Missing
          BY <1>1, <2>1, <2>2, <3>3, <4>3
        <5>2. IsError(reply)
          BY <2>3, <5>1 DEF IsError
        <5>3. r.leaked \subseteq IF api = "unspent" THEN {"err"} ELSE {"err", "json"}
          BY <2>1
        <5> QED
          BY <1>3, <4>1, <5>2, <5>3
      <4> QED
        BY <4>2, <4>3
    <3>4. ~oom' => leaked' \subseteq
            (IF api' = "funds" THEN {"text"} ELSE {})
              \union (IF IsError(reply)'
                      THEN IF api' = "unspent" THEN {"err"} ELSE {"err", "json"} ELSE {})
      BY <1>1, <3>3 DEF IsError, conn
    <3> QED
      BY <1>1, <1>3, <3>1, <3>2, <3>4 DEF OwnersOK, BeforeResult
  <2>7. ResultOK'
    <3>1. ret' \in {0, -1}
      BY <1>1, <1>3, <2>1 DEF Result
    <3>2. IdMeansApplied'
      <4> SUFFICES ASSUME api \in {"send", "funds"}, r.got # Junk, ~oom'
                   PROVE  applied /\ ret' = 0 /\ r.got = reply.id
        BY <1>1, <1>3 DEF IdMeansApplied, conn
      <4>1. ret' = 0
        BY <1>1, <1>3 DEF Result
      <4>2. doc \notin {Nonsense, Empty}
        BY <1>1, <2>1
      <4>3. doc = reply /\ doc.id # Missing /\ r.got = doc.id
        BY <2>1, <2>2, <4>2
      <4>4. HasId(reply)
        BY <2>3, <4>2, <4>3 DEF HasId
      <4> QED
        BY <2>3, <4>1, <4>3, <4>4
    <3>3. ASSUME api = "info", Heard', reply \in Replies["info"],
                 Missing \notin {reply.version, reply.id, reply.synced}
          PROVE  r.got = reply.synced
      <4>1. reply \notin {Nonsense, Empty}
        BY <3>3, ApiAssumption DEF Calls
      <4>2. doc = reply
        BY <2>2, <3>3, <4>1
      <4> QED
        BY <2>1, <3>3, <4>1, <4>2
    <3>4. reply' = reply /\ api' = api
      BY <1>1 DEF conn
    <3> QED
      BY <1>3, <3>1, <3>2, <3>3, <3>4 DEF ResultOK, BeforeResult
  <2> QED
    BY <1>1, <1>3, <2>4, <2>5, <2>6, <2>7 DEF CallInv, BeforeResult
<1>4. \/ phase' = "crashed" /\ UNCHANGED <<got, ret, leaked, oom>>
      \/ \E doc \in ParsedFrom(res) \union { n \in {Nonsense} : AllocMayFail } :
           \E r \in Deserialized(doc) :
             /\ got' = r.got /\ ret' = Result(r) /\ leaked' = leaked \union r.leaked
             /\ oom \/ doc \notin ParsedFrom(res) => oom'
             /\ phase' = "done"
  BY DEF Parse
<1> QED
  BY <1>2, <1>3, <1>4

LEMMA CallCleansUp == ASSUME CallInv, Done PROVE CallInv'
<1>1. /\ phase = "done" /\ phase' = "returned" /\ cmd' = Null /\ req' = Null /\ res' = Null
      /\ UNCHANGED <<api, client, leaked, ret, got, conn, oom, edits>>
  BY DEF Done, Goto
<1>2. ReplyOK'
  BY <1>1 DEF CallInv, conn, ReplyOK, Parts, HasId
<1>3. ResponseOK'
  BY <1>1 DEF ResponseOK
<1>4. OwnersOK'
  BY <1>1 DEF CallInv, conn, OwnersOK, IsError, BeforeResult
<1>5. ResultOK'
  BY <1>1 DEF CallInv, conn, ResultOK, IdMeansApplied, Heard, Answered, Parts, BeforeResult
<1> QED
  BY <1>1, <1>2, <1>3, <1>4, <1>5 DEF CallInv, BeforeResult

LEMMA CallNext == ApiInv /\ CallInv /\ [Next]_vars => CallInv'
<1> SUFFICES ASSUME ApiInv, CallInv, [Next]_vars PROVE CallInv'
  OBVIOUS
<1>1. CASE Call \/ AppendCmd \/ NewBuffers
  BY <1>1, CallStarts
<1>2. CASE BuildRequest
  BY <1>2, RequestBuilt
<1>3. CASE Deliver
  BY <1>3, PieceDelivered
<1>4. CASE Performed
  BY <1>4, HeardAll
<1>5. CASE ToStr
  BY <1>5, TextEnded
<1>6. CASE Parse
  BY <1>6, ReplyParsed
<1>7. CASE Done
  BY <1>7, CallCleansUp
<1>8. CASE NodeAnswers
  BY <1>8, NodeActs
<1>9. CASE Broken
  BY <1>9, TransferBroken
<1>10. ASSUME NEW addr, EditTable(addr) PROVE CallInv'
  <2>1. /\ UNCHANGED <<api, client, phase, cmd, req, res, leaked, ret, conn, oom>>
        /\ api = "unspent" /\ phase = "returned" /\ edits < MaxEdits /\ edits' = edits + 1
    BY <1>10 DEF EditTable
  <2>2. edits' \in 0 .. MaxEdits
    BY <2>1, ApiAssumption DEF CallInv
  <2> QED
    BY <2>1, <2>2, CallFrame
<1>11. CASE UNCHANGED vars
  <2>1. edits' \in 0 .. MaxEdits
    BY <1>11 DEF vars, CallInv
  <2> QED
    BY <1>11, <2>1, CallFrame DEF vars
<1> QED
  BY <1>1, <1>2, <1>3, <1>4, <1>5, <1>6, <1>7, <1>8, <1>9, <1>10, <1>11 DEF Next, LocalStep

LEMMA CallInvariant == Spec => []CallInv
BY CallInit, CallNext, ApiInvariant, PTL DEF Spec

\* When a call returns, nothing it allocated is left but the request text of
\* get_funds, what error replies leave, and the url of a failed append,
\* wherever the call ended and whatever the node answered.
THEOREM NothingLeaks == Spec => []NoLeak
<1>1. CallInv => NoLeak
  BY DEF CallInv, OwnersOK, NoLeak
<1> QED
  BY <1>1, CallInvariant, PTL

\* A message id that a caller gets without any allocation failing is the one
\* the node gave for a request it acted on, and the call has succeeded.
THEOREM IdIsAPromise == Spec => []IdMeansApplied
<1>1. CallInv => IdMeansApplied
  BY DEF CallInv, ResultOK
<1> QED
  BY <1>1, CallInvariant, PTL

\* A wallet takes its node for synced only if the node said so, or if the
\* call succeeded without the whole answer being read.
THEOREM SyncedAsReported == Spec => []SyncedIsReported
<1>1. ASSUME CallInv PROVE SyncedIsReported
  <2> SUFFICES ASSUME api = "info", phase = "returned"
               PROVE  /\ ret # 0 => wallet_is_node_synced = {FALSE}
                      /\ /\ ret = 0 /\ Heard /\ reply \in Replies["info"]
                         /\ Missing \notin {reply.version, reply.id, reply.synced}
                         => wallet_is_node_synced = {reply.synced}
    BY DEF SyncedIsReported
  <2>1. CASE ret # 0
    BY <2>1 DEF wallet_is_node_synced
  <2>2. ASSUME ret = 0, Heard, reply \in Replies["info"],
               Missing \notin {reply.version, reply.id, reply.synced}
        PROVE  wallet_is_node_synced = {reply.synced}
    <3>1. got = reply.synced
      BY <1>1, <2>2 DEF CallInv, ResultOK
    <3>2. reply.synced \in BOOLEAN /\ reply.synced # Junk
      BY <2>2, ApiAssumption
    <3> QED
      BY <2>2, <3>1, <3>2 DEF wallet_is_node_synced
  <2> QED
    BY <2>1, <2>2
<1> QED
  BY <1>1, CallInvariant, PTL

\* The buffers of a call stay inside their blocks, for any answer in any
\* pieces.
THEOREM ApiIsTyped == Spec => []ApiTypeOK
<1>1. ASSUME CallInv, ApiInv PROVE ApiTypeOK
  <2>1. \A b \in {req, res} \ {Null} :
          b.len <= b.cap /\ b.cap <= IF b.data = Null THEN 0 ELSE Len(b.data)
    BY <1>1 DEF CallInv, OwnersOK, Sound, InBlock
  <2>2. sent \in 0 .. 3
    BY <1>1, PiecesOK DEF CallInv
  <2> QED
    BY <1>1, <2>1, <2>2 DEF CallInv, ApiInv, OwnersOK, ResultOK, BeforeResult, ApiTypeOK
<1> QED
  BY <1>1, CallInvariant, ApiInvariant, PTL

-----------------------------------------------------------------------------
(* The table of get_unspent_outputs.                                       *)

\* The states and amounts that stand together in a reply.
SaidIn(doc) ==
  { x \in State \X Amount :
      \E k \in DOMAIN doc.unspent : \E i \in DOMAIN doc.unspent[k].output_ids :
        LET o == doc.unspent[k].output_ids[i]
        IN  /\ x[1] = inclusion_state(o.st)
            /\ \E j \in DOMAIN o.balances : x[2] = GotInt64(o.balances[j].value, 0) }

LEMMA ReplySays ==
  ASSUME NEW doc \in UnspentDoc, doc.unspent \notin {Missing, NotArray}
  PROVE  AllSayOnly(doc.unspent, SaidIn(doc))
<1>1. AllSayOnly(doc.unspent, State \X Amount)
  BY DocsSay
<1> SUFFICES ASSUME NEW k \in DOMAIN doc.unspent,
                    doc.unspent[k].output_ids \notin {Missing, NotArray},
                    NEW i \in DOMAIN doc.unspent[k].output_ids,
                    doc.unspent[k].output_ids[i].balances \notin {Missing, NotArray},
                    NEW j \in DOMAIN doc.unspent[k].output_ids[i].balances
             PROVE  <<inclusion_state(doc.unspent[k].output_ids[i].st),
                      GotInt64(doc.unspent[k].output_ids[i].balances[j].value, 0)>> \in SaidIn(doc)
  BY DEF AllSayOnly, SaysOnly
<1> DEFINE o == doc.unspent[k].output_ids[i]
           x == <<inclusion_state(o.st), GotInt64(o.balances[j].value, 0)>>
<1>2. x \in State \X Amount
  BY <1>1 DEF AllSayOnly, SaysOnly
<1>3. x[1] = inclusion_state(o.st) /\ x[2] = GotInt64(o.balances[j].value, 0)
  OBVIOUS
<1> HIDE DEF x
<1>4. x \in SaidIn(doc)
  BY <1>2, <1>3 DEF SaidIn
<1> QED
  BY <1>4 DEF x

\* The table is one at every moment; until the caller has it, it holds what
\* the reply says that the parser was handed whole.
WholeReply == /\ phase = "done" /\ reply \in Replies["unspent"]
              /\ Text(res) = <<1, 2, 3>>

TableInv ==
  api = "unspent" => /\ got \in TableIn(State \X Amount)
                     /\ WholeReply => got \in TableIn(SaidIn(reply))

LEMMA TableInit == Init => TableInv
BY EmptyTables DEF Init, TableInv

LEMMA TableNext == CallInv /\ TableInv /\ [Next]_vars => TableInv'
<1> SUFFICES ASSUME CallInv, TableInv, [Next]_vars, api' = "unspent" PROVE TableInv'
  BY DEF TableInv
<1> USE DEF Goto, Fail
<1>0. api = "unspent" /\ got \in TableIn(State \X Amount)
  <2>1. api' = api
    BY DEF Next, LocalStep, vars, conn, Call, AppendCmd, NewBuffers, BuildRequest, Deliver,
           Performed, ToStr, Parse, Done, NodeAnswers, Broken, EditTable
  <2> QED
    BY <2>1 DEF TableInv
\* A step that gets nothing.
<1>1. ASSUME got' = got, phase' # "done" \/ got = <<>> PROVE TableInv'
  <2>1. WholeReply' => phase' = "done"
    BY DEF WholeReply
  <2>2. got = <<>> => got \in TableIn(SaidIn(reply'))
    BY EmptyTables
  <2>3. SaidIn(reply)' = SaidIn(reply')
    BY DEF SaidIn
  <2> QED
    BY <1>0, <1>1, <2>1, <2>2, <2>3 DEF TableInv
<1>2. ASSUME phase \in BeforeResult PROVE got = <<>>
  BY <1>0, <1>2 DEF CallInv, ResultOK
<1>3. CASE Call \/ AppendCmd \/ NewBuffers \/ BuildRequest \/ Deliver \/ Performed \/ ToStr
           \/ Broken \/ NodeAnswers
  <2>1. got' = got /\ phase \in BeforeResult
    BY <1>3 DEF Call, AppendCmd, NewBuffers, BuildRequest, Deliver, Performed, ToStr, Broken,
                NodeAnswers, BeforeResult
  <2> QED
    BY <1>1, <1>2, <2>1
<1>4. CASE Done
  <2>1. got' = got /\ phase' # "done"
    BY <1>4 DEF Done
  <2> QED
    BY <1>1, <2>1
<1>5. ASSUME NEW addr \in Addresses, EditTable(addr) PROVE TableInv'
  <2>1. got' \in EditedTables(addr) /\ phase' = "returned"
    BY <1>5 DEF EditTable
  <2> DEFINE R == State \X Amount
  <2> HIDE DEF R
  <2>2. got \in TableIn(R)
    BY <1>0 DEF R
  <2>3. got' \in TableIn(R)
    BY <2>1, <2>2, EditsOK
  <2>4. ~WholeReply'
    BY <2>1 DEF WholeReply
  <2> QED
    BY <2>3, <2>4 DEF TableInv, R
<1>6. CASE Parse
  <2>1. /\ phase = "parse" /\ got = <<>> /\ reply' = reply /\ res' = res
        /\ reply \in Replies["unspent"] \union {Nonsense, Empty}
    BY <1>0, <1>2, <1>6 DEF Parse, CallInv, ReplyOK, BeforeResult, conn
  <2>2. CASE got' = got
    BY <1>1, <2>1, <2>2
  <2>3. ASSUME NEW doc \in ParsedFrom(res) \union { n \in {Nonsense} : AllocMayFail },
               NEW r \in Deserialized(doc), got' = r.got
        PROVE  TableInv'
    <3>1. CASE doc \in {Nonsense, Empty}
      <4>1. r = [ret |-> -1, got |-> got, leaked |-> {}]
        BY <3>1 DEF Deserialized
      <4> QED
        BY <2>2, <2>3, <4>1
    <3>2. CASE doc \notin {Nonsense, Empty}
      <4>1. doc \in UnspentDoc
        BY <1>0, <2>1, <2>3, <3>2, ParsedType
      <4>2. r \in deser_unspent_outputs(doc, <<>>)
        BY <1>0, <2>1, <2>3, <3>2 DEF Deserialized
      <4>3. ASSUME NEW R, doc.unspent \notin {Missing, NotArray} => AllSayOnly(doc.unspent, R)
            PROVE  r.got \in TableIn(R)
        <5>1. <<>> \in TableIn(R)
          BY EmptyTables
        <5> QED
          BY <4>1, <4>2, <4>3, <5>1, UnspentTaken
      <4>4. r.got \in TableIn(State \X Amount)
        BY <4>1, <4>3, DocsSay
      <4>5. r.got \in TableIn(SaidIn(doc))
        BY <4>1, <4>3, ReplySays
      <4>6. WholeReply' => doc = reply
        <5>1. WholeReply' => Text(res) = <<1, 2, 3>>
          BY <2>1 DEF WholeReply, Text, Content
        <5>2. Text(res) = <<1, 2, 3>> => ParsedFrom(res) \subseteq {reply, Nonsense}
          BY DEF ParsedFrom
        <5> QED
          BY <2>3, <3>2, <5>1, <5>2
      <4>7. SaidIn(reply)' = SaidIn(reply)
        BY <2>1 DEF SaidIn
      <4> QED
        BY <2>3, <4>4, <4>5, <4>6, <4>7 DEF TableInv
    <3> QED
      BY <3>1, <3>2
  <2>4. \/ got' = got
        \/ \E doc \in ParsedFrom(res) \union { n \in {Nonsense} : AllocMayFail } :
             \E r \in Deserialized(doc) : got' = r.got
    BY <1>6 DEF Parse
  <2> QED
    BY <2>2, <2>3, <2>4
<1>7. CASE UNCHANGED vars
  <2>1. /\ got' = got /\ phase' = phase /\ reply' = reply /\ res' = res
    BY <1>7 DEF vars, conn
  <2>2. WholeReply' => WholeReply
    BY <2>1 DEF WholeReply, Text, Content
  <2>3. SaidIn(reply)' = SaidIn(reply)
    BY <2>1 DEF SaidIn
  <2> QED
    BY <1>0, <2>1, <2>2, <2>3 DEF TableInv
<1> QED
  BY <1>3, <1>4, <1>5, <1>6, <1>7 DEF Next, LocalStep

LEMMA TableInvariant == Spec => []TableInv
BY TableInit, TableNext, CallInvariant, PTL DEF Spec

\* No table has two entries with one key: whatever a reply doubles, whatever
\* the caller adds, appends, updates, clones or removes, whatever allocation
\* fails.
THEOREM KeysAreUnique == Spec => []KeysUnique
<1>1. ASSUME TableInv PROVE KeysUnique
  <2> SUFFICES ASSUME api = "unspent"
               PROVE  /\ Distinct(got, LAMBDA e : e.addr)
                      /\ \A e \in ToSet(got) :
                           /\ Distinct(e.ids, LAMBDA o : o.id)
                           /\ \A o \in ToSet(e.ids) : Distinct(o.balances, LAMBDA b : b.color)
    BY DEF KeysUnique, HasTable
  <2> DEFINE R == State \X Amount
  <2>1. got \in Seq(EntryIn(R)) /\ Unique(got, "addr")
    BY <1>1 DEF TableInv, TableIn
  <2> HIDE DEF R
  <2>2. Distinct(got, LAMBDA e : e.addr)
    BY <2>1 DEF Unique, Distinct
  <2>3. ASSUME NEW e \in ToSet(got)
        PROVE  /\ Distinct(e.ids, LAMBDA o : o.id)
               /\ \A o \in ToSet(e.ids) : Distinct(o.balances, LAMBDA b : b.color)
    <3>1. e \in EntryIn(R)
      BY <2>1, <2>3 DEF ToSet
    <3>2. e.ids \in Seq(OutputIn(R)) /\ Unique(e.ids, "id")
      BY <3>1 DEF EntryIn, OutputsIn
    <3>3. Distinct(e.ids, LAMBDA o : o.id)
      BY <3>2 DEF Unique, Distinct
    <3>4. ASSUME NEW o \in ToSet(e.ids) PROVE Distinct(o.balances, LAMBDA b : b.color)
      <4>1. o \in OutputIn(R)
        BY <3>2, <3>4 DEF ToSet
      <4>2. Unique(o.balances, "color")
        BY <4>1, OutputIs DEF BalancesIn
      <4> QED
        BY <4>2 DEF Unique, Distinct
    <3> QED
      BY <3>3, <3>4
  <2> QED
    BY <2>2, <2>3
<1> QED
  BY <1>1, TableInvariant, PTL

\* However odd a reply: what the parser enters as confirmed or not with an
\* amount stands so in one output of the reply.
THEOREM NothingIsInvented == Spec => []NothingInvented
<1>1. ASSUME TableInv PROVE NothingInvented
  <2> SUFFICES ASSUME api = "unspent", phase = "done", reply \in Replies["unspent"],
                      Text(res) = <<1, 2, 3>>, NEW h \in Holdings(got)
               PROVE  \E k \in DOMAIN reply.unspent :
                        \E i \in DOMAIN reply.unspent[k].output_ids :
                          LET o == reply.unspent[k].output_ids[i]
                          IN  /\ h[3] = inclusion_state(o.st)["confirmed"]
                              /\ \E j \in DOMAIN o.balances :
                                   h[5] = GotInt64(o.balances[j].value, 0)
    BY DEF NothingInvented
  <2> DEFINE R == SaidIn(reply)
  <2>1. got \in Seq(EntryIn(R))
    BY <1>1 DEF TableInv, WholeReply, TableIn
  <2>e. PICK e \in ToSet(got) : \E o \in ToSet(e.ids) : \E b \in ToSet(o.balances) :
          h = <<e.addr, o.id, o.st["confirmed"], b.color, b.value>>
    BY DEF Holdings
  <2>o. PICK o \in ToSet(e.ids) : \E b \in ToSet(o.balances) :
          h = <<e.addr, o.id, o.st["confirmed"], b.color, b.value>>
    BY <2>e
  <2>2. PICK b \in ToSet(o.balances) :
          h = <<e.addr, o.id, o.st["confirmed"], b.color, b.value>>
    BY <2>o
  <2> HIDE DEF R
  <2>3. e \in EntryIn(R)
    BY <2>1 DEF ToSet
  <2>4. e.ids \in Seq(OutputIn(R))
    BY <2>3 DEF EntryIn, OutputsIn
  <2>5. o \in OutputIn(R)
    BY <2>4 DEF ToSet
  <2>6. o.balances \in BalancesIn(AmountsOf(R, o.st))
    BY <2>5, OutputIs
  <2>7. b.value \in AmountsOf(R, o.st)
    <3> DEFINE S == [color : Colors \union {Zero}, value : AmountsOf(R, o.st)]
    <3>1. o.balances \in Seq(S)
      BY <2>6 DEF BalancesIn
    <3> HIDE DEF S
    <3>2. PICK j \in DOMAIN o.balances : b = o.balances[j]
      BY DEF ToSet
    <3>3. b \in S
      BY <3>1, <3>2
    <3> QED
      BY <3>3 DEF S
  <2>8. <<o.st, b.value>> \in R
    BY <2>7 DEF AmountsOf
  <2>9. PICK k \in DOMAIN reply.unspent : \E i \in DOMAIN reply.unspent[k].output_ids :
          /\ o.st = inclusion_state(reply.unspent[k].output_ids[i].st)
          /\ \E j \in DOMAIN reply.unspent[k].output_ids[i].balances :
               b.value = GotInt64(reply.unspent[k].output_ids[i].balances[j].value, 0)
    BY <2>8 DEF R, SaidIn
  <2>10. h[3] = o.st["confirmed"] /\ h[5] = b.value
    BY <2>2
  <2> QED
    BY <2>9, <2>10
<1> QED
  BY <1>1, TableInvariant, PTL

-----------------------------------------------------------------------------
(* Sums: what Summed, a power and a rounded amount are.                    *)

\* The function by which Summed is defined gives the sum of the values.
LEMMA SummedIs ==
  ASSUME NEW n \in Nat, NEW v \in [1 .. n -> Nat]
  PROVE  Summed(v) = Total(v, 1 .. n) % Modulus /\ Total(v, 1 .. n) \in Nat
<1> DEFINE M == 0 .. Modulus - 1
           F == [x \in (1 .. n) \X M |-> (x[2] + v[x[1]]) % Modulus]
           Is(it) == it = [s \in SUBSET DOMAIN v |->
                             IF s = {} THEN 0 ELSE (it[s \ {Max(s)}] + v[Max(s)]) % Modulus]
           it == CHOOSE it : Is(it)
           G == [k \in 0 .. n |-> Total(v, 1 .. k) % Modulus]
<1>1. DOMAIN v = 1 .. n /\ \A k \in 1 .. n : v[k] \in Nat
  OBVIOUS
<1>2. Modulus \in Nat \ {0} /\ 0 \in M
  BY TablesAssumption
<1>3. \A a \in Nat : a % Modulus \in M
  BY <1>2
<1>4. F \in [(1 .. n) \X M -> M]
  <2> SUFFICES ASSUME NEW k \in 1 .. n, NEW a \in M PROVE (a + v[k]) % Modulus \in M
    OBVIOUS
  <2>1. a + v[k] \in Nat
    BY <1>1, <1>2
  <2> HIDE DEF M
  <2> QED
    BY <1>3, <2>1
<1> HIDE DEF F, M
<1>5. PICK f : IsFold(f, n, M, 0, F)
  BY <1>2, <1>4, FoldExists
<1>6. Is(f)
  <2>1. /\ f \in [SUBSET (1 .. n) -> M]
        /\ \A s \in SUBSET (1 .. n) :
             f[s] = IF s = {} THEN 0 ELSE F[<<Max(s), f[s \ {Max(s)}]>>]
    BY <1>5 DEF IsFold
  <2>2. ASSUME NEW s \in SUBSET (1 .. n), s # {}
        PROVE  F[<<Max(s), f[s \ {Max(s)}]>>] = (f[s \ {Max(s)}] + v[Max(s)]) % Modulus
    <3>1. Max(s) \in 1 .. n
      BY <2>2, MaxIn
    <3>2. f[s \ {Max(s)}] \in M
      BY <2>1
    <3> QED
      BY <3>1, <3>2 DEF F
  <2> QED
    BY <1>1, <2>1, <2>2
<1>7. Is(it)
  BY <1>6
<1>8. Summed(v) = it[1 .. n]
  BY <1>1 DEF Summed, FoldLeft, MapThenFoldSet
<1>9. ASSUME NEW k \in 1 .. n
      PROVE  it[1 .. k] = (it[1 .. k - 1] + v[k]) % Modulus
  <2>1. /\ Max(1 .. k) = k /\ (1 .. k) \ {k} = 1 .. k - 1
        /\ 1 .. k \in SUBSET (1 .. n) /\ 1 .. k # {}
    BY MaxOfInterval
  <2> QED
    BY <1>1, <1>7, <2>1
<1>10. it[{}] = 0
  BY <1>1, <1>7
<1> HIDE DEF it
<1>11. it[{}] = G[0]
  <2>1. 1 .. 0 = {} /\ 0 \in 0 .. n
    OBVIOUS
  <2>2. Total(v, {}) = 0
    BY TotalEmpty
  <2>3. 0 % Modulus = 0
    BY <1>2
  <2> QED
    BY <1>10, <2>1, <2>2, <2>3
<1>12. ASSUME NEW k \in 1 .. n, it[1 .. k - 1] = G[k - 1]
       PROVE  it[1 .. k] = G[k]
  <2>1. /\ k - 1 \in Nat /\ k - 1 \in 0 .. n /\ k \in 0 .. n /\ k \notin 1 .. k - 1
        /\ (1 .. k - 1) \union {k} = 1 .. k
    OBVIOUS
  <2>2. IsFiniteSet(1 .. k - 1) /\ \A y \in (1 .. k - 1) \union {k} : v[y] \in Nat
    <3>1. k - 1 \in Int /\ 1 \in Int
      OBVIOUS
    <3>2. IsFiniteSet(1 .. k - 1)
      BY <3>1, FS_Interval
    <3>3. \A y \in (1 .. k - 1) \union {k} : v[y] \in Nat
      BY <1>1, <2>1
    <3> QED
      BY <3>2, <3>3
  <2> DEFINE a == Total(v, 1 .. k - 1)
  <2>3. Total(v, 1 .. k) = a + v[k] /\ a \in Nat /\ v[k] \in Nat
    BY <2>1, <2>2, TotalAdd
  <2>4. G[k - 1] = a % Modulus /\ G[k] = Total(v, 1 .. k) % Modulus
    BY <2>1
  <2> HIDE DEF G, a
  <2>5. ((a % Modulus) + v[k]) % Modulus = (a + v[k]) % Modulus
    BY <1>2, <2>3, ModAdd
  <2> QED
    BY <1>9, <1>12, <2>3, <2>4, <2>5
<1>13. G[n] = Total(v, 1 .. n) % Modulus
  OBVIOUS
<1> HIDE DEF G
<1>14. it[1 .. n] = G[n]
  BY <1>11, <1>12, FoldTo
<1>15. Total(v, 1 .. n) \in Nat
  BY <1>1, FS_Interval, TotalSame
<1> QED
  BY <1>8, <1>13, <1>14, <1>15

\* Power is the function its definition asks for.
LEMMA PowerIs ==
  /\ Power[0] = 1
  /\ \A e \in Nat : Power[e + 1] = 2 * Power[e]
<1> DEFINE Is(p, n) == /\ p \in [0 .. n -> Nat] /\ p[0] = 1
                       /\ \A e \in 0 .. n - 1 : p[e + 1] = 2 * p[e]
<1>1. ASSUME NEW n \in Nat, NEW p, Is(p, n), NEW m \in n .. n + 1, NEW q, Is(q, m)
      PROVE  \A e \in 0 .. n : p[e] = q[e]
  <2> DEFINE S == { e \in 0 .. n : p[e] = q[e] }
  <2>1. 0 \in S
    BY <1>1
  <2>2. ASSUME NEW e \in 0 .. n - 1, e \in S PROVE e + 1 \in S
    <3>1. e + 1 \in 0 .. n /\ e \in 0 .. m - 1
      OBVIOUS
    <3> QED
      BY <2>2, <3>1, <1>1
  <2>3. \A e \in 0 .. n - 1 : e \in S => e + 1 \in S
    BY <2>2
  <2> HIDE DEF S
  <2>4. \A e \in 0 .. n : e \in S
    BY <2>1, <2>3, InductionTo
  <2> QED
    BY <2>4 DEF S
<1>2. ASSUME NEW n \in Nat, NEW p, Is(p, n)
      PROVE  \E q : Is(q, n + 1)
  <2> DEFINE q == [e \in 0 .. n + 1 |-> IF e = n + 1 THEN 2 * p[n] ELSE p[e]]
  <2>1. \A e \in 0 .. n : p[e] \in Nat
    BY <1>2
  <2>2. q \in [0 .. n + 1 -> Nat] /\ q[0] = 1
    BY <1>2, <2>1
  <2>3. ASSUME NEW e \in 0 .. n PROVE q[e + 1] = 2 * q[e]
    <3>1. q[e] = p[e] /\ (e = n => q[e + 1] = 2 * p[n])
          /\ (e # n => e \in 0 .. n - 1 /\ q[e + 1] = p[e + 1])
      OBVIOUS
    <3> HIDE DEF q
    <3> QED
      BY <1>2, <3>1
  <2>4. (n + 1) - 1 = n
    OBVIOUS
  <2>5. Is(q, n + 1)
    <3> HIDE DEF q
    <3> QED
      BY <2>2, <2>3, <2>4
  <2> QED
    BY <2>5
<1> DEFINE S == { n \in Nat : \E p : Is(p, n) }
<1>3. \A n \in Nat : n \in S
  <2>1. 0 \in S
    <3> DEFINE p == [e \in 0 .. 0 |-> 1]
    <3>1. Is(p, 0)
      OBVIOUS
    <3> QED
      BY <3>1
  <2>2. \A n \in Nat : n \in S => n + 1 \in S
    <3> SUFFICES ASSUME NEW n \in Nat, n \in S PROVE n + 1 \in S
      OBVIOUS
    <3>1. PICK p : Is(p, n)
      OBVIOUS
    <3>2. \E q : Is(q, n + 1)
      BY <1>2, <3>1
    <3>3. n + 1 \in Nat
      OBVIOUS
    <3> HIDE DEF Is
    <3> QED
      BY <3>2, <3>3
  <2> HIDE DEF S
  <2> TAKE n \in Nat
  <2>4. \A k \in 0 .. n - 1 : k \in S => k + 1 \in S
    BY <2>2
  <2>5. \A k \in 0 .. n : k \in S
    BY <2>1, <2>4, InductionTo
  <2>6. n \in 0 .. n
    OBVIOUS
  <2> QED
    BY <2>5, <2>6
<1> DEFINE of(n) == CHOOSE p : Is(p, n)
           f == [n \in Nat |-> of(n)[n]]
<1>4. \A n \in Nat : Is(of(n), n)
  BY <1>3
<1> HIDE DEF of
<1>5. f[0] = 1 /\ f[0] \in Nat
  <2>1. Is(of(0), 0)
    BY <1>4
  <2> HIDE DEF Is
  <2>2. of(0)[0] = 1
    BY <2>1 DEF Is
  <2> QED
    BY <2>2
<1>6. ASSUME NEW n \in Nat PROVE f[n + 1] = 2 * f[n]
  <2>1. Is(of(n), n) /\ Is(of(n + 1), n + 1) /\ n + 1 \in n .. n + 1 /\ n \in 0 .. n
        /\ n + 1 \in Nat
    BY <1>4
  <2> HIDE DEF Is
  <2>2. \A e \in 0 .. n : of(n)[e] = of(n + 1)[e]
    BY <1>1, <2>1
  <2>3. of(n + 1)[n + 1] = 2 * of(n + 1)[n]
    BY <2>1 DEF Is
  <2>4. of(n)[n] = of(n + 1)[n]
    BY <2>1, <2>2
  <2>5. f[n] = of(n)[n] /\ f[n + 1] = of(n + 1)[n + 1]
    BY <2>1
  <2> QED
    BY <2>3, <2>4, <2>5
<1> DEFINE Rec(p) == p = [e \in Nat |-> IF e = 0 THEN 1 ELSE 2 * p[e - 1]]
<1>7. Rec(f)
  <2>1. ASSUME NEW e \in Nat
        PROVE  f[e] = IF e = 0 THEN 1 ELSE 2 * f[e - 1]
    <3>1. CASE e = 0
      BY <1>5, <3>1
    <3>2. CASE e # 0
      <4>1. e - 1 \in Nat /\ (e - 1) + 1 = e
        BY <3>2
      <4> HIDE DEF f
      <4> QED
        BY <1>6, <3>2, <4>1
    <3> QED
      BY <3>1, <3>2
  <2>2. f = [e \in Nat |-> f[e]]
    OBVIOUS
  <2> HIDE DEF f
  <2> QED
    BY <2>1, <2>2
<1>8. Rec(Power)
  <2>1. Power = CHOOSE p : Rec(p)
    BY DEF Power
  <2> HIDE DEF Rec, f
  <2> QED
    BY <1>7, <2>1
<1>9. \A e \in Nat : Power[e] = IF e = 0 THEN 1 ELSE 2 * Power[e - 1]
  BY <1>8
<1>10. ASSUME NEW e \in Nat PROVE Power[e + 1] = 2 * Power[e]
  <2>1. e + 1 \in Nat /\ e + 1 # 0 /\ (e + 1) - 1 = e
    OBVIOUS
  <2> QED
    BY <1>9, <2>1
<1> QED
  BY <1>9, <1>10

\* A power is positive, and larger than its exponent.
LEMMA PowerAbove == ASSUME NEW e \in Nat PROVE Power[e] \in Nat /\ Power[e] > e
<1> DEFINE S == { k \in Nat : Power[k] \in Nat /\ Power[k] > k }
<1>1. 0 \in S
  BY PowerIs
<1>2. ASSUME NEW k \in 0 .. e - 1, k \in S PROVE k + 1 \in S
  <2>1. Power[k + 1] = 2 * Power[k]
    BY PowerIs
  <2> QED
    BY <1>2, <2>1
<1>3. \A k \in 0 .. e - 1 : k \in S => k + 1 \in S
  BY <1>2
<1> HIDE DEF S
<1>4. \A k \in 0 .. e : k \in S
  BY <1>1, <1>3, InductionTo
<1>5. e \in S
  BY <1>4
<1> QED
  BY <1>5 DEF S

\* An amount is a natural, and exact up to the precision of a double.
LEMMA RoundedIs ==
  ASSUME NEW n \in Nat
  PROVE  Rounded(n) \in Nat /\ (n <= Power[Mantissa] => Rounded(n) = n)
<1> DEFINE above == { e \in 0 .. n : n < Power[Mantissa + e] }
           least == Min(above)
           unit  == Power[least]
           down  == n - (n % unit)
<1>1. Mantissa \in Nat /\ Mantissa >= 1
  BY ReplyAssumption
<1>2. above \subseteq Nat /\ n \in above
  <2>1. Mantissa + n \in Nat /\ Mantissa + n >= n
    BY <1>1
  <2>2. n < Power[Mantissa + n]
    BY <2>1, PowerAbove
  <2> QED
    BY <2>2
<1> HIDE DEF above
<1>3. least \in above /\ \A e \in above : least <= e
  BY <1>2, LeastNat DEF Min
<1> HIDE DEF least
<1>4. unit \in Nat \ {0}
  BY <1>2, <1>3, PowerAbove
<1> HIDE DEF unit
<1>5. n % unit \in 0 .. unit - 1 /\ n % unit <= n /\ down \in Nat /\ down + unit \in Nat
  BY <1>4
<1>6. Rounded(n) \in {down, down + unit}
  <2>1. Rounded(n) = CASE 2 * (n % unit) < unit -> down
                       [] 2 * (n % unit) > unit -> down + unit
                       [] OTHER -> IF (down \div unit) % 2 = 0 THEN down ELSE down + unit
    BY DEF Rounded, unit, least, above
  <2> HIDE DEF down
  <2> QED
    BY <2>1
<1>7. Rounded(n) \in Nat
  BY <1>5, <1>6
<1>8. ASSUME n <= Power[Mantissa] PROVE n % unit = 0
  <2>1. Power[Mantissa] \in Nat /\ Mantissa + 0 = Mantissa
    BY <1>1, PowerAbove
  <2>2. CASE n < Power[Mantissa]
    <3>1. 0 \in above
      BY <2>1, <2>2 DEF above
    <3>2. least = 0
      BY <1>2, <1>3, <3>1
    <3>3. unit = 1
      BY <3>2, PowerIs DEF unit
    <3> QED
      BY <3>3
  <2>3. CASE n = Power[Mantissa]
    <3>1. 0 \notin above
      BY <2>1, <2>3 DEF above
    <3>2. 1 \in above
      <4>1. Power[Mantissa + 1] = 2 * Power[Mantissa] /\ Power[Mantissa] > Mantissa
        BY <1>1, PowerIs, PowerAbove
      <4> QED
        BY <1>1, <2>1, <2>3, <4>1 DEF above
    <3>3. least = 1
      BY <1>2, <1>3, <3>1, <3>2
    <3>4. Power[1] = 2 * Power[0] /\ Power[0] = 1
      <4>1. 0 + 1 = 1
        OBVIOUS
      <4> QED
        BY <4>1, PowerIs
    <3>5. unit = 2
      BY <3>3, <3>4 DEF unit
    <3> DEFINE e == Mantissa - 1
    <3>6. e \in Nat /\ e + 1 = Mantissa
      BY <1>1
    <3> HIDE DEF e
    <3>7. n = 2 * Power[e] /\ Power[e] \in Nat
      BY <2>3, <3>6, PowerIs, PowerAbove
    <3> QED
      BY <3>5, <3>7
  <2> QED
    BY <1>8, <2>1, <2>2, <2>3
<1>9. ASSUME n % unit = 0 PROVE Rounded(n) = n
  <2>1. Rounded(n) = CASE 2 * (n % unit) < unit -> down
                       [] 2 * (n % unit) > unit -> down + unit
                       [] OTHER -> IF (down \div unit) % 2 = 0 THEN down ELSE down + unit
    BY DEF Rounded, unit, least, above
  <2>2. 2 * (n % unit) < unit /\ down = n
    BY <1>4, <1>9
  <2>3. ~(2 * (n % unit) > unit)
    BY <1>4, <1>9
  <2> HIDE DEF down
  <2>4. Rounded(n) = down
    BY <2>1, <2>2, <2>3
  <2> QED
    BY <2>2, <2>4
<1> QED
  BY <1>7, <1>8, <1>9

\* The union of a family of sets.
Together(I, K) == UNION { I[k] : k \in K }

\* The union of a finite family of finite sets.
LEMMA FiniteFamily ==
  ASSUME NEW K, IsFiniteSet(K), NEW I, \A k \in K : IsFiniteSet(I[k])
  PROVE  IsFiniteSet(Together(I, K))
<1> DEFINE S == { I[k] : k \in K }
<1>1. IsFiniteSet(S)
  <2> DEFINE h == [k \in K |-> I[k]]
  <2>1. h \in Surjection(K, S)
    BY DEF Surjection
  <2> HIDE DEF h, S
  <2> QED
    BY <2>1, FS_Surjection
<1>2. \A T \in S : IsFiniteSet(T)
  OBVIOUS
<1> HIDE DEF S
<1>3. IsFiniteSet(UNION S)
  BY <1>1, <1>2, FS_UNION
<1> QED
  BY <1>3 DEF S, Together

\* What is left of a sum.
Wrapped(a) == a % Modulus

\* Summed adds what the parts of a union, one per value, add up to.
LEMMA SumLevel ==
  ASSUME NEW n \in Nat, NEW v \in [1 .. n -> Nat],
         NEW I, \A k \in 1 .. n : IsFiniteSet(I[k]),
         \A j, k \in 1 .. n : j # k => I[j] \intersect I[k] = {},
         NEW F, \A k \in 1 .. n : \A y \in I[k] : F[y] \in Nat,
         \A k \in 1 .. n : Alike(v[k], Total(F, I[k]), Modulus)
  PROVE  /\ IsFiniteSet(Together(I, 1 .. n))
         /\ Total(F, Together(I, 1 .. n)) \in Nat
         /\ Summed(v) = Wrapped(Total(F, Together(I, 1 .. n)))
         /\ Summed(v) \in Nat
         /\ Alike(Summed(v), Total(F, Together(I, 1 .. n)), Modulus)
<1> DEFINE K == 1 .. n
           g == [k \in K |-> Total(F, I[k])]
           U == Together(I, K)
<1>1. IsFiniteSet(K)
  BY FS_Interval
<1>2. \A k \in K : g[k] = Total(F, I[k])
  OBVIOUS
<1>3. ASSUME NEW k \in K PROVE g[k] \in Nat /\ v[k] \in Nat /\ Alike(v[k], g[k], Modulus)
  <2>1. Total(F, I[k]) \in Nat
    BY TotalSame
  <2> QED
    BY <2>1
<1> HIDE DEF g
<1>4. IsFiniteSet(U)
  BY <1>1, FiniteFamily
<1>5. Total(g, K) = Total(F, U) /\ Total(g, K) \in Nat
  <2>1. (\A k \in K : IsFiniteSet(I[k])) /\ (\A j, k \in K : j # k => I[j] \intersect I[k] = {})
        /\ \A k \in K : \A y \in I[k] : F[y] \in Nat
    OBVIOUS
  <2> HIDE DEF K
  <2>2. Total(g, K) = Total(F, UNION { I[k] : k \in K })
    BY <1>1, <1>2, <2>1, TotalFamily
  <2>3. Total(g, K) \in Nat
    BY <1>1, <1>3, TotalSame
  <2> QED
    BY <2>2, <2>3 DEF Together
<1>6. Summed(v) = Total(v, K) % Modulus /\ Total(v, K) \in Nat
  BY SummedIs
<1>7. Modulus \in Nat \ {0}
  BY TablesAssumption
<1>8. Alike(Total(v, K), Total(g, K), Modulus)
  BY <1>1, <1>3, <1>7, AlikeSums
<1> HIDE DEF K, U
<1>9. Summed(v) \in Nat /\ Alike(Summed(v), Total(v, K), Modulus)
  BY <1>6, <1>7, AlikeMod
<1>10. Alike(Summed(v), Total(F, U), Modulus)
  BY <1>5, <1>8, <1>9 DEF Alike
<1>11. Summed(v) = Total(F, U) % Modulus
  BY <1>5, <1>6, <1>8 DEF Alike
<1>12. Summed(v) = Wrapped(Total(F, U))
  BY <1>11 DEF Wrapped
<1> QED
  BY <1>4, <1>5, <1>9, <1>10, <1>12 DEF U, K

-----------------------------------------------------------------------------
(* What a table holds, and what its balance counts of it.                  *)

\* The colors, and all that a table may hold.
AnyColor == Colors \union {Zero}

Holding == (Addresses \union {Zero}) \X (Ids \union {Zero}) \X BOOLEAN \X AnyColor \X Nat

\* What counts in a balance of the colors C.
Counted(C) == [h \in Holding |-> IF h[3] /\ h[4] \in C THEN h[5] ELSE 0]

\* What one output of an address holds, and what one address holds.
HeldBy(a, o) == { <<a, o.id, o.st["confirmed"], b.color, b.value>> : b \in ToSet(o.balances) }
HeldAt(a, ids) == UNION { HeldBy(a, o) : o \in ToSet(ids) }

\* The sums of the code, over the balances with a color in C.
BalanceIn(t, C) == Summed([k \in DOMAIN t |-> IF t[k].color \in C THEN t[k].value ELSE 0])
OutputSum(o, C) == IF o.st["confirmed"] THEN BalanceIn(o.balances, C) ELSE 0
IdsSum(t, C)    == Summed([k \in DOMAIN t |-> OutputSum(t[k], C)])
TableSum(t, C)  == Summed([k \in DOMAIN t |-> IdsSum(t[k].ids, C)])

\* An amount of a reply is a natural number.
LEMMA AmountsAreNat == Amount \subseteq Nat
<1> SUFFICES ASSUME NEW v \in Int \union {Missing} PROVE GotInt64(v, 0) \in Nat
  BY DEF Amount
<1>1. CASE v \in Nat
  BY <1>1, RoundedIs DEF GotInt64
<1>2. CASE v \notin Nat
  BY <1>2 DEF GotInt64
<1> QED
  BY <1>1, <1>2

\* What an entry of a table makes a holding.
LEMMA InHolding ==
  ASSUME NEW a \in Addresses \union {Zero}, NEW i \in Ids \union {Zero}, NEW s \in BOOLEAN,
         NEW c \in AnyColor, NEW w \in Nat
  PROVE  <<a, i, s, c, w>> \in Holding
BY DEF Holding

\* The holding of the balance at position k.
LEMMA BalancesHeld ==
  ASSUME NEW R, NEW o \in OutputIn(R), NEW a \in Addresses \union {Zero}, NEW C
  PROVE  /\ HeldBy(a, o) \subseteq Holding /\ IsFiniteSet(HeldBy(a, o))
         /\ OutputSum(o, C) \in Nat
         /\ Total(Counted(C), HeldBy(a, o)) \in Nat
         /\ Alike(OutputSum(o, C), Total(Counted(C), HeldBy(a, o)), Modulus)
<1> DEFINE t == o.balances
           n == Len(t)
           conf == o.st["confirmed"]
           at == [k \in 1 .. n |-> <<a, o.id, conf, t[k].color, t[k].value>>]
           I == [k \in 1 .. n |-> {at[k]}]
           v == [k \in 1 .. n |-> IF t[k].color \in C THEN t[k].value ELSE 0]
           F == Counted(C)
<1>1. o.st \in State /\ o.id \in Ids \union {Zero} /\ t \in BalancesIn(AmountsOf(R, o.st))
  BY OutputIs
<1>2. conf \in BOOLEAN
  BY <1>1 DEF State, Flags
<1>3. /\ n \in Nat /\ DOMAIN t = 1 .. n
      /\ \A k \in 1 .. n : t[k].color \in AnyColor /\ t[k].value \in Nat
      /\ \A j, k \in 1 .. n : t[j].color = t[k].color => j = k
  <2> DEFINE S == [color : Colors \union {Zero}, value : AmountsOf(R, o.st)]
  <2>1. t \in Seq(S) /\ Unique(t, "color")
    BY <1>1 DEF BalancesIn
  <2>2. \A s \in S : s.color \in AnyColor /\ s.value \in Nat
    BY AmountsAreNat DEF AnyColor, AmountsOf
  <2> HIDE DEF S, t
  <2>3. n \in Nat /\ DOMAIN t = 1 .. n /\ \A k \in 1 .. n : t[k] \in S
    BY <2>1, SeqFacts
  <2> HIDE DEF n
  <2>4. \A j, k \in 1 .. n : t[j].color = t[k].color => j = k
    BY <2>1, <2>3 DEF Unique
  <2> QED
    BY <2>2, <2>3, <2>4
<1>4. \A k \in 1 .. n : /\ at[k] = <<a, o.id, conf, t[k].color, t[k].value>>
                        /\ at[k][3] = conf /\ at[k][4] = t[k].color /\ at[k][5] = t[k].value
                        /\ I[k] = {at[k]}
  OBVIOUS
<1>5. HeldBy(a, o) = Together(I, 1 .. n)
  <2>1. ToSet(t) = { t[k] : k \in 1 .. n }
    BY <1>3 DEF ToSet
  <2>2. HeldBy(a, o) = { <<a, o.id, conf, b.color, b.value>> : b \in ToSet(t) }
    BY DEF HeldBy
  <2>3. HeldBy(a, o) = { at[k] : k \in 1 .. n }
    <3> HIDE DEF t, n, conf, I
    <3> QED
      BY <2>1, <2>2, Zenon
  <2>4. Together(I, 1 .. n) = { at[k] : k \in 1 .. n }
    <3> HIDE DEF at, n
    <3> QED
      BY DEF Together
  <2> QED
    BY <2>3, <2>4
<1>6. \A k \in 1 .. n : at[k] \in Holding
  <2> HIDE DEF t, n, conf, I, at
  <2> TAKE k \in 1 .. n
  <2>1. o.id \in Ids \union {Zero} /\ t[k].color \in AnyColor /\ t[k].value \in Nat
    BY <1>1, <1>3
  <2>2. <<a, o.id, conf, t[k].color, t[k].value>> \in Holding
    BY <1>2, <2>1, InHolding
  <2> QED
    BY <1>4, <2>2
<1>7. /\ v \in [1 .. n -> Nat]
      /\ \A k \in 1 .. n : v[k] = IF t[k].color \in C THEN t[k].value ELSE 0
  BY <1>3
<1>8. \A k \in 1 .. n : F[at[k]] = IF conf THEN v[k] ELSE 0
  <2> HIDE DEF t, n, conf, I, at, v
  <2> QED
    BY <1>4, <1>6, <1>7 DEF Counted
<1>9. BalanceIn(t, C) = Summed(v)
  BY <1>3 DEF BalanceIn
<1> HIDE DEF t, n, at, I, v, F, conf
<1>10. \A j, k \in 1 .. n : j # k => I[j] \intersect I[k] = {}
  <2>1. \A j, k \in 1 .. n : j # k => at[j] # at[k]
    BY <1>3, <1>4
  <2> QED
    BY <1>4, <2>1
<1>11. \A k \in 1 .. n : IsFiniteSet(I[k])
  BY <1>4, FS_Singleton
<1>12. \A k \in 1 .. n : \A y \in I[k] : F[y] \in Nat
  BY <1>4, <1>7, <1>8
<1>13. HeldBy(a, o) \subseteq Holding
  BY <1>4, <1>5, <1>6 DEF Together
<1>14. IsFiniteSet(HeldBy(a, o))
  <2>1. IsFiniteSet(1 .. n)
    BY <1>3, FS_Interval
  <2> QED
    BY <1>5, <1>11, <2>1, FiniteFamily
<1>15. CASE conf
  <2>1. \A k \in 1 .. n : Alike(v[k], Total(F, I[k]), Modulus)
    <3> SUFFICES ASSUME NEW k \in 1 .. n PROVE v[k] = Total(F, I[k])
      BY DEF Alike
    <3>1. F[at[k]] = v[k] /\ v[k] \in Nat /\ I[k] = {at[k]}
      BY <1>4, <1>7, <1>8, <1>15
    <3> QED
      BY <3>1, TotalOne
  <2> DEFINE U == Together(I, 1 .. n)
  <2>2. Total(F, U) \in Nat /\ Summed(v) \in Nat /\ Alike(Summed(v), Total(F, U), Modulus)
    BY <1>3, <1>7, <1>10, <1>11, <1>12, <2>1, SumLevel
  <2>3. OutputSum(o, C) = Summed(v)
    BY <1>9, <1>15 DEF OutputSum, conf, t
  <2> QED
    BY <1>5, <1>13, <1>14, <2>2, <2>3 DEF F
<1>16. CASE ~conf
  <2>1. \A y \in HeldBy(a, o) : F[y] = 0
    BY <1>4, <1>5, <1>8, <1>16 DEF Together
  <2>2. Total(F, HeldBy(a, o)) = 0
    BY <1>14, <2>1, TotalZero
  <2>3. OutputSum(o, C) = 0
    BY <1>16 DEF OutputSum, conf
  <2> QED
    BY <1>13, <1>14, <2>2, <2>3 DEF F, Alike
<1> QED
  BY <1>2, <1>15, <1>16

\* The same over the outputs of an address.
LEMMA OutputsHeld ==
  ASSUME NEW R, NEW ids \in OutputsIn(R), NEW a \in Addresses \union {Zero}, NEW C
  PROVE  /\ HeldAt(a, ids) \subseteq Holding /\ IsFiniteSet(HeldAt(a, ids))
         /\ IdsSum(ids, C) \in Nat
         /\ Total(Counted(C), HeldAt(a, ids)) \in Nat
         /\ Alike(IdsSum(ids, C), Total(Counted(C), HeldAt(a, ids)), Modulus)
         /\ \A h \in HeldAt(a, ids) : h[1] = a
<1> DEFINE n == Len(ids)
           I == [k \in 1 .. n |-> HeldBy(a, ids[k])]
           v == [k \in 1 .. n |-> OutputSum(ids[k], C)]
           F == Counted(C)
<1>1. /\ n \in Nat /\ DOMAIN ids = 1 .. n
      /\ \A k \in 1 .. n : ids[k] \in OutputIn(R)
      /\ \A j, k \in 1 .. n : ids[j].id = ids[k].id => j = k
  <2>1. ids \in Seq(OutputIn(R)) /\ Unique(ids, "id")
    BY DEF OutputsIn
  <2>2. n \in Nat /\ DOMAIN ids = 1 .. n /\ \A k \in 1 .. n : ids[k] \in OutputIn(R)
    BY <2>1, SeqFacts
  <2> HIDE DEF n
  <2> QED
    BY <2>1, <2>2 DEF Unique
<1>2. \A k \in 1 .. n : I[k] = HeldBy(a, ids[k]) /\ v[k] = OutputSum(ids[k], C)
  OBVIOUS
<1>3. ToSet(ids) = { ids[k] : k \in 1 .. n }
  BY <1>1 DEF ToSet
<1>4. IdsSum(ids, C) = Summed(v)
  BY <1>1 DEF IdsSum
<1> HIDE DEF n, F
<1>5. HeldAt(a, ids) = Together(I, 1 .. n)
  <2> HIDE DEF I
  <2> QED
    BY <1>2, <1>3 DEF HeldAt, Together
<1>6. ASSUME NEW k \in 1 .. n
      PROVE  /\ I[k] \subseteq Holding /\ IsFiniteSet(I[k]) /\ v[k] \in Nat
             /\ Alike(v[k], Total(F, I[k]), Modulus)
  <2> HIDE DEF I, v
  <2> QED
    BY <1>1, <1>2, BalancesHeld DEF F
<1>7. v \in [1 .. n -> Nat]
  BY <1>6
<1> HIDE DEF I, v
<1>8. ASSUME NEW k \in 1 .. n, NEW h \in I[k] PROVE h[1] = a /\ h[2] = ids[k].id
  BY <1>2, <1>8 DEF HeldBy
<1>9. \A j, k \in 1 .. n : j # k => I[j] \intersect I[k] = {}
  BY <1>1, <1>8
<1>10. \A k \in 1 .. n : \A y \in I[k] : F[y] \in Nat
  <2>1. \A y \in Holding : F[y] \in Nat
    BY DEF F, Counted, Holding
  <2> QED
    BY <1>6, <2>1
<1> DEFINE U == Together(I, 1 .. n)
<1>11. /\ IsFiniteSet(U) /\ Total(F, U) \in Nat /\ Summed(v) \in Nat
       /\ Alike(Summed(v), Total(F, U), Modulus)
  BY <1>1, <1>6, <1>7, <1>9, <1>10, SumLevel
<1>12. HeldAt(a, ids) \subseteq Holding /\ \A h \in HeldAt(a, ids) : h[1] = a
  BY <1>5, <1>6, <1>8 DEF Together
<1> QED
  BY <1>4, <1>5, <1>11, <1>12 DEF F

\* The same over the entries of a table.
LEMMA TableHeld ==
  ASSUME NEW R, NEW t \in TableIn(R), NEW C
  PROVE  /\ Holdings(t) \subseteq Holding /\ IsFiniteSet(Holdings(t))
         /\ Total(Counted(C), Holdings(t)) \in Nat
         /\ TableSum(t, C) = Wrapped(Total(Counted(C), Holdings(t)))
<1> DEFINE n == Len(t)
           I == [k \in 1 .. n |-> HeldAt(t[k].addr, t[k].ids)]
           v == [k \in 1 .. n |-> IdsSum(t[k].ids, C)]
           F == Counted(C)
<1>1. /\ n \in Nat /\ DOMAIN t = 1 .. n
      /\ \A k \in 1 .. n : t[k].addr \in Addresses \union {Zero} /\ t[k].ids \in OutputsIn(R)
      /\ \A j, k \in 1 .. n : t[j].addr = t[k].addr => j = k
  <2>1. t \in Seq(EntryIn(R)) /\ Unique(t, "addr")
    BY DEF TableIn
  <2>2. n \in Nat /\ DOMAIN t = 1 .. n /\ \A k \in 1 .. n : t[k] \in EntryIn(R)
    BY <2>1, SeqFacts
  <2> HIDE DEF n
  <2> QED
    BY <2>1, <2>2 DEF Unique, EntryIn
<1>2. \A k \in 1 .. n : I[k] = HeldAt(t[k].addr, t[k].ids) /\ v[k] = IdsSum(t[k].ids, C)
  OBVIOUS
<1>3. ToSet(t) = { t[k] : k \in 1 .. n }
  BY <1>1 DEF ToSet
<1>4. TableSum(t, C) = Summed(v)
  BY <1>1 DEF TableSum
<1> HIDE DEF n, F
<1>5. Holdings(t) = Together(I, 1 .. n)
  <2> HIDE DEF I
  <2>1. Holdings(t) = UNION { HeldAt(e.addr, e.ids) : e \in ToSet(t) }
    BY DEF Holdings, HeldAt, HeldBy
  <2> QED
    BY <1>2, <1>3, <2>1 DEF Together
<1>6. ASSUME NEW k \in 1 .. n
      PROVE  /\ I[k] \subseteq Holding /\ IsFiniteSet(I[k]) /\ v[k] \in Nat
             /\ Alike(v[k], Total(F, I[k]), Modulus)
             /\ \A h \in I[k] : h[1] = t[k].addr
  <2> HIDE DEF I, v
  <2>1. t[k].addr \in Addresses \union {Zero} /\ t[k].ids \in OutputsIn(R)
    BY <1>1
  <2> DEFINE a == t[k].addr
             ids == t[k].ids
  <2>2. I[k] = HeldAt(a, ids) /\ v[k] = IdsSum(ids, C)
    BY <1>2
  <2> HIDE DEF a, ids
  <2>3. a \in Addresses \union {Zero} /\ ids \in OutputsIn(R)
    BY <2>1 DEF a, ids
  <2>4. /\ HeldAt(a, ids) \subseteq Holding /\ IsFiniteSet(HeldAt(a, ids))
        /\ IdsSum(ids, C) \in Nat
        /\ Alike(IdsSum(ids, C), Total(Counted(C), HeldAt(a, ids)), Modulus)
        /\ \A h \in HeldAt(a, ids) : h[1] = a
    BY <2>3, OutputsHeld
  <2> QED
    BY <2>2, <2>4 DEF F, a
<1>7. v \in [1 .. n -> Nat]
  BY <1>6
<1> HIDE DEF I, v
<1>8. \A j, k \in 1 .. n : j # k => I[j] \intersect I[k] = {}
  BY <1>1, <1>6
<1>9. \A k \in 1 .. n : \A y \in I[k] : F[y] \in Nat
  <2>1. \A y \in Holding : F[y] \in Nat
    BY DEF F, Counted, Holding
  <2> QED
    BY <1>6, <2>1
<1> DEFINE U == Together(I, 1 .. n)
<1>10. IsFiniteSet(U) /\ Total(F, U) \in Nat /\ Summed(v) = Wrapped(Total(F, U))
  <2>1. n \in Nat
    BY <1>1
  <2>2. \A k \in 1 .. n : IsFiniteSet(I[k])
    BY <1>6
  <2>3. \A k \in 1 .. n : Alike(v[k], Total(F, I[k]), Modulus)
    BY <1>6
  <2> QED
    BY <2>1, <2>2, <2>3, <1>7, <1>8, <1>9, SumLevel
<1>11. Holdings(t) \subseteq Holding
  BY <1>5, <1>6 DEF Together
<1> QED
  BY <1>4, <1>5, <1>10, <1>11 DEF F

\* What counts is a table of entries that are not spent and hold outputs.
LEMMA OfferedIs ==
  ASSUME NEW R, NEW t \in TableIn(R)
  PROVE  /\ Offered(t) \in TableIn(R)
         /\ \A k \in DOMAIN Offered(t) :
              Offered(t)[k] \in ToSet(t) /\ ~Offered(t)[k].spent /\ Offered(t)[k].ids # <<>>
<1> DEFINE keep == { k \in DOMAIN t : ~t[k].spent /\ t[k].ids # <<>> }
           u == Kept(t, keep)
<1>1. t \in Seq(EntryIn(R)) /\ Unique(t, "addr") /\ Offered(t) = u
  BY DEF TableIn, Offered
<1> HIDE DEF u
<1>2. u \in Seq(EntryIn(R))
  BY <1>1, KeptFrom DEF u
<1>3. PICK at \in [DOMAIN u -> DOMAIN t \intersect keep] :
        /\ \A j \in DOMAIN u : u[j] = t[at[j]]
        /\ \A i, j \in DOMAIN u : i < j => at[i] < at[j]
  <2> HIDE DEF keep
  <2> QED
    BY <1>1, KeptFrom DEF u
<1>4. Unique(u, "addr")
  <2> SUFFICES ASSUME NEW i \in DOMAIN u, NEW j \in DOMAIN u, u[i]["addr"] = u[j]["addr"]
               PROVE  i = j
    BY DEF Unique
  <2>1. at[i] = at[j]
    BY <1>1, <1>3 DEF Unique
  <2>2. i \in Nat /\ j \in Nat /\ at[i] \in Nat
    BY <1>1, <1>2, <1>3
  <2> QED
    BY <1>3, <2>1, <2>2
<1>5. ASSUME NEW k \in DOMAIN u
      PROVE  u[k] \in ToSet(t) /\ ~u[k].spent /\ u[k].ids # <<>>
  <2>1. at[k] \in DOMAIN t /\ ~t[at[k]].spent /\ t[at[k]].ids # <<>> /\ u[k] = t[at[k]]
    BY <1>3
  <2> QED
    BY <2>1 DEF ToSet
<1> QED
  BY <1>1, <1>2, <1>4, <1>5 DEF TableIn

\* The balances of the code are the sums above.
LEMMA BalanceIs ==
  ASSUME NEW R, NEW o \in OutputIn(R)
  PROVE  /\ balance_ht_sum(o.balances) = BalanceIn(o.balances, AnyColor)
         /\ \A c : balance_ht_sum_with_color(o.balances, c) = BalanceIn(o.balances, {c})
<1> DEFINE t == o.balances
           S == [color : Colors \union {Zero}, value : AmountsOf(R, o.st)]
<1>1. t \in Seq(S)
  BY OutputIs DEF BalancesIn
<1>2. \A k \in DOMAIN t : t[k].color \in AnyColor
  <2> HIDE DEF t, S
  <2>1. \A k \in DOMAIN t : t[k] \in S
    BY <1>1
  <2> QED
    BY <2>1 DEF S, AnyColor
<1> HIDE DEF t
<1>3. [k \in DOMAIN t |-> t[k].value] =
        [k \in DOMAIN t |-> IF t[k].color \in AnyColor THEN t[k].value ELSE 0]
  BY <1>2
<1>4. ASSUME NEW c
      PROVE [k \in DOMAIN t |-> IF t[k].color = c THEN t[k].value ELSE 0] =
              [k \in DOMAIN t |-> IF t[k].color \in {c} THEN t[k].value ELSE 0]
  OBVIOUS
<1> QED
  BY <1>3, <1>4 DEF t, balance_ht_sum, balance_ht_sum_with_color, BalanceIn

\* The same for the outputs of an address.
LEMMA IdsBalanceIs ==
  ASSUME NEW R, NEW t \in OutputsIn(R)
  PROVE  /\ output_ids_balance(t) = IdsSum(t, AnyColor)
         /\ \A c : output_ids_balance_with_color(t, c) = IdsSum(t, {c})
<1>1. \A k \in DOMAIN t : t[k] \in OutputIn(R)
  BY DEF OutputsIn
<1>2. [k \in DOMAIN t |-> IF t[k].st["confirmed"] THEN balance_ht_sum(t[k].balances) ELSE 0] =
        [k \in DOMAIN t |-> OutputSum(t[k], AnyColor)]
  BY <1>1, BalanceIs DEF OutputSum
<1>3. ASSUME NEW c
      PROVE [k \in DOMAIN t |-> IF t[k].st["confirmed"]
                                THEN balance_ht_sum_with_color(t[k].balances, c) ELSE 0] =
              [k \in DOMAIN t |-> OutputSum(t[k], {c})]
  BY <1>1, BalanceIs DEF OutputSum
<1> QED
  BY <1>2, <1>3 DEF output_ids_balance, output_ids_balance_with_color, IdsSum

\* The same for a table: what is offered of it is added up.
LEMMA SumsAre ==
  ASSUME NEW R, NEW t \in TableIn(R)
  PROVE  /\ unspent_outputs_balance(t) = TableSum(Offered(t), AnyColor)
         /\ \A c : unspent_outputs_balance_with_color(t, c) = TableSum(Offered(t), {c})
<1> DEFINE u == Offered(t)
<1>1. u \in Seq(EntryIn(R))
  BY OfferedIs DEF TableIn
<1> HIDE DEF u
<1>2. \A k \in DOMAIN u : u[k].ids \in OutputsIn(R)
  <2>1. \A k \in DOMAIN u : u[k] \in EntryIn(R)
    BY <1>1
  <2> QED
    BY <2>1 DEF EntryIn
<1>3. [k \in DOMAIN u |-> output_ids_balance(u[k].ids)] =
        [k \in DOMAIN u |-> IdsSum(u[k].ids, AnyColor)]
  BY <1>2, IdsBalanceIs
<1>4. ASSUME NEW c
      PROVE [k \in DOMAIN u |-> output_ids_balance_with_color(u[k].ids, c)] =
              [k \in DOMAIN u |-> IdsSum(u[k].ids, {c})]
  BY <1>2, IdsBalanceIs
<1> QED
  BY <1>3, <1>4 DEF u, unspent_outputs_balance, unspent_outputs_balance_with_color, TableSum

\* The sum over the colors, as the community modules fold it.
LEMMA SumOfColors ==
  ASSUME NEW t, NEW S, IsFiniteSet(S),
         \A c \in S : unspent_outputs_balance_with_color(t, c) \in Nat
  PROVE  MapThenSumSet(LAMBDA c : unspent_outputs_balance_with_color(t, c), S) = Total([o \in S |-> unspent_outputs_balance_with_color(t, o)], S)
<1> DEFINE f == [o \in S |-> unspent_outputs_balance_with_color(t, o)]
           Rec(g) == g = [s \in SUBSET S |->
                            IF s = {} THEN 0
                            ELSE unspent_outputs_balance_with_color(t, CHOOSE x \in s : TRUE) + g[s \ {CHOOSE x \in s : TRUE}]]
           it == CHOOSE g : Rec(g)
<1>1. \A o \in S : f[o] = unspent_outputs_balance_with_color(t, o) /\ f[o] \in Nat
  OBVIOUS
<1>2. PICK m : IsSum(m, f, S)
  BY <1>1, SumExists
<1>3. Rec(m)
  <2>1. ASSUME NEW s \in SUBSET S, s # {}
        PROVE  m[s] = unspent_outputs_balance_with_color(t, CHOOSE x \in s : TRUE) + m[s \ {CHOOSE x \in s : TRUE}]
    <3> DEFINE x == CHOOSE y \in s : TRUE
    <3>1. x \in s
      BY <2>1
    <3> HIDE DEF x, f
    <3>2. m[s] = m[s \ {x}] + f[x] /\ m[s \ {x}] \in Nat
      BY <1>2, <3>1 DEF IsSum
    <3>3. f[x] = unspent_outputs_balance_with_color(t, x) /\ f[x] \in Nat
      BY <1>1, <3>1
    <3>4. m[s] = unspent_outputs_balance_with_color(t, x) + m[s \ {x}]
      BY <3>2, <3>3
    <3> QED
      BY <3>4 DEF x
  <2> HIDE DEF f
  <2>2. m = [s \in SUBSET S |-> m[s]] /\ m[{}] = 0
    BY <1>2 DEF IsSum
  <2> QED
    BY <2>1, <2>2
<1>4. Rec(it)
  <2> HIDE DEF Rec
  <2> QED
    BY <1>3
<1>5. \A s \in SUBSET S :
        it[s] = IF s = {} THEN 0
                ELSE f[CHOOSE x \in s : TRUE] + it[s \ {CHOOSE x \in s : TRUE}]
  <2>1. ASSUME NEW s \in SUBSET S, s # {}
        PROVE  f[CHOOSE x \in s : TRUE] = unspent_outputs_balance_with_color(t, CHOOSE x \in s : TRUE)
    <3>1. (CHOOSE x \in s : TRUE) \in S
      BY <2>1
    <3> QED
      BY <1>1, <3>1
  <2> HIDE DEF f, it
  <2>2. ASSUME NEW s \in SUBSET S
        PROVE  it[s] = IF s = {} THEN 0
                       ELSE unspent_outputs_balance_with_color(t, CHOOSE x \in s : TRUE) + it[s \ {CHOOSE x \in s : TRUE}]
    BY <1>4
  <2> HIDE DEF Rec
  <2>3. ASSUME NEW s \in SUBSET S
        PROVE  it[s] = IF s = {} THEN 0
                       ELSE f[CHOOSE x \in s : TRUE] + it[s \ {CHOOSE x \in s : TRUE}]
    BY <2>1, <2>2
  <2> QED
    BY <2>3
<1> HIDE DEF f
<1>6. it[S] = Total(f, S)
  <2> HIDE DEF it
  <2> QED
    BY <1>1, <1>5, TotalByRecursion
<1>7. MapThenSumSet(LAMBDA c : unspent_outputs_balance_with_color(t, c), S) = it[S]
  BY DEF MapThenSumSet, MapThenFoldSet
<1> QED
  BY <1>6, <1>7 DEF f

\* The sum of the amounts of a set of holdings, in the same way.
LEMMA SumOfAmounts ==
  ASSUME NEW S, IsFiniteSet(S), \A h \in S : h[5] \in Nat
  PROVE  MapThenSumSet(LAMBDA h : h[5], S) = Total([o \in S |-> o[5]], S)
<1> DEFINE f == [o \in S |-> o[5]]
           Rec(g) == g = [s \in SUBSET S |->
                            IF s = {} THEN 0
                            ELSE (CHOOSE x \in s : TRUE)[5] + g[s \ {CHOOSE x \in s : TRUE}]]
           it == CHOOSE g : Rec(g)
<1>1. \A o \in S : f[o] = o[5] /\ f[o] \in Nat
  OBVIOUS
<1>2. PICK m : IsSum(m, f, S)
  BY <1>1, SumExists
<1>3. Rec(m)
  <2>1. ASSUME NEW s \in SUBSET S, s # {}
        PROVE  m[s] = (CHOOSE x \in s : TRUE)[5] + m[s \ {CHOOSE x \in s : TRUE}]
    <3> DEFINE x == CHOOSE y \in s : TRUE
    <3>1. x \in s
      BY <2>1
    <3> HIDE DEF x, f
    <3>2. m[s] = m[s \ {x}] + f[x] /\ m[s \ {x}] \in Nat
      BY <1>2, <3>1 DEF IsSum
    <3>3. f[x] = x[5] /\ f[x] \in Nat
      BY <1>1, <3>1
    <3>4. m[s] = x[5] + m[s \ {x}]
      BY <3>2, <3>3
    <3> QED
      BY <3>4 DEF x
  <2> HIDE DEF f
  <2>2. m = [s \in SUBSET S |-> m[s]] /\ m[{}] = 0
    BY <1>2 DEF IsSum
  <2> QED
    BY <2>1, <2>2
<1>4. Rec(it)
  <2> HIDE DEF Rec
  <2> QED
    BY <1>3
<1>5. \A s \in SUBSET S :
        it[s] = IF s = {} THEN 0
                ELSE f[CHOOSE x \in s : TRUE] + it[s \ {CHOOSE x \in s : TRUE}]
  <2>1. ASSUME NEW s \in SUBSET S, s # {}
        PROVE  f[CHOOSE x \in s : TRUE] = (CHOOSE x \in s : TRUE)[5]
    <3>1. (CHOOSE x \in s : TRUE) \in S
      BY <2>1
    <3> QED
      BY <1>1, <3>1
  <2> HIDE DEF f, it
  <2>2. ASSUME NEW s \in SUBSET S
        PROVE  it[s] = IF s = {} THEN 0
                       ELSE (CHOOSE x \in s : TRUE)[5] + it[s \ {CHOOSE x \in s : TRUE}]
    BY <1>4
  <2> HIDE DEF Rec
  <2>3. ASSUME NEW s \in SUBSET S
        PROVE  it[s] = IF s = {} THEN 0
                       ELSE f[CHOOSE x \in s : TRUE] + it[s \ {CHOOSE x \in s : TRUE}]
    BY <2>1, <2>2
  <2> QED
    BY <2>3
<1> HIDE DEF f
<1>6. it[S] = Total(f, S)
  <2> HIDE DEF it
  <2> QED
    BY <1>1, <1>5, TotalByRecursion
<1>7. MapThenSumSet(LAMBDA h : h[5], S) = it[S]
  BY DEF MapThenSumSet, MapThenFoldSet
<1> QED
  BY <1>6, <1>7 DEF f

\* What a set of holdings counts is what it counts of each color.
LEMMA CountedByColor ==
  ASSUME NEW H, H \subseteq Holding, IsFiniteSet(H),
         NEW g, \A c \in AnyColor : g[c] = Total(Counted({c}), H)
  PROVE  Total(g, AnyColor) = Total(Counted(AnyColor), H)
<1> DEFINE F == Counted(AnyColor)
           I == [c \in AnyColor |-> { h \in H : h[4] = c }]
<1>1. IsFiniteSet(AnyColor)
  BY ReplyAssumption, FS_Singleton, FS_Union DEF AnyColor
<1>2. \A c \in AnyColor : I[c] = { h \in H : h[4] = c }
  OBVIOUS
<1>3. \A h \in Holding : h[3] \in BOOLEAN /\ h[4] \in AnyColor /\ h[5] \in Nat
  BY DEF Holding
<1>4. \A h \in Holding : F[h] \in Nat /\ F[h] = IF h[3] THEN h[5] ELSE 0
  BY <1>3 DEF Counted
<1>5. ASSUME NEW c \in AnyColor
      PROVE  \A h \in Holding : Counted({c})[h] = IF h[3] /\ h[4] = c THEN h[5] ELSE 0
  BY DEF Counted
<1> HIDE DEF I, F
<1>6. \A c \in AnyColor : I[c] \subseteq H /\ IsFiniteSet(I[c])
  BY <1>2, FS_Subset
<1>7. Together(I, AnyColor) = H
  BY <1>2, <1>3 DEF Together
<1>8. ASSUME NEW c \in AnyColor PROVE g[c] = Total(F, I[c])
  <2> DEFINE G == Counted({c})
             J == I[c]
  <2>1. J \in SUBSET H /\ IsFiniteSet(J)
    BY <1>6
  <2>2. (\A h \in H : G[h] \in Nat) /\ (\A h \in H \ J : G[h] = 0)
        /\ (\A h \in J : G[h] = F[h] /\ G[h] \in Nat)
    <3>1. J = { h \in H : h[4] = c }
      BY <1>2
    <3> HIDE DEF G, J
    <3> QED
      BY <1>3, <1>4, <1>5, <3>1 DEF G
  <2> HIDE DEF G, J
  <2>3. Total(G, H) = Total(G, J)
    BY <2>1, <2>2, TotalOnly
  <2>4. Total(G, J) = Total(F, J)
    BY <2>1, <2>2, TotalSame
  <2> QED
    BY <2>3, <2>4 DEF G, J
<1>9. (\A c \in AnyColor : \A h \in I[c] : F[h] \in Nat)
      /\ (\A b, c \in AnyColor : b # c => I[b] \intersect I[c] = {})
  BY <1>2, <1>4
<1> DEFINE K == AnyColor
<1>10. Total(g, K) = Total(F, UNION { I[c] : c \in K })
  <2>1. \A c \in K : IsFiniteSet(I[c])
    BY <1>6
  <2>2. \A c \in K : g[c] = Total(F, I[c])
    BY <1>8
  <2>3. (\A c \in K : \A h \in I[c] : F[h] \in Nat)
      /\ (\A b, c \in K : b # c => I[b] \intersect I[c] = {})
    BY <1>9
  <2>4. IsFiniteSet(K)
    BY <1>1
  <2> HIDE DEF K
  <2> QED
    BY <2>1, <2>2, <2>3, <2>4, TotalFamily
<1> QED
  BY <1>7, <1>10 DEF Together, F

\* The balance of a table is the sum of its balances per color, wherever one
\* of them wraps: the table holds amounts that its entries, outputs and colors
\* divide among them, and a remainder of a sum is that of the sum of remainders.
THEOREM SumsAlwaysAgree == Spec => []SumsAgree
<1>1. ASSUME TableInv PROVE SumsAgree
  <2> SUFFICES ASSUME api = "unspent"
               PROVE  unspent_outputs_balance(got) =
                        MapThenSumSet(LAMBDA c : unspent_outputs_balance_with_color(got, c),
                                      Colors \union {Zero}) % Modulus
    BY DEF SumsAgree, HasTable
  <2> DEFINE R == State \X Amount
             u == Offered(got)
             H == Holdings(u)
             f == [c \in AnyColor |-> unspent_outputs_balance_with_color(got, c)]
             g == [c \in AnyColor |-> Total(Counted({c}), H)]
  <2>1. got \in TableIn(R)
    BY <1>1 DEF TableInv
  <2> HIDE DEF R
  <2>2. u \in TableIn(R)
    BY <2>1, OfferedIs
  <2>3. unspent_outputs_balance(got) = TableSum(u, AnyColor)
        /\ \A c : unspent_outputs_balance_with_color(got, c) = TableSum(u, {c})
    BY <2>1, SumsAre
  <2> HIDE DEF u
  <2>4. H \subseteq Holding /\ IsFiniteSet(H)
    BY <2>2, TableHeld
  <2>5. \A C : TableSum(u, C) = Wrapped(Total(Counted(C), H)) /\ Total(Counted(C), H) \in Nat
    BY <2>2, TableHeld
  <2> HIDE DEF H
  <2>6. ASSUME NEW c \in AnyColor
        PROVE  f[c] \in Nat /\ g[c] \in Nat /\ Alike(f[c], g[c], Modulus)
               /\ f[c] = unspent_outputs_balance_with_color(got, c)
               /\ g[c] = Total(Counted({c}), H)
    <3>1. f[c] = Wrapped(g[c]) /\ g[c] = Total(Counted({c}), H) /\ g[c] \in Nat
          /\ f[c] = unspent_outputs_balance_with_color(got, c)
      BY <2>3, <2>5
    <3> HIDE DEF f, g
    <3> QED
      BY <3>1, TablesAssumption, AlikeMod DEF Wrapped
  <2> HIDE DEF f, g
  <2>7. IsFiniteSet(AnyColor)
    BY ReplyAssumption, FS_Singleton, FS_Union DEF AnyColor
  <2>8. Total(g, AnyColor) = Total(Counted(AnyColor), H)
    BY <2>4, <2>6, CountedByColor
  <2>9. Alike(Total(f, AnyColor), Total(g, AnyColor), Modulus)
    BY <2>6, <2>7, TablesAssumption, AlikeSums
  <2>10. MapThenSumSet(LAMBDA c : unspent_outputs_balance_with_color(got, c), AnyColor)
           = Total(f, AnyColor)
    BY <2>6, <2>7, SumOfColors DEF f
  <2>11. unspent_outputs_balance(got) = Wrapped(Total(Counted(AnyColor), H))
    BY <2>3, <2>5
  <2> QED
    BY <2>8, <2>9, <2>10, <2>11 DEF Alike, Wrapped, AnyColor
<1> QED
  BY <1>1, TableInvariant, PTL

-----------------------------------------------------------------------------
(* What is picked for a payment, where no allocation fails.                *)

\* What only reads a table does not depend on allocations.
LEMMA SureKept ==
  ASSUME NEW s, NEW keep
  PROVE  Sure!Kept(s, keep) = Kept(s, keep)
BY Zenon DEF Sure!Kept, Kept, Sure!FoldLeftDomain, FoldLeftDomain, Sure!FoldLeft, FoldLeft,
         Sure!MapThenFoldSet, MapThenFoldSet, Sure!Max, Max

LEMMA SureSummed ==
  ASSUME NEW v
  PROVE  Sure!Summed(v) = Summed(v)
BY Zenon DEF Sure!Summed, Summed, Sure!FoldLeft, FoldLeft,
         Sure!MapThenFoldSet, MapThenFoldSet, Sure!Max, Max

LEMMA SureOffered ==
  ASSUME NEW t
  PROVE  Sure!Offered(t) = Offered(t)
BY SureKept DEF Sure!Offered, Offered

LEMMA SureSumIn ==
  ASSUME NEW t, NEW c
  PROVE  Sure!balance_ht_sum_with_color(t, c) = balance_ht_sum_with_color(t, c)
BY SureSummed DEF Sure!balance_ht_sum_with_color, balance_ht_sum_with_color

LEMMA SureIdsIn ==
  ASSUME NEW t, NEW c
  PROVE  Sure!output_ids_balance_with_color(t, c) = output_ids_balance_with_color(t, c)
BY SureSumIn, SureSummed DEF Sure!output_ids_balance_with_color, output_ids_balance_with_color

LEMMA SureSum ==
  ASSUME NEW t, NEW c
  PROVE  Sure!unspent_outputs_balance_with_color(t, c) = unspent_outputs_balance_with_color(t, c)
BY SureIdsIn, SureSummed, SureOffered DEF Sure!unspent_outputs_balance_with_color, unspent_outputs_balance_with_color

LEMMA SureCount ==
  ASSUME NEW t, NEW r, NEW c
  PROVE  Sure!RequiredCount(t, r, c) = RequiredCount(t, r, c)
<1> DEFINE enough == { k \in 1 .. Len(Offered(t)) :
                         unspent_outputs_balance_with_color(SubSeq(Offered(t), 1, k), c) >= r }
<1>1. { k \in 1 .. Len(Sure!Offered(t)) :
          Sure!unspent_outputs_balance_with_color(SubSeq(Sure!Offered(t), 1, k), c) >= r } = enough
  BY SureOffered, SureSum
<1>2. \A S : Sure!Min(S) = Min(S)
  BY Zenon DEF Sure!Min, Min
<1> HIDE DEF enough
<1>3. Sure!RequiredCount(t, r, c) = IF enough = {} THEN Len(Offered(t)) ELSE Min(enough)
  BY <1>1, <1>2, SureOffered DEF Sure!RequiredCount
<1>4. RequiredCount(t, r, c) = IF enough = {} THEN Len(Offered(t)) ELSE Min(enough)
  BY DEF RequiredCount, enough
<1> QED
  BY <1>3, <1>4

\* An entry is added; a table is searched as ever.
LEMMA SureAdds ==
  /\ \A t, e : Sure!Added(t, e) = { Append(t, e) }
  /\ \A t, field, key : Sure!HASH_FIND(t, field, key) = HASH_FIND(t, field, key)
BY DEF Sure!Added, Sure!HASH_FIND, HASH_FIND

\* A table is its prefixes, each one with the next entry, which is new to it.
LEMMA TablePrefix ==
  ASSUME NEW S, NEW t \in Seq(S), NEW field, NEW k \in 1 .. Len(t), Unique(t, field)
  PROVE  /\ SubSeq(t, 1, k - 1) \in Seq(S) /\ t[k] \in S
         /\ HASH_FIND(SubSeq(t, 1, k - 1), field, t[k][field]) = {}
         /\ Append(SubSeq(t, 1, k - 1), t[k]) = SubSeq(t, 1, k)
<1> DEFINE u == SubSeq(t, 1, k - 1)
<1>1. /\ u \in Seq(S) /\ DOMAIN u = 1 .. k - 1 /\ t[k] \in S
      /\ \A j \in 1 .. k - 1 : u[j] = t[j] /\ j \in DOMAIN t /\ j # k
  OBVIOUS
<1>2. k \in DOMAIN t
  OBVIOUS
<1>3. Append(u, t[k]) = SubSeq(t, 1, k)
  OBVIOUS
<1> HIDE DEF u
<1>4. HASH_FIND(u, field, t[k][field]) = {}
  BY <1>1, <1>2 DEF HASH_FIND, Unique
<1> QED
  BY <1>1, <1>3, <1>4 DEF u

\* The first and the last prefix.
LEMMA WholePrefix ==
  ASSUME NEW S, NEW t \in Seq(S)
  PROVE  SubSeq(t, 1, 0) = <<>> /\ SubSeq(t, 1, Len(t)) = t
OBVIOUS

\* A clone is what it is made from.
LEMMA SureBalances ==
  ASSUME NEW W, NEW t \in BalancesIn(W)
  PROVE  Sure!balance_ht_clone(t) = {t}
<1> DEFINE n == Len(t)
           S == [color : Colors \union {Zero}, value : W]
           E(v, e) == UNION { Sure!balance_ht_add(u, e.color, e.value) : u \in v }
           V == SUBSET Seq(S)
           F == [x \in (1 .. n) \X V |-> E(x[2], t[x[1]])]
           Is(it) == it = [s \in SUBSET DOMAIN t |->
                             IF s = {} THEN {<<>>}
                             ELSE E(it[s \ {Max(s)}], t[Max(s)])]
           it == CHOOSE it : Is(it)
           G == [k \in 0 .. n |-> { SubSeq(t, 1, k) }]
<1>0. t \in Seq(S) /\ Unique(t, "color")
  BY DEF BalancesIn
<1>1. n \in Nat /\ DOMAIN t = 1 .. n /\ \A k \in 1 .. n : t[k] \in S
  BY <1>0, SeqFacts
<1>2. ASSUME NEW e \in S, NEW u
      PROVE  Sure!balance_ht_add(u, e.color, e.value) =
               IF HASH_FIND(u, "color", e.color) = {} THEN { Append(u, e) } ELSE {u}
  <2>1. e = [color |-> e.color, value |-> e.value]
    BY <1>2
  <2> HIDE DEF S
  <2> QED
    BY <2>1, SureAdds DEF Sure!balance_ht_add
<1>3. \A v \in V, k \in 1 .. n : E(v, t[k]) \in V
  <2> SUFFICES ASSUME NEW v \in V, NEW k \in 1 .. n, NEW u \in v
               PROVE  Sure!balance_ht_add(u, t[k].color, t[k].value) \subseteq Seq(S)
    OBVIOUS
  <2> HIDE DEF S
  <2>1. t[k] \in S /\ u \in Seq(S)
    BY <1>1
  <2>2. Append(u, t[k]) \in Seq(S)
    BY <2>1
  <2> DEFINE e == t[k]
  <2>3. e \in S /\ Append(u, e) \in Seq(S)
    BY <2>1, <2>2
  <2> HIDE DEF e
  <2>4. Sure!balance_ht_add(u, e.color, e.value) \in {{ Append(u, e) }, {u}}
    BY <1>2, <2>3
  <2>5. Sure!balance_ht_add(u, e.color, e.value) \subseteq Seq(S)
    BY <2>1, <2>3, <2>4
  <2> QED
    BY <2>5 DEF e
<1>4. {<<>>} \in V
  OBVIOUS
<1> HIDE DEF n, V, E, S
<1>5. F \in [(1 .. n) \X V -> V]
  BY <1>3
<1> HIDE DEF F
<1>6. PICK f : IsFold(f, n, V, {<<>>}, F)
  BY <1>1, <1>4, <1>5, FoldExists
<1>7. Is(f)
  <2>1. /\ f \in [SUBSET (1 .. n) -> V]
        /\ \A s \in SUBSET (1 .. n) :
             f[s] = IF s = {} THEN {<<>>} ELSE F[<<Max(s), f[s \ {Max(s)}]>>]
    BY <1>6 DEF IsFold
  <2>2. ASSUME NEW s \in SUBSET (1 .. n), s # {}
        PROVE  F[<<Max(s), f[s \ {Max(s)}]>>] = E(f[s \ {Max(s)}], t[Max(s)])
    <3>1. Max(s) \in 1 .. n
      BY <1>1, <2>2, MaxIn
    <3>2. f[s \ {Max(s)}] \in V
      BY <2>1
    <3> QED
      BY <3>1, <3>2 DEF F
  <2> QED
    BY <1>1, <2>1, <2>2
<1>8. Is(it)
  BY <1>7
<1>9. Sure!balance_ht_clone(t) = it[1 .. n]
  BY <1>1 DEF Sure!balance_ht_clone, Sure!Collected, Sure!FoldLeft, Sure!MapThenFoldSet, E,
              Sure!Max, Max
<1>10. it[{}] = {<<>>} /\ \A k \in 1 .. n : it[1 .. k] = E(it[1 .. k - 1], t[k])
  <2>1. it[{}] = {<<>>}
    BY <1>1, <1>8
  <2>2. ASSUME NEW k \in 1 .. n PROVE it[1 .. k] = E(it[1 .. k - 1], t[k])
    <3>1. Max(1 .. k) = k /\ (1 .. k) \ {k} = 1 .. k - 1
          /\ 1 .. k \in SUBSET (1 .. n) /\ 1 .. k # {}
      BY <1>1, MaxOfInterval
    <3> DEFINE s == 1 .. k
    <3>2. it[s] = E(it[s \ {Max(s)}], t[Max(s)])
      <4>1. s \in SUBSET (1 .. n) /\ s # {}
        BY <3>1
      <4> HIDE DEF it, s
      <4>2. it = [r \in SUBSET DOMAIN t |->
                     IF r = {} THEN {<<>>} ELSE E(it[r \ {Max(r)}], t[Max(r)])]
        BY <1>8
      <4> HIDE DEF Is
      <4> QED
        BY <1>1, <4>1, <4>2
    <3> QED
      BY <3>1, <3>2
  <2> HIDE DEF it
  <2> QED
    BY <2>1, <2>2
<1> HIDE DEF it
<1>11. it[{}] = G[0]
  <2>1. G[0] = { SubSeq(t, 1, 0) }
    BY <1>1
  <2>2. SubSeq(t, 1, 0) = <<>>
    BY <1>0, WholePrefix
  <2> QED
    BY <1>10, <2>1, <2>2
<1>12. ASSUME NEW k \in 1 .. n, it[1 .. k - 1] = G[k - 1] PROVE it[1 .. k] = G[k]
  <2> DEFINE u == SubSeq(t, 1, k - 1)
  <2>1. G[k - 1] = {u} /\ G[k] = { SubSeq(t, 1, k) }
    BY <1>1
  <2>2. HASH_FIND(u, "color", t[k].color) = {} /\ Append(u, t[k]) = SubSeq(t, 1, k) /\ t[k] \in S
    <3>1. k \in 1 .. Len(t)
      BY DEF n
    <3>2. HASH_FIND(u, "color", t[k]["color"]) = {}
      BY <1>0, <3>1, TablePrefix
    <3>3. Append(u, t[k]) = SubSeq(t, 1, k) /\ t[k] \in S
      BY <1>0, <3>1, TablePrefix
    <3> QED
      BY <3>2, <3>3
  <2> HIDE DEF u, G
  <2>3. E({u}, t[k]) = Sure!balance_ht_add(u, t[k].color, t[k].value)
    BY DEF E
  <2>4. it[1 .. k] = E({u}, t[k])
    BY <1>10, <1>12, <2>1
  <2> QED
    BY <1>2, <2>1, <2>2, <2>3, <2>4
<1>13. G[n] = {t}
  BY <1>0, <1>1, WholePrefix DEF n
<1> HIDE DEF G
<1>14. it[1 .. n] = G[n]
  BY <1>1, <1>11, <1>12, FoldTo
<1> QED
  BY <1>9, <1>13, <1>14

\* The same for the outputs of an address.
LEMMA SureOutputs ==
  ASSUME NEW R, NEW t \in OutputsIn(R)
  PROVE  Sure!output_ids_clone(t) = {t}
<1> DEFINE n == Len(t)
           S == OutputIn(R)
           E(v, e) == UNION { Sure!output_ids_add(u, e.id, e.balances, e.st) : u \in v }
           V == SUBSET Seq(S)
           F == [x \in (1 .. n) \X V |-> E(x[2], t[x[1]])]
           Is(it) == it = [s \in SUBSET DOMAIN t |->
                             IF s = {} THEN {<<>>}
                             ELSE E(it[s \ {Max(s)}], t[Max(s)])]
           it == CHOOSE it : Is(it)
           G == [k \in 0 .. n |-> { SubSeq(t, 1, k) }]
<1>0. t \in Seq(S) /\ Unique(t, "id")
  BY DEF OutputsIn
<1>1. n \in Nat /\ DOMAIN t = 1 .. n /\ \A k \in 1 .. n : t[k] \in S
  BY <1>0, SeqFacts
<1>2. ASSUME NEW e \in S, NEW u
      PROVE  Sure!output_ids_add(u, e.id, e.balances, e.st) =
               IF HASH_FIND(u, "id", e.id) = {} THEN { Append(u, e) } ELSE {u}
  <2>1. /\ e = [id |-> e.id, balances |-> e.balances, st |-> e.st]
        /\ e.balances \in BalancesIn(AmountsOf(R, e.st))
    BY <1>2, OutputIs
  <2>2. Sure!balance_ht_clone(e.balances) = {e.balances}
    BY <2>1, SureBalances
  <2> HIDE DEF S
  <2>3. \A x : Sure!Added(u, [id |-> e.id, balances |-> x, st |-> e.st]) =
                { Append(u, [id |-> e.id, balances |-> x, st |-> e.st]) }
    BY SureAdds
  <2> QED
    BY <2>1, <2>2, <2>3, SureAdds DEF Sure!output_ids_add
<1>3. \A v \in V, k \in 1 .. n : E(v, t[k]) \in V
  <2> SUFFICES ASSUME NEW v \in V, NEW k \in 1 .. n, NEW u \in v
               PROVE  Sure!output_ids_add(u, t[k].id, t[k].balances, t[k].st) \subseteq Seq(S)
    OBVIOUS
  <2> HIDE DEF S
  <2>1. t[k] \in S /\ u \in Seq(S)
    BY <1>1
  <2>2. Append(u, t[k]) \in Seq(S)
    BY <2>1
  <2> DEFINE e == t[k]
  <2>3. e \in S /\ Append(u, e) \in Seq(S)
    BY <2>1, <2>2
  <2> HIDE DEF e
  <2>4. Sure!output_ids_add(u, e.id, e.balances, e.st) \in {{ Append(u, e) }, {u}}
    BY <1>2, <2>3
  <2>5. Sure!output_ids_add(u, e.id, e.balances, e.st) \subseteq Seq(S)
    BY <2>1, <2>3, <2>4
  <2> QED
    BY <2>5 DEF e
<1>4. {<<>>} \in V
  OBVIOUS
<1> HIDE DEF n, V, E, S
<1>5. F \in [(1 .. n) \X V -> V]
  BY <1>3
<1> HIDE DEF F
<1>6. PICK f : IsFold(f, n, V, {<<>>}, F)
  BY <1>1, <1>4, <1>5, FoldExists
<1>7. Is(f)
  <2>1. /\ f \in [SUBSET (1 .. n) -> V]
        /\ \A s \in SUBSET (1 .. n) :
             f[s] = IF s = {} THEN {<<>>} ELSE F[<<Max(s), f[s \ {Max(s)}]>>]
    BY <1>6 DEF IsFold
  <2>2. ASSUME NEW s \in SUBSET (1 .. n), s # {}
        PROVE  F[<<Max(s), f[s \ {Max(s)}]>>] = E(f[s \ {Max(s)}], t[Max(s)])
    <3>1. Max(s) \in 1 .. n
      BY <1>1, <2>2, MaxIn
    <3>2. f[s \ {Max(s)}] \in V
      BY <2>1
    <3> QED
      BY <3>1, <3>2 DEF F
  <2> QED
    BY <1>1, <2>1, <2>2
<1>8. Is(it)
  BY <1>7
<1>9. Sure!output_ids_clone(t) = it[1 .. n]
  BY <1>1 DEF Sure!output_ids_clone, Sure!Collected, Sure!FoldLeft, Sure!MapThenFoldSet, E,
              Sure!Max, Max
<1>10. it[{}] = {<<>>} /\ \A k \in 1 .. n : it[1 .. k] = E(it[1 .. k - 1], t[k])
  <2>1. it[{}] = {<<>>}
    BY <1>1, <1>8
  <2>2. ASSUME NEW k \in 1 .. n PROVE it[1 .. k] = E(it[1 .. k - 1], t[k])
    <3>1. Max(1 .. k) = k /\ (1 .. k) \ {k} = 1 .. k - 1
          /\ 1 .. k \in SUBSET (1 .. n) /\ 1 .. k # {}
      BY <1>1, MaxOfInterval
    <3> DEFINE s == 1 .. k
    <3>2. it[s] = E(it[s \ {Max(s)}], t[Max(s)])
      <4>1. s \in SUBSET (1 .. n) /\ s # {}
        BY <3>1
      <4> HIDE DEF it, s
      <4>2. it = [r \in SUBSET DOMAIN t |->
                     IF r = {} THEN {<<>>} ELSE E(it[r \ {Max(r)}], t[Max(r)])]
        BY <1>8
      <4> HIDE DEF Is
      <4> QED
        BY <1>1, <4>1, <4>2
    <3> QED
      BY <3>1, <3>2
  <2> HIDE DEF it
  <2> QED
    BY <2>1, <2>2
<1> HIDE DEF it
<1>11. it[{}] = G[0]
  <2>1. G[0] = { SubSeq(t, 1, 0) }
    BY <1>1
  <2>2. SubSeq(t, 1, 0) = <<>>
    BY <1>0, WholePrefix
  <2> QED
    BY <1>10, <2>1, <2>2
<1>12. ASSUME NEW k \in 1 .. n, it[1 .. k - 1] = G[k - 1] PROVE it[1 .. k] = G[k]
  <2> DEFINE u == SubSeq(t, 1, k - 1)
  <2>1. G[k - 1] = {u} /\ G[k] = { SubSeq(t, 1, k) }
    BY <1>1
  <2>2. HASH_FIND(u, "id", t[k].id) = {} /\ Append(u, t[k]) = SubSeq(t, 1, k) /\ t[k] \in S
    <3>1. k \in 1 .. Len(t)
      BY DEF n
    <3>2. HASH_FIND(u, "id", t[k]["id"]) = {}
      BY <1>0, <3>1, TablePrefix
    <3>3. Append(u, t[k]) = SubSeq(t, 1, k) /\ t[k] \in S
      BY <1>0, <3>1, TablePrefix
    <3> QED
      BY <3>2, <3>3
  <2> HIDE DEF u, G
  <2>3. E({u}, t[k]) = Sure!output_ids_add(u, t[k].id, t[k].balances, t[k].st)
    BY DEF E
  <2>4. it[1 .. k] = E({u}, t[k])
    BY <1>10, <1>12, <2>1
  <2> QED
    BY <1>2, <2>1, <2>2, <2>3, <2>4
<1>13. G[n] = {t}
  BY <1>0, <1>1, WholePrefix DEF n
<1> HIDE DEF G
<1>14. it[1 .. n] = G[n]
  BY <1>1, <1>11, <1>12, FoldTo
<1> QED
  BY <1>9, <1>13, <1>14

\* The clone of a table of which nothing is spent.
LEMMA SureTable ==
  ASSUME NEW R, NEW t \in TableIn(R), \A k \in DOMAIN t : ~t[k].spent
  PROVE  Sure!unspent_outputs_clone(t) = {t}
<1> DEFINE n == Len(t)
           S == { e \in EntryIn(R) : ~e.spent }
           E(v, e) == UNION { Sure!unspent_outputs_add(u, e.addr, e.addr_index, e.ids) : u \in v }
           V == SUBSET Seq(S)
           F == [x \in (1 .. n) \X V |-> E(x[2], t[x[1]])]
           Is(it) == it = [s \in SUBSET DOMAIN t |->
                             IF s = {} THEN {<<>>}
                             ELSE E(it[s \ {Max(s)}], t[Max(s)])]
           it == CHOOSE it : Is(it)
           G == [k \in 0 .. n |-> { SubSeq(t, 1, k) }]
<1>0. t \in Seq(S) /\ Unique(t, "addr")
  <2>1. t \in Seq(EntryIn(R)) /\ Unique(t, "addr")
    BY DEF TableIn
  <2>2. \A k \in 1 .. n : t[k] \in S
    BY <2>1
  <2> QED
    BY <2>1, <2>2
<1>1. n \in Nat /\ DOMAIN t = 1 .. n /\ \A k \in 1 .. n : t[k] \in S
  BY <1>0, SeqFacts
<1>2. ASSUME NEW e \in S, NEW u
      PROVE  Sure!unspent_outputs_add(u, e.addr, e.addr_index, e.ids) =
               IF HASH_FIND(u, "addr", e.addr) = {} THEN { Append(u, e) } ELSE {u}
  <2> DEFINE new(x) == [addr |-> e.addr, addr_index |-> e.addr_index, spent |-> FALSE, ids |-> x]
  <2>1. e = new(e.ids) /\ e.ids \in OutputsIn(R)
    BY <1>2, Zenon DEF EntryIn
  <2>2. Sure!output_ids_clone(e.ids) = {e.ids}
    BY <2>1, SureOutputs
  <2> HIDE DEF S
  <2>3. \A x : Sure!Added(u, new(x)) = { Append(u, new(x)) }
    BY SureAdds
  <2>4. Sure!unspent_outputs_add(u, e.addr, e.addr_index, e.ids) =
          IF HASH_FIND(u, "addr", e.addr) # {} THEN {u}
          ELSE UNION { Sure!Added(u, new(x)) : x \in {e.ids} }
    BY <2>2, SureAdds DEF Sure!unspent_outputs_add
  <2> HIDE DEF new
  <2> QED
    BY <2>1, <2>3, <2>4
<1>3. \A v \in V, k \in 1 .. n : E(v, t[k]) \in V
  <2> SUFFICES ASSUME NEW v \in V, NEW k \in 1 .. n, NEW u \in v
               PROVE  Sure!unspent_outputs_add(u, t[k].addr, t[k].addr_index, t[k].ids)
                        \subseteq Seq(S)
    OBVIOUS
  <2> HIDE DEF S
  <2>1. t[k] \in S /\ u \in Seq(S)
    BY <1>1
  <2>2. Append(u, t[k]) \in Seq(S)
    BY <2>1
  <2> DEFINE e == t[k]
  <2>3. e \in S /\ Append(u, e) \in Seq(S)
    BY <2>1, <2>2
  <2> HIDE DEF e
  <2>4. Sure!unspent_outputs_add(u, e.addr, e.addr_index, e.ids) \in {{ Append(u, e) }, {u}}
    BY <1>2, <2>3
  <2>5. Sure!unspent_outputs_add(u, e.addr, e.addr_index, e.ids) \subseteq Seq(S)
    BY <2>1, <2>3, <2>4
  <2> QED
    BY <2>5 DEF e
<1>4. {<<>>} \in V
  OBVIOUS
<1> HIDE DEF n, V, E, S
<1>5. F \in [(1 .. n) \X V -> V]
  BY <1>3
<1> HIDE DEF F
<1>6. PICK f : IsFold(f, n, V, {<<>>}, F)
  BY <1>1, <1>4, <1>5, FoldExists
<1>7. Is(f)
  <2>1. /\ f \in [SUBSET (1 .. n) -> V]
        /\ \A s \in SUBSET (1 .. n) :
             f[s] = IF s = {} THEN {<<>>} ELSE F[<<Max(s), f[s \ {Max(s)}]>>]
    BY <1>6 DEF IsFold
  <2>2. ASSUME NEW s \in SUBSET (1 .. n), s # {}
        PROVE  F[<<Max(s), f[s \ {Max(s)}]>>] = E(f[s \ {Max(s)}], t[Max(s)])
    <3>1. Max(s) \in 1 .. n
      BY <1>1, <2>2, MaxIn
    <3>2. f[s \ {Max(s)}] \in V
      BY <2>1
    <3> QED
      BY <3>1, <3>2 DEF F
  <2> QED
    BY <1>1, <2>1, <2>2
<1>8. Is(it)
  BY <1>7
<1>9. Sure!unspent_outputs_clone(t) = it[1 .. n]
  BY <1>1 DEF Sure!unspent_outputs_clone, Sure!Collected, Sure!FoldLeft, Sure!MapThenFoldSet, E,
              Sure!Max, Max
<1>10. it[{}] = {<<>>} /\ \A k \in 1 .. n : it[1 .. k] = E(it[1 .. k - 1], t[k])
  <2>1. it[{}] = {<<>>}
    BY <1>1, <1>8
  <2>2. ASSUME NEW k \in 1 .. n PROVE it[1 .. k] = E(it[1 .. k - 1], t[k])
    <3>1. Max(1 .. k) = k /\ (1 .. k) \ {k} = 1 .. k - 1
          /\ 1 .. k \in SUBSET (1 .. n) /\ 1 .. k # {}
      BY <1>1, MaxOfInterval
    <3> DEFINE s == 1 .. k
    <3>2. it[s] = E(it[s \ {Max(s)}], t[Max(s)])
      <4>1. s \in SUBSET (1 .. n) /\ s # {}
        BY <3>1
      <4> HIDE DEF it, s
      <4>2. it = [r \in SUBSET DOMAIN t |->
                     IF r = {} THEN {<<>>} ELSE E(it[r \ {Max(r)}], t[Max(r)])]
        BY <1>8
      <4> HIDE DEF Is
      <4> QED
        BY <1>1, <4>1, <4>2
    <3> QED
      BY <3>1, <3>2
  <2> HIDE DEF it
  <2> QED
    BY <2>1, <2>2
<1> HIDE DEF it
<1>11. it[{}] = G[0]
  <2>1. G[0] = { SubSeq(t, 1, 0) }
    BY <1>1
  <2>2. SubSeq(t, 1, 0) = <<>>
    BY <1>0, WholePrefix
  <2> QED
    BY <1>10, <2>1, <2>2
<1>12. ASSUME NEW k \in 1 .. n, it[1 .. k - 1] = G[k - 1] PROVE it[1 .. k] = G[k]
  <2> DEFINE u == SubSeq(t, 1, k - 1)
  <2>1. G[k - 1] = {u} /\ G[k] = { SubSeq(t, 1, k) }
    BY <1>1
  <2>2. HASH_FIND(u, "addr", t[k].addr) = {} /\ Append(u, t[k]) = SubSeq(t, 1, k) /\ t[k] \in S
    <3>1. k \in 1 .. Len(t)
      BY DEF n
    <3>2. HASH_FIND(u, "addr", t[k]["addr"]) = {}
      BY <1>0, <3>1, TablePrefix
    <3>3. Append(u, t[k]) = SubSeq(t, 1, k) /\ t[k] \in S
      BY <1>0, <3>1, TablePrefix
    <3> QED
      BY <3>2, <3>3
  <2> HIDE DEF u, G
  <2>3. E({u}, t[k]) = Sure!unspent_outputs_add(u, t[k].addr, t[k].addr_index, t[k].ids)
    BY DEF E
  <2>4. it[1 .. k] = E({u}, t[k])
    BY <1>10, <1>12, <2>1
  <2> QED
    BY <1>2, <2>1, <2>2, <2>3, <2>4
<1>13. G[n] = {t}
  BY <1>0, <1>1, WholePrefix DEF n
<1> HIDE DEF G
<1>14. it[1 .. n] = G[n]
  BY <1>1, <1>11, <1>12, FoldTo
<1> QED
  BY <1>9, <1>13, <1>14

\* A part of what counts, from the first entry on: it counts as a whole.
LEMMA PartOffered ==
  ASSUME NEW R, NEW t \in TableIn(R), NEW k \in 0 .. Len(Offered(t))
  PROVE  LET p == SubSeq(Offered(t), 1, k)
         IN  /\ p \in TableIn(R) /\ Len(p) = k
             /\ \A j \in DOMAIN p : p[j] \in ToSet(t) /\ ~p[j].spent
             /\ Offered(p) = p
<1> DEFINE u == Offered(t)
           p == SubSeq(u, 1, k)
<1>1. u \in Seq(EntryIn(R)) /\ Unique(u, "addr")
      /\ \A j \in DOMAIN u : u[j] \in ToSet(t) /\ ~u[j].spent /\ u[j].ids # <<>>
  <2>1. u \in TableIn(R)
    BY OfferedIs
  <2>2. \A j \in DOMAIN u : u[j] \in ToSet(t) /\ ~u[j].spent /\ u[j].ids # <<>>
    BY OfferedIs
  <2> HIDE DEF u
  <2> QED
    BY <2>1, <2>2 DEF TableIn
<1> HIDE DEF u
<1>2. k \in 0 .. Len(u)
  BY DEF u
<1>3. /\ p \in Seq(EntryIn(R)) /\ Len(p) = k /\ DOMAIN p = 1 .. k
      /\ \A j \in 1 .. k : p[j] = u[j] /\ j \in DOMAIN u
  BY <1>1, <1>2
<1> HIDE DEF p
<1>4. Unique(p, "addr")
  BY <1>1, <1>3 DEF Unique
<1>5. \A j \in DOMAIN p : p[j] \in ToSet(t) /\ ~p[j].spent /\ p[j].ids # <<>>
  BY <1>1, <1>3
<1>6. Offered(p) = p
  <2> DEFINE keep == { j \in DOMAIN p : ~p[j].spent /\ p[j].ids # <<>> }
  <2>1. DOMAIN p \subseteq keep
    BY <1>5
  <2> HIDE DEF keep
  <2>2. Kept(p, keep) = p
    BY <1>3, <2>1, KeptAll
  <2> QED
    BY <2>2 DEF Offered, keep
<1>7. p \in TableIn(R)
  BY <1>3, <1>4 DEF TableIn
<1> QED
  BY <1>3, <1>5, <1>6, <1>7 DEF p, u

\* The sum of a color over such a part is what RequiredCount looks at.
LEMMA PartSum ==
  ASSUME NEW R, NEW t \in TableIn(R), NEW c
  PROVE  unspent_outputs_balance_with_color(t, c) \in Nat
<1> DEFINE u == Offered(t)
<1>1. u \in TableIn(R)
  BY OfferedIs
<1>2. unspent_outputs_balance_with_color(t, c) = TableSum(u, {c})
  BY SumsAre
<1> HIDE DEF u
<1>3. TableSum(u, {c}) = Wrapped(Total(Counted({c}), Holdings(u)))
      /\ Total(Counted({c}), Holdings(u)) \in Nat
  BY <1>1, TableHeld
<1> DEFINE a == Total(Counted({c}), Holdings(u))
<1> HIDE DEF a
<1>4. Wrapped(a) \in Nat
  BY <1>3, TablesAssumption, AlikeMod DEF a, Wrapped
<1> QED
  BY <1>2, <1>3, <1>4 DEF a

\* RequiredCount is the least number of entries that are enough, or all.
LEMMA CountIs ==
  ASSUME NEW R, NEW t \in TableIn(R), NEW required \in Nat, NEW c
  PROVE  LET n == Len(Offered(t))
             Sum(k) == unspent_outputs_balance_with_color(SubSeq(Offered(t), 1, k), c)
             count == RequiredCount(t, required, c)
         IN  /\ n \in Nat /\ count \in 0 .. n
             /\ Sum(count) >= required \/ count = n
             /\ \A k \in 1 .. count - 1 : Sum(k) < required
<1> DEFINE u == Offered(t)
           n == Len(u)
           Sum(k) == unspent_outputs_balance_with_color(SubSeq(u, 1, k), c)
           enough == { k \in 1 .. n : Sum(k) >= required }
           count == RequiredCount(t, required, c)
<1>1. n \in Nat
  <2>1. u \in Seq(EntryIn(R))
    BY OfferedIs DEF TableIn
  <2> HIDE DEF u
  <2> QED
    BY <2>1, SeqFacts
<1>2. count = IF enough = {} THEN n ELSE Min(enough)
  BY DEF RequiredCount
<1>3. \A k \in 1 .. n : Sum(k) \in Nat
  <2> SUFFICES ASSUME NEW k \in 1 .. n PROVE Sum(k) \in Nat
    OBVIOUS
  <2>1. k \in 0 .. Len(Offered(t))
    BY <1>1
  <2> DEFINE p == SubSeq(Offered(t), 1, k)
  <2>2. p \in TableIn(R)
    BY <2>1, PartOffered
  <2> HIDE DEF p
  <2>3. unspent_outputs_balance_with_color(p, c) \in Nat
    BY <2>2, PartSum
  <2> QED
    BY <2>3 DEF p
<1> HIDE DEF n, Sum, count
<1>4. CASE enough = {}
  <2>1. count = n /\ \A k \in 1 .. n : ~(Sum(k) >= required)
    BY <1>2, <1>4
  <2>2. \A k \in 1 .. count - 1 : Sum(k) < required
    BY <1>1, <1>3, <2>1
  <2> QED
    BY <1>1, <2>1, <2>2 DEF n, Sum, count
<1>5. CASE enough # {}
  <2>1. enough \in SUBSET Nat
    BY <1>1
  <2> HIDE DEF enough
  <2>2. \E k \in enough : \A m \in enough : k <= m
    BY <1>5, <2>1, LeastNat
  <2>3. count \in enough /\ \A m \in enough : count <= m
    BY <1>2, <1>5, <2>2 DEF Min
  <2>4. count \in 1 .. n /\ Sum(count) >= required
    BY <2>3 DEF enough
  <2>5. ASSUME NEW k \in 1 .. count - 1 PROVE Sum(k) < required
    <3>1. k \in 1 .. n /\ k \notin enough
      BY <1>1, <2>1, <2>3, <2>4
    <3>2. ~(Sum(k) >= required) /\ Sum(k) \in Nat
      BY <1>3, <3>1 DEF enough
    <3> QED
      BY <3>2
  <2> QED
    BY <1>1, <2>4, <2>5 DEF n, Sum, count
<1> QED
  BY <1>4, <1>5

\* What is picked for a payment covers it if the table does; without its last
\* entry it would not, so no entry is picked in vain; and nothing is picked
\* that the table does not hold.
THEOREM PickedIsEnough == Spec => []RequiredSound
<1>1. ASSUME TableInv PROVE RequiredSound
  <2> SUFFICES ASSUME api = "unspent", NEW required \in Required, NEW c \in AnyColor,
                      NEW picked \in Sure!unspent_outputs_required_outputs(got, required, c)
               PROVE  /\ \/ unspent_outputs_balance_with_color(picked, c) >= required
                         \/ unspent_outputs_balance_with_color(picked, c)
                              = unspent_outputs_balance_with_color(got, c)
                      /\ Len(picked) > 1 =>
                           unspent_outputs_balance_with_color(
                             SubSeq(picked, 1, Len(picked) - 1), c) < required
                      /\ Holdings(picked) \subseteq Holdings(got)
    BY DEF RequiredSound, HasTable, AnyColor
  <2> DEFINE R == State \X Amount
             u == Offered(got)
             n == Len(u)
             count == RequiredCount(got, required, c)
             Part(k) == SubSeq(u, 1, k)
             Sum(p) == unspent_outputs_balance_with_color(p, c)
  <2>1. got \in TableIn(R) /\ required \in Nat
    BY <1>1, ApiAssumption DEF TableInv
  <2> HIDE DEF R
  <2>2. /\ n \in Nat /\ count \in 0 .. n
        /\ Sum(Part(count)) >= required \/ count = n
        /\ \A k \in 1 .. count - 1 : Sum(Part(k)) < required
    BY <2>1, CountIs
  <2>3. /\ Part(count) \in TableIn(R) /\ Len(Part(count)) = count
        /\ \A j \in DOMAIN Part(count) : Part(count)[j] \in ToSet(got) /\ ~Part(count)[j].spent
    BY <2>1, <2>2, PartOffered
  <2>4. u \in Seq(EntryIn(R))
    BY <2>1, OfferedIs DEF TableIn
  <2>5. Sure!unspent_outputs_clone(Part(count)) = { Part(count) }
    <3> DEFINE p == Part(count)
    <3>1. p \in TableIn(R) /\ \A j \in DOMAIN p : ~p[j].spent
      BY <2>3
    <3> HIDE DEF p
    <3>2. Sure!unspent_outputs_clone(p) = {p}
      BY <3>1, SureTable
    <3> QED
      BY <3>2 DEF p
  <2>6. picked = Part(count)
    <3>1. Sure!unspent_outputs_required_outputs(got, required, c)
            = Sure!unspent_outputs_clone(Part(count))
      BY SureOffered, SureCount DEF Sure!unspent_outputs_required_outputs
    <3> QED
      BY <2>5, <3>1
  <2>7. Sum(picked) >= required \/ Sum(picked) = Sum(got)
    <3>1. CASE Sum(Part(count)) >= required
      BY <2>6, <3>1
    <3>2. CASE count = n
      <4>1. Part(n) = u
        <5> HIDE DEF u
        <5> QED
          BY <2>4, WholePrefix
      <4>2. picked = u
        BY <2>6, <3>2, <4>1
      <4>3. Offered(picked) = picked
        BY <2>1, <2>2, <2>6, PartOffered
      <4>4. picked \in TableIn(R)
        BY <2>3, <2>6
      <4>5. Sum(picked) = TableSum(Offered(picked), {c})
        BY <4>4, SumsAre
      <4>6. Sum(got) = TableSum(u, {c})
        BY <2>1, SumsAre
      <4> QED
        BY <4>2, <4>3, <4>5, <4>6
    <3> QED
      BY <2>2, <3>1, <3>2
  <2>8. ASSUME Len(picked) > 1 PROVE Sum(SubSeq(picked, 1, Len(picked) - 1)) < required
    <3>1. count > 1 /\ Len(picked) = count
      BY <2>3, <2>6, <2>8
    <3>2. SubSeq(picked, 1, count - 1) = Part(count - 1)
      <4> HIDE DEF u, count
      <4> QED
        BY <2>2, <2>4, <2>6, <3>1
    <3>3. count - 1 \in 1 .. count - 1
      BY <2>2, <3>1
    <3> QED
      BY <2>2, <3>1, <3>2, <3>3
  <2>9. Holdings(picked) \subseteq Holdings(got)
    <3>1. ToSet(picked) \subseteq ToSet(got)
      BY <2>3, <2>6 DEF ToSet
    <3> QED
      BY <3>1 DEF Holdings
  <2> QED
    BY <2>7, <2>8, <2>9
<1> QED
  BY <1>1, TableInvariant, PTL

-----------------------------------------------------------------------------
(* The table of a well-formed reply.                                       *)

\* The table entries that an element of the reply makes.
BalanceOf(b)   == [color |-> ColorOf(b.color), value |-> b.value]
BalancesOf(js) == [k \in 1 .. Len(js) |-> BalanceOf(js[k])]

\* A list of balances in which nothing is missing or doubled.
ListOK(js) ==
  /\ \A k \in DOMAIN js : js[k].color # Missing /\ js[k].value \in 0 .. Power[Mantissa]
  /\ \A i, j \in DOMAIN js : ColorOf(js[i].color) = ColorOf(js[j].color) => i = j

\* An amount a double holds is taken as it is.
LEMMA ExactAmount ==
  ASSUME NEW v \in 0 .. Power[Mantissa]
  PROVE  v \in Nat /\ GotInt64(v, 0) = v
<1>1. Mantissa \in Nat /\ Power[Mantissa] \in Nat
  BY ReplyAssumption, PowerAbove
<1>2. v \in Nat /\ v <= Power[Mantissa]
  BY <1>1
<1> QED
  BY <1>2, RoundedIs DEF GotInt64

\* A field is read as ever.
LEMMA SureValues ==
  /\ \A v : Sure!GotInt64(v, 0) = GotInt64(v, 0)
  /\ \A str : Sure!ColorOf(str) = ColorOf(str)
  /\ \A x, y : Sure!Got(x, y) = Got(x, y)
<1>1. Sure!Power = Power
  BY Zenon DEF Sure!Power, Power
<1>2. \A S : Sure!Min(S) = Min(S)
  BY Zenon DEF Sure!Min, Min
<1>3. \A n : Sure!Rounded(n) = Rounded(n)
  BY <1>1, <1>2, Zenon DEF Sure!Rounded, Rounded
<1> QED
  BY <1>3 DEF Sure!GotInt64, GotInt64, Sure!ColorOf, ColorOf, Sure!Got, Got

\* The table of such a list.
LEMMA BalancesListed ==
  ASSUME NEW js \in Seq(BalanceDoc), ListOK(js), NEW W, \A k \in DOMAIN js : js[k].value \in W
  PROVE  BalancesOf(js) \in BalancesIn(W)
<1> DEFINE S == [color : Colors \union {Zero}, value : W]
           t == BalancesOf(js)
<1>1. Len(js) \in Nat /\ DOMAIN js = 1 .. Len(js)
  OBVIOUS
<1>2. \A k \in 1 .. Len(js) : t[k] = BalanceOf(js[k]) /\ BalanceOf(js[k]) \in S
                               /\ t[k]["color"] = ColorOf(js[k].color)
  BY <1>1, ColorIs DEF BalancesOf, BalanceOf
<1>3. t = [k \in 1 .. Len(js) |-> t[k]] /\ DOMAIN t = 1 .. Len(js)
  BY DEF BalancesOf
<1> HIDE DEF S, t
<1>4. t \in Seq(S)
  BY <1>1, <1>2, <1>3
<1>5. Unique(t, "color")
  BY <1>1, <1>2, <1>3 DEF Unique, ListOK
<1> QED
  BY <1>4, <1>5 DEF t, S, BalancesIn

\* The list of balances is taken as it stands.
LEMMA SureDeserBalances ==
  ASSUME NEW js \in Seq(BalanceDoc), js # Missing, ListOK(js), NEW cs \in ColorText
  PROVE  \E x \in ColorText :
           Sure!DeserBalances(js, cs) = { [balances |-> BalancesOf(js), color_str |-> x] }
<1> DEFINE n == Len(js)
           first == { [balances |-> <<>>, color_str |-> cs] }
           E(v, e) == UNION { Sure!DeserBalance(s, e) : s \in v }
           t == BalancesOf(js)
           S == [color : Colors \union {Zero}, value : Nat]
           X == [balances : Seq(S), color_str : ColorText]
           V == SUBSET X
           F == [x \in (1 .. n) \X V |-> E(x[2], js[x[1]])]
           Is(it) == it = [s \in SUBSET DOMAIN js |->
                             IF s = {} THEN first
                             ELSE E(it[s \ {Max(s)}], js[Max(s)])]
           it == CHOOSE it : Is(it)
<1>1. /\ n \in Nat /\ DOMAIN js = 1 .. n
      /\ \A k \in 1 .. n : /\ js[k].color \in ColorText /\ js[k].color # Missing
                            /\ js[k].value \in 0 .. Power[Mantissa]
                            /\ t[k] = BalanceOf(js[k]) /\ t[k] \in S
      /\ t \in BalancesIn(Nat)
  <2>1. n \in Nat /\ DOMAIN js = 1 .. n /\ \A k \in 1 .. n : js[k] \in BalanceDoc
    BY SeqFacts
  <2>2. ASSUME NEW k \in 1 .. n
        PROVE  js[k].color \in ColorText /\ js[k].color # Missing
               /\ js[k].value \in 0 .. Power[Mantissa] /\ js[k].value \in Nat
    <3>1. js[k].color # Missing /\ js[k].value \in 0 .. Power[Mantissa]
      BY <2>1 DEF ListOK
    <3>2. js[k].color \in STRING \union {Missing}
      BY <2>1 DEF BalanceDoc
    <3> QED
      BY <3>1, <3>2, ExactAmount DEF ColorText
  <2>3. \A k \in 1 .. n : t[k] = BalanceOf(js[k])
    BY DEF BalancesOf
  <2>4. t \in BalancesIn(Nat)
    BY <2>1, <2>2, BalancesListed
  <2>5. \A k \in 1 .. n : BalanceOf(js[k]) \in S
    BY <2>2, ColorIs DEF BalanceOf
  <2> HIDE DEF t, n, S
  <2> QED
    BY <2>1, <2>2, <2>3, <2>4, <2>5
<1>2. ASSUME NEW k \in 1 .. n, NEW s
      PROVE  Sure!DeserBalance(s, js[k]) =
               { [balances |-> IF HASH_FIND(s.balances, "color", t[k].color) = {}
                               THEN Append(s.balances, t[k]) ELSE s.balances,
                  color_str |-> js[k].color] }
  <2> DEFINE elm == js[k]
  <2>1. /\ elm.color # Missing /\ elm.value \in 0 .. Power[Mantissa]
        /\ t[k] = [color |-> ColorOf(elm.color), value |-> elm.value]
    BY <1>1 DEF BalanceOf
  <2> HIDE DEF elm, t, S, X, first, n
  <2>2. Sure!Got(elm.color, s.color_str) = elm.color
    BY <2>1, SureValues DEF Got
  <2>3. Sure!GotInt64(elm.value, 0) = elm.value /\ Sure!ColorOf(elm.color) = ColorOf(elm.color)
    BY <2>1, SureValues, ExactAmount
  <2>4. Sure!balance_ht_add(s.balances, ColorOf(elm.color), elm.value) =
          { IF HASH_FIND(s.balances, "color", t[k].color) = {}
            THEN Append(s.balances, t[k]) ELSE s.balances }
    BY <2>1, SureAdds DEF Sure!balance_ht_add
  <2>5. Sure!DeserBalance(s, elm) =
          { [balances |-> b, color_str |-> elm.color] :
              b \in Sure!balance_ht_add(s.balances, ColorOf(elm.color), elm.value) }
    BY <2>2, <2>3 DEF Sure!DeserBalance
  <2>6. Sure!DeserBalance(s, elm) =
               { [balances |-> IF HASH_FIND(s.balances, "color", t[k].color) = {}
                               THEN Append(s.balances, t[k]) ELSE s.balances,
                  color_str |-> elm.color] }
    BY <2>4, <2>5
  <2> QED
    BY <2>6 DEF elm
<1>3. \A v \in V, k \in 1 .. n : E(v, js[k]) \in V
  <2> SUFFICES ASSUME NEW v \in V, NEW k \in 1 .. n, NEW s \in v
               PROVE  Sure!DeserBalance(s, js[k]) \subseteq X
    OBVIOUS
  <2>1. s \in X
    OBVIOUS
  <2>2. s.balances \in Seq(S)
    BY <2>1
  <2>3. PICK b \in { Append(s.balances, t[k]), s.balances } :
          Sure!DeserBalance(s, js[k]) = { [balances |-> b, color_str |-> js[k].color] }
    BY <1>2
  <2>4. b \in Seq(S)
    <3>1. t[k] \in S
      BY <1>1
    <3> HIDE DEF S, t, X, n, V
    <3> DEFINE u == s.balances
               e == t[k]
    <3>2. b \in { Append(u, e), u } /\ u \in Seq(S) /\ e \in S
      BY <2>2, <2>3, <3>1
    <3> HIDE DEF u, e
    <3> QED
      BY <3>2
  <2>5. js[k].color \in ColorText
    BY <1>1
  <2> HIDE DEF S
  <2> QED
    BY <2>3, <2>4, <2>5
<1>4. first \in V
  OBVIOUS
<1> HIDE DEF n, V, E
<1>5. F \in [(1 .. n) \X V -> V]
  BY <1>3
<1> HIDE DEF F, first
<1>6. PICK f : IsFold(f, n, V, first, F)
  BY <1>1, <1>4, <1>5, FoldExists
<1>7. Is(f)
  <2>1. /\ f \in [SUBSET (1 .. n) -> V]
        /\ \A s \in SUBSET (1 .. n) :
             f[s] = IF s = {} THEN first ELSE F[<<Max(s), f[s \ {Max(s)}]>>]
    BY <1>6 DEF IsFold
  <2>2. ASSUME NEW s \in SUBSET (1 .. n), s # {}
        PROVE  F[<<Max(s), f[s \ {Max(s)}]>>] = E(f[s \ {Max(s)}], js[Max(s)])
    <3>1. Max(s) \in 1 .. n
      BY <1>1, <2>2, MaxIn
    <3>2. f[s \ {Max(s)}] \in V
      BY <2>1
    <3> QED
      BY <3>1, <3>2 DEF F
  <2> QED
    BY <1>1, <2>1, <2>2
<1>8. Is(it)
  BY <1>7
<1>9. Sure!DeserBalances(js, cs) = it[1 .. n]
  BY <1>1 DEF Sure!DeserBalances, Sure!FoldLeft, Sure!MapThenFoldSet, E, first, Sure!Max, Max
<1>10. it[{}] = first /\ \A k \in 1 .. n : it[1 .. k] = E(it[1 .. k - 1], js[k])
  <2>1. it[{}] = first
    BY <1>1, <1>8
  <2>2. ASSUME NEW k \in 1 .. n PROVE it[1 .. k] = E(it[1 .. k - 1], js[k])
    <3>1. Max(1 .. k) = k /\ (1 .. k) \ {k} = 1 .. k - 1
          /\ 1 .. k \in SUBSET (1 .. n) /\ 1 .. k # {}
      BY <1>1, MaxOfInterval
    <3> DEFINE s == 1 .. k
    <3>2. it[s] = E(it[s \ {Max(s)}], js[Max(s)])
      <4>1. s \in SUBSET (1 .. n) /\ s # {}
        BY <3>1
      <4> HIDE DEF it, s
      <4> QED
        BY <1>1, <1>8, <4>1
    <3> QED
      BY <3>1, <3>2
  <2> HIDE DEF it
  <2> QED
    BY <2>1, <2>2
<1> HIDE DEF it
<1> DEFINE Good == { k \in 0 .. n : \E x \in ColorText :
                       it[1 .. k] = { [balances |-> SubSeq(t, 1, k), color_str |-> x] } }
<1>11. t \in Seq(S) /\ Unique(t, "color") /\ Len(t) = n
  BY <1>1 DEF BalancesIn, BalancesOf, n
<1> HIDE DEF t, X
<1>12. 0 \in Good
  <2>1. SubSeq(t, 1, 0) = <<>> /\ 1 .. 0 = {} /\ 0 \in 0 .. n
    BY <1>1, <1>11, WholePrefix
  <2> QED
    BY <1>10, <2>1 DEF first
<1>13. ASSUME NEW k \in 0 .. n - 1, k \in Good PROVE k + 1 \in Good
  <2> DEFINE m == k + 1
             u == SubSeq(t, 1, k)
  <2>1. m \in 1 .. n /\ m - 1 = k /\ m \in 0 .. n
    BY <1>1
  <2>2. PICK x \in ColorText : it[1 .. k] = { [balances |-> u, color_str |-> x] }
    BY <1>13
  <2>3. HASH_FIND(u, "color", t[m]["color"]) = {} /\ Append(u, t[m]) = SubSeq(t, 1, m)
    <3> HIDE DEF S, m
    <3>1. m \in 1 .. Len(t) /\ u = SubSeq(t, 1, m - 1)
      BY <1>11, <2>1
    <3> QED
      BY <1>11, <3>1, TablePrefix
  <2> HIDE DEF u, m
  <2> DEFINE s == [balances |-> u, color_str |-> x]
  <2>4. it[1 .. m] = E({s}, js[m])
    BY <1>10, <2>1, <2>2
  <2>5. E({s}, js[m]) = Sure!DeserBalance(s, js[m])
    BY DEF E
  <2>6. Sure!DeserBalance(s, js[m]) =
          { [balances |-> SubSeq(t, 1, m), color_str |-> js[m].color] }
    BY <1>2, <2>1, <2>3
  <2>7. it[1 .. m] = { [balances |-> SubSeq(t, 1, m), color_str |-> js[m].color] }
    BY <2>4, <2>5, <2>6
  <2>8. js[m].color \in ColorText
    BY <1>1, <2>1
  <2> QED
    BY <2>1, <2>7, <2>8 DEF m
<1>14. n \in Good
  <2> HIDE DEF Good
  <2>1. \A k \in 0 .. n - 1 : k \in Good => k + 1 \in Good
    BY <1>13
  <2>2. n \in 0 .. n
    BY <1>1
  <2>3. \A k \in 0 .. n : k \in Good
    BY <1>1, <1>12, <2>1, InductionTo
  <2> QED
    BY <2>2, <2>3
<1>15. SubSeq(t, 1, n) = t
  BY <1>11, WholePrefix
<1> QED
  BY <1>9, <1>14, <1>15 DEF t

\* The states and amounts an output may have.
EveryPair == State \X Amount

\* An output, and the outputs of an address.
OutputOf(o) == [id |-> o.id, balances |-> BalancesOf(o.balances), st |-> inclusion_state(o.st)]
IdsOf(js)   == [k \in 1 .. Len(js) |-> OutputOf(js[k])]

\* The outputs of an address, in a reply in which nothing is missing or doubled.
OutputsWell(js) ==
  /\ \A k \in DOMAIN js : WellFormedOutput(js[k])
  /\ \A i, j \in DOMAIN js : js[i].id = js[j].id => i = j

\* An output in which nothing is missing or doubled, in the table.
LEMMA OutputListed ==
  ASSUME NEW o \in OutputDoc, WellFormedOutput(o)
  PROVE  /\ o.id \in Ids /\ o.balances \in Seq(BalanceDoc)
         /\ o.balances # Missing /\ o.balances # NotArray
         /\ ListOK(o.balances) /\ inclusion_state(o.st) \in State
         /\ BalancesOf(o.balances) \in BalancesIn(AmountsOf(EveryPair, inclusion_state(o.st)))
         /\ OutputOf(o) \in OutputIn(EveryPair)
<1>1. /\ o.balances \in Seq(BalanceDoc) \union {Missing, NotArray}
      /\ o.st \in StateDoc \union {Missing}
  BY DEF OutputDoc
<1>2. /\ o.id \in Ids /\ o.balances # Missing /\ o.balances # NotArray
      /\ o.balances \in Seq(BalanceDoc)
  BY <1>1 DEF WellFormedOutput
<1>3. ListOK(o.balances)
  BY DEF ListOK, WellFormedOutput, Distinct
<1>4. inclusion_state(o.st) \in State
  BY <1>1, StateIs
<1>5. \A k \in DOMAIN o.balances :
        o.balances[k].value \in AmountsOf(EveryPair, inclusion_state(o.st))
  <2> SUFFICES ASSUME NEW k \in DOMAIN o.balances
               PROVE  o.balances[k].value \in AmountsOf(EveryPair, inclusion_state(o.st))
    OBVIOUS
  <2> DEFINE v == o.balances[k].value
  <2>1. v \in 0 .. Power[Mantissa]
    BY <1>3 DEF ListOK
  <2> HIDE DEF v
  <2>2. v \in Nat /\ GotInt64(v, 0) = v
    BY <2>1, ExactAmount
  <2>3. v \in Amount
    BY <2>2 DEF Amount
  <2>4. v \in AmountsOf(EveryPair, inclusion_state(o.st))
    BY <1>4, <2>3 DEF AmountsOf, EveryPair
  <2> QED
    BY <2>4 DEF v
<1>6. BalancesOf(o.balances) \in BalancesIn(AmountsOf(EveryPair, inclusion_state(o.st)))
  BY <1>2, <1>3, <1>5, BalancesListed
<1>7. OutputOf(o) \in OutputIn(EveryPair)
  <2> DEFINE u == OutputOf(o)
  <2>1. /\ u = [id |-> u.id, balances |-> u.balances, st |-> u.st]
        /\ u.id \in Ids \union {Zero} /\ u.st \in State
        /\ u.balances \in BalancesIn(AmountsOf(EveryPair, u.st))
    BY <1>2, <1>4, <1>6 DEF OutputOf
  <2> HIDE DEF u
  <2>2. u \in OutputIn(EveryPair)
    BY <2>1, OutputIs
  <2> QED
    BY <2>2 DEF u
<1> QED
  BY <1>2, <1>3, <1>4, <1>6, <1>7

\* The outputs of an address, in the table.
LEMMA OutputsListed ==
  ASSUME NEW js \in Seq(OutputDoc), OutputsWell(js)
  PROVE  IdsOf(js) \in OutputsIn(EveryPair)
<1> DEFINE t == IdsOf(js)
           n == Len(js)
<1>1. n \in Nat /\ DOMAIN js = 1 .. n /\ \A k \in 1 .. n : js[k] \in OutputDoc
  BY SeqFacts
<1>2. \A k \in 1 .. n : t[k] = OutputOf(js[k]) /\ t[k]["id"] = js[k].id
  BY DEF IdsOf, OutputOf
<1>3. \A k \in 1 .. n : t[k] \in OutputIn(EveryPair)
  BY <1>1, <1>2, OutputListed DEF OutputsWell
<1>4. t = [k \in 1 .. n |-> t[k]] /\ DOMAIN t = 1 .. n
  BY DEF IdsOf
<1> HIDE DEF t, n
<1>5. t \in Seq(OutputIn(EveryPair))
  BY <1>1, <1>3, <1>4
<1>6. Unique(t, "id")
  BY <1>1, <1>2, <1>4 DEF Unique, OutputsWell
<1> QED
  BY <1>5, <1>6 DEF t, OutputsIn

\* A state of the loop over the outputs of an address.
OutputsState ==
  [ret : {0}, ids : Seq(OutputIn(EveryPair)), id : Ids \union {Zero},
   color_str : ColorText, st : State]

\* The loop over the outputs takes such an output as it stands.
LEMMA SureDeserOutput ==
  ASSUME NEW elm \in OutputDoc, WellFormedOutput(elm), NEW s \in OutputsState
  PROVE  \E x \in ColorText :
           Sure!DeserOutput(s, elm) =
             { [ret |-> 0,
                ids |-> IF HASH_FIND(s.ids, "id", elm.id) = {}
                        THEN Append(s.ids, OutputOf(elm)) ELSE s.ids,
                id |-> elm.id, color_str |-> x, st |-> inclusion_state(elm.st)] }
<1> DEFINE st == inclusion_state(elm.st)
           js == elm.balances
           R == EveryPair
<1>1. /\ elm.id \in Ids /\ js \in Seq(BalanceDoc) /\ js # Missing /\ js # NotArray
      /\ ListOK(js) /\ st \in State
      /\ BalancesOf(js) \in BalancesIn(AmountsOf(R, st))
      /\ OutputOf(elm) = [id |-> elm.id, balances |-> BalancesOf(js), st |-> st]
  BY OutputListed DEF OutputOf
<1>2. s.ret = 0 /\ s.color_str \in ColorText
      /\ s = [ret |-> 0, ids |-> s.ids, id |-> s.id, color_str |-> s.color_str, st |-> s.st]
  BY DEF OutputsState
<1>3. Sure!inclusion_state(elm.st) = st
  BY Zenon DEF Sure!inclusion_state, inclusion_state, Sure!Flags, Flags, Sure!Got, Got,
           Sure!KeyOf, KeyOf
<1> HIDE DEF st, js, R
<1>4. PICK x \in ColorText :
        Sure!DeserBalances(js, s.color_str) = { [balances |-> BalancesOf(js), color_str |-> x] }
  BY <1>1, <1>2, SureDeserBalances
<1> DEFINE u == IF HASH_FIND(s.ids, "id", elm.id) = {}
                THEN Append(s.ids, OutputOf(elm)) ELSE s.ids
<1>5. Sure!output_ids_add(s.ids, elm.id, BalancesOf(js), st) = {u}
  <2>1. Sure!balance_ht_clone(BalancesOf(js)) = {BalancesOf(js)}
    BY <1>1, SureBalances
  <2>2. Sure!Added(s.ids, [id |-> elm.id, balances |-> BalancesOf(js), st |-> st]) =
          { Append(s.ids, OutputOf(elm)) }
    BY <1>1, SureAdds
  <2> QED
    BY <2>1, <2>2, SureAdds DEF Sure!output_ids_add
<1> HIDE DEF u
<1> DEFINE With(i, a, b, t) == [s EXCEPT !.id = i, !.st = a, !.color_str = b.color_str, !.ids = t]
           Out(i, a) ==
             UNION { { With(i, a, b, t) : t \in Sure!output_ids_add(s.ids, i, b.balances, a) } :
                     b \in Sure!DeserBalances(js, s.color_str) }
<1>6. Sure!DeserOutput(s, elm) = Out(elm.id, st)
  <2>1. Sure!DeserOutput(s, elm) =
          IF s.ret # 0 THEN {s}
          ELSE IF elm.balances = NotArray THEN { [s EXCEPT !.ret = -1] }
          ELSE Out(IF elm.id \in Ids THEN elm.id ELSE s.id, Sure!inclusion_state(elm.st))
    BY Zenon DEF Sure!DeserOutput, js
  <2> HIDE DEF Out
  <2>2. elm.balances # NotArray /\ (IF elm.id \in Ids THEN elm.id ELSE s.id) = elm.id
    BY <1>1 DEF js
  <2> QED
    BY <1>2, <1>3, <2>1, <2>2
<1>7. Out(elm.id, st) = { With(elm.id, st, [balances |-> BalancesOf(js), color_str |-> x], u) }
  <2> HIDE DEF With
  <2> DEFINE b == [balances |-> BalancesOf(js), color_str |-> x]
  <2>1. b.balances = BalancesOf(js)
    OBVIOUS
  <2>2. Sure!output_ids_add(s.ids, elm.id, b.balances, st) = {u}
    BY <1>5, <2>1
  <2>3. Sure!DeserBalances(js, s.color_str) = {b}
    BY <1>4
  <2> HIDE DEF b
  <2>4. Out(elm.id, st) = { With(elm.id, st, b, u) }
    BY <2>2, <2>3
  <2> QED
    BY <2>4 DEF b
<1>8. With(elm.id, st, [balances |-> BalancesOf(js), color_str |-> x], u) =
        [ret |-> 0, ids |-> u, id |-> elm.id, color_str |-> x, st |-> st]
  <2>1. \A i, a, c, t : [s EXCEPT !.id = i, !.st = a, !.color_str = c, !.ids = t] =
                          [[[[s EXCEPT !.id = i] EXCEPT !.st = a] EXCEPT !.color_str = c]
                             EXCEPT !.ids = t]
    OBVIOUS
  <2> DEFINE Rec(r, d, i, c, a) == [ret |-> r, ids |-> d, id |-> i, color_str |-> c, st |-> a]
  <2>2. \A r, d, i, c, a, y : /\ [Rec(r, d, i, c, a) EXCEPT !.id = y] = Rec(r, d, y, c, a)
                              /\ [Rec(r, d, i, c, a) EXCEPT !.st = y] = Rec(r, d, i, c, y)
                              /\ [Rec(r, d, i, c, a) EXCEPT !.color_str = y] = Rec(r, d, i, y, a)
                              /\ [Rec(r, d, i, c, a) EXCEPT !.ids = y] = Rec(r, y, i, c, a)
    OBVIOUS
  <2>3. s = Rec(0, s.ids, s.id, s.color_str, s.st)
    BY <1>2
  <2>4. With(elm.id, st, [balances |-> BalancesOf(js), color_str |-> x], u) =
          [[[[s EXCEPT !.id = elm.id] EXCEPT !.st = st] EXCEPT !.color_str = x] EXCEPT !.ids = u]
    BY <2>1
  <2> DEFINE s1 == [s EXCEPT !.id = elm.id]
             s2 == [s1 EXCEPT !.st = st]
             s3 == [s2 EXCEPT !.color_str = x]
             s4 == [s3 EXCEPT !.ids = u]
  <2>5. With(elm.id, st, [balances |-> BalancesOf(js), color_str |-> x], u) = s4
    BY <2>4
  <2> HIDE DEF Rec, With, s4
  <2>6. s4 = [s3 EXCEPT !.ids = u]
    BY DEF s4
  <2> HIDE DEF s3
  <2>7. s3 = [s2 EXCEPT !.color_str = x]
    BY DEF s3
  <2> HIDE DEF s2
  <2>8. s2 = [s1 EXCEPT !.st = st]
    BY DEF s2
  <2> HIDE DEF s1
  <2>9. s1 = Rec(0, s.ids, elm.id, s.color_str, s.st)
    BY <2>2, <2>3 DEF s1
  <2>10. s2 = Rec(0, s.ids, elm.id, s.color_str, st)
    BY <2>2, <2>8, <2>9
  <2>11. s3 = Rec(0, s.ids, elm.id, x, st)
    BY <2>2, <2>7, <2>10
  <2>12. s4 = Rec(0, u, elm.id, x, st)
    BY <2>2, <2>6, <2>11
  <2> QED
    BY <2>5, <2>12 DEF Rec
<1> HIDE DEF With, Out
<1>9. Sure!DeserOutput(s, elm) =
        { [ret |-> 0, ids |-> u, id |-> elm.id, color_str |-> x, st |-> st] }
  BY <1>6, <1>7, <1>8
<1> QED
  BY <1>9 DEF u, st

\* All outputs of an address are taken.
LEMMA SureOutputsTaken ==
  ASSUME NEW js \in Seq(OutputDoc), js # Missing, OutputsWell(js)
  PROVE  \E r : Sure!deser_output_ids(js) = {r} /\ r.ret = 0 /\ r.ids = IdsOf(js)
<1> DEFINE n == Len(js)
           first == { [ret |-> 0, ids |-> <<>>, id |-> Zero, color_str |-> Zero,
                        st |-> Sure!inclusion_state(Missing)] }
           E(v, e) == UNION { Sure!DeserOutput(s, e) : s \in v }
           t == IdsOf(js)
           After(s, k, x) ==
             [ret |-> 0,
              ids |-> IF HASH_FIND(s.ids, "id", js[k].id) = {}
                      THEN Append(s.ids, OutputOf(js[k])) ELSE s.ids,
              id |-> js[k].id, color_str |-> x, st |-> inclusion_state(js[k].st)]
           V == SUBSET OutputsState
           F == [x \in (1 .. n) \X V |-> E(x[2], js[x[1]])]
           Is(it) == it = [s \in SUBSET DOMAIN js |->
                             IF s = {} THEN first
                             ELSE E(it[s \ {Max(s)}], js[Max(s)])]
           it == CHOOSE it : Is(it)
<1>1. /\ n \in Nat /\ DOMAIN js = 1 .. n
      /\ \A k \in 1 .. n : /\ js[k] \in OutputDoc /\ WellFormedOutput(js[k])
                            /\ js[k].id \in Ids /\ inclusion_state(js[k].st) \in State
                            /\ OutputOf(js[k]) \in OutputIn(EveryPair)
                            /\ t[k] = OutputOf(js[k]) /\ t[k]["id"] = js[k].id
      /\ t \in Seq(OutputIn(EveryPair)) /\ Unique(t, "id") /\ Len(t) = n
  <2>1. n \in Nat /\ DOMAIN js = 1 .. n /\ \A k \in 1 .. n : js[k] \in OutputDoc
    BY SeqFacts
  <2>2. \A k \in 1 .. n : WellFormedOutput(js[k])
    BY <2>1 DEF OutputsWell
  <2>3. \A k \in 1 .. n : t[k] = OutputOf(js[k]) /\ t[k]["id"] = js[k].id
    BY DEF IdsOf, OutputOf
  <2>4. t \in OutputsIn(EveryPair) /\ Len(t) = n
    BY <2>1, OutputsListed DEF IdsOf
  <2>5. t \in Seq(OutputIn(EveryPair)) /\ Unique(t, "id")
    BY <2>4 DEF OutputsIn
  <2> HIDE DEF t, n
  <2> QED
    BY <2>1, <2>2, <2>3, <2>4, <2>5, OutputListed
<1>2. ASSUME NEW k \in 1 .. n, NEW s \in OutputsState
      PROVE  \E x \in ColorText : Sure!DeserOutput(s, js[k]) = { After(s, k, x) }
  BY <1>1, SureDeserOutput
<1>3. \A v \in V, k \in 1 .. n : E(v, js[k]) \in V
  <2> SUFFICES ASSUME NEW v \in V, NEW k \in 1 .. n, NEW s \in v
               PROVE  Sure!DeserOutput(s, js[k]) \subseteq OutputsState
    OBVIOUS
  <2>1. s \in OutputsState /\ s.ids \in Seq(OutputIn(EveryPair))
    BY DEF OutputsState
  <2>2. PICK x \in ColorText : Sure!DeserOutput(s, js[k]) = { After(s, k, x) }
    BY <1>2, <2>1
  <2>3. After(s, k, x).ids \in Seq(OutputIn(EveryPair))
    <3> DEFINE u == s.ids
               e == OutputOf(js[k])
    <3>1. u \in Seq(OutputIn(EveryPair)) /\ e \in OutputIn(EveryPair)
      BY <1>1, <2>1
    <3>2. After(s, k, x).ids = IF HASH_FIND(u, "id", js[k].id) = {} THEN Append(u, e) ELSE u
      OBVIOUS
    <3> HIDE DEF u, e, After
    <3> QED
      BY <3>1, <3>2
  <2>4. After(s, k, x) \in OutputsState
    BY <1>1, <2>3 DEF OutputsState
  <2> HIDE DEF After
  <2> QED
    BY <2>2, <2>4
<1>4. first \in V
  <2>1. inclusion_state(Missing) \in State
    BY StateIs
  <2>2. Sure!inclusion_state(Missing) = inclusion_state(Missing)
    BY Zenon DEF Sure!inclusion_state, inclusion_state, Sure!Flags, Flags, Sure!Got, Got,
             Sure!KeyOf, KeyOf
  <2>3. <<>> \in Seq(OutputIn(EveryPair))
    OBVIOUS
  <2> QED
    BY <2>1, <2>2, <2>3 DEF OutputsState, ColorText
<1> HIDE DEF n, V, E
<1>5. F \in [(1 .. n) \X V -> V]
  BY <1>3
<1> HIDE DEF F, first
<1>6. PICK f : IsFold(f, n, V, first, F)
  BY <1>1, <1>4, <1>5, FoldExists
<1>7. Is(f)
  <2>1. /\ f \in [SUBSET (1 .. n) -> V]
        /\ \A s \in SUBSET (1 .. n) :
             f[s] = IF s = {} THEN first ELSE F[<<Max(s), f[s \ {Max(s)}]>>]
    BY <1>6 DEF IsFold
  <2>2. ASSUME NEW s \in SUBSET (1 .. n), s # {}
        PROVE  F[<<Max(s), f[s \ {Max(s)}]>>] = E(f[s \ {Max(s)}], js[Max(s)])
    <3>1. Max(s) \in 1 .. n
      BY <1>1, <2>2, MaxIn
    <3>2. f[s \ {Max(s)}] \in V
      BY <2>1
    <3> QED
      BY <3>1, <3>2 DEF F
  <2> QED
    BY <1>1, <2>1, <2>2
<1>8. Is(it)
  BY <1>7
<1>9. Sure!deser_output_ids(js) = it[1 .. n]
  BY <1>1 DEF Sure!deser_output_ids, Sure!FoldLeft, Sure!MapThenFoldSet, E, first, Sure!Max, Max
<1>10. it[{}] = first /\ \A k \in 1 .. n : it[1 .. k] = E(it[1 .. k - 1], js[k])
  <2>1. it[{}] = first
    BY <1>1, <1>8
  <2>2. ASSUME NEW k \in 1 .. n PROVE it[1 .. k] = E(it[1 .. k - 1], js[k])
    <3>1. Max(1 .. k) = k /\ (1 .. k) \ {k} = 1 .. k - 1
          /\ 1 .. k \in SUBSET (1 .. n) /\ 1 .. k # {}
      BY <1>1, MaxOfInterval
    <3> DEFINE s == 1 .. k
    <3>2. it[s] = E(it[s \ {Max(s)}], js[Max(s)])
      <4>1. s \in SUBSET (1 .. n) /\ s # {}
        BY <3>1
      <4> HIDE DEF it, s
      <4> QED
        BY <1>1, <1>8, <4>1
    <3> QED
      BY <3>1, <3>2
  <2> HIDE DEF it
  <2> QED
    BY <2>1, <2>2
<1> HIDE DEF it
<1> DEFINE Good == { k \in 0 .. n : \E s \in OutputsState :
                       it[1 .. k] = {s} /\ s.ids = SubSeq(t, 1, k) }
<1>12. 0 \in Good
  <2>1. SubSeq(t, 1, 0) = <<>> /\ 1 .. 0 = {} /\ 0 \in 0 .. n
    BY <1>1, WholePrefix
  <2> DEFINE s == [ret |-> 0, ids |-> <<>>, id |-> Zero, color_str |-> Zero,
                   st |-> Sure!inclusion_state(Missing)]
  <2>2. it[1 .. 0] = {s} /\ s.ids = <<>>
    BY <1>10, <2>1 DEF first
  <2>3. s \in OutputsState
    BY <1>4 DEF V, first
  <2> HIDE DEF s
  <2> QED
    BY <2>1, <2>2, <2>3
<1>13. ASSUME NEW k \in 0 .. n - 1, k \in Good PROVE k + 1 \in Good
  <2> DEFINE m == k + 1
             u == SubSeq(t, 1, k)
  <2>1. m \in 1 .. n /\ m - 1 = k /\ m \in 0 .. n
    BY <1>1
  <2>2. PICK s \in OutputsState : it[1 .. k] = {s} /\ s.ids = u
    BY <1>13
  <2>3. HASH_FIND(u, "id", t[m]["id"]) = {} /\ Append(u, t[m]) = SubSeq(t, 1, m)
    <3> HIDE DEF t, m
    <3>1. m \in 1 .. Len(t) /\ u = SubSeq(t, 1, m - 1)
      BY <1>1, <2>1
    <3> QED
      BY <1>1, <3>1, TablePrefix
  <2> HIDE DEF u, m
  <2>4. it[1 .. m] = E({s}, js[m])
    BY <1>10, <2>1, <2>2
  <2>5. E({s}, js[m]) = Sure!DeserOutput(s, js[m])
    BY DEF E
  <2>6. PICK x \in ColorText : Sure!DeserOutput(s, js[m]) = { After(s, m, x) }
    BY <1>2, <2>1
  <2>7. After(s, m, x).ids = SubSeq(t, 1, m)
    <3>1. After(s, m, x).ids = IF HASH_FIND(s.ids, "id", js[m].id) = {}
                               THEN Append(s.ids, OutputOf(js[m])) ELSE s.ids
      OBVIOUS
    <3> HIDE DEF After, t
    <3> QED
      BY <1>1, <2>1, <2>2, <2>3, <3>1
  <2>8. After(s, m, x) \in OutputsState
    <3>1. {s} \in V
      BY DEF V
    <3>2. E({s}, js[m]) \in V
      BY <1>3, <2>1, <3>1
    <3> HIDE DEF After
    <3> QED
      BY <2>5, <2>6, <3>2 DEF V
  <2> HIDE DEF After
  <2>9. it[1 .. m] = { After(s, m, x) }
    BY <2>4, <2>5, <2>6
  <2> QED
    BY <2>1, <2>7, <2>8, <2>9 DEF m
<1>14. n \in Good
  <2> HIDE DEF Good
  <2>1. \A k \in 0 .. n - 1 : k \in Good => k + 1 \in Good
    BY <1>13
  <2>2. n \in 0 .. n
    BY <1>1
  <2>3. \A k \in 0 .. n : k \in Good
    BY <1>1, <1>12, <2>1, InductionTo
  <2> QED
    BY <2>2, <2>3
<1>15. PICK s \in OutputsState : it[1 .. n] = {s} /\ s.ids = SubSeq(t, 1, n)
  BY <1>14
<1>16. SubSeq(t, 1, n) = t
  <2> HIDE DEF t
  <2> QED
    BY <1>1, WholePrefix
<1>17. s.ret = 0
  BY DEF OutputsState
<1> QED
  BY <1>9, <1>15, <1>16, <1>17 DEF t

\* An address, and the table.
EntryOf(e)  == [addr |-> e.address, addr_index |-> 0, spent |-> FALSE, ids |-> IdsOf(e.output_ids)]
TableOf(js) == [k \in 1 .. Len(js) |-> EntryOf(js[k])]

\* The addresses of a reply in which nothing is missing or doubled.
AddressWell(e) ==
  e.address \in Addresses /\ e.output_ids \notin {Missing, NotArray} /\ OutputsWell(e.output_ids)

AddressesWell(js) ==
  /\ \A k \in DOMAIN js : AddressWell(js[k])
  /\ \A i, j \in DOMAIN js : js[i].address = js[j].address => i = j

\* An address of such a reply, in the table.
LEMMA AddressListed ==
  ASSUME NEW e \in AddressDoc, AddressWell(e)
  PROVE  /\ e.address \in Addresses /\ e.output_ids \in Seq(OutputDoc)
         /\ e.output_ids # Missing /\ e.output_ids # NotArray
         /\ OutputsWell(e.output_ids) /\ IdsOf(e.output_ids) \in OutputsIn(EveryPair)
         /\ EntryOf(e) \in EntryIn(EveryPair)
<1>1. e.output_ids \in Seq(OutputDoc) \union {Missing, NotArray}
  BY DEF AddressDoc
<1>2. /\ e.address \in Addresses /\ e.output_ids \in Seq(OutputDoc)
      /\ e.output_ids # Missing /\ e.output_ids # NotArray /\ OutputsWell(e.output_ids)
  BY <1>1 DEF AddressWell
<1>3. IdsOf(e.output_ids) \in OutputsIn(EveryPair)
  BY <1>2, OutputsListed
<1>4. EntryOf(e) \in EntryIn(EveryPair)
  BY <1>2, <1>3 DEF EntryOf, EntryIn
<1> QED
  BY <1>2, <1>3, <1>4

\* The table is one.
LEMMA AddressesListed ==
  ASSUME NEW js \in Seq(AddressDoc), AddressesWell(js)
  PROVE  TableOf(js) \in TableIn(EveryPair)
<1> DEFINE t == TableOf(js)
           n == Len(js)
<1>1. n \in Nat /\ DOMAIN js = 1 .. n /\ \A k \in 1 .. n : js[k] \in AddressDoc
  BY SeqFacts
<1>2. \A k \in 1 .. n : t[k] = EntryOf(js[k]) /\ t[k]["addr"] = js[k].address
  BY DEF TableOf, EntryOf
<1>3. \A k \in 1 .. n : t[k] \in EntryIn(EveryPair)
  BY <1>1, <1>2, AddressListed DEF AddressesWell
<1>4. t = [k \in 1 .. n |-> t[k]] /\ DOMAIN t = 1 .. n
  BY DEF TableOf
<1> HIDE DEF t, n
<1>5. t \in Seq(EntryIn(EveryPair))
  BY <1>1, <1>3, <1>4
<1>6. Unique(t, "addr")
  BY <1>1, <1>2, <1>4 DEF Unique, AddressesWell
<1> QED
  BY <1>5, <1>6 DEF t, TableIn

\* A state of the loop over the addresses.
AddressesState ==
  [ret : {0, -1}, stop : {FALSE}, addr : Addresses \union {Zero},
   table : Seq(EntryIn(EveryPair))]

\* The loop over the addresses takes such an address as it stands.
LEMMA SureDeserAddress ==
  ASSUME NEW elm \in AddressDoc, AddressWell(elm), NEW s \in AddressesState
  PROVE  Sure!DeserAddress(s, elm) =
           { [ret |-> 0, stop |-> FALSE, addr |-> elm.address,
              table |-> IF HASH_FIND(s.table, "addr", elm.address) = {}
                        THEN Append(s.table, EntryOf(elm)) ELSE s.table] }
<1> DEFINE js == elm.output_ids
           u == IF HASH_FIND(s.table, "addr", elm.address) = {}
                THEN Append(s.table, EntryOf(elm)) ELSE s.table
<1>1. /\ elm.address \in Addresses /\ js \in Seq(OutputDoc) /\ js # Missing /\ js # NotArray
      /\ OutputsWell(js) /\ IdsOf(js) \in OutputsIn(EveryPair)
      /\ EntryOf(elm) = [addr |-> elm.address, addr_index |-> 0, spent |-> FALSE,
                         ids |-> IdsOf(js)]
  BY AddressListed DEF EntryOf
<1>2. /\ s.stop = FALSE
      /\ s = [ret |-> s.ret, stop |-> FALSE, addr |-> s.addr, table |-> s.table]
  BY DEF AddressesState
<1> HIDE DEF js
<1>3. PICK r : Sure!deser_output_ids(js) = {r} /\ r.ret = 0 /\ r.ids = IdsOf(js)
  BY <1>1, SureOutputsTaken
<1>4. Sure!unspent_outputs_add(s.table, elm.address, 0, r.ids) = {u}
  <2>1. Sure!output_ids_clone(r.ids) = {r.ids}
    BY <1>1, <1>3, SureOutputs
  <2>2. Sure!Added(s.table, [addr |-> elm.address, addr_index |-> 0, spent |-> FALSE,
                             ids |-> r.ids]) = { Append(s.table, EntryOf(elm)) }
    BY <1>1, <1>3, SureAdds
  <2> QED
    BY <2>1, <2>2, SureAdds DEF Sure!unspent_outputs_add
<1> HIDE DEF u
<1> DEFINE With(a, t) == [s EXCEPT !.addr = a, !.table = t,
                             !.ret = IF elm.output_ids = Missing THEN @ ELSE 0]
           Out(a, x) == IF x.ret # 0 THEN { [s EXCEPT !.stop = TRUE, !.ret = x.ret] }
                        ELSE { With(a, t) : t \in Sure!unspent_outputs_add(s.table, a, 0, x.ids) }
           All(a) == UNION { Out(a, x) : x \in Sure!deser_output_ids(elm.output_ids) }
<1>5. Sure!DeserAddress(s, elm) = All(elm.address)
  <2>1. Sure!DeserAddress(s, elm) =
          IF s.stop THEN {s}
          ELSE IF elm.output_ids = NotArray THEN { [s EXCEPT !.stop = TRUE] }
          ELSE All(IF elm.address \in Addresses THEN elm.address ELSE s.addr)
    BY Zenon DEF Sure!DeserAddress
  <2> HIDE DEF All
  <2>2. elm.output_ids # NotArray
        /\ (IF elm.address \in Addresses THEN elm.address ELSE s.addr) = elm.address
    BY <1>1 DEF js
  <2> QED
    BY <1>2, <2>1, <2>2
<1>6. All(elm.address) = Out(elm.address, r)
  <2> HIDE DEF Out
  <2> QED
    BY <1>3 DEF js
<1>7. Out(elm.address, r) = { With(elm.address, u) }
  <2> HIDE DEF With
  <2> QED
    BY <1>3, <1>4
<1>8. With(elm.address, u) = [ret |-> 0, stop |-> FALSE, addr |-> elm.address, table |-> u]
  <2>1. \A a, t : With(a, t) =
                   [[[s EXCEPT !.addr = a] EXCEPT !.table = t] EXCEPT !.ret = 0]
    <3>1. \A a, t, y : [s EXCEPT !.addr = a, !.table = t, !.ret = y] =
                        [[[s EXCEPT !.addr = a] EXCEPT !.table = t] EXCEPT !.ret = y]
      OBVIOUS
    <3> DEFINE zero == IF elm.output_ids = Missing THEN s.ret ELSE 0
    <3>2. zero = 0
      BY <1>1 DEF js
    <3>3. \A a, t : With(a, t) = [s EXCEPT !.addr = a, !.table = t, !.ret = zero]
      BY Zenon
    <3> HIDE DEF With, zero
    <3> QED
      BY <3>1, <3>2, <3>3
  <2> DEFINE Rec(x, p, a, t) == [ret |-> x, stop |-> p, addr |-> a, table |-> t]
  <2>2. \A x, p, a, t, y : /\ [Rec(x, p, a, t) EXCEPT !.addr = y] = Rec(x, p, y, t)
                        /\ [Rec(x, p, a, t) EXCEPT !.table = y] = Rec(x, p, a, y)
                        /\ [Rec(x, p, a, t) EXCEPT !.ret = y] = Rec(y, p, a, t)
    OBVIOUS
  <2>3. s = Rec(s.ret, s.stop, s.addr, s.table)
    BY <1>2
  <2> DEFINE s1 == [s EXCEPT !.addr = elm.address]
             s2 == [s1 EXCEPT !.table = u]
             s3 == [s2 EXCEPT !.ret = 0]
  <2>4. With(elm.address, u) = s3
    BY <2>1
  <2> HIDE DEF Rec, With, s3
  <2>5. s3 = [s2 EXCEPT !.ret = 0]
    BY DEF s3
  <2> HIDE DEF s2
  <2>6. s2 = [s1 EXCEPT !.table = u]
    BY DEF s2
  <2> HIDE DEF s1
  <2>7. s1 = Rec(s.ret, s.stop, elm.address, s.table)
    BY <2>2, <2>3 DEF s1
  <2>8. s2 = Rec(s.ret, s.stop, elm.address, u)
    BY <2>2, <2>6, <2>7
  <2>9. s3 = Rec(0, s.stop, elm.address, u)
    BY <2>2, <2>5, <2>8
  <2> QED
    BY <1>2, <2>4, <2>9 DEF Rec
<1> HIDE DEF With, Out, All
<1> QED
  BY <1>5, <1>6, <1>7, <1>8 DEF u

\* All addresses of a reply are taken.
LEMMA SureAddressesTaken ==
  ASSUME NEW js \in Seq(AddressDoc), AddressesWell(js)
  PROVE  \E s : Sure!DeserAddresses(js, <<>>) = {s} /\ s.stop = FALSE /\ s.table = TableOf(js)
<1> DEFINE n == Len(js)
           first == { [ret |-> -1, stop |-> FALSE, addr |-> Zero, table |-> <<>>] }
           E(v, e) == UNION { Sure!DeserAddress(s, e) : s \in v }
           t == TableOf(js)
           After(s, k) ==
             [ret |-> 0, stop |-> FALSE, addr |-> js[k].address,
              table |-> IF HASH_FIND(s.table, "addr", js[k].address) = {}
                        THEN Append(s.table, EntryOf(js[k])) ELSE s.table]
           V == SUBSET AddressesState
           F == [x \in (1 .. n) \X V |-> E(x[2], js[x[1]])]
           Is(it) == it = [s \in SUBSET DOMAIN js |->
                             IF s = {} THEN first
                             ELSE E(it[s \ {Max(s)}], js[Max(s)])]
           it == CHOOSE it : Is(it)
<1>1. /\ n \in Nat /\ DOMAIN js = 1 .. n
      /\ \A k \in 1 .. n : /\ js[k] \in AddressDoc /\ AddressWell(js[k])
                            /\ js[k].address \in Addresses
                            /\ EntryOf(js[k]) \in EntryIn(EveryPair)
                            /\ t[k] = EntryOf(js[k]) /\ t[k]["addr"] = js[k].address
      /\ t \in Seq(EntryIn(EveryPair)) /\ Unique(t, "addr") /\ Len(t) = n
  <2>1. n \in Nat /\ DOMAIN js = 1 .. n /\ \A k \in 1 .. n : js[k] \in AddressDoc
    BY SeqFacts
  <2>2. \A k \in 1 .. n : AddressWell(js[k])
    BY <2>1 DEF AddressesWell
  <2>3. \A k \in 1 .. n : t[k] = EntryOf(js[k]) /\ t[k]["addr"] = js[k].address
    BY DEF TableOf, EntryOf
  <2>4. t \in TableIn(EveryPair) /\ Len(t) = n
    BY <2>1, AddressesListed DEF TableOf
  <2>5. t \in Seq(EntryIn(EveryPair)) /\ Unique(t, "addr")
    BY <2>4 DEF TableIn
  <2> HIDE DEF t, n
  <2> QED
    BY <2>1, <2>2, <2>3, <2>4, <2>5, AddressListed
<1>2. ASSUME NEW k \in 1 .. n, NEW s \in AddressesState
      PROVE  Sure!DeserAddress(s, js[k]) = { After(s, k) }
  BY <1>1, SureDeserAddress
<1>3. \A v \in V, k \in 1 .. n : E(v, js[k]) \in V
  <2> SUFFICES ASSUME NEW v \in V, NEW k \in 1 .. n, NEW s \in v
               PROVE  Sure!DeserAddress(s, js[k]) \subseteq AddressesState
    OBVIOUS
  <2>1. s \in AddressesState /\ s.table \in Seq(EntryIn(EveryPair))
    BY DEF AddressesState
  <2>2. Sure!DeserAddress(s, js[k]) = { After(s, k) }
    BY <1>2, <2>1
  <2>3. After(s, k).table \in Seq(EntryIn(EveryPair))
    <3> DEFINE u == s.table
               e == EntryOf(js[k])
    <3>1. u \in Seq(EntryIn(EveryPair)) /\ e \in EntryIn(EveryPair)
      BY <1>1, <2>1
    <3>2. After(s, k).table =
            IF HASH_FIND(u, "addr", js[k].address) = {} THEN Append(u, e) ELSE u
      OBVIOUS
    <3> HIDE DEF u, e, After
    <3> QED
      BY <3>1, <3>2
  <2>4. After(s, k) \in AddressesState
    BY <1>1, <2>3 DEF AddressesState
  <2> HIDE DEF After
  <2> QED
    BY <2>2, <2>4
<1>4. first \in V
  <2>1. <<>> \in Seq(EntryIn(EveryPair))
    OBVIOUS
  <2> QED
    BY <2>1 DEF AddressesState
<1> HIDE DEF n, V, E
<1>5. F \in [(1 .. n) \X V -> V]
  BY <1>3
<1> HIDE DEF F, first
<1>6. PICK f : IsFold(f, n, V, first, F)
  BY <1>1, <1>4, <1>5, FoldExists
<1>7. Is(f)
  <2>1. /\ f \in [SUBSET (1 .. n) -> V]
        /\ \A s \in SUBSET (1 .. n) :
             f[s] = IF s = {} THEN first ELSE F[<<Max(s), f[s \ {Max(s)}]>>]
    BY <1>6 DEF IsFold
  <2>2. ASSUME NEW s \in SUBSET (1 .. n), s # {}
        PROVE  F[<<Max(s), f[s \ {Max(s)}]>>] = E(f[s \ {Max(s)}], js[Max(s)])
    <3>1. Max(s) \in 1 .. n
      BY <1>1, <2>2, MaxIn
    <3>2. f[s \ {Max(s)}] \in V
      BY <2>1
    <3> QED
      BY <3>1, <3>2 DEF F
  <2> QED
    BY <1>1, <2>1, <2>2
<1>8. Is(it)
  BY <1>7
<1>9. Sure!DeserAddresses(js, <<>>) = it[1 .. n]
  BY <1>1 DEF Sure!DeserAddresses, Sure!FoldLeft, Sure!MapThenFoldSet, E, first, Sure!Max, Max
<1>10. it[{}] = first /\ \A k \in 1 .. n : it[1 .. k] = E(it[1 .. k - 1], js[k])
  <2>1. it[{}] = first
    BY <1>1, <1>8
  <2>2. ASSUME NEW k \in 1 .. n PROVE it[1 .. k] = E(it[1 .. k - 1], js[k])
    <3>1. Max(1 .. k) = k /\ (1 .. k) \ {k} = 1 .. k - 1
          /\ 1 .. k \in SUBSET (1 .. n) /\ 1 .. k # {}
      BY <1>1, MaxOfInterval
    <3> DEFINE s == 1 .. k
    <3>2. it[s] = E(it[s \ {Max(s)}], js[Max(s)])
      <4>1. s \in SUBSET (1 .. n) /\ s # {}
        BY <3>1
      <4> HIDE DEF it, s
      <4> QED
        BY <1>1, <1>8, <4>1
    <3> QED
      BY <3>1, <3>2
  <2> HIDE DEF it
  <2> QED
    BY <2>1, <2>2
<1> HIDE DEF it
<1> DEFINE Good == { k \in 0 .. n : \E s \in AddressesState :
                       it[1 .. k] = {s} /\ s.table = SubSeq(t, 1, k) }
<1>12. 0 \in Good
  <2>1. SubSeq(t, 1, 0) = <<>> /\ 1 .. 0 = {} /\ 0 \in 0 .. n
    BY <1>1, WholePrefix
  <2> DEFINE s == [ret |-> -1, stop |-> FALSE, addr |-> Zero, table |-> <<>>]
  <2>2. it[1 .. 0] = {s} /\ s.table = <<>>
    BY <1>10, <2>1 DEF first
  <2>3. s \in AddressesState
    BY <1>4 DEF V, first
  <2> HIDE DEF s
  <2> QED
    BY <2>1, <2>2, <2>3
<1>13. ASSUME NEW k \in 0 .. n - 1, k \in Good PROVE k + 1 \in Good
  <2> DEFINE m == k + 1
             u == SubSeq(t, 1, k)
  <2>1. m \in 1 .. n /\ m - 1 = k /\ m \in 0 .. n
    BY <1>1
  <2>2. PICK s \in AddressesState : it[1 .. k] = {s} /\ s.table = u
    BY <1>13
  <2>3. HASH_FIND(u, "addr", t[m]["addr"]) = {} /\ Append(u, t[m]) = SubSeq(t, 1, m)
    <3> HIDE DEF t, m
    <3>1. m \in 1 .. Len(t) /\ u = SubSeq(t, 1, m - 1)
      BY <1>1, <2>1
    <3> QED
      BY <1>1, <3>1, TablePrefix
  <2> HIDE DEF u, m
  <2>4. it[1 .. m] = E({s}, js[m])
    BY <1>10, <2>1, <2>2
  <2>5. E({s}, js[m]) = Sure!DeserAddress(s, js[m])
    BY DEF E
  <2>6. Sure!DeserAddress(s, js[m]) = { After(s, m) }
    BY <1>2, <2>1
  <2>7. After(s, m).table = SubSeq(t, 1, m)
    <3>1. After(s, m).table = IF HASH_FIND(s.table, "addr", js[m].address) = {}
                              THEN Append(s.table, EntryOf(js[m])) ELSE s.table
      OBVIOUS
    <3> HIDE DEF After, t
    <3> QED
      BY <1>1, <2>1, <2>2, <2>3, <3>1
  <2>8. After(s, m) \in AddressesState
    <3>1. {s} \in V
      BY DEF V
    <3>2. E({s}, js[m]) \in V
      BY <1>3, <2>1, <3>1
    <3> HIDE DEF After
    <3> QED
      BY <2>5, <2>6, <3>2 DEF V
  <2> HIDE DEF After
  <2>9. it[1 .. m] = { After(s, m) }
    BY <2>4, <2>5, <2>6
  <2> QED
    BY <2>1, <2>7, <2>8, <2>9 DEF m
<1>14. n \in Good
  <2> HIDE DEF Good
  <2>1. \A k \in 0 .. n - 1 : k \in Good => k + 1 \in Good
    BY <1>13
  <2>2. n \in 0 .. n
    BY <1>1
  <2>3. \A k \in 0 .. n : k \in Good
    BY <1>1, <1>12, <2>1, InductionTo
  <2> QED
    BY <2>2, <2>3
<1>15. PICK s \in AddressesState : it[1 .. n] = {s} /\ s.table = SubSeq(t, 1, n)
  BY <1>14
<1>16. SubSeq(t, 1, n) = t
  <2> HIDE DEF t
  <2> QED
    BY <1>1, WholePrefix
<1>17. s.stop = FALSE
  BY DEF AddressesState
<1> QED
  BY <1>9, <1>15, <1>16, <1>17 DEF t

\* A well-formed reply is the table.
LEMMA SureUnspentTaken ==
  ASSUME NEW doc \in UnspentDoc, doc.error = Missing,
         doc.unspent \notin {Missing, NotArray, <<>>}, AddressesWell(doc.unspent)
  PROVE  /\ doc.unspent \in Seq(AddressDoc)
         /\ Sure!deser_unspent_outputs(doc, <<>>) =
              { [ret |-> 0, got |-> TableOf(doc.unspent), leaked |-> {}] }
<1> DEFINE js == doc.unspent
           Out(error) == IF error THEN { [ret |-> 0, got |-> <<>>, leaked |-> {"err"}] }
          ELSE IF doc.unspent \in {Missing, NotArray, <<>>}
               THEN { [ret |-> -1, got |-> <<>>, leaked |-> {}] }
          ELSE { [ret |-> IF s.stop THEN s.ret ELSE 0, got |-> s.table, leaked |-> {}] :
                 s \in Sure!DeserAddresses(doc.unspent, <<>>) }
<1>1. js \in Seq(AddressDoc)
  BY DEF UnspentDoc
<1>2. PICK s : /\ Sure!DeserAddresses(js, <<>>) = {s}
               /\ s.stop = FALSE /\ s.table = TableOf(js)
  BY <1>1, SureAddressesTaken
<1>3. Sure!deser_error(doc) = {FALSE}
  BY DEF Sure!deser_error
<1>4. Sure!deser_unspent_outputs(doc, <<>>) = UNION { Out(error) : error \in Sure!deser_error(doc) }
  BY Zenon DEF Sure!deser_unspent_outputs
<1>5. Out(FALSE) = { [ret |-> 0, got |-> TableOf(js), leaked |-> {}] }
  BY <1>2
<1> HIDE DEF Out
<1>6. Sure!deser_unspent_outputs(doc, <<>>) = Out(FALSE)
  BY <1>3, <1>4
<1> QED
  BY <1>1, <1>5, <1>6

\* What a table holds stands at some position of it.
LEMMA HoldingsAre ==
  ASSUME NEW t, NEW h
  PROVE  h \in Holdings(t) <=>
           \E k \in DOMAIN t : \E i \in DOMAIN t[k].ids :
             \E j \in DOMAIN t[k].ids[i].balances :
               h = <<t[k].addr, t[k].ids[i].id, t[k].ids[i].st["confirmed"],
                     t[k].ids[i].balances[j].color, t[k].ids[i].balances[j].value>>
<1>1. ASSUME h \in Holdings(t)
      PROVE  \E e \in ToSet(t) : \E o \in ToSet(e.ids) : \E b \in ToSet(o.balances) :
               h = <<e.addr, o.id, o.st["confirmed"], b.color, b.value>>
  <2>1. PICK e \in ToSet(t) : \E o \in ToSet(e.ids) : \E b \in ToSet(o.balances) : h = <<e.addr, o.id, o.st["confirmed"], b.color, b.value>>
    BY <1>1 DEF Holdings
  <2> QED
    BY <2>1
<1>2. ASSUME NEW e \in ToSet(t), NEW o \in ToSet(e.ids), NEW b \in ToSet(o.balances),
             h = <<e.addr, o.id, o.st["confirmed"], b.color, b.value>>
      PROVE  h \in Holdings(t)
  BY <1>2 DEF Holdings
<1>3. \A s, x : x \in ToSet(s) <=> \E i \in DOMAIN s : x = s[i]
  BY DEF ToSet
<1> QED
  BY <1>1, <1>2, <1>3

\* What a reply tells stands at some position of it.
LEMMA ToldIs ==
  ASSUME NEW doc, NEW h
  PROVE  LET js == doc.unspent
         IN  h \in Told(doc) <=>
               \E k \in DOMAIN js : \E i \in DOMAIN js[k].output_ids :
                 \E j \in DOMAIN js[k].output_ids[i].balances :
                   h = <<js[k].address, js[k].output_ids[i].id,
                         js[k].output_ids[i].st.confirmed,
                         ColorOf(js[k].output_ids[i].balances[j].color),
                         js[k].output_ids[i].balances[j].value>>
<1>1. ASSUME h \in Told(doc)
      PROVE  \E e \in ToSet(doc.unspent) : \E o \in ToSet(e.output_ids) :
               \E b \in ToSet(o.balances) :
                 h = <<e.address, o.id, o.st.confirmed, ColorOf(b.color), b.value>>
  <2>1. PICK e \in ToSet(doc.unspent) : \E o \in ToSet(e.output_ids) : \E b \in ToSet(o.balances) : h = <<e.address, o.id, o.st.confirmed, ColorOf(b.color), b.value>>
    BY <1>1 DEF Told
  <2> QED
    BY <2>1
<1>2. ASSUME NEW e \in ToSet(doc.unspent), NEW o \in ToSet(e.output_ids), NEW b \in ToSet(o.balances),
             h = <<e.address, o.id, o.st.confirmed, ColorOf(b.color), b.value>>
      PROVE  h \in Told(doc)
  BY <1>2 DEF Told
<1>3. \A s, x : x \in ToSet(s) <=> \E i \in DOMAIN s : x = s[i]
  BY DEF ToSet
<1> QED
  BY <1>1, <1>2, <1>3

\* What a well-formed reply lists.
LEMMA WellFormedIs ==
  ASSUME NEW doc \in UnspentDoc, WellFormed(doc)
  PROVE  /\ doc.error = Missing /\ doc.unspent \notin {Missing, NotArray, <<>>}
         /\ doc.unspent \in Seq(AddressDoc) /\ AddressesWell(doc.unspent)
<1> DEFINE js == doc.unspent
<1>1. /\ doc.error = Missing /\ js \notin {Missing, NotArray, <<>>}
      /\ \A i, j \in DOMAIN js : js[i].address = js[j].address => i = j
      /\ \A k \in DOMAIN js :
           /\ js[k].address \in Addresses
           /\ js[k].output_ids \notin {Missing, NotArray}
           /\ Distinct(js[k].output_ids, LAMBDA o : o.id)
           /\ \A i \in DOMAIN js[k].output_ids : WellFormedOutput(js[k].output_ids[i])
  BY DEF WellFormed, Distinct
<1>2. js \in Seq(AddressDoc)
  BY <1>1 DEF UnspentDoc
<1>3. \A k \in DOMAIN js : AddressWell(js[k])
  BY <1>1 DEF AddressWell, OutputsWell, Distinct
<1> QED
  BY <1>1, <1>2, <1>3 DEF AddressesWell

\* The table of a well-formed reply holds exactly the money the reply tells of.
LEMMA TableTells ==
  ASSUME NEW doc \in UnspentDoc, WellFormed(doc)
  PROVE  Holdings(TableOf(doc.unspent)) = Told(doc)
<1> DEFINE js == doc.unspent
           t == TableOf(js)
           In(h, k, i, j) ==
             h = <<t[k].addr, t[k].ids[i].id, t[k].ids[i].st["confirmed"],
                   t[k].ids[i].balances[j].color, t[k].ids[i].balances[j].value>>
           Says(h, k, i, j) ==
             h = <<js[k].address, js[k].output_ids[i].id, js[k].output_ids[i].st.confirmed,
                   ColorOf(js[k].output_ids[i].balances[j].color),
                   js[k].output_ids[i].balances[j].value>>
<1>1. js \in Seq(AddressDoc) /\ AddressesWell(js)
  BY WellFormedIs
<1>2. DOMAIN t = DOMAIN js
  BY <1>1, SeqFacts DEF TableOf
<1>3. ASSUME NEW k \in DOMAIN js
      PROVE  /\ DOMAIN t[k].ids = DOMAIN js[k].output_ids
             /\ \A i \in DOMAIN t[k].ids :
                  /\ DOMAIN t[k].ids[i].balances = DOMAIN js[k].output_ids[i].balances
                  /\ \A h : \A j \in DOMAIN t[k].ids[i].balances : In(h, k, i, j) <=> Says(h, k, i, j)
  <2> DEFINE e == js[k]
             os == e.output_ids
  <2>1. t[k] = EntryOf(e)
    BY <1>1, SeqFacts DEF TableOf
  <2>2. e \in AddressDoc /\ AddressWell(e)
    BY <1>1 DEF AddressesWell
  <2> HIDE DEF e
  <2>3. os \in Seq(OutputDoc) /\ OutputsWell(os) /\ t[k].addr = e.address /\ t[k].ids = IdsOf(os)
    BY <2>1, <2>2, AddressListed DEF EntryOf
  <2>4. DOMAIN IdsOf(os) = DOMAIN os
    BY <2>3, SeqFacts DEF IdsOf
  <2>5. ASSUME NEW i \in DOMAIN os
        PROVE  /\ DOMAIN IdsOf(os)[i].balances = DOMAIN os[i].balances
               /\ IdsOf(os)[i].id = os[i].id
               /\ IdsOf(os)[i].st["confirmed"] = os[i].st.confirmed
               /\ \A j \in DOMAIN os[i].balances :
                    /\ IdsOf(os)[i].balances[j].color = ColorOf(os[i].balances[j].color)
                    /\ IdsOf(os)[i].balances[j].value = os[i].balances[j].value
    <3> DEFINE o == os[i]
    <3>1. IdsOf(os)[i] = OutputOf(o)
      BY <2>3, SeqFacts DEF IdsOf
    <3>2. o \in OutputDoc /\ WellFormedOutput(o)
      BY <2>3 DEF OutputsWell
    <3> HIDE DEF o
    <3>3. o.balances \in Seq(BalanceDoc)
      BY <3>2, OutputListed
    <3>4. inclusion_state(o.st)["confirmed"] = o.st.confirmed
      BY <3>2 DEF WellFormedOutput, inclusion_state, Flags, KeyOf, Got
    <3>5. DOMAIN BalancesOf(o.balances) = DOMAIN o.balances
          /\ \A j \in DOMAIN o.balances : BalancesOf(o.balances)[j] = BalanceOf(o.balances[j])
      BY <3>3, SeqFacts DEF BalancesOf
    <3>6. OutputOf(o).id = o.id /\ OutputOf(o).st = inclusion_state(o.st)
          /\ OutputOf(o).balances = BalancesOf(o.balances)
      BY DEF OutputOf
    <3>7. \A b : BalanceOf(b).color = ColorOf(b.color) /\ BalanceOf(b).value = b.value
      BY DEF BalanceOf
    <3> QED
      BY <3>1, <3>4, <3>5, <3>6, <3>7 DEF o
  <2> HIDE DEF os
  <2>6. /\ DOMAIN t[k].ids = DOMAIN os
        /\ \A i \in DOMAIN os :
             /\ DOMAIN t[k].ids[i].balances = DOMAIN os[i].balances
             /\ t[k].ids[i].id = os[i].id
             /\ t[k].ids[i].st["confirmed"] = os[i].st.confirmed
             /\ \A j \in DOMAIN os[i].balances :
                  /\ t[k].ids[i].balances[j].color = ColorOf(os[i].balances[j].color)
                  /\ t[k].ids[i].balances[j].value = os[i].balances[j].value
    BY <2>3, <2>4, <2>5
  <2> HIDE DEF t
  <2> QED
    BY <2>3, <2>6 DEF os, e
<1>4. ASSUME NEW h PROVE h \in Holdings(t) <=> h \in Told(doc)
  <2>1. h \in Holdings(t) <=>
          \E k \in DOMAIN t : \E i \in DOMAIN t[k].ids : \E j \in DOMAIN t[k].ids[i].balances :
            In(h, k, i, j)
    BY HoldingsAre
  <2>2. h \in Told(doc) <=>
          \E k \in DOMAIN js : \E i \in DOMAIN js[k].output_ids :
            \E j \in DOMAIN js[k].output_ids[i].balances : Says(h, k, i, j)
    BY ToldIs
  <2> HIDE DEF t, js, In, Says
  <2> QED
    BY <1>2, <1>3, <2>1, <2>2
<1> QED
  BY <1>4

\* A flag a table holds stands at some output of it.
LEMMA FlagsHeldAre ==
  ASSUME NEW t, NEW h
  PROVE  h \in FlagsHeld(t) <=>
           \E k \in DOMAIN t : \E i \in DOMAIN t[k].ids : \E flag \in OtherFlags :
             h = <<t[k].addr, t[k].ids[i].id, flag, t[k].ids[i].st[flag]>>
<1>1. ASSUME h \in FlagsHeld(t)
      PROVE  \E e \in ToSet(t) : \E o \in ToSet(e.ids) : \E flag \in OtherFlags :
               h = <<e.addr, o.id, flag, o.st[flag]>>
  <2>1. PICK e \in ToSet(t) : \E o \in ToSet(e.ids) : \E flag \in OtherFlags : h = <<e.addr, o.id, flag, o.st[flag]>>
    BY <1>1 DEF FlagsHeld
  <2> QED
    BY <2>1
<1>2. ASSUME NEW e \in ToSet(t), NEW o \in ToSet(e.ids), NEW flag \in OtherFlags,
             h = <<e.addr, o.id, flag, o.st[flag]>>
      PROVE  h \in FlagsHeld(t)
  BY <1>2 DEF FlagsHeld
<1>3. \A s, x : x \in ToSet(s) <=> \E i \in DOMAIN s : x = s[i]
  BY DEF ToSet
<1> QED
  BY <1>1, <1>2, <1>3

\* A flag a reply tells stands at some output of it.
LEMMA FlagsToldAre ==
  ASSUME NEW doc, NEW h
  PROVE  h \in FlagsTold(doc) <=>
           \E k \in DOMAIN doc.unspent : \E i \in DOMAIN doc.unspent[k].output_ids : \E flag \in OtherFlags :
             h = <<doc.unspent[k].address, doc.unspent[k].output_ids[i].id, flag, FlagOf(doc.unspent[k].output_ids[i].st, flag)>>
<1>1. ASSUME h \in FlagsTold(doc)
      PROVE  \E e \in ToSet(doc.unspent) : \E o \in ToSet(e.output_ids) : \E flag \in OtherFlags :
               h = <<e.address, o.id, flag, FlagOf(o.st, flag)>>
  <2>1. PICK e \in ToSet(doc.unspent) : \E o \in ToSet(e.output_ids) : \E flag \in OtherFlags : h = <<e.address, o.id, flag, FlagOf(o.st, flag)>>
    BY <1>1 DEF FlagsTold
  <2> QED
    BY <2>1
<1>2. ASSUME NEW e \in ToSet(doc.unspent), NEW o \in ToSet(e.output_ids), NEW flag \in OtherFlags,
             h = <<e.address, o.id, flag, FlagOf(o.st, flag)>>
      PROVE  h \in FlagsTold(doc)
  BY <1>2 DEF FlagsTold
<1>3. \A s, x : x \in ToSet(s) <=> \E i \in DOMAIN s : x = s[i]
  BY DEF ToSet
<1> QED
  BY <1>1, <1>2, <1>3

\* The flags of its outputs are those the reply tells.
LEMMA TableFlags ==
  ASSUME NEW doc \in UnspentDoc, WellFormed(doc)
  PROVE  FlagsHeld(TableOf(doc.unspent)) = FlagsTold(doc)
<1> DEFINE js == doc.unspent
           t == TableOf(js)
           Held(h, k, i, flag) ==
             h = <<t[k].addr, t[k].ids[i].id, flag, t[k].ids[i].st[flag]>>
           Says(h, k, i, flag) ==
             h = <<js[k].address, js[k].output_ids[i].id, flag,
                   FlagOf(js[k].output_ids[i].st, flag)>>
<1>1. js \in Seq(AddressDoc) /\ AddressesWell(js)
  BY WellFormedIs
<1>2. DOMAIN t = DOMAIN js
  BY <1>1, SeqFacts DEF TableOf
<1>3. ASSUME NEW k \in DOMAIN js
      PROVE  /\ t[k].addr = js[k].address
             /\ DOMAIN t[k].ids = DOMAIN js[k].output_ids
             /\ \A i \in DOMAIN js[k].output_ids :
                  /\ t[k].ids[i].id = js[k].output_ids[i].id
                  /\ \A flag \in OtherFlags :
                       t[k].ids[i].st[flag] = FlagOf(js[k].output_ids[i].st, flag)
  <2> DEFINE e == js[k]
             os == e.output_ids
  <2>1. t[k] = EntryOf(e)
    BY <1>1, SeqFacts DEF TableOf
  <2>2. e \in AddressDoc /\ AddressWell(e)
    BY <1>1 DEF AddressesWell
  <2> HIDE DEF e
  <2>3. os \in Seq(OutputDoc) /\ OutputsWell(os) /\ t[k].addr = e.address /\ t[k].ids = IdsOf(os)
    BY <2>1, <2>2, AddressListed DEF EntryOf
  <2>4. DOMAIN IdsOf(os) = DOMAIN os
    BY <2>3, SeqFacts DEF IdsOf
  <2>5. ASSUME NEW i \in DOMAIN os
        PROVE  /\ IdsOf(os)[i].id = os[i].id
               /\ \A flag \in OtherFlags : IdsOf(os)[i].st[flag] = FlagOf(os[i].st, flag)
    <3> DEFINE o == os[i]
    <3>1. IdsOf(os)[i] = OutputOf(o)
      BY <2>3, SeqFacts DEF IdsOf
    <3>2. WellFormedOutput(o)
      BY <2>3 DEF OutputsWell
    <3> HIDE DEF o
    <3>3. \A flag \in OtherFlags : inclusion_state(o.st)[flag] = FlagOf(o.st, flag)
      BY <3>2 DEF WellFormedOutput, inclusion_state, Flags, OtherFlags, KeyOf, FlagOf
    <3>4. OutputOf(o).id = o.id /\ OutputOf(o).st = inclusion_state(o.st)
      BY DEF OutputOf
    <3> QED
      BY <3>1, <3>3, <3>4 DEF o
  <2> HIDE DEF os, t
  <2> QED
    BY <2>3, <2>4, <2>5 DEF os, e
<1>4. ASSUME NEW k \in DOMAIN js, NEW i \in DOMAIN js[k].output_ids, NEW flag \in OtherFlags, NEW h
      PROVE  Held(h, k, i, flag) <=> Says(h, k, i, flag)
  <2>1. /\ t[k].addr = js[k].address
        /\ t[k].ids[i].id = js[k].output_ids[i].id
        /\ t[k].ids[i].st[flag] = FlagOf(js[k].output_ids[i].st, flag)
    BY <1>3
  <2> HIDE DEF t, js
  <2> QED
    BY <2>1
<1>5. ASSUME NEW h PROVE h \in FlagsHeld(t) <=> h \in FlagsTold(doc)
  <2>1. h \in FlagsHeld(t) <=>
          \E k \in DOMAIN t : \E i \in DOMAIN t[k].ids : \E flag \in OtherFlags :
            Held(h, k, i, flag)
    BY FlagsHeldAre
  <2>2. h \in FlagsTold(doc) <=>
          \E k \in DOMAIN js : \E i \in DOMAIN js[k].output_ids : \E flag \in OtherFlags :
            Says(h, k, i, flag)
    BY FlagsToldAre
  <2>3. \A k \in DOMAIN js : DOMAIN t[k].ids = DOMAIN js[k].output_ids
    BY <1>3
  <2> HIDE DEF t, js, Held, Says
  <2> QED
    BY <1>2, <1>4, <2>1, <2>2, <2>3
<1> QED
  BY <1>5

\* Where nothing is spent, everything that holds something is offered.
LEMMA OfferedAll ==
  ASSUME NEW R, NEW t \in TableIn(R), \A k \in DOMAIN t : ~t[k].spent
  PROVE  Holdings(Offered(t)) = Holdings(t)
<1> DEFINE keep == { k \in DOMAIN t : ~t[k].spent /\ t[k].ids # <<>> }
           u == Kept(t, keep)
<1>1. t \in Seq(EntryIn(R)) /\ Offered(t) = u
  BY DEF TableIn, Offered
<1>2. PICK at \in [DOMAIN u -> DOMAIN t \intersect keep] :
        /\ \A j \in DOMAIN u : u[j] = t[at[j]]
        /\ \A k \in DOMAIN t \intersect keep : \E j \in DOMAIN u : at[j] = k
  <2> HIDE DEF keep
  <2> QED
    BY <1>1, KeptFrom DEF u
<1>3. \A k \in DOMAIN t : t[k].ids # <<>> => k \in DOMAIN t \intersect keep
  OBVIOUS
<1>4. DOMAIN t \intersect keep \subseteq DOMAIN t
  OBVIOUS
<1> HIDE DEF u, keep
<1>5. \A j \in DOMAIN u : \E k \in DOMAIN t : u[j] = t[k]
  BY <1>2, <1>4
<1>6. \A k \in DOMAIN t : t[k].ids # <<>> => \E j \in DOMAIN u : u[j] = t[k]
  BY <1>2, <1>3
<1> DEFINE In(h, e, i, j) ==
             h = <<e.addr, e.ids[i].id, e.ids[i].st["confirmed"],
                   e.ids[i].balances[j].color, e.ids[i].balances[j].value>>
           Of(h, e) == \E i \in DOMAIN e.ids : \E j \in DOMAIN e.ids[i].balances : In(h, e, i, j)
<1>7. \A h : /\ h \in Holdings(t) <=> \E k \in DOMAIN t : Of(h, t[k])
             /\ h \in Holdings(u) <=> \E k \in DOMAIN u : Of(h, u[k])
  BY HoldingsAre
<1>8. \A h, e : Of(h, e) => e.ids # <<>>
  <2> HIDE DEF In
  <2> QED
    OBVIOUS
<1> HIDE DEF Of
<1>9. ASSUME NEW h, h \in Holdings(u) PROVE h \in Holdings(t)
  <2>1. PICK j \in DOMAIN u : Of(h, u[j])
    BY <1>7, <1>9
  <2>2. PICK k \in DOMAIN t : u[j] = t[k]
    BY <1>5
  <2>3. Of(h, t[k])
    BY <2>1, <2>2
  <2> QED
    BY <1>7, <2>3
<1>10. ASSUME NEW h, h \in Holdings(t) PROVE h \in Holdings(u)
  <2>1. PICK k \in DOMAIN t : Of(h, t[k])
    BY <1>7, <1>10
  <2>2. PICK j \in DOMAIN u : u[j] = t[k]
    BY <1>6, <1>8, <2>1
  <2>3. Of(h, u[j])
    BY <2>1, <2>2
  <2> QED
    BY <1>7, <2>3
<1> QED
  BY <1>1, <1>9, <1>10

\* The balance of such a table is the sum of its confirmed amounts.
LEMMA BalanceOfAll ==
  ASSUME NEW R, NEW t \in TableIn(R), \A k \in DOMAIN t : ~t[k].spent
  PROVE  unspent_outputs_balance(t) =
           MapThenSumSet(LAMBDA h : h[5], { h \in Holdings(t) : h[3] }) % Modulus
<1> DEFINE H == Holdings(t)
           S == { h \in H : h[3] }
           F == Counted(AnyColor)
           G == [o \in S |-> o[5]]
<1>1. unspent_outputs_balance(t) = TableSum(Offered(t), AnyColor)
  BY SumsAre
<1>2. Holdings(Offered(t)) = H
  BY OfferedAll
<1>3. TableSum(Offered(t), AnyColor) = Wrapped(Total(F, Holdings(Offered(t))))
  BY OfferedIs, TableHeld
<1>4. H \subseteq Holding /\ IsFiniteSet(H)
  BY TableHeld
<1>5. unspent_outputs_balance(t) = Wrapped(Total(F, H))
  BY <1>1, <1>2, <1>3
<1> HIDE DEF H
<1>6. \A h \in Holding : h[3] \in BOOLEAN /\ h[4] \in AnyColor /\ h[5] \in Nat
  BY DEF Holding
<1>7. \A h \in Holding : F[h] = IF h[3] THEN h[5] ELSE 0
  BY <1>6 DEF Counted
<1>8. S \in SUBSET H /\ IsFiniteSet(S)
  BY <1>4, FS_Subset
<1>9. /\ \A h \in H : F[h] \in Nat
      /\ \A h \in H \ S : F[h] = 0
      /\ \A h \in S : F[h] = G[h] /\ F[h] \in Nat /\ h[5] \in Nat
  BY <1>4, <1>6, <1>7
<1> HIDE DEF F, S
<1>10. MapThenSumSet(LAMBDA h : h[5], S) = Total(G, S)
  BY <1>8, <1>9, SumOfAmounts
<1> HIDE DEF G
<1>11. Total(F, H) = Total(F, S)
  BY <1>4, <1>8, <1>9, TotalOnly
<1>12. Total(F, S) = Total(G, S)
  BY <1>8, <1>9, TotalSame
<1> QED
  BY <1>5, <1>10, <1>11, <1>12 DEF Wrapped, S, H

\* A well-formed reply that arrived whole is the table, until the caller edits it.
TakenInv ==
  /\ api = "unspent" /\ phase \in {"done", "returned"} /\ edits = 0
  /\ Heard /\ reply \in Replies["unspent"] /\ WellFormed(reply) /\ ret = 0
  => got = TableOf(reply.unspent)

\* Before the reply there is nothing to take.
LEMMA TakenInit == Init => TakenInv
BY DEF Init, TakenInv

\* The parser takes it; only the caller changes the table afterwards.
LEMMA TakenNext == CallInv /\ TakenInv /\ [Next]_vars => TakenInv'
<1> SUFFICES ASSUME CallInv, TakenInv, [Next]_vars,
                    api' = "unspent", phase' \in {"done", "returned"}, edits' = 0,
                    Heard', reply' \in Replies["unspent"], WellFormed(reply'), ret' = 0
             PROVE  got' = TableOf(reply'.unspent)
  BY DEF TakenInv, WellFormed, WellFormedOutput, Distinct, TableOf, EntryOf, IdsOf, OutputOf,
         BalancesOf, BalanceOf, ColorOf, inclusion_state, Got, KeyOf
<1> USE DEF Goto, Fail
\* A step after the result.
<1>1. ASSUME UNCHANGED <<api, ret, got, reply, sent, chunked, oom, edits>>,
             phase \in {"done", "returned"}
      PROVE  got' = TableOf(reply'.unspent)
  <2>1. Heard
    BY <1>1 DEF Heard, Answered, Parts
  <2> QED
    BY <1>1, <2>1 DEF TakenInv
<1>2. CASE Call \/ AppendCmd \/ NewBuffers \/ BuildRequest \/ Deliver \/ Performed \/ ToStr
           \/ Broken \/ NodeAnswers
  <2>1. phase \notin {"done", "returned"}
    BY <1>2 DEF Call, AppendCmd, NewBuffers, BuildRequest, Deliver, Performed, ToStr, Broken,
                NodeAnswers
  <2>2. phase' \in {"done", "returned"} => ret' = -1
    BY <1>2, <2>1 DEF Call, AppendCmd, NewBuffers, BuildRequest, Deliver, Performed, ToStr,
                Broken, NodeAnswers
  <2> QED
    BY <2>2
<1>3. CASE Done
  BY <1>1, <1>3 DEF Done, conn
<1>4. ASSUME NEW addr \in Addresses, EditTable(addr) PROVE FALSE
  <2>1. edits' = edits + 1 /\ edits \in 0 .. MaxEdits
    BY <1>4 DEF EditTable, CallInv
  <2> QED
    BY <2>1, ApiAssumption
<1>5. CASE Parse
  <2>1. /\ phase = "parse" /\ api = "unspent" /\ got = <<>> /\ ret = 0 /\ reply' = reply
        /\ ReplyOK /\ ResponseOK
        /\ UNCHANGED <<api, res, conn, edits>>
    <3>1. phase = "parse" /\ api' = api /\ UNCHANGED <<res, conn, edits>>
      BY <1>5 DEF Parse
    <3> QED
      BY <3>1 DEF CallInv, ResultOK, BeforeResult, conn
  <2>2. PICK doc \in ParsedFrom(res) \union { n \in {Nonsense} : AllocMayFail } :
          \E r \in Deserialized(doc) :
            /\ got' = r.got /\ ret' = Result(r)
            /\ oom' = (oom \/ doc \notin ParsedFrom(res) \/ r \notin DeserializedSurely(doc))
    BY <1>5 DEF Parse
  <2>3. PICK r \in Deserialized(doc) :
          /\ got' = r.got /\ ret' = Result(r)
          /\ oom' = (oom \/ doc \notin ParsedFrom(res) \/ r \notin DeserializedSurely(doc))
    BY <2>2
  <2>4. ~oom' /\ ~oom /\ doc \in ParsedFrom(res) /\ r \in DeserializedSurely(doc)
    BY <2>3 DEF Heard
  <2>5. reply \in Replies["unspent"] /\ reply \notin {Nonsense, Empty} /\ reply \in UnspentDoc
    BY <2>1, ApiAssumption DEF Calls
  <2>6. Heard
    BY <2>1, <2>4 DEF Heard, Answered, Parts, conn
  <2>7. doc = reply
    BY <2>1, <2>4, <2>5, <2>6, ParsedIs
  <2>8. r \in Sure!deser_unspent_outputs(reply, <<>>)
    BY <2>1, <2>4, <2>5, <2>7 DEF DeserializedSurely
  <2>9. WellFormed(reply)
    BY <2>1
  <2>10. r = [ret |-> 0, got |-> TableOf(reply.unspent), leaked |-> {}]
    BY <2>5, <2>8, <2>9, WellFormedIs, SureUnspentTaken
  <2> QED
    BY <2>1, <2>3, <2>10
<1>6. CASE UNCHANGED vars
  BY <1>1, <1>6 DEF vars, conn
<1> QED
  BY <1>2, <1>3, <1>4, <1>5, <1>6 DEF Next, LocalStep

LEMMA TakenInvariant == Spec => []TakenInv
BY TakenInit, TakenNext, CallInvariant, PTL DEF Spec

\* A well-formed reply that arrived whole is taken: however many addresses,
\* outputs and balances it lists, the table holds exactly the money it tells
\* of, the flags of each output but solid, and its balance is the sum of the
\* confirmed amounts.
THEOREM ReplyIsTaken == Spec => []ReplyTaken
<1>1. ASSUME TakenInv PROVE ReplyTaken
  <2> SUFFICES ASSUME api = "unspent", phase = "returned", edits = 0, Heard,
                      reply \in Replies["unspent"], WellFormed(reply), ret = 0
               PROVE  /\ Holdings(got) = Told(reply)
                      /\ FlagsHeld(got) = FlagsTold(reply)
                      /\ unspent_outputs_balance(got) =
                           MapThenSumSet(LAMBDA h : h[5], { h \in Told(reply) : h[3] }) % Modulus
    BY DEF ReplyTaken
  <2>1. reply \in UnspentDoc
    BY ApiAssumption
  <2>2. got = TableOf(reply.unspent)
    BY <1>1 DEF TakenInv
  <2>3. Holdings(got) = Told(reply)
    BY <2>1, <2>2, TableTells
  <2>4. got \in TableIn(EveryPair)
    BY <2>1, <2>2, WellFormedIs, AddressesListed
  <2>5. \A k \in DOMAIN got : ~got[k].spent
    BY <2>2 DEF TableOf, EntryOf
  <2>6. unspent_outputs_balance(got) =
          MapThenSumSet(LAMBDA h : h[5], { h \in Holdings(got) : h[3] }) % Modulus
    BY <2>4, <2>5, BalanceOfAll
  <2>7. FlagsHeld(got) = FlagsTold(reply)
    BY <2>1, <2>2, TableFlags
  <2> QED
    BY <2>3, <2>6, <2>7
<1> QED
  BY <1>1, TakenInvariant, PTL
=============================================================================
