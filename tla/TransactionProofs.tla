------------------------- MODULE TransactionProofs -------------------------
(***************************************************************************)
(* A transaction, for any number of inputs, outputs, balances, seeds and   *)
(* calls: the memory of its lists, what its signatures were made for, and  *)
(* what its essence and its serialisation say.  Essence and serialisation  *)
(* are folds over the outputs; what holds of them follows by FoldProofs.   *)
(***************************************************************************)
EXTENDS TransactionUse, FoldProofs, FiniteSetTheorems, SequenceTheorems, TLAPS

\* The lists the outputs hold.
Held == IF outputs = Null THEN {} ELSE { outputs[k].balances : k \in DOMAIN outputs }

Distinct ==
  outputs # Null =>
    \A j, k \in DOMAIN outputs : outputs[j].balances = outputs[k].balances => j = k

OwnInv ==
  Distinct /\ list \notin Held /\ DOMAIN lists = Held \union ({list} \ {Null})

\* OutputsOwnLists without the sequence of places.
LEMMA OwnLists == OutputsOwnLists <=> OwnInv
<1>1. CASE outputs = Null
  BY <1>1 DEF OwnInv, OutputsOwnLists, Distinct, Held, ToSet
<1>2. CASE outputs # Null
  <2> DEFINE held == [k \in DOMAIN outputs |-> outputs[k].balances]
  <2>1. OutputsOwnLists <=>
          /\ \A j, k \in DOMAIN held : held[j] = held[k] => j = k
          /\ list \notin ToSet(held)
          /\ DOMAIN lists = ToSet(held) \union ({list} \ {Null})
    BY <1>2, Zenon DEF OutputsOwnLists
  <2>2. ToSet(held) = Held
    BY <1>2 DEF ToSet, Held
  <2>3. Distinct <=> \A j, k \in DOMAIN held : held[j] = held[k] => j = k
    BY <1>2 DEF Distinct
  <2> HIDE DEF held
  <2> QED
    BY <2>1, <2>2, <2>3 DEF OwnInv
<1> QED
  BY <1>1, <1>2

\* A call that leaves the outputs and the places of lists alone.
LEMMA SameLists ==
  ASSUME ListsInv, UNCHANGED <<outputs, list>>, DOMAIN lists' = DOMAIN lists
  PROVE  ListsInv'
BY DEF ListsInv, OutputsOwnLists

LEMMA ListsInit == Init => ListsInv
BY DEF Init, ListsInv, OutputsOwnLists, ToSet

LEMMA ListsNext == ListsInv /\ [Next]_vars => ListsInv'
<1> SUFFICES ASSUME ListsInv, [Next]_vars PROVE ListsInv'
  OBVIOUS
<1>1. /\ outputs # Null => outputs \in Seq(tx_output_t)
      /\ DOMAIN lists \subseteq Places
      /\ Distinct /\ list \notin Held
      /\ DOMAIN lists = Held \union ({list} \ {Null})
  BY OwnLists DEF ListsInv, OwnInv
<1>2. Null \notin Places
  BY TransactionUseAssumption
<1>b. OutputsOwnLists' <=> OwnInv'
  BY OwnLists, PTL
<1>a. ASSUME outputs' # Null => outputs' \in Seq(tx_output_t),
             DOMAIN lists' \subseteq Places, Distinct', list' \notin Held',
             DOMAIN lists' = Held' \union ({list'} \ {Null})
      PROVE  ListsInv'
  <2>1. OutputsOwnLists'
    BY <1>a, <1>b DEF OwnInv
  <2> QED
    BY <1>a, <2>1 DEF ListsInv
<1>3. CASE New
  <2>1. CASE UNCHANGED outputs
    BY <1>3, <2>1, SameLists DEF New, heap
  <2>2. CASE outputs = Null /\ outputs' = <<>>
    <3>1. UNCHANGED heap /\ Held = {} /\ Held' = {} /\ Distinct'
      BY <1>3, <2>2 DEF New, Held, Distinct
    <3> QED
      BY <1>1, <1>a, <2>2, <3>1 DEF heap
  <2> QED
    BY <1>3, <2>1, <2>2 DEF New
<1>4. ASSUME NEW id, tx_inputs_push(id) PROVE ListsInv'
  BY <1>4, SameLists DEF tx_inputs_push, heap
<1>5. CASE balance_list_new
  <2>1. list = Null /\ list' \in Places /\ list' \notin DOMAIN lists
        /\ outputs' = outputs
    BY <1>5 DEF balance_list_new, Unused, tx
  <2>2. DOMAIN lists' = {list'} \union DOMAIN lists
    BY <1>5 DEF balance_list_new, WithList
  <2>3. Held' = Held /\ Distinct'
    BY <1>1, <2>1 DEF Held, Distinct
  <2> QED
    BY <1>1, <1>2, <1>a, <2>1, <2>2, <2>3
<1>6. ASSUME NEW content, ListUse(content) PROVE ListsInv'
  <2>1. DOMAIN lists' = DOMAIN lists
    BY <1>6 DEF ListUse
  <2> QED
    BY <1>6, <2>1, SameLists DEF ListUse, tx
<1>7. CASE balance_list_free
  <2>1. list # Null /\ list' = Null /\ DOMAIN lists' = DOMAIN lists \ {list}
        /\ outputs' = outputs
    BY <1>7 DEF balance_list_free, tx
  <2>2. Held' = Held /\ Distinct'
    BY <1>1, <2>1 DEF Held, Distinct
  <2> QED
    BY <1>1, <1>2, <1>a, <2>1, <2>2
<1>8. ASSUME NEW a \in Addresses, NEW i \in Indices, tx_outputs_push(a, i)
      PROVE  ListsInv'
  <2>1. PICK p \in Unused :
          /\ outputs' = Append(outputs, [address |-> a, addr_index |-> i, balances |-> p])
          /\ lists' = WithList(p, lists[list])
    BY <1>8 DEF tx_outputs_push
  <2> DEFINE o == [address |-> a, addr_index |-> i, balances |-> p]
  <2>2. p \in Places /\ p \notin DOMAIN lists /\ o \in tx_output_t
    BY <2>1 DEF Unused, tx_output_t
  <2>3. o.balances = p
    OBVIOUS
  <2>4. outputs # Null /\ list # Null /\ list' = list /\ outputs \in Seq(tx_output_t)
    BY <1>1, <1>8 DEF tx_outputs_push
  <2>5. outputs' = Append(outputs, o)
    BY <2>1
  <2> HIDE DEF o
  <2> DEFINE R == tx_output_t
             n == Len(outputs)
  <2>6. /\ outputs' \in Seq(R) /\ n \in Nat
        /\ DOMAIN outputs = 1 .. n /\ DOMAIN outputs' = 1 .. n + 1
        /\ \A k \in 1 .. n : outputs'[k] = outputs[k]
        /\ outputs'[n + 1] = o
    <3> HIDE DEF R
    <3>1. outputs \in Seq(R) /\ o \in R
      BY <2>2, <2>4 DEF R
    <3> QED
      BY <2>5, <3>1
  <2> HIDE DEF n
  <2>7. DOMAIN lists' = {p} \union DOMAIN lists
    BY <2>1 DEF WithList
  <2>8. \A k \in 1 .. n : outputs[k].balances \in Held /\ outputs[k].balances \in DOMAIN lists
    BY <1>1, <2>4, <2>6 DEF Held
  <2>9. p \notin Held /\ list # p
    BY <1>1, <2>2, <2>4
  <2>10. outputs' # Null
    BY <2>6, TransactionUseAssumption DEF R
  <2>11. Held' = Held \union {p}
    <3>1. 1 .. n + 1 = (1 .. n) \union {n + 1}
      BY <2>6
    <3>2. Held = { outputs[k].balances : k \in 1 .. n }
      BY <2>4, <2>6 DEF Held
    <3>3. Held' = { outputs'[k].balances : k \in 1 .. n + 1 }
      BY <2>6, <2>10 DEF Held
    <3> QED
      BY <2>3, <2>6, <3>1, <3>2, <3>3
  <2>12. Distinct'
    <3> SUFFICES ASSUME NEW j \in 1 .. n + 1, NEW k \in 1 .. n + 1,
                        outputs'[j].balances = outputs'[k].balances
                 PROVE  j = k
      BY <2>6 DEF Distinct
    <3>1. CASE j \in 1 .. n /\ k \in 1 .. n
      BY <1>1, <2>4, <2>6, <3>1 DEF Distinct
    <3>2. CASE j = n + 1 /\ k \in 1 .. n
      BY <2>3, <2>6, <2>8, <2>9, <3>2
    <3>3. CASE k = n + 1 /\ j \in 1 .. n
      BY <2>3, <2>6, <2>8, <2>9, <3>3
    <3> QED
      BY <2>6, <3>1, <3>2, <3>3
  <2> QED
    BY <1>1, <1>a, <2>2, <2>4, <2>6, <2>7, <2>9, <2>11, <2>12
<1>9. ASSUME NEW how, NEW seed, NEW signers, NEW essence,
             SignWith(how, seed, signers, essence)
      PROVE  ListsInv'
  BY <1>9, SameLists DEF SignWith, tx, heap
<1>10. ASSUME NEW addr, ed_signatures_remove(addr) PROVE ListsInv'
  BY <1>10, SameLists DEF ed_signatures_remove, tx, heap
<1>11. CASE Free
  <2>1. outputs # Null /\ outputs' = Null /\ list' = list
        /\ DOMAIN lists' = DOMAIN lists \ Held
    BY <1>11 DEF Free, Held
  <2>2. Held' = {} /\ Distinct'
    BY <2>1 DEF Held, Distinct
  <2> QED
    BY <1>1, <1>a, <2>1, <2>2
<1>12. CASE UNCHANGED vars
  BY <1>12, SameLists DEF vars, tx, heap
<1>13. ASSUME NEW text, tx_inputs_push_base58(text) PROVE ListsInv'
  BY <1>4, <1>13 DEF tx_inputs_push_base58
<1>14. ASSUME NEW b, balance_list_push(b) PROVE ListsInv'
  BY <1>6, <1>14 DEF balance_list_push
<1>15. CASE balance_list_pop
  BY <1>6, <1>15 DEF balance_list_pop
<1>16. ASSUME NEW seed, tx_sign(seed) PROVE ListsInv'
  BY <1>9, <1>16 DEF tx_sign
<1>17. ASSUME NEW seed, NEW index, wallet_sign_tx(seed, index) PROVE ListsInv'
  BY <1>9, <1>17 DEF wallet_sign_tx
<1> QED
  BY <1>3, <1>4, <1>5, <1>7, <1>8, <1>10, <1>11, <1>12, <1>13, <1>14, <1>15,
     <1>16, <1>17 DEF Next

\* Each output owns its balance list and no list is lost, for any number of
\* outputs: what the owner does to its list after tx_outputs_push, its free
\* included, does not reach the transaction (outputs_icd_copy).
THEOREM OutputsOwnTheirLists == Spec => []OutputsOwnLists
<1>1. ListsInv => OutputsOwnLists
  BY DEF ListsInv
<1> QED
  BY <1>1, ListsInit, ListsNext, PTL DEF Spec

-----------------------------------------------------------------------------
(* tx_sign.                                                                *)

\* What the signer s signs of the text, and where it is filed.
SignatureOf(seed, s, data) ==
  [address |-> s.address, pub_key |-> address_ed25519_keypair(seed, s.addr_index),
   signature |-> sign_signature(seed, s.addr_index, data)]

SignStep(seed, data, outs, s) ==
  UNION { ed_signatures_add(t, s.address, address_ed25519_keypair(seed, s.addr_index),
                            sign_signature(seed, s.addr_index, data)) : t \in outs }

\* The tables after the first signers.
LEMMA SignAllChain ==
  ASSUME NEW S, NEW signers \in Seq(S), NEW seed, NEW data
  PROVE  \E g : /\ g[0] = {<<>>} /\ SignAll(seed, signers, data) = g[Len(signers)]
                /\ \A k \in 1 .. Len(signers) :
                     g[k] = SignStep(seed, data, g[k - 1], signers[k])
<1> DEFINE n == Len(signers)
           E(v, e) == SignStep(seed, data, v, e)
           R == { SignatureOf(seed, signers[k], data) : k \in 1 .. n }
           V == SUBSET Seq(R)
           F == [x \in (1 .. n) \X V |-> E(x[2], signers[x[1]])]
           Is(it) == it = [s \in SUBSET DOMAIN signers |->
                             IF s = {} THEN {<<>>}
                             ELSE E(it[s \ {Max(s)}], signers[Max(s)])]
           it == CHOOSE it : Is(it)
           g == [k \in 0 .. n |-> it[1 .. k]]
<1>1. n \in Nat /\ DOMAIN signers = 1 .. n
  OBVIOUS
<1>2. \A v \in V, k \in 1 .. n : E(v, signers[k]) \in V
  <2> SUFFICES ASSUME NEW v \in V, NEW k \in 1 .. n, NEW t \in v,
                      NEW u \in ed_signatures_add(t, signers[k].address,
                                   address_ed25519_keypair(seed, signers[k].addr_index),
                                   sign_signature(seed, signers[k].addr_index, data))
               PROVE  u \in Seq(R)
    BY DEF SignStep
  <2> DEFINE e == SignatureOf(seed, signers[k], data)
  <2>1. u \in {t, Append(t, e)}
    BY DEF ed_signatures_add, Added, SignatureOf
  <2>2. e \in R /\ t \in Seq(R)
    OBVIOUS
  <2> HIDE DEF e, R
  <2> QED
    BY <2>1, <2>2
<1>3. {<<>>} \in V
  OBVIOUS
<1> HIDE DEF n, V, E
<1>4. F \in [(1 .. n) \X V -> V]
  BY <1>2
<1> HIDE DEF F
<1>5. PICK f : IsFold(f, n, V, {<<>>}, F)
  BY <1>1, <1>3, <1>4, FoldExists
<1>6. Is(f)
  <2>1. /\ f \in [SUBSET (1 .. n) -> V]
        /\ \A s \in SUBSET (1 .. n) :
             f[s] = IF s = {} THEN {<<>>} ELSE F[<<Max(s), f[s \ {Max(s)}]>>]
    BY <1>5 DEF IsFold
  <2>2. ASSUME NEW s \in SUBSET (1 .. n), s # {}
        PROVE  F[<<Max(s), f[s \ {Max(s)}]>>] = E(f[s \ {Max(s)}], signers[Max(s)])
    <3>1. Max(s) \in 1 .. n
      BY <1>1, <2>2, MaxIn
    <3>2. f[s \ {Max(s)}] \in V
      BY <2>1
    <3> QED
      BY <3>1, <3>2 DEF F
  <2> QED
    BY <1>1, <2>1, <2>2
<1>7. Is(it)
  BY <1>6
<1>8. it[{}] = {<<>>}
  BY <1>1, <1>7
<1>9. \A k \in 1 .. n : it[1 .. k] = E(it[1 .. k - 1], signers[k])
  <2> SUFFICES ASSUME NEW k \in 1 .. n PROVE it[1 .. k] = E(it[1 .. k - 1], signers[k])
    OBVIOUS
  <2>1. /\ Max(1 .. k) = k /\ (1 .. k) \ {k} = 1 .. k - 1
        /\ 1 .. k \in SUBSET (1 .. n) /\ 1 .. k # {}
    BY <1>1, MaxOfInterval
  <2> QED
    BY <1>1, <1>7, <2>1
<1>10. SignAll(seed, signers, data) = it[1 .. n]
  BY <1>1 DEF SignAll, FoldLeft, MapThenFoldSet, SignStep, E
<1> HIDE DEF it
<1>11. g[0] = {<<>>} /\ g[n] = it[1 .. n]
  <2>1. 1 .. 0 = {}
    OBVIOUS
  <2> QED
    BY <1>1, <1>8, <2>1
<1>12. \A k \in 1 .. n : g[k] = E(g[k - 1], signers[k])
  <2> SUFFICES ASSUME NEW k \in 1 .. n PROVE g[k] = E(g[k - 1], signers[k])
    OBVIOUS
  <2>1. k \in 0 .. n /\ k - 1 \in 0 .. n
    BY <1>1
  <2> QED
    BY <1>9, <2>1
<1> HIDE DEF g
<1> QED
  BY <1>10, <1>11, <1>12 DEF E, n

-----------------------------------------------------------------------------
(* The essence as a text.                                                  *)

\* The fields of a balance list.
LEMMA BalancesShape ==
  ASSUME NEW l \in Seq(balance_t), NEW s,
         s = FlattenSeq([k \in DOMAIN l |-> BalanceFields(l[k])])
  PROVE  /\ s \in Seq(Field) /\ Len(l) \in Nat /\ Len(s) = 2 * Len(l)
         /\ \A j \in 1 .. Len(l) : /\ s[2 * j - 1] = <<"value", l[j].value>>
                                   /\ s[2 * j] = <<"color", l[j].color>>
<1> DEFINE n == Len(l)
           parts == [k \in DOMAIN l |-> BalanceFields(l[k])]
           S == Seq(Field)
<1>1. n \in Nat /\ DOMAIN l = 1 .. n /\ \A k \in 1 .. n : l[k] \in balance_t
  OBVIOUS
<1>2. ASSUME NEW b \in balance_t
      PROVE  /\ BalanceFields(b) \in S /\ Len(BalanceFields(b)) = 2
             /\ BalanceFields(b)[1] = <<"value", b.value>>
             /\ BalanceFields(b)[2] = <<"color", b.color>>
  <2>1. <<"value", b.value>> \in Field /\ <<"color", b.color>> \in Field
    BY DEF balance_t, Field, Color
  <2> HIDE DEF Field
  <2> QED
    BY <2>1 DEF BalanceFields
<1> HIDE DEF n, S
<1>3. parts \in [1 .. n -> S]
  BY <1>1, <1>2
<1>4. parts \in Seq(S) /\ Len(parts) = n /\ \A k \in 1 .. n : parts[k] = BalanceFields(l[k])
  <2>1. \A k \in 1 .. n : parts[k] = BalanceFields(l[k])
    BY <1>1
  <2> HIDE DEF parts
  <2> QED
    BY <1>1, <1>3, <2>1, MapSeq
<1>5. s = FlattenSeq(parts)
  OBVIOUS
<1> HIDE DEF parts
<1>f. PICK at : /\ Begins(at, parts)
                /\ Len(FlattenSeq(parts)) = at[Len(parts)]
                /\ \A k \in 1 .. Len(parts) :
                     /\ at[k] <= at[Len(parts)]
                     /\ \A i \in 1 .. Len(parts[k]) :
                          FlattenSeq(parts)[at[k - 1] + i] = parts[k][i]
  BY <1>4, FlattenParts, Zenon DEF S
<1>6. /\ Begins(at, parts) /\ Len(s) = at[n]
      /\ \A k \in 1 .. n : \A i \in 1 .. Len(parts[k]) : s[at[k - 1] + i] = parts[k][i]
  BY <1>4, <1>5, <1>f
<1>s. s \in Seq(Field)
  BY <1>4, <1>5, FlattenParts, Zenon DEF S
<1>7. /\ at \in [0 .. n -> Nat] /\ at[0] = 0
      /\ \A k \in 1 .. n : at[k] = at[k - 1] + 2
  <2>1. \A k \in 1 .. n : Len(parts[k]) = 2
    BY <1>1, <1>2, <1>4
  <2> QED
    BY <1>4, <1>6, <2>1 DEF Begins
<1>8. \A k \in 0 .. n : at[k] = 2 * k
  <2> DEFINE T == { k \in 0 .. n : at[k] = 2 * k }
  <2>1. 0 \in T
    BY <1>1, <1>7
  <2>2. \A k \in 0 .. n - 1 : k \in T => k + 1 \in T
    <3> SUFFICES ASSUME NEW k \in 0 .. n - 1, at[k] = 2 * k PROVE k + 1 \in T
      OBVIOUS
    <3>1. k + 1 \in 1 .. n /\ (k + 1) - 1 = k /\ k + 1 \in 0 .. n
      BY <1>1
    <3>2. at[k + 1] = at[k] + 2
      BY <1>7, <3>1
    <3> QED
      BY <3>1, <3>2
  <2> HIDE DEF T
  <2>3. \A k \in 0 .. n : k \in T
    BY <1>1, <2>1, <2>2, InductionTo
  <2> QED
    BY <2>3 DEF T
<1>9. Len(s) = 2 * n
  <2>1. n \in 0 .. n
    BY <1>1
  <2> QED
    BY <1>6, <1>8, <2>1
<1>10. ASSUME NEW j \in 1 .. n
       PROVE  s[2 * j - 1] = <<"value", l[j].value>> /\ s[2 * j] = <<"color", l[j].color>>
  <2>1. /\ Len(parts[j]) = 2 /\ parts[j][1] = <<"value", l[j].value>>
        /\ parts[j][2] = <<"color", l[j].color>>
    BY <1>1, <1>2, <1>4
  <2>2. j - 1 \in 0 .. n /\ 1 \in 1 .. 2 /\ 2 \in 1 .. 2
    BY <1>1
  <2>3. at[j - 1] = 2 * (j - 1)
    BY <1>8, <2>2
  <2>4. s[at[j - 1] + 1] = parts[j][1] /\ s[at[j - 1] + 2] = parts[j][2]
    BY <1>6, <2>1, <2>2
  <2>5. 2 * (j - 1) + 1 = 2 * j - 1 /\ 2 * (j - 1) + 2 = 2 * j
    OBVIOUS
  <2> QED
    BY <2>1, <2>3, <2>4, <2>5
<1> QED
  BY <1>1, <1>s, <1>9, <1>10 DEF n

\* The fields of an output.
OutputFieldsOf(o) ==
  << <<"address", o.address>>, U32(Len(o.balances)) >>
    \o FlattenSeq([k \in DOMAIN o.balances |-> BalanceFields(o.balances[k])])

Output == [address : Addresses, balances : Seq(balance_t)]

LEMMA OutputShape ==
  ASSUME NEW o \in Output
  PROVE  LET s == OutputFieldsOf(o)
             m == Len(o.balances)
         IN  /\ s \in Seq(Field) /\ m \in Nat /\ Len(s) = 2 + 2 * m
             /\ s[1] = <<"address", o.address>> /\ s[2] = U32(m)
             /\ \A j \in 1 .. m : /\ s[2 * j + 1] = <<"value", o.balances[j].value>>
                                  /\ s[2 * j + 2] = <<"color", o.balances[j].color>>
<1> DEFINE s == OutputFieldsOf(o)
           l == o.balances
           m == Len(l)
           b == FlattenSeq([k \in DOMAIN l |-> BalanceFields(l[k])])
           h == << <<"address", o.address>>, U32(m) >>
<1>1. l \in Seq(balance_t) /\ m \in Nat /\ o.address \in Addresses
  BY DEF Output
<1>2. s = h \o b
  BY DEF OutputFieldsOf
<1>3. <<"address", o.address>> \in Field /\ U32(m) \in Field
  BY <1>1 DEF Field, U32
<1>4. h \in Seq(Field) /\ Len(h) = 2 /\ h[1] = <<"address", o.address>> /\ h[2] = U32(m)
  <2> HIDE DEF Field, m
  <2> QED
    BY <1>3
<1> HIDE DEF l
<1>5. /\ b \in Seq(Field) /\ Len(b) = 2 * m
      /\ \A j \in 1 .. m : /\ b[2 * j - 1] = <<"value", l[j].value>>
                           /\ b[2 * j] = <<"color", l[j].color>>
  BY <1>1, BalancesShape, Zenon
<1> HIDE DEF h, b, m, s, Field
<1>6. /\ s \in Seq(Field) /\ Len(s) = 2 + 2 * m
      /\ s[1] = h[1] /\ s[2] = h[2]
      /\ \A i \in 1 .. 2 * m : s[2 + i] = b[i]
  <2>a. h \o b \in Seq(Field) /\ Joined(h \o b, h, b)
    BY <1>4, <1>5, ConcatIndex
  <2>1. /\ s \in Seq(Field) /\ Len(s) = Len(h) + Len(b)
        /\ \A i \in 1 .. Len(h) : s[i] = h[i]
        /\ \A i \in 1 .. Len(b) : s[Len(h) + i] = b[i]
    BY <1>2, <2>a DEF Joined
  <2>2. 1 \in 1 .. 2 /\ 2 \in 1 .. 2
    OBVIOUS
  <2> QED
    BY <1>4, <1>5, <2>1, <2>2
<1>7. ASSUME NEW j \in 1 .. m
      PROVE  /\ s[2 * j + 1] = <<"value", l[j].value>>
             /\ s[2 * j + 2] = <<"color", l[j].color>>
  <2>1. /\ 2 * j - 1 \in 1 .. 2 * m /\ 2 * j \in 1 .. 2 * m
        /\ 2 + (2 * j - 1) = 2 * j + 1 /\ 2 + 2 * j = 2 * j + 2
    BY <1>1
  <2> QED
    BY <1>5, <1>6, <2>1
<1> QED
  BY <1>1, <1>4, <1>6, <1>7 DEF s, m, l

\* Where the outputs start in the text: at[k] fields of outputs are before
\* output k + 1.
Starts(at, said) ==
  /\ at \in [0 .. Len(said.outputs) -> Nat] /\ at[0] = 0
  /\ \A k \in 1 .. Len(said.outputs) :
       /\ at[k] = at[k - 1] + 2 + 2 * Len(said.outputs[k].balances)
       /\ at[k] <= at[Len(said.outputs)]

\* A text that starts with an essence has these fields.
StartsWith(s, said, at) ==
  LET nin  == Len(said.inputs)
      nout == Len(said.outputs)
      Out(k) == nin + 2 + at[k - 1]
  IN  /\ s[1] = U32(nin)
      /\ \A i \in 1 .. nin : s[i + 1] = said.inputs[i]
      /\ s[nin + 2] = U32(nout)
      /\ \A k \in 1 .. nout :
           /\ s[Out(k) + 1] = <<"address", said.outputs[k].address>>
           /\ s[Out(k) + 2] = U32(Len(said.outputs[k].balances))
           /\ \A j \in 1 .. Len(said.outputs[k].balances) :
                /\ s[Out(k) + (2 * j + 1)] = <<"value", said.outputs[k].balances[j].value>>
                /\ s[Out(k) + (2 * j + 2)] = <<"color", said.outputs[k].balances[j].color>>
      /\ s[nin + at[nout] + 3] = U32(0)

LEMMA EssenceShape ==
  ASSUME NEW said \in Sayings
  PROVE  /\ EssenceOf(said) \in Seq(Field)
         /\ \E at : /\ Starts(at, said)
                    /\ Len(EssenceOf(said)) = Len(said.inputs) + at[Len(said.outputs)] + 3
                    /\ StartsWith(EssenceOf(said), said, at)
<1> DEFINE ins == said.inputs
           outs == said.outputs
           nin == Len(ins)
           nout == Len(outs)
           parts == [k \in DOMAIN outs |-> OutputFieldsOf(outs[k])]
           p == FlattenSeq(parts)
           a == <<U32(nin)>>
           b == <<U32(nout)>>
           c == <<U32(0)>>
           S == Seq(Field)
           e == EssenceOf(said)
<1>1. /\ ins \in Seq(OutputIds) /\ nin \in Nat /\ outs \in Seq(Output) /\ nout \in Nat
      /\ DOMAIN outs = 1 .. nout /\ \A k \in 1 .. nout : outs[k] \in Output
  <2>1. ins \in Seq(OutputIds) /\ outs \in Seq(Output)
    BY DEF Sayings, Output
  <2> HIDE DEF ins, outs
  <2> QED
    BY <2>1
<1>2. e = (((a \o ins) \o b) \o p) \o c
  BY DEF EssenceOf, OutputFieldsOf
<1>3. U32(nin) \in Field /\ U32(nout) \in Field /\ U32(0) \in Field
  BY <1>1 DEF Field, U32
<1>4. ins \in S
  <2>1. OutputIds \subseteq Field
    BY DEF Field
  <2> HIDE DEF Field, ins
  <2> QED
    BY <1>1, <2>1, SeqMonotonic
<1>5. a \in S /\ b \in S /\ c \in S /\ Len(a) = 1 /\ Len(b) = 1 /\ Len(c) = 1
      /\ a[1] = U32(nin) /\ b[1] = U32(nout) /\ c[1] = U32(0)
  <2> HIDE DEF Field, nin, nout
  <2> QED
    BY <1>3
<1> HIDE DEF ins, outs, nin, nout, e
<1>6. parts \in [1 .. nout -> S] /\ \A k \in 1 .. nout : parts[k] = OutputFieldsOf(outs[k])
  <2> HIDE DEF Field
  <2> QED
    BY <1>1, OutputShape
<1> HIDE DEF parts, S
<1>7. parts \in Seq(S) /\ Len(parts) = nout
  BY <1>1, <1>6, MapSeq
<1>8. p \in S
  BY <1>7, FlattenParts, Zenon DEF S
<1>9. PICK at : /\ Begins(at, parts)
                /\ Len(p) = at[Len(parts)]
                /\ \A k \in 1 .. Len(parts) :
                     /\ at[k] <= at[Len(parts)]
                     /\ \A i \in 1 .. Len(parts[k]) : p[at[k - 1] + i] = parts[k][i]
  BY <1>7, FlattenParts, Zenon DEF S
<1> HIDE DEF p, a, b, c
<1>10. /\ at \in [0 .. nout -> Nat] /\ at[0] = 0 /\ Len(p) = at[nout]
       /\ \A k \in 1 .. nout :
            /\ at[k] = at[k - 1] + Len(parts[k]) /\ at[k] <= at[nout]
            /\ \A i \in 1 .. Len(parts[k]) : p[at[k - 1] + i] = parts[k][i]
  BY <1>7, <1>9 DEF Begins
<1> DEFINE ai == a \o ins
           aib == ai \o b
           aibp == aib \o p
<1>11. ai \in S /\ Joined(ai, a, ins)
  BY <1>4, <1>5, ConcatIndex DEF S
<1> HIDE DEF ai
<1>12. aib \in S /\ Joined(aib, ai, b)
  BY <1>5, <1>11, ConcatIndex DEF S
<1> HIDE DEF aib
<1>13. aibp \in S /\ Joined(aibp, aib, p)
  BY <1>8, <1>12, ConcatIndex DEF S
<1> HIDE DEF aibp
<1>14. aibp \o c \in S /\ Joined(aibp \o c, aibp, c)
  BY <1>5, <1>13, ConcatIndex DEF S
<1>15. e = aibp \o c
  BY <1>2 DEF aibp, aib, ai
<1>16. Len(p) \in Nat /\ Len(p) = at[nout] /\ 1 \in 1 .. 1
  <2>1. nout \in 0 .. nout
    BY <1>1
  <2> QED
    BY <1>10, <2>1
<1>17. /\ Len(a) = 1 /\ Len(ai) = 1 + nin /\ Len(aib) = nin + 2
       /\ Len(aibp) = nin + 2 + Len(p) /\ Len(e) = nin + 3 + Len(p)
  BY <1>1, <1>5, <1>11, <1>12, <1>13, <1>14, <1>15, <1>16 DEF nin, Joined
<1>18. \A i \in 1 .. nin + 2 : e[i] = aib[i]
  BY <1>1, <1>13, <1>14, <1>15, <1>16, <1>17 DEF Joined
<1>19. \A i \in 1 .. nin + 1 : e[i] = ai[i]
  BY <1>1, <1>12, <1>17, <1>18 DEF Joined
<1>20. e[1] = U32(nin) /\ \A i \in 1 .. nin : e[i + 1] = ins[i]
  <2>1. 1 \in 1 .. nin + 1 /\ \A i \in 1 .. nin : i + 1 \in 1 .. nin + 1 /\ i + 1 = 1 + i
    BY <1>1
  <2>2. e[1] = U32(nin)
    BY <1>5, <1>11, <1>16, <1>19, <2>1 DEF Joined
  <2>3. \A i \in 1 .. nin : ai[1 + i] = ins[i]
    BY <1>5, <1>11 DEF nin, Joined
  <2> QED
    BY <1>19, <2>1, <2>2, <2>3
<1>21. e[nin + 2] = U32(nout)
  <2>1. nin + 2 \in 1 .. nin + 2 /\ nin + 2 = (1 + nin) + 1
    BY <1>1
  <2> QED
    BY <1>5, <1>12, <1>16, <1>17, <1>18, <2>1 DEF Joined
<1>22. \A i \in 1 .. Len(p) : e[nin + 2 + i] = p[i]
  <2> SUFFICES ASSUME NEW i \in 1 .. Len(p) PROVE e[nin + 2 + i] = p[i]
    OBVIOUS
  <2>1. nin + 2 + i \in 1 .. Len(aibp)
    BY <1>1, <1>16, <1>17
  <2> QED
    BY <1>13, <1>14, <1>15, <1>17, <2>1 DEF Joined
<1>23. e[nin + at[nout] + 3] = U32(0)
  <2>1. nin + at[nout] + 3 = (nin + 2 + Len(p)) + 1
    BY <1>1, <1>16
  <2> QED
    BY <1>5, <1>14, <1>15, <1>16, <1>17, <2>1 DEF Joined
<1>24. ASSUME NEW k \in 1 .. nout
       PROVE  LET o == outs[k]
                  m == Len(o.balances)
                  q == nin + 2 + at[k - 1]
              IN  /\ at[k] = at[k - 1] + 2 + 2 * m
                  /\ e[q + 1] = <<"address", o.address>> /\ e[q + 2] = U32(m)
                  /\ \A j \in 1 .. m :
                       /\ e[q + (2 * j + 1)] = <<"value", o.balances[j].value>>
                       /\ e[q + (2 * j + 2)] = <<"color", o.balances[j].color>>
  <2> DEFINE o == outs[k]
             m == Len(o.balances)
             q == nin + 2 + at[k - 1]
             f == OutputFieldsOf(o)
             start == at[k - 1]
  <2>1. parts[k] = f /\ o \in Output
    BY <1>1, <1>6
  <2> HIDE DEF o
  <2>2. /\ m \in Nat /\ Len(f) = 2 + 2 * m
        /\ f[1] = <<"address", o.address>> /\ f[2] = U32(m)
        /\ \A j \in 1 .. m : /\ f[2 * j + 1] = <<"value", o.balances[j].value>>
                             /\ f[2 * j + 2] = <<"color", o.balances[j].color>>
    BY <2>1, OutputShape, Zenon
  <2> HIDE DEF f, m
  <2>3. k - 1 \in 0 .. nout
    BY <1>1
  <2>4. /\ start \in Nat /\ at[k] = start + (2 + 2 * m) /\ at[k] <= Len(p)
        /\ \A i \in 1 .. 2 + 2 * m : p[start + i] = f[i]
    BY <1>10, <1>16, <2>1, <2>2, <2>3
  <2>5. q = nin + 2 + start
    OBVIOUS
  <2> HIDE DEF start, q
  <2>6. \A i \in 1 .. 2 + 2 * m : e[q + i] = f[i]
    <3> SUFFICES ASSUME NEW i \in 1 .. 2 + 2 * m PROVE e[q + i] = f[i]
      OBVIOUS
    <3>1. start + i \in 1 .. Len(p) /\ nin + 2 + (start + i) = q + i
      BY <1>1, <1>16, <2>2, <2>4, <2>5
    <3>2. e[nin + 2 + (start + i)] = p[start + i]
      BY <1>22, <3>1
    <3> QED
      BY <2>4, <3>1, <3>2
  <2>7. 1 \in 1 .. 2 + 2 * m /\ 2 \in 1 .. 2 + 2 * m
    BY <2>2
  <2>8. \A j \in 1 .. m : 2 * j + 1 \in 1 .. 2 + 2 * m /\ 2 * j + 2 \in 1 .. 2 + 2 * m
    BY <2>2
  <2>9. at[k] = at[k - 1] + 2 + 2 * m
    BY <2>2, <2>4 DEF start
  <2>10. /\ e[q + 1] = <<"address", o.address>> /\ e[q + 2] = U32(m)
         /\ \A j \in 1 .. m :
              /\ e[q + (2 * j + 1)] = <<"value", o.balances[j].value>>
              /\ e[q + (2 * j + 2)] = <<"color", o.balances[j].color>>
    BY <2>2, <2>6, <2>7, <2>8
  <2> QED
    BY <2>9, <2>10 DEF o, m, q
<1>25. Starts(at, said)
  BY <1>10, <1>24, Zenon DEF Starts, outs, nout
<1>26. StartsWith(e, said, at)
  BY <1>20, <1>21, <1>23, <1>24, Zenon DEF StartsWith, ins, nin, outs, nout
<1>27. Len(e) = nin + at[nout] + 3 /\ e \in Seq(Field)
  BY <1>1, <1>14, <1>15, <1>16, <1>17 DEF S, Joined
<1> QED
  BY <1>25, <1>26, <1>27, Zenon DEF e, ins, nin, outs, nout

\* The fields are still there when something follows.
LEMMA StartsWithMore ==
  ASSUME NEW said \in Sayings, NEW at, Starts(at, said), NEW e, NEW s,
         StartsWith(e, said, at),
         \A i \in 1 .. Len(said.inputs) + at[Len(said.outputs)] + 3 : s[i] = e[i]
  PROVE  StartsWith(s, said, at)
<1> DEFINE nin == Len(said.inputs)
           nout == Len(said.outputs)
           all == at[nout]
           M(k) == Len(said.outputs[k].balances)
<1>1. /\ nin \in Nat /\ nout \in Nat /\ all \in Nat
      /\ \A k \in 1 .. nout : M(k) \in Nat
  <2>1. said.inputs \in Seq(OutputIds) /\ said.outputs \in Seq(Output)
    BY DEF Sayings, Output
  <2>2. nin \in Nat /\ nout \in Nat /\ \A k \in 1 .. nout : said.outputs[k] \in Output
    BY <2>1
  <2>3. \A o \in Output : Len(o.balances) \in Nat
    BY DEF Output
  <2> HIDE DEF nin, nout
  <2>4. nout \in 0 .. nout
    BY <2>2
  <2> QED
    BY <2>2, <2>3, <2>4 DEF Starts, nout
<1>2. \A i \in 1 .. nin + all + 3 : s[i] = e[i]
  OBVIOUS
<1> HIDE DEF nin, all
<1>3. s[1] = e[1] /\ s[nin + 2] = e[nin + 2] /\ s[nin + all + 3] = e[nin + all + 3]
      /\ \A i \in 1 .. nin : s[i + 1] = e[i + 1]
  BY <1>1, <1>2
<1>4. ASSUME NEW k \in 1 .. nout
      PROVE  \A i \in 1 .. 2 + 2 * M(k) : s[nin + 2 + at[k - 1] + i] = e[nin + 2 + at[k - 1] + i]
  <2> DEFINE q == at[k - 1]
             m == M(k)
  <2>1. q \in Nat /\ m \in Nat /\ at[k] = q + 2 + 2 * m /\ at[k] <= all
    <3>1. k - 1 \in 0 .. nout
      BY <1>1
    <3> QED
      BY <1>1, <3>1 DEF Starts, all
  <2> HIDE DEF q, m
  <2>2. \A i \in 1 .. 2 + 2 * m : nin + 2 + q + i \in 1 .. nin + all + 3
    BY <1>1, <2>1
  <2>3. \A i \in 1 .. 2 + 2 * m : s[nin + 2 + q + i] = e[nin + 2 + q + i]
    BY <1>2, <2>2
  <2> QED
    BY <2>3 DEF q, m
<1>5. \A k \in 1 .. nout : 1 \in 1 .. 2 + 2 * M(k) /\ 2 \in 1 .. 2 + 2 * M(k)
  BY <1>1
<1>6. \A k \in 1 .. nout : \A j \in 1 .. M(k) :
        2 * j + 1 \in 1 .. 2 + 2 * M(k) /\ 2 * j + 2 \in 1 .. 2 + 2 * M(k)
  BY <1>1
<1> HIDE DEF M
<1>7. \A k \in 1 .. nout :
        /\ s[nin + 2 + at[k - 1] + 1] = e[nin + 2 + at[k - 1] + 1]
        /\ s[nin + 2 + at[k - 1] + 2] = e[nin + 2 + at[k - 1] + 2]
  BY <1>4, <1>5, Zenon
<1>8. \A k \in 1 .. nout : \A j \in 1 .. M(k) :
        /\ s[nin + 2 + at[k - 1] + (2 * j + 1)] = e[nin + 2 + at[k - 1] + (2 * j + 1)]
        /\ s[nin + 2 + at[k - 1] + (2 * j + 2)] = e[nin + 2 + at[k - 1] + (2 * j + 2)]
  BY <1>4, <1>6, Zenon
<1> QED
  BY <1>3, <1>7, <1>8, Zenon DEF StartsWith, nin, nout, all, M

\* An output is read from where it starts.
LEMMA OutputReads ==
  ASSUME NEW S, NEW s \in Seq(S), NEW o \in Output, NEW p \in Nat, NEW outs,
         LET m == Len(o.balances)
         IN  /\ p + 2 + 2 * m <= Len(s)
             /\ s[p + 1] = <<"address", o.address>> /\ s[p + 2] = U32(m)
             /\ \A j \in 1 .. m : /\ s[p + (2 * j + 1)] = <<"value", o.balances[j].value>>
                                  /\ s[p + (2 * j + 2)] = <<"color", o.balances[j].color>>
  PROVE  ReadOutput([pos |-> p + 1, outs |-> outs], s)
           = [pos |-> p + 3 + 2 * Len(o.balances), outs |-> Append(outs, Tagged(o))]
<1> DEFINE m == Len(o.balances)
           acc == [pos |-> p + 1, outs |-> outs]
           n == s[acc.pos + 1][2]
           B(k) == balance_from_bytes(SubSeq(s, acc.pos + 2 * k, acc.pos + 2 * k + 1))
           C(k) == [value |-> <<"value", o.balances[k].value>>,
                    color |-> <<"color", o.balances[k].color>>]
<1>1. m \in Nat /\ DOMAIN o.balances = 1 .. m
  BY DEF Output
<1>2. acc.pos = p + 1 /\ acc.outs = outs /\ acc.pos + 1 = p + 2
  OBVIOUS
<1>3. n = m
  BY <1>2 DEF U32
<1>4. ASSUME NEW k \in 1 .. m PROVE B(k) = C(k)
  <2> DEFINE i == p + (2 * k + 1)
             t == SubSeq(s, i, i + 1)
  <2>1. i \in Int /\ i + 1 = p + (2 * k + 2) /\ i >= 1 /\ i + 1 <= Len(s)
    <3>1. p + 2 + 2 * m <= Len(s) /\ Len(s) \in Nat /\ m \in Nat
      BY <1>1
    <3> HIDE DEF m
    <3> QED
      BY <3>1
  <2>2. acc.pos + 2 * k = i /\ acc.pos + 2 * k + 1 = i + 1
    BY <1>2
  <2>3. s[i] = <<"value", o.balances[k].value>> /\ s[i + 1] = <<"color", o.balances[k].color>>
    BY <2>1
  <2> HIDE DEF i
  <2>4. t[1] = s[i] /\ t[2] = s[i + 1]
    <3>1. \A j \in i .. i + 1 : s[j] \in S
      BY <2>1
    <3>2. \A j \in 1 .. (i + 1) - i + 1 : t[j] = s[i + j - 1]
      BY <2>1, <3>1, SubSeqProperties
    <3>3. 1 \in 1 .. (i + 1) - i + 1 /\ 2 \in 1 .. (i + 1) - i + 1
          /\ i + 1 - 1 = i /\ i + 2 - 1 = i + 1
      BY <2>1
    <3> HIDE DEF t
    <3> QED
      BY <3>2, <3>3
  <2>5. B(k) = balance_from_bytes(t)
    BY <2>2
  <2> HIDE DEF B, t
  <2> QED
    BY <2>3, <2>4, <2>5 DEF balance_from_bytes
<1>5. Tagged(o) = [address |-> <<"address", o.address>>, balances |-> [k \in 1 .. m |-> C(k)]]
  BY <1>1 DEF Tagged
<1>6. ReadOutput(acc, s)
        = [pos |-> acc.pos + 2 + 2 * n,
           outs |-> Append(acc.outs, [address |-> s[acc.pos], balances |-> [k \in 1 .. n |-> B(k)]])]
  BY DEF ReadOutput
<1>7. [k \in 1 .. n |-> B(k)] = [k \in 1 .. m |-> C(k)]
  <2> HIDE DEF B, C, n, m
  <2> QED
    BY <1>3, <1>4
<1>8. acc.pos + 2 + 2 * n = p + 3 + 2 * m
  <2> HIDE DEF n, m
  <2> QED
    BY <1>1, <1>2, <1>3
<1>9. s[acc.pos] = <<"address", o.address>>
  BY <1>2
<1> HIDE DEF B, C, n, m
<1> QED
  BY <1>2, <1>5, <1>6, <1>7, <1>8, <1>9 DEF m, acc

\* Where the reader is after k outputs, and what it has read.
Reading(said, at) ==
  [k \in 0 .. Len(said.outputs) |->
     [pos  |-> Len(said.inputs) + 3 + at[k],
      outs |-> [j \in 1 .. k |-> Tagged(said.outputs[j])]]]

LEMMA ReadsOutputs ==
  ASSUME NEW said \in Sayings, NEW at, Starts(at, said), NEW S, NEW s \in Seq(S),
         StartsWith(s, said, at), Len(s) >= Len(said.inputs) + at[Len(said.outputs)] + 3
  PROVE  ReadOutputs(s) = Reading(said, at)[Len(said.outputs)]
<1> DEFINE nin == Len(said.inputs)
           nout == Len(said.outputs)
           x == s[1][2]
           y == s[x + 2][2]
           first == [pos |-> x + 3, outs |-> <<>>]
           Is(f) == f = [k \in 0 .. y |-> IF k = 0 THEN first ELSE ReadOutput(f[k - 1], s)]
           read == CHOOSE f : Is(f)
           c == Reading(said, at)
<1>1. /\ nin \in Nat /\ nout \in Nat /\ at \in [0 .. nout -> Nat] /\ at[0] = 0
      /\ \A k \in 1 .. nout : said.outputs[k] \in Output
  <2>1. said.inputs \in Seq(OutputIds) /\ said.outputs \in Seq(Output)
    BY DEF Sayings, Output
  <2> QED
    BY <2>1 DEF Starts
<1>2. x = nin
  BY DEF StartsWith, U32
<1>3. y = nout
  <2>1. s[nin + 2] = U32(nout)
    BY DEF StartsWith
  <2> HIDE DEF x, nin, nout
  <2> QED
    BY <1>2, <2>1 DEF U32
<1>4. ReadOutputs(s) = read[y]
  BY DEF ReadOutputs
<1> HIDE DEF y, x
<1>5. c = [k \in 0 .. nout |->
             [pos |-> nin + 3 + at[k], outs |-> [j \in 1 .. k |-> Tagged(said.outputs[j])]]]
  BY DEF Reading
<1>6. c[0] = first
  <2>1. 0 \in 0 .. nout
    BY <1>1
  <2>2. [j \in 1 .. 0 |-> Tagged(said.outputs[j])] = <<>>
    OBVIOUS
  <2>3. c[0] = [pos |-> nin + 3 + at[0], outs |-> [j \in 1 .. 0 |-> Tagged(said.outputs[j])]]
    BY <1>5, <2>1
  <2>4. nin + 3 + at[0] = x + 3
    BY <1>1, <1>2
  <2> HIDE DEF c, nin, nout
  <2> QED
    BY <2>2, <2>3, <2>4
<1>7. ASSUME NEW k \in 1 .. nout PROVE c[k] = ReadOutput(c[k - 1], s)
  <2> DEFINE o == said.outputs[k]
             m == Len(o.balances)
             p == nin + 2 + at[k - 1]
             outs == [j \in 1 .. k - 1 |-> Tagged(said.outputs[j])]
  <2>1. k - 1 \in 0 .. nout /\ k \in 0 .. nout /\ nout \in 0 .. nout
    BY <1>1
  <2> DEFINE before == at[k - 1]
             after == at[k]
             all == at[nout]
  <2>2. before \in Nat /\ after \in Nat /\ all \in Nat /\ o \in Output
    BY <1>1, <2>1
  <2>3. m \in Nat
    BY <2>2 DEF Output
  <2>4. after = before + 2 + 2 * m /\ after <= all
    BY DEF Starts
  <2>e. Len(s) >= nin + all + 3 /\ Len(s) \in Nat /\ nin \in Nat
    BY <1>1
  <2>5. p \in Nat /\ p + 2 + 2 * m <= Len(s) /\ nin + 3 + before = p + 1
        /\ p + 3 + 2 * m = nin + 3 + after
    <3>1. p = nin + 2 + before
      OBVIOUS
    <3> HIDE DEF nin, nout, m, p, before, after, all
    <3> QED
      BY <2>2, <2>3, <2>4, <2>e, <3>1
  <2>6. /\ s[p + 1] = <<"address", o.address>> /\ s[p + 2] = U32(m)
        /\ \A j \in 1 .. m : /\ s[p + (2 * j + 1)] = <<"value", o.balances[j].value>>
                             /\ s[p + (2 * j + 2)] = <<"color", o.balances[j].color>>
    BY DEF StartsWith
  <2> HIDE DEF o, p, outs, nin, nout, c
  <2>7. ReadOutput([pos |-> p + 1, outs |-> outs], s)
          = [pos |-> p + 3 + 2 * m, outs |-> Append(outs, Tagged(o))]
    BY <2>2, <2>5, <2>6, OutputReads, Zenon
  <2>8. c[k - 1] = [pos |-> p + 1, outs |-> outs]
    <3>1. nin + 3 + at[k - 1] = p + 1
      BY <2>5
    <3> QED
      BY <1>5, <2>1, <3>1 DEF outs
  <2>9. p + 3 + 2 * m = nin + 3 + at[k]
    BY <2>5
  <2>10. Append(outs, Tagged(o)) = [j \in 1 .. k |-> Tagged(said.outputs[j])]
    <3> DEFINE every == [j \in 1 .. k |-> Tagged(said.outputs[j])]
               T == { Tagged(said.outputs[j]) : j \in 1 .. k }
               g == Append(outs, Tagged(o))
    <3>1. k - 1 \in Nat /\ k \in Nat /\ (k - 1) + 1 = k /\ k \in 1 .. k
          /\ 1 .. k - 1 \subseteq 1 .. k
      BY <1>1
    <3>2. outs \in [1 .. k - 1 -> T] /\ every \in [1 .. k -> T] /\ Tagged(o) \in T
      BY <3>1 DEF outs, o
    <3>3. \A j \in 1 .. k - 1 : outs[j] = every[j]
      BY <3>1 DEF outs
    <3>4. every[k] = Tagged(o)
      BY <3>1 DEF o
    <3> HIDE DEF T, every
    <3>5. outs \in Seq(T) /\ Len(outs) = k - 1 /\ every \in Seq(T) /\ Len(every) = k
      BY <3>1, <3>2, MapSeq
    <3>6. /\ g \in Seq(T) /\ Len(g) = (k - 1) + 1 /\ g[(k - 1) + 1] = Tagged(o)
          /\ \A j \in 1 .. k - 1 : g[j] = outs[j]
      BY <3>2, <3>5, AppendProperties
    <3> HIDE DEF g
    <3>7. \A j \in 1 .. k : g[j] = every[j]
      <4> SUFFICES ASSUME NEW j \in 1 .. k PROVE g[j] = every[j]
        OBVIOUS
      <4>1. j = k \/ j \in 1 .. k - 1
        BY <3>1
      <4> QED
        BY <3>1, <3>3, <3>4, <3>6, <4>1
    <3>8. g = every
      BY <3>1, <3>5, <3>6, <3>7, SeqEqual
    <3> QED
      BY <3>8 DEF g, every
  <2>11. c[k] = [pos |-> nin + 3 + at[k], outs |-> [j \in 1 .. k |-> Tagged(said.outputs[j])]]
    BY <1>5, <2>1
  <2> QED
    BY <2>7, <2>8, <2>9, <2>10, <2>11
<1> HIDE DEF c, nout, nin, first
<1>8. Is(c)
  <2>1. c = [k \in 0 .. nout |-> c[k]]
    BY <1>5
  <2>2. \A k \in 0 .. nout : k # 0 => k \in 1 .. nout
    BY <1>1
  <2>3. \A k \in 0 .. nout : c[k] = IF k = 0 THEN first ELSE ReadOutput(c[k - 1], s)
    BY <1>6, <1>7, <2>2
  <2> QED
    BY <1>3, <2>1, <2>3
<1>9. Is(read)
  BY <1>8
<1>10. \A k \in 0 .. nout : read[k] = IF k = 0 THEN first ELSE ReadOutput(read[k - 1], s)
  BY <1>3, <1>9
<1> HIDE DEF read, Is
<1>11. \A k \in 0 .. nout : read[k] = c[k]
  <2> DEFINE T == { k \in 0 .. nout : read[k] = c[k] }
  <2>1. 0 \in T
    BY <1>1, <1>6, <1>10
  <2>2. \A k \in 0 .. nout - 1 : k \in T => k + 1 \in T
    <3> SUFFICES ASSUME NEW k \in 0 .. nout - 1, read[k] = c[k] PROVE k + 1 \in T
      OBVIOUS
    <3> DEFINE j == k + 1
    <3>1. j \in 1 .. nout /\ j \in 0 .. nout /\ j - 1 = k /\ j # 0
      BY <1>1
    <3> HIDE DEF j
    <3>2. read[j] = ReadOutput(read[j - 1], s) /\ c[j] = ReadOutput(c[j - 1], s)
      BY <1>7, <1>10, <3>1
    <3>3. j \in T
      BY <3>1, <3>2
    <3> QED
      BY <3>3 DEF j
  <2> HIDE DEF T
  <2>3. \A k \in 0 .. nout : k \in T
    BY <1>1, <2>1, <2>2, InductionTo
  <2> QED
    BY <2>3 DEF T
<1>12. nout \in 0 .. nout
  BY <1>1
<1> QED
  BY <1>3, <1>4, <1>11, <1>12 DEF c, nout

\* What is serialised can be read: the text of an essence, whatever follows it,
\* reads as what was said.
LEMMA ReadsBack ==
  ASSUME NEW said \in Sayings, NEW R, NEW rest \in Seq(R)
  PROVE  ReadsAs(EssenceOf(said) \o rest, said, rest)
<1> DEFINE e == EssenceOf(said)
           s == e \o rest
           nin == Len(said.inputs)
           nout == Len(said.outputs)
           S == Field \union R
           end == <<U32(0)>> \o rest
<1>1. PICK at : /\ Starts(at, said) /\ Len(e) = nin + at[nout] + 3 /\ StartsWith(e, said, at)
  BY EssenceShape
<1> DEFINE all == at[nout]
<1>2. e \in Seq(S) /\ rest \in Seq(S)
  <2>1. e \in Seq(Field)
    BY EssenceShape
  <2> HIDE DEF e
  <2> QED
    BY <2>1, SeqMonotonic
<1>3. /\ nin \in Nat /\ nout \in Nat /\ said.inputs \in Seq(S) /\ all \in Nat
      /\ DOMAIN said.outputs = 1 .. nout
  <2>1. said.inputs \in Seq(OutputIds) /\ said.outputs \in Seq(Output)
    BY DEF Sayings, Output
  <2>2. OutputIds \subseteq S
    BY DEF Field
  <2> HIDE DEF S
  <2>3. said.inputs \in Seq(S)
    BY <2>1, <2>2, SeqMonotonic
  <2>4. nin \in Nat /\ nout \in Nat /\ DOMAIN said.outputs = 1 .. nout
    BY <2>1
  <2>5. nout \in 0 .. nout
    BY <2>4
  <2> QED
    BY <1>1, <2>3, <2>4, <2>5 DEF Starts
<1>4. U32(0) \in S
  BY DEF Field, U32
<1> HIDE DEF S, e, nin, nout, all
<1>5. s \in Seq(S) /\ Joined(s, e, rest)
  BY <1>2, ConcatIndex
<1>6. end \in Seq(S) /\ Len(end) = 1 + Len(rest) /\ end[1] = U32(0)
      /\ \A i \in 1 .. Len(rest) : end[1 + i] = rest[i]
  <2> DEFINE z == <<U32(0)>>
  <2>1. z \in Seq(S) /\ Len(z) = 1 /\ z[1] = U32(0)
    BY <1>4
  <2>2. end = z \o rest
    OBVIOUS
  <2> HIDE DEF z, end
  <2>3. end \in Seq(S) /\ Joined(end, z, rest)
    BY <1>2, <2>1, <2>2, ConcatIndex
  <2>4. 1 \in 1 .. 1
    OBVIOUS
  <2> QED
    BY <2>1, <2>3, <2>4 DEF Joined
<1> HIDE DEF s, end
<1>7. Len(e) = nin + all + 3 /\ Len(rest) \in Nat /\ Len(s) = nin + all + 3 + Len(rest)
  BY <1>1, <1>5 DEF Joined, all
<1>8. StartsWith(s, said, at)
  <2>1. \A i \in 1 .. nin + all + 3 : s[i] = e[i]
    BY <1>5, <1>7 DEF Joined
  <2> QED
    BY <1>1, <2>1, StartsWithMore, Zenon DEF nin, nout, all
<1>9. s[1] = U32(nin) /\ (\A i \in 1 .. nin : s[i + 1] = said.inputs[i])
      /\ s[nin + all + 3] = U32(0)
  BY <1>8 DEF StartsWith, nin, nout, all
<1>10. s[1][2] = nin
  BY <1>9 DEF U32
<1>11. SubSeq(s, 2, s[1][2] + 1) = said.inputs
  <2>1. \A i \in 1 .. nin : 2 - 1 + i = i + 1
    BY <1>3
  <2>2. \A i \in 1 .. Len(said.inputs) : s[2 - 1 + i] = said.inputs[i]
    BY <1>9, <2>1 DEF nin
  <2>3. /\ 2 \in Nat /\ nin + 1 \in Nat /\ 1 <= 2 /\ nin + 1 <= Len(s)
        /\ (nin + 1) - 2 + 1 = Len(said.inputs)
    BY <1>3, <1>7 DEF nin
  <2>4. SubSeq(s, 2, nin + 1) = said.inputs
    BY <1>3, <1>5, <2>2, <2>3, PartIs
  <2> QED
    BY <1>10, <2>4
<1>12. ReadOutputs(s) = [pos |-> nin + 3 + all, outs |-> [j \in 1 .. nout |-> Tagged(said.outputs[j])]]
  <2>1. Len(s) >= nin + all + 3
    BY <1>3, <1>7
  <2>2. ReadOutputs(s) = Reading(said, at)[nout]
    BY <1>1, <1>5, <1>8, <2>1, ReadsOutputs DEF nin, nout, all
  <2>3. nout \in 0 .. nout
    BY <1>3
  <2> QED
    BY <2>2, <2>3 DEF Reading, nin, nout, all
<1>13. SubSeq(s, nin + 3 + all, Len(s)) = end
  <2> DEFINE m == nin + 3 + all
             n == Len(s)
  <2>1. m \in Nat /\ n \in Nat /\ 1 <= m /\ n <= Len(s) /\ n - m + 1 = Len(end)
    <3>1. m = nin + 3 + all /\ n = nin + all + 3 + Len(rest) /\ n = Len(s)
      BY <1>7
    <3> HIDE DEF m, n
    <3>2. m \in Nat /\ n \in Nat /\ 1 <= m /\ n - m + 1 = 1 + Len(rest) /\ n <= n
      BY <1>3, <1>7, <3>1
    <3> QED
      BY <1>6, <3>1, <3>2
  <2>2. ASSUME NEW i \in 1 .. Len(end) PROVE s[m - 1 + i] = end[i]
    <3>1. CASE i = 1
      <4>1. m - 1 + i = nin + all + 3
        BY <1>3, <3>1
      <4> QED
        BY <1>6, <1>9, <3>1, <4>1
    <3>2. CASE i # 1
      <4>1. i - 1 \in 1 .. Len(rest) /\ 1 + (i - 1) = i /\ m - 1 + i = Len(e) + (i - 1)
        BY <1>3, <1>6, <1>7, <3>2
      <4>2. s[Len(e) + (i - 1)] = rest[i - 1] /\ end[1 + (i - 1)] = rest[i - 1]
        BY <1>5, <1>6, <4>1 DEF Joined
      <4> QED
        BY <4>1, <4>2
    <3> QED
      BY <3>1, <3>2
  <2> HIDE DEF m, n
  <2>3. SubSeq(s, m, n) = end
    BY <1>5, <1>6, <2>1, <2>2, PartIs
  <2> QED
    BY <2>3 DEF m, n
<1>14. ReadsAs(s, said, rest)
  <2> DEFINE read == ReadOutputs(s)
  <2>1. read.pos = nin + 3 + all
        /\ read.outs = [k \in DOMAIN said.outputs |-> Tagged(said.outputs[k])]
    BY <1>3, <1>12
  <2> HIDE DEF read
  <2>2. SubSeq(s, read.pos, Len(s)) = <<U32(0)>> \o rest
    BY <1>13, <2>1 DEF end
  <2> QED
    BY <1>11, <2>1, <2>2 DEF ReadsAs, read
<1> QED
  BY <1>14 DEF s, e

\* So the essence determines the transaction.
LEMMA EssenceDetermines ==
  ASSUME NEW a \in Sayings, NEW b \in Sayings, EssenceOf(a) = EssenceOf(b)
  PROVE  a = b
<1> DEFINE s == EssenceOf(a) \o <<>>
<1>1. ReadsAs(s, a, <<>>) /\ ReadsAs(s, b, <<>>)
  <2>1. <<>> \in Seq({})
    OBVIOUS
  <2>2. ReadsAs(EssenceOf(a) \o <<>>, a, <<>>) /\ ReadsAs(EssenceOf(b) \o <<>>, b, <<>>)
    BY <2>1, ReadsBack
  <2> QED
    BY <2>2
<1> HIDE DEF s
<1>2. /\ a.inputs = b.inputs
      /\ [k \in DOMAIN a.outputs |-> Tagged(a.outputs[k])]
           = [k \in DOMAIN b.outputs |-> Tagged(b.outputs[k])]
  BY <1>1 DEF ReadsAs
<1>3. a.outputs \in Seq(Output) /\ b.outputs \in Seq(Output)
  BY DEF Sayings, Output
<1> DEFINE A == [k \in DOMAIN a.outputs |-> Tagged(a.outputs[k])]
           B == [k \in DOMAIN b.outputs |-> Tagged(b.outputs[k])]
<1>4. DOMAIN A = DOMAIN B /\ A = B
  BY <1>2
<1>5. DOMAIN a.outputs = DOMAIN b.outputs
  BY <1>4
<1>6. ASSUME NEW k \in DOMAIN a.outputs PROVE a.outputs[k] = b.outputs[k]
  <2> DEFINE o == a.outputs[k]
             p == b.outputs[k]
  <2>1. o \in Output /\ p \in Output
    BY <1>3, <1>5
  <2>2. Tagged(o) = Tagged(p)
    <3>1. A[k] = B[k] /\ A[k] = Tagged(o) /\ B[k] = Tagged(p)
      BY <1>4, <1>5
    <3> QED
      BY <3>1
  <2> HIDE DEF o, p, A, B
  <2>3. /\ o.address \in Addresses /\ o.balances \in Seq(balance_t)
        /\ p.address \in Addresses /\ p.balances \in Seq(balance_t)
        /\ o = [address |-> o.address, balances |-> o.balances]
        /\ p = [address |-> p.address, balances |-> p.balances]
    BY <2>1 DEF Output
  <2>4. o.address = p.address
    BY <2>2 DEF Tagged
  <2> DEFINE l == o.balances
             m == p.balances
             T(v) == [k_1 \in DOMAIN v |->
                       [value |-> <<"value", v[k_1].value>>, color |-> <<"color", v[k_1].color>>]]
  <2>5. T(l) = T(m)
    BY <2>2 DEF Tagged
  <2>6. DOMAIN l = DOMAIN m
    <3>1. DOMAIN T(l) = DOMAIN l /\ DOMAIN T(m) = DOMAIN m
      OBVIOUS
    <3> HIDE DEF T
    <3> QED
      BY <2>5, <3>1
  <2>7. ASSUME NEW j \in DOMAIN l PROVE l[j] = m[j]
    <3>1. l[j] \in balance_t /\ m[j] \in balance_t
      <4> HIDE DEF l, m
      <4> QED
        BY <2>3, <2>6 DEF l, m
    <3>2. T(l)[j] = T(m)[j]
      BY <2>5
    <3>3. [value |-> <<"value", l[j].value>>, color |-> <<"color", l[j].color>>]
            = [value |-> <<"value", m[j].value>>, color |-> <<"color", m[j].color>>]
      BY <2>6, <3>2
    <3> HIDE DEF l, m, T
    <3>4. l[j].value = m[j].value /\ l[j].color = m[j].color
      BY <3>3
    <3> QED
      BY <3>1, <3>4 DEF balance_t
  <2>8. l = m
    <3> HIDE DEF T
    <3>1. l \in Seq(balance_t) /\ m \in Seq(balance_t)
      BY <2>3
    <3> HIDE DEF l, m
    <3>2. Len(l) = Len(m) /\ \A j \in 1 .. Len(l) : l[j] = m[j]
      BY <2>6, <2>7, <3>1
    <3> QED
      BY <3>1, <3>2, SeqEqual
  <2>9. o = p
    BY <2>3, <2>4, <2>8
  <2> QED
    BY <2>9 DEF o, p
<1>7. a.outputs = b.outputs
  <2> HIDE DEF A, B
  <2>1. Len(a.outputs) = Len(b.outputs) /\ \A k \in 1 .. Len(a.outputs) : a.outputs[k] = b.outputs[k]
    BY <1>3, <1>5, <1>6
  <2> QED
    BY <1>3, <2>1, SeqEqual
<1> QED
  BY <1>2, <1>7 DEF Sayings

\* The parts of TxInv that the text of the essence depends on.
Typed ==
  /\ Built
  /\ inputs \in Seq(OutputIds) /\ outputs \in Seq(tx_output_t)
  /\ \A k \in DOMAIN outputs : outputs[k].balances \in DOMAIN lists
  /\ \A p \in DOMAIN lists : lists[p] \in Seq(balance_t)

\* The second pass writes what is said.
LEMMA SecondPass ==
  ASSUME Typed
  PROVE  Said \in Sayings /\ EssenceFields = EssenceOf(Said)
<1> DEFINE n == Len(outputs)
           L(k) == lists[outputs[k].balances]
           O(k) == [address |-> outputs[k].address, balances |-> L(k)]
           outs == [k \in DOMAIN outputs |-> O(k)]
<1>1. n \in Nat /\ DOMAIN outputs = 1 .. n /\ \A k \in 1 .. n : outputs[k] \in tx_output_t
  BY DEF Typed
<1>2. ASSUME NEW k \in 1 .. n PROVE O(k) \in Output
  <2>1. outputs[k].address \in Addresses /\ outputs[k].balances \in DOMAIN lists
    BY <1>1 DEF tx_output_t, Typed
  <2>2. L(k) \in Seq(balance_t)
    BY <2>1 DEF Typed
  <2> HIDE DEF L
  <2> QED
    BY <2>1, <2>2 DEF Output
<1>3. outs \in [1 .. n -> Output] /\ \A k \in 1 .. n : outs[k] = O(k)
  <2> HIDE DEF O
  <2> QED
    BY <1>1, <1>2
<1> HIDE DEF outs
<1>4. outs \in Seq(Output) /\ Len(outs) = n /\ DOMAIN outs = 1 .. n
  BY <1>1, <1>3, MapSeq
<1>5. Said = [inputs |-> inputs, outputs |-> outs]
  BY DEF Said, outs
<1>6. Said \in Sayings
  BY <1>4, <1>5 DEF Typed, Sayings, Output
<1>7. EssenceFields = EssenceOf(Said)
  <2> DEFINE B(l) == FlattenSeq([k \in DOMAIN l |-> BalanceFields(l[k])])
             F(k) == << <<"address", outputs[k].address>>, U32(Len(L(k))) >> \o B(L(k))
             G(o) == << <<"address", o.address>>, U32(Len(o.balances)) >> \o B(o.balances)
  <2>1. \A k \in 1 .. n : G(O(k)) = F(k)
    BY Zenon
  <2>2. [k \in DOMAIN outputs |-> F(k)] = [k \in DOMAIN outs |-> G(outs[k])]
    <3> HIDE DEF F, G, O
    <3> QED
      BY <1>1, <1>3, <1>4, <2>1
  <2>3. EssenceFields = <<U32(Len(inputs))>> \o inputs \o <<U32(n)>>
          \o FlattenSeq([k \in DOMAIN outputs |-> F(k)]) \o <<U32(0)>>
    BY DEF EssenceFields
  <2>4. EssenceOf(Said) = <<U32(Len(Said.inputs))>> \o Said.inputs
          \o <<U32(Len(Said.outputs))>>
          \o FlattenSeq([k \in DOMAIN Said.outputs |-> G(Said.outputs[k])]) \o <<U32(0)>>
    BY DEF EssenceOf
  <2>5. Said.inputs = inputs /\ Said.outputs = outs
    BY <1>5
  <2> HIDE DEF F, G, n
  <2> QED
    BY <1>4, <2>2, <2>3, <2>4, <2>5
<1> QED
  BY <1>6, <1>7

\* The first pass counts what the second writes.
LEMMA FirstPass ==
  ASSUME Typed
  PROVE  EssenceLen = Len(EssenceOf(Said))
<1> DEFINE n == Len(outputs)
           V == Nat
           D(o) == 1 + 1 + Len(lists[o.balances]) * 2
           E(v, o) == v + D(o)
           F == [x \in (1 .. n) \X V |-> E(x[2], outputs[x[1]])]
           Is(f) == f = [s \in SUBSET DOMAIN outputs |->
                           IF s = {} THEN 0 ELSE E(f[s \ {Max(s)}], outputs[Max(s)])]
           it == CHOOSE f : Is(f)
<1>1. n \in Nat /\ DOMAIN outputs = 1 .. n
  BY DEF Typed
<1>2. \A k \in 1 .. n : Len(lists[outputs[k].balances]) \in Nat
  BY <1>1 DEF Typed
<1>3. \A v \in V, k \in 1 .. n : E(v, outputs[k]) \in V
  BY <1>2
<1>4. 0 \in V
  OBVIOUS
<1> HIDE DEF n, V, E
<1>5. F \in [(1 .. n) \X V -> V]
  BY <1>3
<1> HIDE DEF F
<1>6. PICK f : IsFold(f, n, V, 0, F)
  BY <1>1, <1>4, <1>5, FoldExists
<1>7. Is(f)
  <2>1. /\ f \in [SUBSET (1 .. n) -> V]
        /\ \A s \in SUBSET (1 .. n) :
             f[s] = IF s = {} THEN 0 ELSE F[<<Max(s), f[s \ {Max(s)}]>>]
    BY <1>6 DEF IsFold
  <2>2. ASSUME NEW s \in SUBSET (1 .. n), s # {}
        PROVE  F[<<Max(s), f[s \ {Max(s)}]>>] = E(f[s \ {Max(s)}], outputs[Max(s)])
    <3>1. Max(s) \in 1 .. n
      BY <1>1, <2>2, MaxIn
    <3>2. f[s \ {Max(s)}] \in V
      BY <2>1
    <3> QED
      BY <3>1, <3>2 DEF F
  <2> QED
    BY <1>1, <2>1, <2>2
<1>8. Is(it)
  BY <1>7
<1>9. it[{}] = 0
  BY <1>1, <1>8
<1>10. \A k \in 1 .. n : it[1 .. k] = E(it[1 .. k - 1], outputs[k])
  <2> SUFFICES ASSUME NEW k \in 1 .. n PROVE it[1 .. k] = E(it[1 .. k - 1], outputs[k])
    OBVIOUS
  <2>1. /\ Max(1 .. k) = k /\ (1 .. k) \ {k} = 1 .. k - 1
        /\ 1 .. k \in SUBSET (1 .. n) /\ 1 .. k # {}
    BY <1>1, MaxOfInterval
  <2> QED
    BY <1>1, <1>8, <2>1
<1>11. EssenceLen = 1 + Len(inputs) + 1 + it[1 .. n] + 1
  BY <1>1 DEF EssenceLen, FoldLeft, MapThenFoldSet, E
<1> HIDE DEF it, Is
<1>12. /\ Said \in Sayings /\ Len(Said.outputs) = n /\ Said.inputs = inputs
       /\ \A k \in 1 .. n : Said.outputs[k].balances = lists[outputs[k].balances]
  <2> DEFINE outs == [k \in DOMAIN outputs |->
                        [address |-> outputs[k].address, balances |-> lists[outputs[k].balances]]]
  <2>1. Said \in Sayings
    BY SecondPass
  <2>2. Said.outputs = outs /\ Said.inputs = inputs
    BY DEF Said
  <2>3. DOMAIN outs = 1 .. n /\ \A k \in 1 .. n : outs[k].balances = lists[outputs[k].balances]
    BY <1>1
  <2>4. Said.outputs \in Seq(Output)
    BY <2>1 DEF Sayings, Output
  <2> HIDE DEF outs
  <2>5. DOMAIN Said.outputs = 1 .. Len(Said.outputs) /\ Len(Said.outputs) \in Nat
    BY <2>4
  <2>6. Len(Said.outputs) = n
    BY <1>1, <2>2, <2>3, <2>5
  <2> QED
    BY <2>1, <2>2, <2>3, <2>6
<1>13. PICK at : Starts(at, Said) /\ Len(EssenceOf(Said)) = Len(Said.inputs) + at[n] + 3
  BY <1>12, EssenceShape
<1>14. /\ at \in [0 .. n -> Nat] /\ at[0] = 0
       /\ \A k \in 1 .. n : at[k] = at[k - 1] + 2 + 2 * Len(lists[outputs[k].balances])
  <2>1. /\ at \in [0 .. n -> Nat] /\ at[0] = 0
        /\ \A k \in 1 .. n : at[k] = at[k - 1] + 2 + 2 * Len(Said.outputs[k].balances)
    BY <1>12, <1>13 DEF Starts
  <2> QED
    BY <1>12, <2>1
<1>15. \A k \in 0 .. n : at[k] = it[1 .. k]
  <2> DEFINE T == { k \in 0 .. n : at[k] = it[1 .. k] }
  <2>1. 0 \in T
    <3>1. 1 .. 0 = {} /\ 0 \in 0 .. n
      BY <1>1
    <3> QED
      BY <1>9, <1>14, <3>1
  <2>2. \A k \in 0 .. n - 1 : k \in T => k + 1 \in T
    <3> SUFFICES ASSUME NEW k \in 0 .. n - 1, at[k] = it[1 .. k] PROVE k + 1 \in T
      OBVIOUS
    <3> DEFINE j == k + 1
               m == Len(lists[outputs[j].balances])
    <3>1. j \in 1 .. n /\ j \in 0 .. n /\ j - 1 = k /\ k \in 0 .. n
      BY <1>1
    <3> HIDE DEF j
    <3>2. m \in Nat /\ at[k] \in Nat
      BY <1>2, <1>14, <3>1
    <3>3. at[j] = at[k] + 2 + 2 * m
      BY <1>14, <3>1
    <3>4. it[1 .. j] = E(at[k], outputs[j])
      BY <1>10, <3>1
    <3>5. E(at[k], outputs[j]) = at[k] + (1 + 1 + m * 2)
      BY DEF E
    <3> HIDE DEF m
    <3>6. at[k] + 2 + 2 * m = at[k] + (1 + 1 + m * 2)
      BY <3>2
    <3>7. j \in T
      BY <3>1, <3>3, <3>4, <3>5, <3>6
    <3> QED
      BY <3>7 DEF j
  <2> HIDE DEF T
  <2>3. \A k \in 0 .. n : k \in T
    BY <1>1, <2>1, <2>2, InductionTo
  <2> QED
    BY <2>3 DEF T
<1>16. n \in 0 .. n
  BY <1>1
<1>17. EssenceLen = 1 + Len(inputs) + 1 + at[n] + 1 /\ at[n] \in Nat /\ Len(inputs) \in Nat
  BY <1>11, <1>14, <1>15, <1>16 DEF Typed
<1> QED
  BY <1>12, <1>13, <1>17

\* A block that a text of its length is written into holds this text.
LEMMA WriteAll ==
  ASSUME NEW s \in Text, NEW n, Len(s) = n,
         NEW b, b = [len |-> n, cap |-> n, data |-> Write([i \in 1 .. n |-> Junk], 0, s)]
  PROVE  b.data = s /\ Content(b) = s /\ b \notin {Null, Corrupted}
<1> DEFINE T == Field \union SignatureField \union {Junk}
           block == [i \in 1 .. n |-> Junk]
<1>1. n \in Nat /\ DOMAIN s = 1 .. n /\ s \in Seq(T)
  BY DEF Text
<1>2. block \in Seq(T) /\ Len(block) = n
  <2>1. block \in [1 .. n -> T]
    OBVIOUS
  <2> HIDE DEF T, block
  <2> QED
    BY <1>1, <2>1, MapSeq
<1>3. s = [i \in 1 .. n |-> s[i]]
  BY <1>1
<1>4. Write(block, 0, s) = s
  <2>1. CASE s = <<>>
    <3>1. n = 0
      BY <1>1, <2>1
    <3>2. block = <<>>
      BY <3>1
    <3> QED
      BY <2>1, <3>2 DEF Write
  <2>2. CASE s # <<>>
    <3>1. Write(block, 0, s) = [i \in 1 .. n |-> IF i - 0 \in 1 .. n THEN s[i - 0] ELSE block[i]]
      BY <1>2, <2>2 DEF Write
    <3>2. \A i \in 1 .. n : i - 0 = i
      BY <1>1
    <3> HIDE DEF block
    <3> QED
      BY <1>3, <3>1, <3>2
  <2> QED
    BY <2>1, <2>2
<1>5. b = [len |-> n, cap |-> n, data |-> s]
  BY <1>4
<1>6. b.len = n /\ b.data = s /\ s # Null
  BY <1>5, TransactionUseAssumption
<1>7. Content(b) = s
  <2>1. Content(b) = [i \in 1 .. n |-> IF s # Null /\ i <= n THEN s[i] ELSE Junk]
    BY <1>6 DEF Content
  <2>2. \A i \in 1 .. n : i <= n
    BY <1>1
  <2> QED
    BY <1>3, <1>6, <2>1, <2>2
<1>8. b \notin {Null, Corrupted}
  BY <1>1, <1>5, TransactionUseAssumption
<1> QED
  BY <1>6, <1>7, <1>8

\* An essence that is made holds what is said, and without memory shortage it
\* is made.
LEMMA EssenceIs ==
  ASSUME Typed
  PROVE  /\ EssenceOf(Said) \in Text
         /\ \A e \in tx_essence \ {Null, Corrupted} :
              /\ Content(e) = EssenceOf(Said)
              /\ e = [len |-> Len(EssenceOf(Said)), cap |-> Len(EssenceOf(Said)),
                      data |-> EssenceOf(Said)]
         /\ \E e : /\ Sure!tx_essence = {e} /\ e \notin {Null, Corrupted}
                   /\ Content(e) = EssenceOf(Said)
<1> DEFINE s == EssenceOf(Said)
           n == Len(s)
           block == [i \in 1 .. n |-> Junk]
           b == [len |-> n, cap |-> n, data |-> Write(block, 0, s)]
<1>1. EssenceFields = s /\ EssenceLen = n /\ Null \notin {inputs, outputs}
  BY SecondPass, FirstPass DEF Typed, Built
<1>2. s \in Text
  <2>1. s \in Seq(Field)
    BY SecondPass, EssenceShape
  <2> HIDE DEF s
  <2> QED
    BY <2>1, SeqMonotonic DEF Text
<1> HIDE DEF s
<1>3. b.data = s /\ Content(b) = s /\ b \notin {Null, Corrupted}
  BY <1>2, WriteAll
<1>4. n \in Nat /\ Len(block) = n /\ block # Null
  <2> DEFINE T == Field \union SignatureField \union {Junk}
  <2>1. n \in Nat
    BY <1>2 DEF Text
  <2>2. block \in [1 .. n -> T]
    OBVIOUS
  <2> HIDE DEF n, T, block
  <2>3. block \in Seq(T) /\ Len(block) = n
    BY <2>1, <2>2, MapSeq
  <2>4. block \in Text
    BY <2>3 DEF Text, T
  <2>5. block # Null
    BY <2>4, TransactionUseAssumption
  <2> QED
    BY <2>1, <2>3, <2>5
<1> HIDE DEF n, block
<1>5. ASSUME NEW e \in tx_essence \ {Null, Corrupted} PROVE e = b
  <2>1. tx_essence = { IF q = Null THEN Null
                       ELSE IF n > Len(q) THEN Corrupted
                       ELSE [len |-> n, cap |-> n, data |-> Write(q, 0, s)] : q \in malloc(n) }
                     \union { p \in {Corrupted} : AllocMayFail }
    BY <1>1 DEF tx_essence, n
  <2>2. malloc(n) = {block} \union { p \in {Null} : AllocMayFail }
    BY DEF malloc, OrNull, block
  <2>3. PICK q \in {block, Null} : q # Null /\ e = [len |-> n, cap |-> n, data |-> Write(q, 0, s)]
    BY <2>1, <2>2
  <2> QED
    BY <2>3
<1>6. Sure!tx_essence = {b}
  <2>1. Sure!EssenceFields = EssenceFields /\ Sure!EssenceLen = EssenceLen
    BY Zenon DEF Sure!EssenceFields, EssenceFields, Sure!EssenceLen, EssenceLen,
                 Sure!U32, U32, Sure!BalanceFields, BalanceFields,
                 Sure!FlattenSeq, FlattenSeq, Sure!FoldLeft, FoldLeft,
                 Sure!MapThenFoldSet, MapThenFoldSet, Sure!Max, Max
  <2>2. Sure!malloc(n) = {block}
    BY DEF Sure!malloc, Sure!OrNull, block
  <2>3. ~ (n > Len(block))
    BY <1>4
  <2>4. Sure!Write(block, 0, s) = Write(block, 0, s)
    BY Zenon DEF Sure!Write, Write
  <2>5. Sure!tx_essence = { IF q = Null THEN Null
                            ELSE IF n > Len(q) THEN Corrupted
                            ELSE [len |-> n, cap |-> n, data |-> Sure!Write(q, 0, s)] :
                            q \in {block} }
    BY <1>1, <2>1, <2>2 DEF Sure!tx_essence, n
  <2> QED
    BY <1>4, <2>3, <2>4, <2>5
<1>7. b = [len |-> n, cap |-> n, data |-> s]
  <2>1. b.data = Write(block, 0, s)
    OBVIOUS
  <2> QED
    BY <1>3, <2>1
<1> HIDE DEF b
<1> QED
  BY <1>2, <1>3, <1>5, <1>6, <1>7 DEF s, n

-----------------------------------------------------------------------------
(* The signatures.                                                         *)

UniqueAddrs(t) == \A j, k \in DOMAIN t : t[j].address = t[k].address => j = k

\* Whatever allocation fails, the table has at most one signature for each
\* address, and each is that of a signer.
LEMMA SignAllOutcomes ==
  ASSUME NEW S, NEW signers \in Seq(S), NEW seed, NEW data,
         NEW t \in SignAll(seed, signers, data)
  PROVE  /\ t \in Seq({ SignatureOf(seed, signers[k], data) : k \in 1 .. Len(signers) })
         /\ UniqueAddrs(t)
<1> DEFINE n == Len(signers)
           R == { SignatureOf(seed, signers[k], data) : k \in 1 .. n }
           V == SUBSET { v \in Seq(R) : UniqueAddrs(v) }
<1>1. PICK g : /\ g[0] = {<<>>} /\ SignAll(seed, signers, data) = g[n]
               /\ \A k \in 1 .. n : g[k] = SignStep(seed, data, g[k - 1], signers[k])
  BY SignAllChain
<1>2. n \in Nat
  OBVIOUS
<1> HIDE DEF n
<1>3. g[0] \in V
  <2>1. <<>> \in Seq(R) /\ UniqueAddrs(<<>>)
    BY DEF UniqueAddrs
  <2> HIDE DEF R
  <2> QED
    BY <1>1, <2>1
<1>4. ASSUME NEW k \in 1 .. n, g[k - 1] \in V PROVE g[k] \in V
  <2> DEFINE e == SignatureOf(seed, signers[k], data)
  <2> SUFFICES ASSUME NEW v \in g[k - 1],
                      NEW u \in ed_signatures_add(v, signers[k].address,
                                   address_ed25519_keypair(seed, signers[k].addr_index),
                                   sign_signature(seed, signers[k].addr_index, data))
               PROVE  u \in Seq(R) /\ UniqueAddrs(u)
    BY <1>1 DEF SignStep
  <2>1. v \in Seq(R) /\ UniqueAddrs(v) /\ e \in R /\ e.address = signers[k].address
    BY <1>4 DEF SignatureOf
  <2>2. u = v \/ (u = Append(v, e) /\ \A j \in DOMAIN v : v[j].address # e.address)
    BY DEF ed_signatures_add, Added, HASH_FIND, SignatureOf
  <2> HIDE DEF R, e
  <2>3. CASE u = Append(v, e) /\ \A j \in DOMAIN v : v[j].address # e.address
    <3>1. /\ u \in Seq(R) /\ DOMAIN v = 1 .. Len(v) /\ DOMAIN u = 1 .. Len(v) + 1
          /\ Len(v) \in Nat /\ u[Len(v) + 1] = e /\ \A j \in 1 .. Len(v) : u[j] = v[j]
      BY <2>1, <2>3
    <3>2. \A j \in 1 .. Len(v) + 1 : j \in 1 .. Len(v) \/ j = Len(v) + 1
      BY <3>1
    <3> QED
      BY <2>1, <2>3, <3>1, <3>2 DEF UniqueAddrs
  <2> QED
    BY <2>1, <2>2, <2>3
<1> HIDE DEF V
<1>5. \A k \in 0 .. n : g[k] \in V
  BY <1>2, <1>3, <1>4, ChainIn
<1>6. n \in 0 .. n
  BY <1>2
<1> QED
  BY <1>1, <1>5, <1>6 DEF V, n

\* u has the entries of t but that of an address.
Removed(u, t, addr) ==
  /\ u \in Seq({ u[k] : k \in DOMAIN u }) /\ UniqueAddrs(u)
  /\ \A k \in DOMAIN u : \E j \in DOMAIN t : u[k] = t[j]
  /\ { u[k].address : k \in DOMAIN u } = { t[k].address : k \in DOMAIN t } \ {addr}

LEMMA Deleted ==
  ASSUME NEW S, NEW t \in Seq(S), UniqueAddrs(t), NEW addr,
         HASH_FIND(t, "address", addr) # {}
  PROVE  Removed(HASH_DEL(t, "address", addr), t, addr)
<1> DEFINE found == HASH_FIND(t, "address", addr)
           i == Min(found)
           n == Len(t)
           u == RemoveAt(t, i)
           from(k) == IF k < i THEN k ELSE k + 1
<1>1. n \in Nat /\ DOMAIN t = 1 .. n /\ \A k \in 1 .. n : t[k] \in S
  OBVIOUS
<1>2. found = { k \in 1 .. n : t[k].address = addr }
  BY DEF HASH_FIND
<1>3. i \in found
  <2>1. found \in SUBSET Nat /\ found # {}
    BY <1>2
  <2> HIDE DEF found
  <2>2. \E k \in found : \A m \in found : k <= m
    BY <2>1, LeastNat
  <2> QED
    BY <2>2 DEF Min
<1>4. HASH_DEL(t, "address", addr) = u
  BY DEF HASH_DEL
<1> HIDE DEF found, n, i
<1>5. i \in 1 .. n /\ t[i].address = addr
  BY <1>2, <1>3
<1>6. \A k \in 1 .. n : t[k].address = addr => k = i
  BY <1>1, <1>5 DEF UniqueAddrs
<1>7. /\ u \in Seq(S) /\ Len(u) = n - 1
      /\ \A k \in 1 .. n - 1 : u[k] = t[from(k)]
  BY <1>5, RemoveIndex DEF n
<1> HIDE DEF u
<1>10. DOMAIN u = 1 .. n - 1
  BY <1>7
<1>11. ASSUME NEW k \in 1 .. n - 1
       PROVE  u[k] = t[from(k)] /\ from(k) \in 1 .. n /\ from(k) # i
  <2>1. from(k) \in 1 .. n /\ from(k) # i
    BY <1>1, <1>5
  <2> QED
    BY <1>7, <2>1
<1>12. ASSUME NEW j \in 1 .. n, j # i PROVE \E k \in 1 .. n - 1 : from(k) = j
  <2>1. CASE j < i
    <3>1. j \in 1 .. n - 1 /\ from(j) = j
      BY <1>1, <1>5, <2>1
    <3> QED
      BY <3>1
  <2>2. CASE ~(j < i)
    <3>1. j - 1 \in 1 .. n - 1 /\ ~(j - 1 < i) /\ (j - 1) + 1 = j
      BY <1>1, <1>5, <1>12, <2>2
    <3>2. from(j - 1) = j
      BY <3>1
    <3> QED
      BY <3>1, <3>2
  <2> QED
    BY <2>1, <2>2
<1>13. \A j, k \in 1 .. n - 1 : from(j) = from(k) => j = k
  BY <1>1, <1>5
<1> HIDE DEF from
<1>14. UniqueAddrs(u)
  BY <1>1, <1>10, <1>11, <1>13 DEF UniqueAddrs
<1>15. \A k \in DOMAIN u : \E j \in DOMAIN t : u[k] = t[j]
  BY <1>1, <1>10, <1>11
<1>16. u \in Seq({ u[k] : k \in DOMAIN u })
  <2> DEFINE R == { u[k] : k \in DOMAIN u }
  <2>1. u \in [1 .. n - 1 -> R]
    <3>1. u = [k \in 1 .. n - 1 |-> u[k]]
      BY <1>7, <1>10
    <3> QED
      BY <1>10, <3>1
  <2>2. n - 1 \in Nat
    BY <1>1, <1>5
  <2> HIDE DEF R
  <2> QED
    BY <2>1, <2>2, MapSeq DEF R
<1>17. { u[k].address : k \in DOMAIN u } = { t[k].address : k \in DOMAIN t } \ {addr}
  <2>1. ASSUME NEW k \in DOMAIN u
        PROVE  u[k].address \in { t[j].address : j \in DOMAIN t } \ {addr}
    BY <1>1, <1>6, <1>10, <1>11
  <2>2. ASSUME NEW j \in DOMAIN t, t[j].address # addr
        PROVE  \E k \in DOMAIN u : u[k].address = t[j].address
    <3>1. j \in 1 .. n /\ j # i
      BY <1>1, <1>5, <2>2
    <3>2. PICK k \in 1 .. n - 1 : from(k) = j
      BY <1>12, <3>1
    <3> QED
      BY <1>10, <1>11, <3>2
  <2> QED
    BY <2>1, <2>2
<1> QED
  BY <1>4, <1>14, <1>15, <1>16, <1>17 DEF Removed

\* What TxInv says of a transaction that is built.
LEMMA IsTyped == ASSUME TxInv, Built PROVE Typed
<1>1. OwnInv /\ outputs \in Seq(tx_output_t)
  BY OwnLists DEF TxInv, ListsInv, Built
<1>2. \A k \in DOMAIN outputs : outputs[k].balances \in DOMAIN lists
  BY <1>1 DEF OwnInv, Held, Built
<1> QED
  BY <1>1, <1>2 DEF Typed, TxInv, Built

\* What the owner does with its own list is not said by the transaction.
LEMMA SaysTheSame ==
  ASSUME UNCHANGED <<inputs, outputs>>, outputs # Null, \A p \in Held : lists'[p] = lists[p]
  PROVE  Said' = Said
<1>1. \A k \in DOMAIN outputs : lists'[outputs[k].balances] = lists[outputs[k].balances]
  BY DEF Held
<1> QED
  BY <1>1 DEF Said

LEMMA TypesNext ==
  ASSUME TxInv, [Next]_vars
  PROVE  /\ inputs' # Null => inputs' \in Seq(OutputIds)
         /\ \A p \in DOMAIN lists' : lists'[p] \in Seq(balance_t)
<1> DEFINE In == inputs # Null => inputs \in Seq(OutputIds)
           Li == \A p \in DOMAIN lists : lists[p] \in Seq(balance_t)
<1> SUFFICES In' /\ Li'
  OBVIOUS
<1>1. In /\ Li /\ OwnInv
  BY OwnLists DEF TxInv, ListsInv
<1>2. ASSUME UNCHANGED inputs PROVE In'
  BY <1>1, <1>2
<1>3. ASSUME UNCHANGED heap PROVE Li'
  BY <1>1, <1>3 DEF heap
<1>4. CASE New
  <2>1. UNCHANGED heap /\ inputs' \in {inputs, <<>>} /\ <<>> \in Seq(OutputIds)
    BY <1>4 DEF New
  <2> QED
    BY <1>1, <1>3, <2>1
<1>5. ASSUME NEW id \in OutputIds, tx_inputs_push(id) PROVE In' /\ Li'
  <2>1. inputs \in Seq(OutputIds) /\ inputs' = Append(inputs, id) /\ UNCHANGED heap
    BY <1>1, <1>5 DEF tx_inputs_push
  <2>2. inputs' \in Seq(OutputIds)
    BY <2>1
  <2> QED
    BY <1>3, <2>1, <2>2
<1>6. ASSUME NEW p, NEW l \in Seq(balance_t), lists' = WithList(p, l) PROVE Li'
  BY <1>1, <1>6 DEF WithList
<1>7. CASE balance_list_new
  <2>1. lists' = WithList(list', <<>>) /\ UNCHANGED inputs /\ <<>> \in Seq(balance_t)
    BY <1>7 DEF balance_list_new, tx
  <2> QED
    BY <1>2, <1>6, <2>1
<1>8. ASSUME NEW l \in Seq(balance_t), ListUse(l) PROVE In' /\ Li'
  BY <1>1, <1>2, <1>8 DEF ListUse, tx
<1>9. ASSUME list # Null PROVE list \in DOMAIN lists /\ lists[list] \in Seq(balance_t)
  BY <1>1, <1>9 DEF OwnInv
<1>10. ASSUME NEW c \in Colors, NEW v \in Values, balance_list_push(balance_init(c, v))
       PROVE  In' /\ Li'
  <2>1. balance_init(c, v) \in balance_t
    BY DEF balance_init, balance_t, Color
  <2>2. list # Null /\ ListUse(Append(lists[list], balance_init(c, v)))
    BY <1>10 DEF balance_list_push
  <2>3. Append(lists[list], balance_init(c, v)) \in Seq(balance_t)
    BY <1>9, <2>1, <2>2, AppendProperties
  <2> QED
    BY <1>8, <2>2, <2>3
<1>11. CASE balance_list_pop
  <2>1. list # Null /\ lists[list] # <<>> /\ ListUse(Front(lists[list]))
    BY <1>11 DEF balance_list_pop
  <2> DEFINE l == lists[list]
             n == Len(l) - 1
  <2>2. l \in Seq(balance_t)
    BY <1>9, <2>1
  <2>3. Front(l) = SubSeq(l, 1, n)
    BY DEF Front
  <2>4. 1 \in Int /\ n \in Int /\ \A i \in 1 .. n : l[i] \in balance_t
    BY <2>2
  <2> HIDE DEF l, n
  <2>5. SubSeq(l, 1, n) \in Seq(balance_t)
    BY <2>4, SubSeqProperties
  <2>6. ListUse(Front(l))
    BY <2>1 DEF l
  <2> QED
    BY <1>8, <2>3, <2>5, <2>6
<1>12. CASE balance_list_free
  BY <1>1, <1>2, <1>12 DEF balance_list_free, tx
<1>13. ASSUME NEW a, NEW i, tx_outputs_push(a, i) PROVE In' /\ Li'
  <2>1. list # Null /\ UNCHANGED inputs /\ \E p : lists' = WithList(p, lists[list])
    BY <1>13 DEF tx_outputs_push
  <2> QED
    BY <1>2, <1>6, <1>9, <2>1
<1>14. ASSUME NEW how, NEW seed, NEW signers, NEW essence,
              SignWith(how, seed, signers, essence)
       PROVE  In' /\ Li'
  BY <1>2, <1>3, <1>14 DEF SignWith, tx
<1>15. ASSUME NEW addr, ed_signatures_remove(addr) PROVE In' /\ Li'
  BY <1>2, <1>3, <1>15 DEF ed_signatures_remove, tx
<1>16. CASE Free
  BY <1>1, <1>16 DEF Free
<1>17. CASE UNCHANGED vars
  BY <1>2, <1>3, <1>17 DEF vars, tx
<1>18. ASSUME NEW text \in OutputIds \union {NotBase58}, tx_inputs_push_base58(text)
       PROVE  In' /\ Li'
  BY <1>5, <1>18 DEF tx_inputs_push_base58
<1>19. ASSUME NEW seed, tx_sign(seed) PROVE In' /\ Li'
  BY <1>14, <1>19 DEF tx_sign
<1>20. ASSUME NEW seed, NEW index, wallet_sign_tx(seed, index) PROVE In' /\ Li'
  BY <1>14, <1>20 DEF wallet_sign_tx
<1> HIDE DEF In, Li
<1> QED
  BY <1>4, <1>5, <1>7, <1>10, <1>11, <1>12, <1>13, <1>15, <1>16, <1>17, <1>18, <1>19, <1>20
     DEF Next

\* A call that leaves the signatures alone, and changes nothing of what the
\* transaction says or takes note that it was changed.
LEMMA SameSignatures ==
  ASSUME SignaturesInv, SignedInv, UNCHANGED <<signatures, made>>,
         \/ signed' = Unsigned
         \/ UNCHANGED signed /\ UNCHANGED <<inputs, outputs>> /\ (Built => Said' = Said)
  PROVE  SignaturesInv' /\ SignedInv'
<1>1. SignaturesInv'
  BY DEF SignaturesInv, SignatureAddrs, OneSignatureEach
<1>2. SignedInv'
  <2>1. CASE signed' = Unsigned
    BY <2>1 DEF SignedInv, Unsigned
  <2>2. CASE UNCHANGED signed /\ UNCHANGED <<inputs, outputs>> /\ (Built => Said' = Said)
    <3>1. SignatureAddrs' = SignatureAddrs /\ (Built' <=> Built) /\ (Built => Said' = Said)
      BY <2>2 DEF SignatureAddrs, Built
    <3>2. made' = made /\ signed' = signed /\ outputs' = outputs
      BY <2>2
    <3> QED
      BY <3>1, <3>2 DEF SignedInv
  <2> QED
    BY <2>1, <2>2
<1> QED
  BY <1>1, <1>2

\* The two calls that sign.
LEMMA SignWithSigns ==
  ASSUME TxInv, Built, NEW S, NEW signers \in Seq(S), NEW seed \in Seeds, NEW how,
         NEW essence \in tx_essence, SignWith(how, seed, signers, essence),
         \A k \in 1 .. Len(signers) : signers[k].addr_index \in Indices,
         how = "tx_sign" => signers = outputs
  PROVE  SignaturesInv' /\ SignedInv'
<1>1. CASE essence = Corrupted
  <2>1. UNCHANGED <<inputs, outputs, signatures, made, signed, list, lists>>
    BY <1>1 DEF SignWith, tx, heap
  <2>2. Said' = Said
    BY <2>1 DEF Said
  <2> QED
    BY <2>1, <2>2, SameSignatures DEF TxInv
<1>2. CASE essence # Corrupted
  <2> DEFINE t == signatures'
             data == EssenceOf(Said)
             n == Len(signers)
             addrs == { t[k].address : k \in DOMAIN t }
  <2>1. essence # Null /\ t \in SignAll(seed, signers, Content(essence))
        /\ signed' = [how |-> how,
                      complete |-> \A k \in DOMAIN signers :
                                     HASH_FIND(t, "address", signers[k].address) # {}]
        /\ made' = [a \in addrs |-> Said]
        /\ UNCHANGED <<inputs, outputs, heap>>
    BY <1>2 DEF SignWith
  <2>2. Content(essence) = data /\ Said \in Sayings
    BY <1>2, <2>1, IsTyped, EssenceIs, SecondPass
  <2>3. t \in Seq({ SignatureOf(seed, signers[k], data) : k \in 1 .. n }) /\ UniqueAddrs(t)
    BY <2>1, <2>2, SignAllOutcomes
  <2>4. Said' = Said /\ Built'
    BY <2>1 DEF Said, heap, Built
  <2>5. SignatureAddrs' = addrs
    BY DEF SignatureAddrs
  <2> HIDE DEF t, data
  <2>6. ASSUME NEW k \in DOMAIN t
        PROVE  \E j \in 1 .. n : t[k] = SignatureOf(seed, signers[j], data)
    BY <2>3
  <2>7. t \in Seq({ t[k] : k \in DOMAIN t })
    <3> DEFINE R == { t[k] : k \in DOMAIN t }
               m == Len(t)
    <3>1. m \in Nat /\ DOMAIN t = 1 .. m /\ t = [k \in 1 .. m |-> t[k]]
      BY <2>3
    <3>2. t \in [1 .. m -> R]
      BY <3>1
    <3> HIDE DEF R, m
    <3> QED
      BY <3>1, <3>2, MapSeq DEF R
  <2>8. ASSUME NEW k \in DOMAIN t
        PROVE  /\ t[k].pub_key \in Seeds \X Indices
               /\ t[k].signature = [key |-> t[k].pub_key, data |-> EssenceOf(made'[t[k].address])]
    <3>1. PICK j \in 1 .. n : t[k] = SignatureOf(seed, signers[j], data)
      BY <2>6
    <3>2. /\ t[k].pub_key = <<seed, signers[j].addr_index>>
          /\ t[k].signature = [key |-> <<seed, signers[j].addr_index>>, data |-> data]
      BY <3>1 DEF SignatureOf, address_ed25519_keypair, get_subseed, sign_signature
    <3>3. made'[t[k].address] = Said
      BY <2>1
    <3>4. signers[j].addr_index \in Indices
      OBVIOUS
    <3> QED
      BY <3>2, <3>3, <3>4 DEF data
  <2>9. made' \in [SignatureAddrs' -> Sayings]
    BY <2>1, <2>2, <2>5
  <2>10. OneSignatureEach'
    BY <2>3 DEF OneSignatureEach, UniqueAddrs, t
  <2>11. SignaturesInv'
    BY <2>7, <2>8, <2>9, <2>10 DEF SignaturesInv, t
  <2>12. ASSUME how = "tx_sign"
         PROVE  /\ addrs \subseteq { outputs[k].address : k \in DOMAIN outputs }
                /\ signed'.complete => { outputs[k].address : k \in DOMAIN outputs } \subseteq addrs
    <3>1. signers = outputs /\ DOMAIN signers = 1 .. n
      BY <2>12
    <3>2. ASSUME NEW k \in DOMAIN t PROVE \E j \in DOMAIN outputs : t[k].address = outputs[j].address
      BY <2>6, <3>1 DEF SignatureOf
    <3>3. ASSUME NEW j \in DOMAIN outputs, signed'.complete PROVE outputs[j].address \in addrs
      <4>1. HASH_FIND(t, "address", outputs[j].address) # {}
        BY <2>1, <3>1, <3>3
      <4> QED
        BY <4>1 DEF HASH_FIND
    <3> QED
      BY <3>2, <3>3
  <2>13. SignedInv'
    <3>1. signed'.how = how
      BY <2>1
    <3>2. \A a \in DOMAIN made' : made'[a] = Said'
      BY <2>1, <2>4
    <3>3. outputs' = outputs
      BY <2>1
    <3> QED
      BY <2>4, <2>5, <2>12, <3>1, <3>2, <3>3 DEF SignedInv
  <2> QED
    BY <2>11, <2>13
<1> QED
  BY <1>1, <1>2

\* The wallet signs once for each address of an input.
LEMMA WalletSigners ==
  ASSUME inputs \in Seq(OutputIds), NEW index \in [InputAddrs -> Indices],
         NEW A, A = { [address |-> a, addr_index |-> index[a]] : a \in DOMAIN index }
  PROVE  /\ SetToSeq(A) \in Seq(A)
         /\ \A k \in 1 .. Len(SetToSeq(A)) : SetToSeq(A)[k].addr_index \in Indices
<1> DEFINE n == Len(inputs)
           s == [k \in 1 .. n |-> [address |-> inputs[k].addr, addr_index |-> index[inputs[k].addr]]]
<1>1. n \in Nat /\ DOMAIN inputs = 1 .. n
  OBVIOUS
<1>2. InputAddrs = { inputs[k].addr : k \in 1 .. n } /\ DOMAIN index = InputAddrs
  BY <1>1 DEF InputAddrs, ToSet
<1>3. s \in Surjection(1 .. n, A)
  <2>1. s \in [1 .. n -> A]
    BY <1>2
  <2>2. ASSUME NEW t \in A PROVE \E k \in 1 .. n : s[k] = t
    BY <1>2
  <2> HIDE DEF s
  <2> QED
    BY <2>1, <2>2 DEF Surjection
<1>4. IsFiniteSet(A)
  BY <1>1, <1>3, FS_NatSurjection DEF ExistsSurjection
<1>5. Cardinality(A) \in Nat /\ \E f \in [1 .. Cardinality(A) -> A] : IsInjective(f)
  BY <1>4, FS_CardinalityType DEF ExistsBijection, Bijection, Injection
<1>6. SetToSeq(A) \in [1 .. Cardinality(A) -> A]
  BY <1>5, Zenon DEF SetToSeq
<1> DEFINE q == SetToSeq(A)
<1>7. q \in Seq(A) /\ Len(q) = Cardinality(A) /\ DOMAIN q = 1 .. Cardinality(A)
  BY <1>5, <1>6, MapSeq
<1> HIDE DEF q
<1>8. ASSUME NEW k \in 1 .. Len(q) PROVE q[k].addr_index \in Indices
  <2>1. q[k] \in A
    BY <1>7
  <2> QED
    BY <2>1
<1> QED
  BY <1>7, <1>8 DEF q

LEMMA SignNext == TxInv /\ [Next]_vars => SignaturesInv' /\ SignedInv'
<1> SUFFICES ASSUME TxInv, [Next]_vars PROVE SignaturesInv' /\ SignedInv'
  OBVIOUS
<1>1. OwnInv /\ SignaturesInv /\ SignedInv
  BY OwnLists DEF TxInv, ListsInv
<1>2. ASSUME Changed, UNCHANGED signatures PROVE SignaturesInv' /\ SignedInv'
  BY <1>1, <1>2, SameSignatures DEF Changed
<1>3. ASSUME UNCHANGED <<tx, signed, made>>, Built => \A p \in Held : lists'[p] = lists[p]
      PROVE  SignaturesInv' /\ SignedInv'
  <2>1. UNCHANGED <<inputs, outputs, signatures, made, signed>>
    BY <1>3 DEF tx
  <2>2. Built => Said' = Said
    BY <1>3, <2>1, SaysTheSame DEF Built
  <2> QED
    BY <1>1, <2>1, <2>2, SameSignatures
<1>4. list \notin Held /\ Held \subseteq DOMAIN lists
  BY <1>1 DEF OwnInv
<1>5. ASSUME UNCHANGED <<tx, heap, signed, made>> PROVE SignaturesInv' /\ SignedInv'
  BY <1>3, <1>5 DEF heap
<1>6. CASE New
  BY <1>2, <1>6 DEF New
<1>7. ASSUME NEW id, tx_inputs_push(id) PROVE SignaturesInv' /\ SignedInv'
  BY <1>2, <1>7 DEF tx_inputs_push
<1>8. CASE balance_list_new
  <2>1. /\ UNCHANGED <<tx, signed, made>> /\ list' \notin DOMAIN lists
        /\ lists' = WithList(list', <<>>)
    BY <1>8 DEF balance_list_new, Unused
  <2>2. \A p \in Held : lists'[p] = lists[p]
    BY <1>4, <2>1 DEF WithList
  <2> QED
    BY <1>3, <2>1, <2>2
<1>9. ASSUME NEW l, ListUse(l) PROVE SignaturesInv' /\ SignedInv'
  <2>1. UNCHANGED <<tx, signed, made>> /\ \A p \in Held : lists'[p] = lists[p]
    BY <1>4, <1>9 DEF ListUse
  <2> QED
    BY <1>3, <2>1
<1>10. CASE balance_list_free
  <2>1. UNCHANGED <<tx, signed, made>> /\ \A p \in Held : lists'[p] = lists[p]
    BY <1>4, <1>10 DEF balance_list_free
  <2> QED
    BY <1>3, <2>1
<1>11. ASSUME NEW a, NEW i, tx_outputs_push(a, i) PROVE SignaturesInv' /\ SignedInv'
  BY <1>2, <1>11 DEF tx_outputs_push
<1>12. ASSUME NEW how, NEW seed \in Seeds, NEW S, NEW signers, NEW essence \in tx_essence,
              SignWith(how, seed, signers, essence),
              Built => /\ signers \in Seq(S)
                       /\ \A k \in 1 .. Len(signers) : signers[k].addr_index \in Indices
                       /\ how = "tx_sign" => signers = outputs
       PROVE  SignaturesInv' /\ SignedInv'
  <2>1. CASE Built
    BY <1>12, <2>1, SignWithSigns
  <2>2. CASE ~Built
    <3>1. essence = Corrupted
      BY <2>2 DEF tx_essence, Built
    <3>2. UNCHANGED <<tx, heap, signed, made>>
      BY <1>12, <3>1 DEF SignWith
    <3> QED
      BY <1>5, <3>2
  <2> QED
    BY <2>1, <2>2
<1>13. ASSUME NEW seed \in Seeds, tx_sign(seed) PROVE SignaturesInv' /\ SignedInv'
  <2>1. PICK essence \in tx_essence : SignWith("tx_sign", seed, outputs, essence)
    BY <1>13 DEF tx_sign
  <2>2. outputs \in Seq(tx_output_t)
    BY <1>13 DEF tx_sign, TxInv, ListsInv
  <2>3. \A k \in 1 .. Len(outputs) : outputs[k].addr_index \in Indices
    <3>1. \A o \in tx_output_t : o.addr_index \in Indices
      BY DEF tx_output_t
    <3> QED
      BY <2>2, <3>1
  <2> QED
    BY <1>12, <2>1, <2>2, <2>3
<1>14. ASSUME NEW seed \in Seeds, NEW index \in [InputAddrs -> Indices],
              wallet_sign_tx(seed, index)
       PROVE  SignaturesInv' /\ SignedInv'
  <2> DEFINE A == { [address |-> a, addr_index |-> index[a]] : a \in DOMAIN index }
  <2>1. PICK essence \in tx_essence : SignWith("wallet", seed, SetToSeq(A), essence)
    BY <1>14 DEF wallet_sign_tx
  <2>2. inputs \in Seq(OutputIds)
    BY <1>14 DEF wallet_sign_tx, TxInv
  <2>3. /\ SetToSeq(A) \in Seq(A)
        /\ \A k \in 1 .. Len(SetToSeq(A)) : SetToSeq(A)[k].addr_index \in Indices
    BY <2>2, WalletSigners
  <2> HIDE DEF A
  <2> QED
    BY <1>12, <2>1, <2>3
<1>15. ASSUME NEW addr, ed_signatures_remove(addr) PROVE SignaturesInv' /\ SignedInv'
  <2>1. CASE HASH_FIND(signatures, "address", addr) = {}
    BY <1>5, <1>15, <2>1 DEF ed_signatures_remove
  <2>2. CASE HASH_FIND(signatures, "address", addr) # {}
    <3> DEFINE t == signatures
               u == signatures'
    <3>1. /\ u = HASH_DEL(t, "address", addr)
          /\ made' = [a \in DOMAIN made \ {addr} |-> made[a]]
          /\ signed' = Unsigned
      BY <1>15, <2>2 DEF ed_signatures_remove
    <3>2. t \in Seq({ t[k] : k \in DOMAIN t }) /\ UniqueAddrs(t)
      BY <1>1 DEF SignaturesInv, OneSignatureEach, UniqueAddrs
    <3>3. /\ u \in Seq({ u[k] : k \in DOMAIN u }) /\ UniqueAddrs(u)
          /\ \A k \in DOMAIN u : \E j \in DOMAIN t : u[k] = t[j]
          /\ { u[k].address : k \in DOMAIN u } = { t[k].address : k \in DOMAIN t } \ {addr}
      <4> DEFINE S == { t[k] : k \in DOMAIN t }
      <4>1. t \in Seq(S)
        BY <3>2
      <4> HIDE DEF S, u, t
      <4>2. HASH_FIND(t, "address", addr) # {}
        BY <2>2 DEF t
      <4>3. Removed(HASH_DEL(t, "address", addr), t, addr)
        BY <3>2, <4>1, <4>2, Deleted
      <4>4. Removed(u, t, addr)
        BY <3>1, <4>3
      <4> QED
        BY <4>4 DEF Removed
    <3>4. made' \in [SignatureAddrs' -> Sayings]
      <4>1. made \in [SignatureAddrs -> Sayings] /\ SignatureAddrs' = SignatureAddrs \ {addr}
        BY <1>1, <3>3 DEF SignaturesInv, SignatureAddrs
      <4> QED
        BY <3>1, <4>1
    <3>5. ASSUME NEW k \in DOMAIN u
          PROVE  /\ u[k].pub_key \in Seeds \X Indices
                 /\ u[k].signature = [key |-> u[k].pub_key, data |-> EssenceOf(made'[u[k].address])]
      <4>1. PICK j \in DOMAIN t : u[k] = t[j]
        BY <3>3
      <4>2. /\ t[j].pub_key \in Seeds \X Indices
            /\ t[j].signature = [key |-> t[j].pub_key, data |-> EssenceOf(made[t[j].address])]
        BY <1>1 DEF SignaturesInv
      <4>3. u[k].address \in DOMAIN made'
        BY <3>4 DEF SignatureAddrs
      <4>4. made'[u[k].address] = made[u[k].address]
        BY <3>1, <4>3
      <4> QED
        BY <4>1, <4>2, <4>4
    <3>6. OneSignatureEach'
      BY <3>3 DEF OneSignatureEach, UniqueAddrs
    <3>7. SignaturesInv'
      BY <3>3, <3>4, <3>5, <3>6 DEF SignaturesInv
    <3>8. SignedInv'
      BY <3>1 DEF SignedInv, Unsigned
    <3> QED
      BY <3>7, <3>8
  <2> QED
    BY <2>1, <2>2
<1>16. CASE Free
  <2>1. signatures' = <<>> /\ made' = <<>> /\ signed' = Unsigned
    BY <1>16 DEF Free
  <2>2. SignatureAddrs' = {} /\ DOMAIN signatures' = {} /\ signatures' \in Seq({})
    BY <2>1 DEF SignatureAddrs
  <2>3. made' \in [{} -> Sayings]
    BY <2>1
  <2>4. SignaturesInv'
    BY <2>2, <2>3 DEF SignaturesInv, OneSignatureEach
  <2> QED
    BY <2>1, <2>4 DEF SignedInv, Unsigned
<1>17. CASE UNCHANGED vars
  BY <1>5, <1>17 DEF vars
<1>18. ASSUME NEW text, tx_inputs_push_base58(text) PROVE SignaturesInv' /\ SignedInv'
  BY <1>7, <1>18 DEF tx_inputs_push_base58
<1>19. ASSUME NEW b, balance_list_push(b) PROVE SignaturesInv' /\ SignedInv'
  BY <1>9, <1>19 DEF balance_list_push
<1>20. CASE balance_list_pop
  BY <1>9, <1>20 DEF balance_list_pop
<1> QED
  BY <1>6, <1>7, <1>8, <1>10, <1>11, <1>13, <1>14, <1>15, <1>16, <1>17, <1>18, <1>19, <1>20
     DEF Next

LEMMA TxInit == Init => TxInv
<1> SUFFICES ASSUME Init PROVE TxInv
  OBVIOUS
<1>1. /\ inputs = Null /\ outputs = Null /\ signatures = <<>> /\ lists = <<>>
      /\ signed = Unsigned /\ made = <<>>
  BY DEF Init
<1>2. SignatureAddrs = {} /\ DOMAIN signatures = {} /\ signatures \in Seq({})
  BY <1>1 DEF SignatureAddrs
<1>3. made \in [{} -> Sayings]
  BY <1>1
<1>4. SignaturesInv
  BY <1>2, <1>3 DEF SignaturesInv, OneSignatureEach
<1> QED
  BY <1>1, <1>4, ListsInit DEF TxInv, SignedInv, Unsigned

LEMMA TxNext == TxInv /\ [Next]_vars => TxInv'
<1> SUFFICES ASSUME TxInv, [Next]_vars PROVE TxInv'
  OBVIOUS
<1>1. ListsInv'
  BY ListsNext DEF TxInv
<1>2. /\ inputs' # Null => inputs' \in Seq(OutputIds)
      /\ \A p \in DOMAIN lists' : lists'[p] \in Seq(balance_t)
  BY TypesNext
<1> QED
  BY <1>1, <1>2, SignNext DEF TxInv

LEMMA TxInvHolds == Spec => []TxInv
BY TxInit, TxNext, PTL DEF Spec

\* Whatever is allocated or fails: the outputs point to lists that are there,
\* and each signature has its key beside it and is recorded.
THEOREM TxIsTyped == Spec => []TxTypeOK
<1>1. ASSUME TxInv PROVE TxTypeOK
  <2>1. OwnInv /\ SignaturesInv
    BY <1>1, OwnLists DEF TxInv, ListsInv
  <2>2. outputs # Null => \A k \in DOMAIN outputs : outputs[k].balances \in DOMAIN lists
    BY <2>1 DEF OwnInv, Held
  <2>3. list \in DOMAIN lists \union {Null}
    BY <2>1 DEF OwnInv
  <2> QED
    BY <2>1, <2>2, <2>3 DEF TxTypeOK, SignaturesInv, SignatureAddrs
<1> QED
  BY <1>1, TxInvHolds, PTL

\* No address has two signatures, whatever is signed, removed and signed again
\* (ed_signatures_add, ed_signatures_remove).
THEOREM OneSignatureForEach == Spec => []OneSignatureEach
<1>1. TxInv => OneSignatureEach
  BY DEF TxInv, SignaturesInv
<1> QED
  BY <1>1, TxInvHolds, PTL

\* tx_essence of a transaction of any size fills its block exactly and can be
\* read back to the same inputs, outputs and balances.
THEOREM EssenceCanBeRead == Spec => []EssenceReads
<1>1. ASSUME TxInv, Built PROVE \A e \in Sure!tx_essence \ {Null} :
                                  e # Corrupted /\ ReadsAs(Content(e), Said, <<>>)
  <2>1. Typed
    BY <1>1, IsTyped
  <2>2. PICK e : /\ Sure!tx_essence = {e} /\ e \notin {Null, Corrupted}
                 /\ Content(e) = EssenceOf(Said)
    BY <2>1, EssenceIs
  <2>3. Said \in Sayings /\ EssenceOf(Said) \in Seq(Field)
    BY <2>1, SecondPass, EssenceShape
  <2>4. EssenceOf(Said) \o <<>> = EssenceOf(Said)
    BY <2>3, ConcatEmptySeq
  <2>5. <<>> \in Seq({})
    OBVIOUS
  <2>6. ReadsAs(EssenceOf(Said), Said, <<>>)
    BY <2>3, <2>4, <2>5, ReadsBack
  <2> QED
    BY <2>2, <2>6
<1>2. TxInv => EssenceReads
  BY <1>1 DEF EssenceReads
<1> QED
  BY <1>2, TxInvHolds, PTL

-----------------------------------------------------------------------------
(* tx_signautres_valid.                                                    *)

\* With memory for the essence, an input passes if its address has a signature
\* that was made for what is said now, and only then.
LEMMA InputPasses ==
  ASSUME TxInv, Built, NEW k \in DOMAIN inputs
  PROVE  LET a == inputs[k].addr
         IN  /\ a \notin DOMAIN made => Sure!InputSigned(inputs[k]) = {FALSE}
             /\ a \in DOMAIN made => Sure!InputSigned(inputs[k]) = {made[a] = Said}
<1> DEFINE a == inputs[k].addr
           found == HASH_FIND(signatures, "address", a)
           Passes(e) == \A j \in found :
                          sign_verify_signature(signatures[j].signature, Content(e),
                                                signatures[j].pub_key)
<1>1. PICK e : /\ Sure!tx_essence = {e} /\ e \notin {Null, Corrupted}
               /\ Content(e) = EssenceOf(Said)
  BY IsTyped, EssenceIs
<1>2. SignaturesInv /\ Said \in Sayings
  BY IsTyped, SecondPass DEF TxInv
<1>3. found = { j \in DOMAIN signatures : signatures[j].address = a }
  BY DEF HASH_FIND
<1>4. (found = {} <=> a \notin DOMAIN made) /\ DOMAIN made = SignatureAddrs
  BY <1>2, <1>3 DEF SignaturesInv, SignatureAddrs
<1>5. Sure!InputSigned(inputs[k]) = IF found = {} THEN {FALSE} ELSE {Passes(e)}
  <2>1. Sure!HASH_FIND(signatures, "address", a) = found
    BY DEF Sure!HASH_FIND, HASH_FIND
  <2>2. Sure!Content(e) = Content(e)
    BY Zenon DEF Sure!Content, Content
  <2> HIDE DEF found
  <2>3. Sure!InputSigned(inputs[k])
          = IF found = {} THEN {FALSE}
            ELSE { CASE f = Corrupted -> Corrupted [] f = Null -> TRUE
                     [] OTHER -> \A j \in found :
                          sign_verify_signature(signatures[j].signature, Sure!Content(f),
                                                signatures[j].pub_key) :
                   f \in {e} }
    BY <1>1, <2>1, Zenon DEF Sure!InputSigned, Sure!sign_verify_signature, sign_verify_signature
  <2> QED
    BY <1>1, <2>2, <2>3
<1>6. ASSUME NEW j \in found PROVE sign_verify_signature(signatures[j].signature, Content(e),
                                                         signatures[j].pub_key)
                                     <=> made[a] = Said
  <2>1. /\ a \in DOMAIN made /\ signatures[j].address = a /\ j \in DOMAIN signatures
        /\ signatures[j].signature = [key |-> signatures[j].pub_key,
                                      data |-> EssenceOf(made[a])]
    BY <1>2, <1>3, <1>4 DEF SignaturesInv
  <2>2. made[a] \in Sayings
    BY <1>2, <2>1 DEF SignaturesInv
  <2>3. EssenceOf(made[a]) = EssenceOf(Said) <=> made[a] = Said
    BY <1>2, <2>2, EssenceDetermines
  <2>4. signatures[j].signature = [key |-> signatures[j].pub_key, data |-> EssenceOf(Said)]
          <=> EssenceOf(made[a]) = EssenceOf(Said)
    BY <2>1
  <2> QED
    BY <1>1, <2>3, <2>4 DEF sign_verify_signature
<1>7. found # {} => (Passes(e) <=> made[a] = Said)
  <2> HIDE DEF found
  <2> QED
    BY <1>6
<1> HIDE DEF found, Passes
<1>8. a \notin DOMAIN made => Sure!InputSigned(inputs[k]) = {FALSE}
  BY <1>4, <1>5
<1>9. a \in DOMAIN made => Sure!InputSigned(inputs[k]) = {made[a] = Said}
  <2>1. Passes(e) \in BOOLEAN
    BY DEF Passes
  <2> QED
    BY <1>4, <1>5, <1>7, <2>1
<1> QED
  BY <1>8, <1>9

\* An input passes without a signature only by running out of memory.
LEMMA PassesIfSigned ==
  ASSUME TxInv, NEW k \in DOMAIN inputs, TRUE \in InputSigned(inputs[k])
  PROVE  inputs[k].addr \in DOMAIN made
<1>1. HASH_FIND(signatures, "address", inputs[k].addr) # {}
  BY DEF InputSigned
<1> QED
  BY <1>1 DEF HASH_FIND, TxInv, SignaturesInv, SignatureAddrs

LEMMA AddrsOfInputs ==
  ASSUME TxInv, Built
  PROVE  /\ DOMAIN inputs = 1 .. Len(inputs) /\ Len(inputs) \in Nat
         /\ InputAddrs = { inputs[k].addr : k \in DOMAIN inputs }
BY DEF TxInv, Built, InputAddrs, ToSet

\* A transaction of any size passes tx_signautres_valid only if each input has
\* a signature that was made for what the transaction says now: inputs,
\* outputs or balances that were changed after signing do not pass.
THEOREM ValidIsSigned == Spec => []ValidMeansSigned
<1>1. ASSUME TxInv, Built, inputs # <<>>, TRUE \in tx_signautres_valid
      PROVE  InputAddrs \subseteq DOMAIN made
  <2>1. \A k \in DOMAIN inputs : TRUE \in InputSigned(inputs[k])
    BY <1>1 DEF tx_signautres_valid
  <2> QED
    BY <1>1, <2>1, PassesIfSigned, AddrsOfInputs
<1>2. ASSUME TxInv, Built, inputs # <<>>, TRUE \in Sure!tx_signautres_valid, NEW a \in InputAddrs
      PROVE  a \in DOMAIN made /\ made[a] = Said
  <2>1. \A k \in DOMAIN inputs : TRUE \in Sure!InputSigned(inputs[k])
    BY <1>2 DEF Sure!tx_signautres_valid
  <2>2. PICK k \in DOMAIN inputs : a = inputs[k].addr
    BY <1>2, AddrsOfInputs
  <2> QED
    BY <1>2, <2>1, <2>2, InputPasses
<1>3. TxInv => ValidMeansSigned
  BY <1>1, <1>2 DEF ValidMeansSigned
<1> QED
  BY <1>3, TxInvHolds, PTL

\* tx_sign makes a valid transaction of one, of any size, whose inputs all come
\* from addresses that are also outputs, and of no other.
THEOREM TxSignCoversOutputs == Spec => []TxSignCovers
<1>1. ASSUME TxInv, signed.how = "tx_sign", signed.complete, outputs # <<>>
      PROVE  Sure!tx_signautres_valid = {CoveredByOutputs}
  <2> DEFINE ok(k) == inputs[k].addr \in DOMAIN made
             valid == Sure!tx_signautres_valid
  <2>1. /\ Built /\ SignaturesInv /\ \A a \in DOMAIN made : made[a] = Said
        /\ SignatureAddrs = { outputs[k].address : k \in DOMAIN outputs }
        /\ DOMAIN made = SignatureAddrs
    BY <1>1 DEF TxInv, SignedInv, SignaturesInv
  <2>2. CoveredByOutputs <=> \A k \in DOMAIN inputs : ok(k)
    BY <1>1, <2>1, AddrsOfInputs DEF CoveredByOutputs
  <2>3. \A k \in DOMAIN inputs : Sure!InputSigned(inputs[k]) = {ok(k)}
    <3> SUFFICES ASSUME NEW k \in DOMAIN inputs PROVE Sure!InputSigned(inputs[k]) = {ok(k)}
      OBVIOUS
    <3>1. CASE ok(k)
      <4>1. Sure!InputSigned(inputs[k]) = {made[inputs[k].addr] = Said}
        BY <1>1, <2>1, <3>1, InputPasses
      <4>2. (made[inputs[k].addr] = Said) = TRUE /\ ok(k) = TRUE
        BY <2>1, <3>1
      <4> QED
        BY <4>1, <4>2
    <3>2. CASE ~ok(k)
      <4>1. Sure!InputSigned(inputs[k]) = {FALSE}
        BY <1>1, <2>1, <3>2, InputPasses
      <4>2. ok(k) = FALSE
        BY <3>2
      <4> QED
        BY <4>1, <4>2
    <3> QED
      BY <3>1, <3>2
  <2>4. inputs # Null /\ signatures # <<>>
    <3>1. outputs \in Seq(tx_output_t)
      BY <1>1, <2>1 DEF TxInv, ListsInv, Built
    <3>2. 1 \in DOMAIN outputs
      BY <1>1, <3>1
    <3>3. DOMAIN signatures # {}
      BY <2>1, <3>2 DEF SignatureAddrs
    <3> QED
      BY <2>1, <3>3 DEF Built
  <2>5. CASE inputs = <<>>
    <3>1. valid = {TRUE}
      BY <2>4, <2>5 DEF Sure!tx_signautres_valid
    <3>2. CoveredByOutputs = TRUE
      BY <2>2, <2>5 DEF CoveredByOutputs
    <3> QED
      BY <3>1, <3>2
  <2>6. CASE inputs # <<>>
    <3>1. valid = { r \in BOOLEAN \union {Corrupted} :
                     IF r = TRUE THEN \A k \in DOMAIN inputs : TRUE \in Sure!InputSigned(inputs[k])
                     ELSE \E k \in DOMAIN inputs :
                            /\ r \in Sure!InputSigned(inputs[k])
                            /\ \A j \in 1 .. k - 1 : TRUE \in Sure!InputSigned(inputs[j]) }
      BY <2>4, <2>6 DEF Sure!tx_signautres_valid
    <3> HIDE DEF valid
    <3>2. DOMAIN inputs = 1 .. Len(inputs) /\ Len(inputs) \in Nat
      BY <1>1, <2>1, AddrsOfInputs
    <3>3. CASE CoveredByOutputs
      <4>1. \A k \in DOMAIN inputs : Sure!InputSigned(inputs[k]) = {TRUE}
        BY <2>2, <2>3, <3>3
      <4>2. TRUE \in valid
        BY <3>1, <4>1
      <4>3. ASSUME NEW r \in valid PROVE r = TRUE
        BY <3>1, <4>1
      <4>4. valid = {TRUE}
        BY <4>2, <4>3
      <4>5. CoveredByOutputs = TRUE
        BY <3>3 DEF CoveredByOutputs
      <4> QED
        BY <4>4, <4>5 DEF valid
    <3>4. CASE ~CoveredByOutputs
      <4> DEFINE bad == { k \in DOMAIN inputs : ~ok(k) }
      <4>1. bad \in SUBSET Nat /\ bad # {}
        BY <2>2, <3>2, <3>4
      <4>2. PICK k \in bad : \A m \in bad : k <= m
        <5> HIDE DEF bad
        <5> QED
          BY <4>1, LeastNat
      <4>3. \A j \in 1 .. k - 1 : j \in DOMAIN inputs /\ j \notin bad
        BY <3>2, <4>2
      <4>4. Sure!InputSigned(inputs[k]) = {FALSE}
        <5>1. ok(k) = FALSE
          BY <4>2
        <5> QED
          BY <2>3, <4>2, <5>1
      <4>5. \A j \in 1 .. k - 1 : TRUE \in Sure!InputSigned(inputs[j])
        BY <2>3, <4>3
      <4>6. FALSE \in valid
        BY <3>1, <4>2, <4>4, <4>5
      <4>7. ASSUME NEW r \in valid PROVE r = FALSE
        <5>1. CASE r = TRUE
          <6>1. TRUE \in Sure!InputSigned(inputs[k])
            BY <3>1, <4>2, <5>1
          <6> QED
            BY <4>4, <6>1
        <5>2. CASE r # TRUE
          <6>1. PICK i \in DOMAIN inputs : r \in Sure!InputSigned(inputs[i])
            BY <3>1, <5>2
          <6>2. r \in {ok(i)} /\ ok(i) \in BOOLEAN
            BY <2>3, <6>1
          <6> QED
            BY <5>2, <6>2
        <5> QED
          BY <5>1, <5>2
      <4>8. CoveredByOutputs = FALSE
        BY <3>4 DEF CoveredByOutputs
      <4>9. valid = {FALSE}
        BY <4>6, <4>7
      <4> QED
        BY <4>8, <4>9 DEF valid
    <3> QED
      BY <3>3, <3>4
  <2> QED
    BY <2>5, <2>6
<1>2. TxInv => TxSignCovers
  BY <1>1 DEF TxSignCovers
<1> QED
  BY <1>2, TxInvHolds, PTL

-----------------------------------------------------------------------------
(* tx_2_base64.                                                            *)

Rest == Field \union SignatureField

\* The signatures are three fields each and an end.
LEMMA SignatureFieldsShape ==
  ASSUME SignaturesInv
  PROVE  /\ SignatureFields \in Seq(Rest) /\ Len(signatures) \in Nat
         /\ Len(SignatureFields) = 3 * Len(signatures) + 1
<1> DEFINE n == Len(signatures)
           Fields(s) == << <<"version", 1>>, <<"pub_key", s.pub_key>>,
                           <<"signature", s.signature>> >>
           parts == [k \in DOMAIN signatures |-> Fields(signatures[k])]
           end == << <<"version", 0>> >>
           S == Seq(Rest)
<1>1. n \in Nat /\ DOMAIN signatures = 1 .. n
  BY DEF SignaturesInv
<1>2. ASSUME NEW k \in 1 .. n
      PROVE  Fields(signatures[k]) \in S /\ Len(Fields(signatures[k])) = 3
  <2> DEFINE s == signatures[k]
  <2>1. /\ s.pub_key \in Seeds \X Indices /\ made[s.address] \in Sayings
        /\ s.signature = [key |-> s.pub_key, data |-> EssenceOf(made[s.address])]
    BY <1>1 DEF SignaturesInv, SignatureAddrs
  <2>2. EssenceOf(made[s.address]) \in Seq(Field)
    BY <2>1, EssenceShape
  <2> HIDE DEF s
  <2>3. /\ <<"version", 1>> \in Rest /\ <<"pub_key", s.pub_key>> \in Rest
        /\ <<"signature", s.signature>> \in Rest
    <3> HIDE DEF Field
    <3> QED
      BY <2>1, <2>2 DEF Rest, SignatureField
  <2> QED
    BY <2>3 DEF s
<1>3. end \in S /\ Len(end) = 1
  <2>1. <<"version", 0>> \in Rest
    BY DEF Rest, SignatureField
  <2> QED
    BY <2>1
<1> HIDE DEF n, S
<1>4. parts \in [1 .. n -> S] /\ \A k \in 1 .. n : parts[k] = Fields(signatures[k])
  <2> HIDE DEF Fields
  <2> QED
    BY <1>1, <1>2
<1>5. SignatureFields = FlattenSeq(parts) \o end
  BY DEF SignatureFields
<1> HIDE DEF parts, end, Fields
<1>6. parts \in Seq(S) /\ Len(parts) = n
  BY <1>1, <1>4, MapSeq
<1>7. PICK at : /\ Begins(at, parts)
                /\ Len(FlattenSeq(parts)) = at[Len(parts)]
  BY <1>6, FlattenParts, Zenon DEF S
<1>8. FlattenSeq(parts) \in S
  BY <1>6, FlattenParts, Zenon DEF S
<1>9. \A k \in 0 .. n : at[k] = 3 * k
  <2> DEFINE T == { k \in 0 .. n : at[k] = 3 * k }
  <2>1. 0 \in T
    BY <1>1, <1>7 DEF Begins
  <2>2. \A k \in 0 .. n - 1 : k \in T => k + 1 \in T
    <3> SUFFICES ASSUME NEW k \in 0 .. n - 1, at[k] = 3 * k PROVE k + 1 \in T
      OBVIOUS
    <3>1. k + 1 \in 1 .. n /\ (k + 1) - 1 = k /\ k + 1 \in 0 .. n
      BY <1>1
    <3>2. Len(parts[k + 1]) = 3
      BY <1>2, <1>4, <3>1
    <3>3. at[k + 1] = at[k] + 3
      BY <1>6, <1>7, <3>1, <3>2 DEF Begins
    <3> QED
      BY <3>1, <3>3
  <2> HIDE DEF T
  <2>3. \A k \in 0 .. n : k \in T
    BY <1>1, <2>1, <2>2, InductionTo
  <2> QED
    BY <2>3 DEF T
<1>10. Len(FlattenSeq(parts)) = 3 * n
  <2>1. n \in 0 .. n
    BY <1>1
  <2> QED
    BY <1>6, <1>7, <1>9, <2>1
<1>11. FlattenSeq(parts) \o end \in S /\ Joined(FlattenSeq(parts) \o end, FlattenSeq(parts), end)
  BY <1>3, <1>8, ConcatIndex DEF S
<1> QED
  BY <1>1, <1>3, <1>5, <1>10, <1>11 DEF Joined, n, S

\* The buffers of fields.
fields_buf_t == [len : Nat, cap : Nat, data : Text]

AppendStep(bufs, f) == UNION { { r.buf : r \in byte_buf_append(b, <<f>>) } : b \in bufs }

\* A field that is appended goes to the end of the buffer, and where there is
\* room for it no allocation is needed.
LEMMA AppendField ==
  ASSUME NEW b \in fields_buf_t, NEW f \in Rest, NEW r \in byte_buf_append(b, <<f>>)
  PROVE  /\ r.buf \in fields_buf_t
         /\ b.cap >= b.len + 1 =>
              /\ r.buf.len = b.len + 1 /\ r.buf.cap = b.cap
              /\ Len(r.buf.data) = Len(b.data)
              /\ \A i \in 1 .. Len(b.data) :
                   r.buf.data[i] = IF i = b.len + 1 THEN f ELSE b.data[i]
<1> DEFINE T == Field \union SignatureField \union {Junk}
           n == b.len + 1
           s == <<f>>
<1>1. /\ b.len \in Nat /\ b.cap \in Nat /\ b.data \in Seq(T) /\ b.data # Null
      /\ b = [len |-> b.len, cap |-> b.cap, data |-> b.data]
  BY TransactionUseAssumption DEF fields_buf_t, Text
<1>2. f \in T /\ Junk \in T /\ s # <<>> /\ Len(s) = 1 /\ s[1] = f
  BY DEF Rest
<1> HIDE DEF T, s
<1>3. ASSUME NEW d \in Seq(T)
      PROVE  /\ Write(d, b.len, s) \in Seq(T) /\ Len(Write(d, b.len, s)) = Len(d)
             /\ \A i \in 1 .. Len(d) :
                  Write(d, b.len, s)[i] = IF i = b.len + 1 THEN f ELSE d[i]
  <2> DEFINE w == [i \in 1 .. Len(d) |-> IF i - b.len \in 1 .. Len(s) THEN s[i - b.len] ELSE d[i]]
  <2>1. Write(d, b.len, s) = w
    BY <1>2 DEF Write
  <2>2. \A i \in 1 .. Len(d) : i - b.len \in 1 .. Len(s) <=> i = b.len + 1
    BY <1>1, <1>2
  <2>3. \A i \in 1 .. Len(d) : w[i] = IF i = b.len + 1 THEN f ELSE d[i]
    <3>1. \A i \in 1 .. Len(d) : i = b.len + 1 => i - b.len = 1
      BY <1>1
    <3> QED
      BY <1>2, <2>2, <3>1
  <2>4. Len(d) \in Nat /\ \A i \in 1 .. Len(d) : d[i] \in T
    OBVIOUS
  <2>5. w \in [1 .. Len(d) -> T]
    BY <1>2, <2>3, <2>4
  <2> HIDE DEF w
  <2> QED
    BY <2>1, <2>3, <2>4, <2>5, MapSeq
<1>4. PICK q \in byte_buf_reserve(b, n) :
        r = IF q.ok THEN [ok |-> TRUE, buf |-> [q.buf EXCEPT !.data = Write(@, b.len, s),
                                                             !.len = b.len + Len(s)]]
            ELSE q
  BY <1>2 DEF byte_buf_append, PutAt, s
<1>5. CASE b.cap >= n
  <2>1. q = [ok |-> TRUE, buf |-> b]
    BY <1>4, <1>5 DEF byte_buf_reserve
  <2>2. r.buf = [b EXCEPT !.data = Write(@, b.len, s), !.len = n]
    BY <1>2, <1>4, <2>1
  <2>3. r.buf = [len |-> n, cap |-> b.cap, data |-> Write(b.data, b.len, s)]
    BY <1>1, <2>2
  <2>4. /\ Write(b.data, b.len, s) \in Seq(T) /\ Len(Write(b.data, b.len, s)) = Len(b.data)
        /\ \A i \in 1 .. Len(b.data) :
             Write(b.data, b.len, s)[i] = IF i = b.len + 1 THEN f ELSE b.data[i]
    BY <1>1, <1>3
  <2> QED
    BY <1>1, <2>3, <2>4 DEF fields_buf_t, Text, T
<1>6. CASE ~(b.cap >= n)
  <2>1. PICK block \in realloc(b.data, n) :
          q = IF block = Null THEN [ok |-> FALSE, buf |-> b]
              ELSE [ok |-> TRUE, buf |-> [b EXCEPT !.data = block, !.cap = n]]
    BY <1>4, <1>6 DEF byte_buf_reserve
  <2>2. CASE block = Null
    BY <1>4, <1>6, <2>1, <2>2
  <2>3. CASE block # Null
    <3> DEFINE d == [i \in 1 .. n |-> IF b.data # Null /\ i <= Len(b.data) THEN b.data[i] ELSE Junk]
    <3>1. block = d
      BY <2>1, <2>3 DEF realloc, OrNull
    <3>2. d \in [1 .. n -> T]
      BY <1>1, <1>2
    <3> HIDE DEF d
    <3>3. d \in Seq(T) /\ n \in Nat
      BY <1>1, <3>2, MapSeq
    <3>4. r.buf = [[b EXCEPT !.data = block, !.cap = n] EXCEPT !.data = Write(@, b.len, s), !.len = n]
      BY <1>2, <1>4, <2>1, <2>3
    <3>5. r.buf = [len |-> n, cap |-> n, data |-> Write(d, b.len, s)]
      BY <1>1, <3>1, <3>4
    <3>6. Write(d, b.len, s) \in Seq(T)
      BY <1>3, <3>3
    <3> QED
      BY <1>6, <3>3, <3>5, <3>6 DEF fields_buf_t, Text, T
  <2> QED
    BY <2>2, <2>3
<1> QED
  BY <1>5, <1>6

\* The buffers after the first fields.
LEMMA AppendedChain ==
  ASSUME NEW fields \in Seq(Rest), NEW b \in fields_buf_t
  PROVE  \E g : /\ g[0] = {b} /\ Appended(b, fields) = g[Len(fields)]
                /\ \A k \in 0 .. Len(fields) : g[k] \in SUBSET fields_buf_t
                /\ \A k \in 1 .. Len(fields) : g[k] = AppendStep(g[k - 1], fields[k])
<1> DEFINE n == Len(fields)
           E(v, f) == AppendStep(v, f)
           V == SUBSET fields_buf_t
           F == [x \in (1 .. n) \X V |-> E(x[2], fields[x[1]])]
           Is(it) == it = [s \in SUBSET DOMAIN fields |->
                             IF s = {} THEN {b}
                             ELSE E(it[s \ {Max(s)}], fields[Max(s)])]
           it == CHOOSE it : Is(it)
           g == [k \in 0 .. n |-> it[1 .. k]]
<1>1. n \in Nat /\ DOMAIN fields = 1 .. n /\ \A k \in 1 .. n : fields[k] \in Rest
  OBVIOUS
<1>2. \A v \in V, k \in 1 .. n : E(v, fields[k]) \in V
  <2> SUFFICES ASSUME NEW v \in V, NEW k \in 1 .. n, NEW c \in v,
                      NEW r \in byte_buf_append(c, << fields[k] >>)
               PROVE  r.buf \in fields_buf_t
    BY DEF AppendStep
  <2> QED
    BY <1>1, AppendField
<1>3. {b} \in V
  OBVIOUS
<1> HIDE DEF n, V, E
<1>4. F \in [(1 .. n) \X V -> V]
  BY <1>2
<1> HIDE DEF F
<1>5. PICK f : IsFold(f, n, V, {b}, F)
  BY <1>1, <1>3, <1>4, FoldExists
<1>d. f \in [SUBSET (1 .. n) -> V]
  BY <1>5 DEF IsFold
<1>6. Is(f)
  <2>1. \A s \in SUBSET (1 .. n) :
          f[s] = IF s = {} THEN {b} ELSE F[<<Max(s), f[s \ {Max(s)}]>>]
    BY <1>5 DEF IsFold
  <2>2. ASSUME NEW s \in SUBSET (1 .. n), s # {}
        PROVE  F[<<Max(s), f[s \ {Max(s)}]>>] = E(f[s \ {Max(s)}], fields[Max(s)])
    <3>1. Max(s) \in 1 .. n
      BY <1>1, <2>2, MaxIn
    <3>2. f[s \ {Max(s)}] \in V
      BY <1>d
    <3> QED
      BY <3>1, <3>2 DEF F
  <2> QED
    BY <1>1, <1>d, <2>1, <2>2
<1>7. Is(it)
  BY <1>6
<1>8. it[{}] = {b}
  BY <1>1, <1>7
<1>9. \A k \in 1 .. n : it[1 .. k] = E(it[1 .. k - 1], fields[k])
  <2> SUFFICES ASSUME NEW k \in 1 .. n PROVE it[1 .. k] = E(it[1 .. k - 1], fields[k])
    OBVIOUS
  <2>1. /\ Max(1 .. k) = k /\ (1 .. k) \ {k} = 1 .. k - 1
        /\ 1 .. k \in SUBSET (1 .. n) /\ 1 .. k # {}
    BY <1>1, MaxOfInterval
  <2> QED
    BY <1>1, <1>7, <2>1
<1>10. Appended(b, fields) = it[1 .. n]
  BY <1>1 DEF Appended, FoldLeft, MapThenFoldSet, AppendStep, E
<1> HIDE DEF it
<1>11. g[0] = {b} /\ g[n] = it[1 .. n]
  <2>1. 1 .. 0 = {}
    OBVIOUS
  <2> QED
    BY <1>1, <1>8, <2>1
<1>12. \A k \in 1 .. n : g[k] = E(g[k - 1], fields[k])
  <2> SUFFICES ASSUME NEW k \in 1 .. n PROVE g[k] = E(g[k - 1], fields[k])
    OBVIOUS
  <2>1. k \in 0 .. n /\ k - 1 \in 0 .. n
    BY <1>1
  <2> QED
    BY <1>9, <2>1
<1> HIDE DEF g
<1>13. \A k \in 1 .. n : g[k - 1] \in V => g[k] \in V
  BY <1>2, <1>12
<1>14. \A k \in 0 .. n : g[k] \in V
  BY <1>1, <1>3, <1>11, <1>13, ChainIn
<1> QED
  BY <1>10, <1>11, <1>12, <1>14 DEF E, n, V

\* With room for all fields none is lost.
LEMMA AppendedWhole ==
  ASSUME NEW fields \in Seq(Rest), NEW b \in fields_buf_t, NEW s \in Seq(Rest),
         b.len = Len(s), b.cap >= Len(s) + Len(fields), Len(b.data) = b.cap,
         \A i \in 1 .. Len(s) : b.data[i] = s[i],
         NEW c \in Appended(b, fields)
  PROVE  /\ c.len = Len(s) + Len(fields) /\ Len(c.data) = b.cap /\ c.data # Null
         /\ \A i \in 1 .. Len(s) : c.data[i] = s[i]
         /\ \A i \in 1 .. Len(fields) : c.data[Len(s) + i] = fields[i]
<1> DEFINE n == Len(fields)
           m == Len(s)
           Whole(k, d) == /\ d.len = m + k /\ d.cap = b.cap /\ Len(d.data) = b.cap
                          /\ \A i \in 1 .. m : d.data[i] = s[i]
                          /\ \A i \in 1 .. k : d.data[m + i] = fields[i]
<1>1. PICK g : /\ g[0] = {b} /\ Appended(b, fields) = g[n]
               /\ \A k \in 0 .. n : g[k] \in SUBSET fields_buf_t
               /\ \A k \in 1 .. n : g[k] = AppendStep(g[k - 1], fields[k])
  BY AppendedChain
<1>2. /\ n \in Nat /\ m \in Nat /\ b.cap \in Nat /\ b.cap >= m + n /\ b.len = m
      /\ \A k \in 1 .. n : fields[k] \in Rest
  BY DEF fields_buf_t
<1>a. Len(b.data) = b.cap /\ \A i \in 1 .. m : b.data[i] = s[i]
  OBVIOUS
<1> HIDE DEF n, m
<1> DEFINE T == { k \in 0 .. n : \A d \in g[k] : Whole(k, d) }
<1>3. 0 \in T
  BY <1>1, <1>2, <1>a
<1>4. ASSUME NEW k \in 0 .. n - 1, k \in T PROVE k + 1 \in T
  <2>1. k + 1 \in 1 .. n /\ (k + 1) - 1 = k /\ k + 1 \in 0 .. n /\ k \in 0 .. n /\ k \in Nat
    BY <1>2
  <2> SUFFICES ASSUME NEW e \in g[k + 1] PROVE Whole(k + 1, e)
    BY <2>1
  <2>2. g[k + 1] = AppendStep(g[k], fields[k + 1])
    BY <1>1, <2>1
  <2>3. PICK d \in g[k] : \E r \in byte_buf_append(d, << fields[k + 1] >>) : e = r.buf
    BY <2>2 DEF AppendStep
  <2>4. PICK r \in byte_buf_append(d, << fields[k + 1] >>) : e = r.buf
    BY <2>3
  <2>5. Whole(k, d) /\ d \in fields_buf_t
    BY <1>1, <1>4, <2>1
  <2>6. d.cap >= d.len + 1
    BY <1>2, <2>1, <2>5
  <2>7. /\ e.len = d.len + 1 /\ e.cap = d.cap /\ Len(e.data) = Len(d.data)
        /\ \A i \in 1 .. Len(d.data) :
             e.data[i] = IF i = d.len + 1 THEN fields[k + 1] ELSE d.data[i]
    BY <1>2, <2>1, <2>4, <2>5, <2>6, AppendField
  <2>8. \A i \in 1 .. b.cap : e.data[i] = IF i = m + k + 1 THEN fields[k + 1] ELSE d.data[i]
    BY <2>5, <2>7
  <2>9. e.len = m + (k + 1) /\ e.cap = b.cap /\ Len(e.data) = b.cap
    BY <1>2, <2>1, <2>5, <2>7
  <2>10. ASSUME NEW i \in 1 .. m PROVE e.data[i] = s[i]
    <3>1. i \in 1 .. b.cap /\ i # m + k + 1
      BY <1>2, <2>1
    <3> QED
      BY <2>5, <2>8, <3>1
  <2>11. ASSUME NEW i \in 1 .. k + 1 PROVE e.data[m + i] = fields[i]
    <3>1. m + i \in 1 .. b.cap /\ (m + i = m + k + 1 <=> i = k + 1) /\ (i # k + 1 => i \in 1 .. k)
      BY <1>2, <2>1
    <3> QED
      BY <2>5, <2>8, <3>1
  <2> QED
    BY <2>9, <2>10, <2>11
<1> HIDE DEF T
<1>5. \A k \in 0 .. n : k \in T
  BY <1>2, <1>3, <1>4, InductionTo
<1>6. n \in 0 .. n
  BY <1>2
<1>7. Whole(n, c)
  BY <1>1, <1>5, <1>6 DEF T
<1>8. c.data # Null
  BY <1>1, <1>6, TransactionUseAssumption DEF fields_buf_t
<1> QED
  BY <1>2, <1>7, <1>8 DEF n, m

\* The essence with a block that has room for the signatures.
LEMMA ReservationIs ==
  ASSUME TxInv, Built, NEW r \in Reservations, r.ok
  PROVE  /\ r.buf \in fields_buf_t
         /\ r.buf.len = Len(EssenceOf(Said)) /\ Len(r.buf.data) = r.buf.cap
         /\ r.buf.cap = Len(EssenceOf(Said)) + Len(SignatureFields)
         /\ \A i \in 1 .. Len(EssenceOf(Said)) : r.buf.data[i] = EssenceOf(Said)[i]
<1> DEFINE s == EssenceOf(Said)
           n == Len(s)
           T == Field \union SignatureField \union {Junk}
<1>1. PICK e \in tx_essence \ {Null, Corrupted} : r \in byte_buf_reserve(e, TxBytesLen(e))
  BY DEF Reservations
<1>2. e = [len |-> n, cap |-> n, data |-> s] /\ s \in Seq(T)
  <2>1. s \in Text /\ e = [len |-> n, cap |-> n, data |-> s]
    BY <1>1, IsTyped, EssenceIs
  <2> QED
    BY <2>1 DEF Text
<1>3. s # Null
  BY IsTyped, EssenceIs, TransactionUseAssumption
<1>4. n \in Nat /\ \A i \in 1 .. n : s[i] \in T
  <2> HIDE DEF s
  <2> QED
    BY <1>2
<1> DEFINE N == TxBytesLen(e)
<1>5. N = n + Len(SignatureFields) /\ N \in Nat /\ N > n
  <2>1. N = n + 3 * Len(signatures) + 1
    BY <1>2 DEF TxBytesLen
  <2>2. Len(signatures) \in Nat /\ Len(SignatureFields) = 3 * Len(signatures) + 1
    BY SignatureFieldsShape DEF TxInv
  <2> HIDE DEF n, N
  <2> QED
    BY <1>4, <2>1, <2>2
<1> DEFINE d == [i \in 1 .. N |-> IF s # Null /\ i <= n THEN s[i] ELSE Junk]
<1>6. r.buf = [len |-> n, cap |-> N, data |-> d]
  <2>1. e.cap = n /\ e.data = s /\ ~(n >= N)
    BY <1>2, <1>4, <1>5
  <2>2. PICK block \in realloc(s, N) :
          r = IF block = Null THEN [ok |-> FALSE, buf |-> e]
              ELSE [ok |-> TRUE, buf |-> [e EXCEPT !.data = block, !.cap = N]]
    BY <1>1, <2>1 DEF byte_buf_reserve
  <2>3. block # Null
    BY <2>2
  <2>4. block = d
    BY <2>2, <2>3 DEF realloc, OrNull
  <2> HIDE DEF s, n, N, d
  <2>5. r.buf = [e EXCEPT !.data = d, !.cap = N]
    BY <2>2, <2>3, <2>4
  <2> QED
    BY <1>2, <2>5
<1> HIDE DEF N, n, s
<1>7. d \in [1 .. N -> T] /\ \A i \in 1 .. n : d[i] = s[i]
  <2>1. \A i \in 1 .. N : d[i] \in T
    BY <1>4, <1>5
  <2>2. \A i \in 1 .. n : i \in 1 .. N /\ i <= n
    BY <1>4, <1>5
  <2> QED
    BY <1>3, <2>1, <2>2
<1> HIDE DEF d, T
<1>8. d \in Seq(T) /\ Len(d) = N
  BY <1>5, <1>7, MapSeq
<1>9. r.buf \in fields_buf_t
  BY <1>4, <1>5, <1>6, <1>8 DEF fields_buf_t, Text, T
<1> QED
  BY <1>4, <1>5, <1>6, <1>7, <1>8, <1>9 DEF s, n

\* Once tx_2_base64 has reserved its block, a transaction of any size is
\* serialised as a whole, whatever allocation fails.
THEOREM SerialisesWhole == Spec => []SerialisedWhole
<1>1. ASSUME TxInv, Built, NEW r \in Reservations, r.ok, NEW text \in tx_2_base64(r)
      PROVE  ReadsAs(text, Said, SignatureFields)
  <2> DEFINE s == EssenceOf(Said)
             t == SignatureFields
  <2>1. PICK c \in Appended(r.buf, t) : text = Content(c)
    BY <1>1 DEF tx_2_base64
  <2>2. Said \in Sayings /\ s \in Seq(Field)
    BY <1>1, IsTyped, SecondPass, EssenceShape
  <2>3. t \in Seq(Rest)
    BY <1>1, SignatureFieldsShape DEF TxInv
  <2>4. s \in Seq(Rest)
    <3> HIDE DEF s
    <3> QED
      BY <2>2, SeqMonotonic DEF Rest
  <2>5. /\ r.buf \in fields_buf_t /\ r.buf.len = Len(s) /\ Len(r.buf.data) = r.buf.cap
        /\ r.buf.cap = Len(s) + Len(t) /\ \A i \in 1 .. Len(s) : r.buf.data[i] = s[i]
    BY <1>1, ReservationIs
  <2> HIDE DEF s, t
  <2>6. r.buf.cap >= Len(s) + Len(t) /\ Len(s) \in Nat /\ Len(t) \in Nat
    BY <2>3, <2>4, <2>5
  <2>7. /\ c.len = Len(s) + Len(t) /\ Len(c.data) = c.len /\ c.data # Null
        /\ \A i \in 1 .. Len(s) : c.data[i] = s[i]
        /\ \A i \in 1 .. Len(t) : c.data[Len(s) + i] = t[i]
    BY <2>1, <2>3, <2>4, <2>5, <2>6, AppendedWhole
  <2>8. s \o t \in Seq(Rest) /\ Joined(s \o t, s, t)
    BY <2>3, <2>4, ConcatIndex
  <2>9. text = s \o t
    <3> DEFINE u == s \o t
    <3>1. u \in Seq(Rest) /\ Len(u) = Len(s) + Len(t)
      BY <2>8 DEF Joined
    <3>2. u = [i \in 1 .. Len(s) + Len(t) |-> u[i]]
      <4> HIDE DEF u
      <4> QED
        BY <3>1
    <3>3. \A i \in 1 .. Len(s) + Len(t) : Content(c)[i] = c.data[i]
      BY <2>6, <2>7 DEF Content
    <3>4. ASSUME NEW i \in 1 .. Len(s) + Len(t) PROVE Content(c)[i] = u[i]
      <4>3. Content(c)[i] = c.data[i]
        BY <3>3
      <4>4. CASE i \in 1 .. Len(s)
        BY <2>7, <2>8, <4>3, <4>4 DEF Joined
      <4>5. CASE i \notin 1 .. Len(s)
        <5>1. i - Len(s) \in 1 .. Len(t) /\ Len(s) + (i - Len(s)) = i
          BY <2>6, <4>5
        <5> QED
          BY <2>7, <2>8, <4>3, <5>1 DEF Joined
      <4> QED
        BY <4>4, <4>5
    <3>5. Content(c) = [i \in 1 .. Len(s) + Len(t) |-> Content(c)[i]]
      BY <2>7 DEF Content
    <3> HIDE DEF u
    <3>6. Content(c) = u
      BY <3>2, <3>4, <3>5
    <3> QED
      BY <2>1, <3>6 DEF u
  <2>10. ReadsAs(s \o t, Said, t)
    BY <2>2, <2>3, ReadsBack DEF s
  <2> QED
    BY <2>9, <2>10 DEF t
<1>2. TxInv => SerialisedWhole
  BY <1>1 DEF SerialisedWhole
<1> QED
  BY <1>2, TxInvHolds, PTL
=============================================================================
