---------------------------- MODULE Transaction ----------------------------
(***************************************************************************)
(* core/transaction.c, core/signatures.c, the balances of core/balance.c   *)
(* and the keys of core/address.c: what a transaction consists of, its     *)
(* essence, its signatures and its serialisation.  TransactionUse has the  *)
(* calls.                                                                  *)
(*                                                                         *)
(* Buffers hold one element for each field that is copied as a whole, so   *)
(* that a length counts fields.  Lists have an address: lists[p] is the    *)
(* list at p.  Cryptography is symbolic: an address and a public key are   *)
(* the seed and index they come from, a signature is its key and its text. *)
(***************************************************************************)
EXTENDS Tables

CONSTANT Zero   \* the color IOTA: a buffer of zeros

VARIABLES
  inputs, outputs,   \* transaction_t: Null, or sequences
  signatures,        \* transaction_t: a table [address, pub_key, signature]
  lists              \* the balance lists there are

-----------------------------------------------------------------------------
(* core/address.c.                                                         *)

get_subseed(seed, index) == <<seed, index>>

address_ed25519_keypair(seed, index) == get_subseed(seed, index)

\* The digest of the public key.
address_get(seed, index) == address_ed25519_keypair(seed, index)

sign_signature(seed, index, data) ==
  [key |-> address_ed25519_keypair(seed, index), data |-> data]

sign_verify_signature(signature, data, pub_key) ==
  signature = [key |-> pub_key, data |-> data]

-----------------------------------------------------------------------------
(* core/balance.c and transaction.h: fields and lists.                     *)

balance_init(color, value) ==
  [value |-> value, color |-> IF color = Null THEN Zero ELSE color]

U32(n) == <<"u32", n>>

\* The layout of balance_2_bytes.
BalanceFields(b) == << <<"value", b.value>>, <<"color", b.color>> >>

balance_from_bytes(s) == [value |-> s[1], color |-> s[2]]

tx_output_id(addr, id) == [addr |-> addr, id |-> id]

-----------------------------------------------------------------------------
(* tx_essence.                                                             *)

\* The first pass.
EssenceLen ==
  LET OutputLen(o) == 1 + 1 + Len(lists[o.balances]) * 2
  IN  1 + Len(inputs) + 1 + FoldLeft(LAMBDA n, o : n + OutputLen(o), 0, outputs) + 1

\* Mutation: the color goes first.
Essence_ColorFirst ==
  LET Balances(l) == FlattenSeq([k \in DOMAIN l |-> Reverse(BalanceFields(l[k]))])
      OutputFields(o) ==
        << <<"address", o.address>>, U32(Len(lists[o.balances])) >>
          \o Balances(lists[o.balances])
  IN  <<U32(Len(inputs))>> \o inputs
        \o <<U32(Len(outputs))>> \o FlattenSeq([k \in DOMAIN outputs |-> OutputFields(outputs[k])])
        \o <<U32(0)>>

\* The second pass.  The index of an output is not part of it.
EssenceFields ==
  LET Balances(l) == FlattenSeq([k \in DOMAIN l |-> BalanceFields(l[k])])
      OutputFields(o) ==
        << <<"address", o.address>>, U32(Len(lists[o.balances])) >>
          \o Balances(lists[o.balances])
  IN  <<U32(Len(inputs))>> \o inputs
        \o <<U32(Len(outputs))>> \o FlattenSeq([k \in DOMAIN outputs |-> OutputFields(outputs[k])])
        \o <<U32(0)>>

\* NULL if there is no memory for the text.  A transaction without inputs or
\* outputs, and no memory for the buffer itself, end the program (Corrupted).
tx_essence ==
  IF Null \in {inputs, outputs} THEN {Corrupted}
  ELSE { IF block = Null THEN Null
         ELSE IF Len(EssenceFields) > Len(block) THEN Corrupted
         ELSE [len |-> EssenceLen, cap |-> EssenceLen,
               data |-> Write(block, 0, EssenceFields)] :
         block \in malloc(EssenceLen) }
       \union { p \in {Corrupted} : AllocMayFail }

-----------------------------------------------------------------------------
(* core/signatures.c, tx_sign, wallet_sign_tx.                             *)

\* Mutation: the address is not looked up first.
signatures_add_Again(t, addr, pub_key, sig) ==
  Added(t, [address |-> addr, pub_key |-> pub_key, signature |-> sig])

ed_signatures_add(t, addr, pub_key, sig) ==
  IF HASH_FIND(t, "address", addr) # {} THEN {t}
  ELSE Added(t, [address |-> addr, pub_key |-> pub_key, signature |-> sig])

\* Mutation: the signatures of an earlier call stay.
SignAll_KeepsOld(seed, signers, data) ==
  FoldLeft(LAMBDA outs, s :
             UNION { ed_signatures_add(t, s.address,
                                       address_ed25519_keypair(seed, s.addr_index),
                                       sign_signature(seed, s.addr_index, data)) : t \in outs },
           {signatures}, signers)

\* The table is made anew: for each signer the key of its index signs, and the
\* signature is filed under its address.
SignAll(seed, signers, data) ==
  FoldLeft(LAMBDA outs, s :
             UNION { ed_signatures_add(t, s.address,
                                       address_ed25519_keypair(seed, s.addr_index),
                                       sign_signature(seed, s.addr_index, data)) : t \in outs },
           {<<>>}, signers)

\* An input without signature ends the search.  Otherwise the essence is made
\* for it: without memory a signature that is there passes, or the program
\* dies (Corrupted).  Nothing compares the public key with the address.
InputSigned(in) ==
  LET found == HASH_FIND(signatures, "address", in.addr)
      Passes(essence) ==
        \A k \in found :
          sign_verify_signature(signatures[k].signature, Content(essence), signatures[k].pub_key)
  IN  IF found = {} THEN {FALSE}
      ELSE { CASE e = Corrupted -> Corrupted [] e = Null -> TRUE [] OTHER -> Passes(e) :
             e \in tx_essence }

\* Mutation: the first input decides.
Valid_FirstOnly ==
  IF inputs = Null \/ signatures = <<>> THEN {FALSE}
  ELSE IF inputs = <<>> THEN {TRUE}
  ELSE InputSigned(inputs[1])

\* The first input that does not pass decides.
tx_signautres_valid ==
  IF inputs = Null \/ signatures = <<>> THEN {FALSE}
  ELSE IF inputs = <<>> THEN {TRUE}
  ELSE { r \in BOOLEAN \union {Corrupted} :
         IF r = TRUE THEN \A k \in DOMAIN inputs : TRUE \in InputSigned(inputs[k])
         ELSE \E k \in DOMAIN inputs :
                /\ r \in InputSigned(inputs[k])
                /\ \A j \in 1 .. k - 1 : TRUE \in InputSigned(inputs[j]) }

-----------------------------------------------------------------------------
(* tx_2_base64.                                                            *)

\* Mutation: the end of the signatures is not counted.
TxBytesLen_NoEnd(bytes) == bytes.len + 3 * Len(signatures)

TxBytesLen(bytes) == bytes.len + 3 * Len(signatures) + 1

SignatureFields ==
  FlattenSeq([k \in DOMAIN signatures |->
    << <<"version", 1>>, <<"pub_key", signatures[k].pub_key>>,
       <<"signature", signatures[k].signature>> >>]) \o << <<"version", 0>> >>

\* The bytes that go to byte_buf2base64: no call's result is looked at, so a
\* field is missing for each append that failed.
Appended(buf, fields) ==
  FoldLeft(LAMBDA outs, f : UNION { { r.buf : r \in byte_buf_append(b, <<f>>) } : b \in outs },
           {buf}, fields)

\* The essence with its block made longer, or not; an essence of NULL is
\* dereferenced.
Reservations ==
  UNION { byte_buf_reserve(e, TxBytesLen(e)) : e \in tx_essence \ {Null, Corrupted} }

\* What is serialised after the reservation r.
tx_2_base64(r) == { Content(b) : b \in Appended(r.buf, SignatureFields) }
=============================================================================
