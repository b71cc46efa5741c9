--------------------------- MODULE TransactionUse ---------------------------
(***************************************************************************)
(* The owner of a transaction: it builds, signs, changes, signs again and  *)
(* frees it, in any order, and goes on using the balance list it built the *)
(* outputs from.  Calls that change nothing (tx_signautres_valid,          *)
(* tx_2_base64) are looked at in every state.                              *)
(***************************************************************************)
EXTENDS Transaction

CONSTANTS
  Seeds, Indices, Values,
  Colors,     \* or NULL, which stands for IOTA
  Addresses,  \* of inputs and outputs: <<seed, index>>
  TxIds,
  Places,     \* in memory, for balance lists
  NotBase58,  \* a text that does not decode to an output id
  MaxInputs, MaxOutputs, MaxBalances   \* bounds: lengths of the lists

OutputIds == { tx_output_id(a, id) : a \in Addresses, id \in TxIds }

tx_output_t == [address : Addresses, addr_index : Indices, balances : Places]

Color == (Colors \ {Null}) \union {Zero}

\* What an essence consists of, and what is appended to it.
Field ==
  OutputIds \union ({"u32"} \X Nat) \union ({"address"} \X Addresses)
    \union ({"value"} \X Values) \union ({"color"} \X Color)

SignatureField ==
  ({"version"} \X {0, 1}) \union ({"pub_key"} \X (Seeds \X Indices))
    \union ({"signature"} \X [key : Seeds \X Indices, data : Seq(Field)])

Text == Seq(Field \union SignatureField \union {Junk})

\* NULL and the outcome of a bad write are no lists, texts or buffers.
ASSUME TransactionUseAssumption ==
  /\ {MaxInputs, MaxOutputs, MaxBalances} \subseteq Nat
  /\ Null \notin Places \union Seq(tx_output_t) \union Seq(OutputIds)
  /\ \A p \in {Null, Corrupted} :
       p \notin Text \union [len : Nat, cap : Nat, data : Text]

VARIABLES
  list,     \* the balance list the owner works on, or Null
  signed,   \* how the signatures were made since the last change
  made,     \* per signed address, what the transaction was then
  dead      \* the program has died

tx   == <<inputs, outputs, signatures>>
heap == <<list, lists>>
vars == <<tx, heap, signed, made, dead>>

\* Where a new list can be.  utarray ends the program when it has no memory.
Unused == Places \ DOMAIN lists

WithList(p, l) == [q \in DOMAIN lists \union {p} |-> IF q = p THEN l ELSE lists[q]]

-----------------------------------------------------------------------------
(* The owner's calls.                                                      *)

Unsigned == [how |-> "no", complete |-> FALSE]

Init ==
  /\ inputs = Null /\ outputs = Null /\ signatures = <<>>
  /\ list = Null /\ lists = <<>>
  /\ signed = Unsigned /\ made = <<>> /\ dead = FALSE

Changed == signed' = Unsigned /\ UNCHANGED <<made, dead>>

New ==
  /\ \/ inputs = Null /\ inputs' = <<>> /\ UNCHANGED outputs
     \/ outputs = Null /\ outputs' = <<>> /\ UNCHANGED inputs
  /\ Changed /\ UNCHANGED <<signatures, heap>>

tx_inputs_push(output_id) ==
  /\ inputs # Null /\ Len(inputs) < MaxInputs
  /\ inputs' = Append(inputs, output_id)
  /\ Changed /\ UNCHANGED <<outputs, signatures, heap>>

\* A text that does not decode adds nothing.
tx_inputs_push_base58(text) == text # NotBase58 /\ tx_inputs_push(text)

\* The owner's list.
balance_list_new ==
  /\ list = Null
  /\ list' \in Unused /\ lists' = WithList(list', <<>>)
  /\ UNCHANGED <<tx, signed, made, dead>>

ListUse(content) ==
  /\ lists' = [lists EXCEPT ![list] = content]
  /\ UNCHANGED <<tx, list, signed, made, dead>>

balance_list_push(b) ==
  list # Null /\ Len(lists[list]) < MaxBalances /\ ListUse(Append(lists[list], b))

\* The macro counts below zero on an empty list; no caller pops one.
balance_list_pop == list # Null /\ lists[list] # <<>> /\ ListUse(Front(lists[list]))

balance_list_free ==
  /\ list # Null
  /\ list' = Null /\ lists' = [p \in DOMAIN lists \ {list} |-> lists[p]]
  /\ UNCHANGED <<tx, signed, made, dead>>

\* Mutation: the output keeps the pointer to the owner's list.
Push_SharesList(address, addr_index) ==
  /\ outputs # Null /\ list # Null /\ Len(outputs) < MaxOutputs
  /\ outputs' = Append(outputs, [address |-> address, addr_index |-> addr_index,
                                 balances |-> list])
  /\ Changed /\ UNCHANGED <<inputs, signatures, heap>>

\* outputs_icd_copy clones the list.
tx_outputs_push(address, addr_index) ==
  /\ outputs # Null /\ list # Null /\ Len(outputs) < MaxOutputs
  /\ \E p \in Unused :
       /\ outputs' = Append(outputs, [address |-> address, addr_index |-> addr_index,
                                      balances |-> p])
       /\ lists' = WithList(p, lists[list])
  /\ Changed /\ UNCHANGED <<inputs, signatures, list>>

\* What the transaction says, without addresses in memory.
Said == [inputs |-> inputs,
         outputs |-> [k \in DOMAIN outputs |->
                        [address |-> outputs[k].address, balances |-> lists[outputs[k].balances]]]]

SignWith(how, seed, signers, essence) ==
  IF essence = Corrupted
  THEN dead' = TRUE /\ UNCHANGED <<tx, heap, signed, made>>
  ELSE /\ essence # Null
       /\ signatures' \in SignAll(seed, signers, Content(essence))
       /\ signed' = [how |-> how,
                     complete |-> \A k \in DOMAIN signers :
                                    HASH_FIND(signatures', "address", signers[k].address) # {}]
       /\ made' = [a \in { signatures'[k].address : k \in DOMAIN signatures' } |-> Said]
       /\ UNCHANGED <<inputs, outputs, heap, dead>>

\* The keys of the outputs, filed under the addresses of the outputs.
tx_sign(seed) ==
  /\ outputs # Null
  /\ \E essence \in tx_essence : SignWith("tx_sign", seed, outputs, essence)

\* The keys the wallet's entries name, one entry for each address of an input.
wallet_sign_tx(seed, index) ==
  /\ Null \notin {inputs, outputs}
  /\ \E essence \in tx_essence :
       SignWith("wallet", seed,
                SetToSeq({ [address |-> a, addr_index |-> index[a]] : a \in DOMAIN index }),
                essence)

InputAddrs == { in.addr : in \in ToSet(inputs) }

\* Deleting an entry that is not there ends the program.
ed_signatures_remove(addr) ==
  IF HASH_FIND(signatures, "address", addr) = {}
  THEN dead' = TRUE /\ UNCHANGED <<tx, heap, signed, made>>
  ELSE /\ signatures' = HASH_DEL(signatures, "address", addr)
       /\ made' = [a \in DOMAIN made \ {addr} |-> made[a]]
       /\ signed' = Unsigned
       /\ UNCHANGED <<inputs, outputs, heap, dead>>

\* tx_inputs_free, tx_outputs_free with the lists of the outputs, and
\* ed_signatures_destory.
Free ==
  /\ Null \notin {inputs, outputs}
  /\ inputs' = Null /\ outputs' = Null /\ signatures' = <<>>
  /\ lists' = [p \in DOMAIN lists \ { outputs[k].balances : k \in DOMAIN outputs } |-> lists[p]]
  /\ signed' = Unsigned /\ made' = <<>>
  /\ UNCHANGED <<list, dead>>

-----------------------------------------------------------------------------
Next ==
  /\ ~dead
  /\ \/ New
     \/ \E id \in OutputIds : tx_inputs_push(id)
     \/ \E text \in OutputIds \union {NotBase58} : tx_inputs_push_base58(text)
     \/ balance_list_new
     \/ \E c \in Colors, v \in Values : balance_list_push(balance_init(c, v))
     \/ balance_list_pop
     \/ balance_list_free
     \/ \E a \in Addresses, i \in Indices : tx_outputs_push(a, i)
     \/ \E seed \in Seeds : tx_sign(seed)
     \/ \E seed \in Seeds : inputs # Null /\
          \E index \in [InputAddrs -> Indices] : wallet_sign_tx(seed, index)
     \/ \E a \in Addresses : ed_signatures_remove(a)
     \/ Free

Spec == Init /\ [][Next]_vars

-----------------------------------------------------------------------------
(* Properties.                                                             *)

\* The operators as they are when no allocation fails.
Sure == INSTANCE Transaction WITH AllocMayFail <- FALSE

Built == Null \notin {inputs, outputs}

TxTypeOK ==
  /\ outputs # Null => \A k \in DOMAIN outputs : outputs[k].balances \in DOMAIN lists
  /\ list \in DOMAIN lists \union {Null}
  /\ \A k \in DOMAIN signatures : signatures[k].pub_key \in Seeds \X Indices
  /\ DOMAIN made = { signatures[k].address : k \in DOMAIN signatures }

\* Each output has a list of its own, which its owner does not work on, and no
\* list is lost: what is done to the owner's list after a push, its free
\* included, does not reach the transaction (transaction.c:13).
OutputsOwnLists ==
  LET Of(k) == outputs[k].balances
      held == IF outputs = Null THEN <<>> ELSE [k \in DOMAIN outputs |-> Of(k)]
  IN  /\ \A j, k \in DOMAIN held : held[j] = held[k] => j = k
      /\ list \notin ToSet(held)
      /\ DOMAIN lists = ToSet(held) \union ({list} \ {Null})

\* A reader of the format: counts first, balances by balance_from_bytes.
ReadOutput(acc, s) ==
  LET n == s[acc.pos + 1][2]
      At(k) == acc.pos + 2 * k
  IN  [pos |-> acc.pos + 2 + 2 * n,
       outs |-> Append(acc.outs,
                  [address |-> s[acc.pos],
                   balances |-> [k \in 1 .. n |-> balance_from_bytes(SubSeq(s, At(k), At(k) + 1))]])]

ReadOutputs(s) ==
  LET nin  == s[1][2]
      nout == s[nin + 2][2]
      read[k \in 0 .. nout] ==
        IF k = 0 THEN [pos |-> nin + 3, outs |-> <<>>] ELSE ReadOutput(read[k - 1], s)
  IN  read[nout]

Tagged(o) ==
  [address |-> <<"address", o.address>>,
   balances |-> [k \in DOMAIN o.balances |->
                   [value |-> <<"value", o.balances[k].value>>,
                    color |-> <<"color", o.balances[k].color>>]]]

\* The text reads as this transaction, and what follows the outputs is rest.
ReadsAs(s, said, rest) ==
  LET read == ReadOutputs(s)
  IN  /\ SubSeq(s, 2, s[1][2] + 1) = said.inputs
      /\ read.outs = [k \in DOMAIN said.outputs |-> Tagged(said.outputs[k])]
      /\ SubSeq(s, read.pos, Len(s)) = <<U32(0)>> \o rest

\* What is signed determines the transaction: an essence reads as the inputs,
\* outputs and balances it was made from, it fills its block exactly, and no
\* byte of it is left over from the allocation.
EssenceReads ==
  Built => \A e \in Sure!tx_essence \ {Null} :
             e # Corrupted /\ ReadsAs(Content(e), Said, <<>>)

\* tx_sign makes a valid transaction of one whose inputs all come from
\* addresses that are also outputs, and of no other: it signs for the outputs.
CoveredByOutputs == InputAddrs \subseteq { outputs[k].address : k \in DOMAIN outputs }

TxSignCovers ==
  signed.how = "tx_sign" /\ signed.complete /\ outputs # <<>> =>
    Sure!tx_signautres_valid = {CoveredByOutputs}

\* A transaction passes only if each input has a signature that was made for
\* what the transaction says now; without memory for the essence, only if each
\* input has a signature.
ValidMeansSigned ==
  Built /\ inputs # <<>> =>
    /\ TRUE \in tx_signautres_valid => InputAddrs \subseteq DOMAIN made
    /\ TRUE \in Sure!tx_signautres_valid =>
         \A a \in InputAddrs : a \in DOMAIN made /\ made[a] = Said

\* No address has two signatures.
OneSignatureEach ==
  \A j, k \in DOMAIN signatures :
    signatures[j].address = signatures[k].address => j = k

\* Once the block is reserved nothing is lost: the text reads as the
\* transaction, all its signatures and the end mark follow.
SerialisedWhole ==
  Built => \A r \in Reservations :
             r.ok => \A text \in tx_2_base64(r) : ReadsAs(text, Said, SignatureFields)

\* Why OutputsOwnLists holds: the inductive invariant of the proof.
ListsInv ==
  /\ outputs # Null => outputs \in Seq(tx_output_t)
  /\ DOMAIN lists \subseteq Places
  /\ OutputsOwnLists

-----------------------------------------------------------------------------
(* Why the properties of signatures and of the essence hold: types, and    *)
(* the inductive invariant of the proofs.                                  *)

balance_t == [value : Values, color : Color]

\* What a transaction can say.
Sayings == [inputs : Seq(OutputIds),
            outputs : Seq([address : Addresses, balances : Seq(balance_t)])]

\* The essence as a function of what the transaction says.
EssenceOf(said) ==
  LET Balances(l) == FlattenSeq([k \in DOMAIN l |-> BalanceFields(l[k])])
      OutputFields(o) ==
        << <<"address", o.address>>, U32(Len(o.balances)) >> \o Balances(o.balances)
  IN  <<U32(Len(said.inputs))>> \o said.inputs
        \o <<U32(Len(said.outputs))>>
        \o FlattenSeq([k \in DOMAIN said.outputs |-> OutputFields(said.outputs[k])])
        \o <<U32(0)>>

SignatureAddrs == { signatures[k].address : k \in DOMAIN signatures }

\* Each signature is made by the key beside it, for what was said then.
SignaturesInv ==
  /\ signatures \in Seq({ signatures[k] : k \in DOMAIN signatures })
  /\ OneSignatureEach
  /\ made \in [SignatureAddrs -> Sayings]
  /\ \A k \in DOMAIN signatures :
       /\ signatures[k].pub_key \in Seeds \X Indices
       /\ signatures[k].signature = [key  |-> signatures[k].pub_key,
                                     data |-> EssenceOf(made[signatures[k].address])]

\* As long as nothing is changed, all were made for what is said now.
SignedInv ==
  signed.how # "no" =>
    /\ Built
    /\ \A a \in DOMAIN made : made[a] = Said
    /\ signed.how = "tx_sign" =>
         /\ SignatureAddrs \subseteq { outputs[k].address : k \in DOMAIN outputs }
         /\ signed.complete => { outputs[k].address : k \in DOMAIN outputs } \subseteq SignatureAddrs

TxInv ==
  /\ ListsInv
  /\ inputs # Null => inputs \in Seq(OutputIds)
  /\ \A p \in DOMAIN lists : lists[p] \in Seq(balance_t)
  /\ SignaturesInv
  /\ SignedInv
=============================================================================
