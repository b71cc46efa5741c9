---------------------------- MODULE WalletRestart ----------------------------
(***************************************************************************)
(* The wallet of an application that can stop at any point, also between   *)
(* the POST of a payment and the marking of its sources, and creates the   *)
(* wallet again with wallet_init on the same seed.  Nothing of a wallet is *)
(* kept but the three indices the application hands to wallet_init; it may *)
(* have stored them at any earlier moment between two calls.               *)
(***************************************************************************)
EXTENDS Wallet

CONSTANT MaxRestarts   \* bound: how often the application stops

ASSUME MaxRestartsAssumption == MaxRestarts \in Nat

VARIABLES
  saved,      \* the indices the application has stored
  restarts    \* per restart: payments posted before it, and its first_unspent

rvars == <<vars, saved, restarts>>

Indices == [last_addr : Nat, first_unspent : Nat, last_unspent : Nat]

CurrentIndices ==
  [last_addr |-> last_addr_index, first_unspent |-> first_unspent_idx,
   last_unspent |-> last_unspent_idx]

\* What the table of a new wallet knows of the ledger: nothing if its refresh
\* fails, all of it otherwise.
Knowledge == { {}, ledger }

\* Mutation: the loop over the spent addresses stops one short.
InitialTable_OneShort(indices, known) ==
  [k \in 1 .. indices.last_addr + 1 |->
     [addr |-> k - 1, addr_index |-> k - 1,
      spent |-> k < indices.first_unspent,
      ids |-> { o \in known : o.addr = k - 1 }]]

\* The issued addresses with their own indices, those below first_unspent
\* spent.  wallet_refresh(include_spent) then asks for all of them, so that
\* the node answers for no address the table lacks.
InitialTable(indices, known) ==
  [k \in 1 .. indices.last_addr + 1 |->
     [addr |-> k - 1, addr_index |-> k - 1,
      spent |-> k - 1 < indices.first_unspent,
      ids |-> { o \in known : o.addr = k - 1 }]]

-----------------------------------------------------------------------------
RestartInit ==
  /\ Init
  /\ saved = CurrentIndices
  /\ restarts = <<>>

\* Indices stored after the last restart of the bound are never used.
Save ==
  /\ pc = "idle" /\ Len(restarts) < MaxRestarts
  /\ saved' = CurrentIndices
  /\ UNCHANGED <<vars, restarts>>

\* The process ends wherever it stands, and wallet_init runs in the next one.
Restart ==
  /\ Len(restarts) < MaxRestarts
  /\ last_addr_index' = saved.last_addr
  /\ first_unspent_idx' = saved.first_unspent
  /\ last_unspent_idx' = saved.last_unspent
  /\ spent_addr' = PrefixMask(saved.first_unspent)
  /\ unspent' \in { InitialTable(saved, known) : known \in Knowledge }
  /\ remainder' = NoAddress
  /\ pc' = "idle" /\ tx' = NoTx /\ consumed' = {}
  /\ restarts' = Append(restarts, [posted |-> Len(posted),
                                   first_unspent |-> saved.first_unspent])
  /\ UNCHANGED <<posted, node, saved>>

RestartNext ==
  \/ Next /\ UNCHANGED <<saved, restarts>>
  \/ Save
  \/ Restart

RestartSpec == RestartInit /\ [][RestartNext]_rvars /\ Fairness

-----------------------------------------------------------------------------
(* Properties.                                                             *)

RestartTypeOK ==
  /\ TypeOK
  /\ saved \in Indices
  /\ restarts \in Seq([posted : Nat, first_unspent : Nat])

Shared(i, j) == Sources(posted[i]) \intersect Sources(posted[j])

\* An address pays twice only if the application stopped in between and told
\* wallet_init that the address is unspent: what is lost with the process is
\* nothing but the spent bits from first_unspent on.
ReuseNeedsRestart ==
  \A i, j \in DOMAIN posted : i < j /\ Shared(i, j) # {} =>
    \E r \in DOMAIN restarts :
      /\ restarts[r].posted \in i .. j - 1
      /\ \A a \in Shared(i, j) : a >= restarts[r].first_unspent

(* Why it holds: the inductive invariant of the proofs, in parts.           *)

Committed(a) == \E k \in DOMAIN unspent : unspent[k].addr = a /\ ~Live(k)

\* The last restart came after the payment and forgot the address.
Forgotten(i, a) ==
  /\ restarts # <<>>
  /\ restarts[Len(restarts)].posted >= i
  /\ a >= restarts[Len(restarts)].first_unspent

\* What a payment took from is committed to it, or was forgotten since.
PaidOrForgotten ==
  /\ posted \in Seq(Range(posted))
  /\ \A i \in DOMAIN posted : \A a \in Sources(posted[i]) :
       a \in Nat /\ (Committed(a) \/ Forgotten(i, a))

RestartsOK ==
  /\ restarts \in Seq([posted : Nat, first_unspent : Nat])
  /\ \A r \in DOMAIN restarts : restarts[r].posted <= Len(posted)

\* Stored indices are those of a window inside the issued addresses.
SavedOK ==
  /\ saved \in [last_addr : Index, first_unspent : Nat, last_unspent : Nat]
  /\ saved.first_unspent <= saved.last_addr
  /\ saved.last_unspent <= saved.last_addr

RestartInv ==
  /\ AMTypeOK /\ WindowInsideIssued /\ last_addr_index \in Index
  /\ TableOK /\ CallOK /\ LedgerOK
  /\ PaidOrForgotten /\ RestartsOK /\ SavedOK
=============================================================================
