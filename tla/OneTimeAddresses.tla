-------------------------- MODULE OneTimeAddresses --------------------------
(***************************************************************************)
(* What the wallet promises about the addresses it pays from, without its  *)
(* tables and masks: a growing range of issued addresses, and payments     *)
(* each of which takes all it takes from addresses no other payment takes  *)
(* from.                                                                   *)
(***************************************************************************)
EXTENDS Naturals, Sequences

VARIABLES
  issued,     \* the last issued address
  payments    \* the source addresses of each payment, in order

Used == UNION { payments[i] : i \in DOMAIN payments }

Init == issued \in Nat /\ payments = <<>>

Issue ==
  /\ issued' \in Nat /\ issued' > issued
  /\ UNCHANGED payments

Take(S) ==
  /\ S # {}
  /\ S \intersect Used = {}
  /\ payments' = Append(payments, S)
  /\ UNCHANGED issued

Next == Issue \/ \E S \in SUBSET (0 .. issued) : Take(S)

Spec == Init /\ [][Next]_<<issued, payments>>
=============================================================================
