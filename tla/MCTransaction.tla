--------------------------- MODULE MCTransaction ---------------------------
(***************************************************************************)
(* Transactions for TLC: an address of the signer and one of somebody else *)
(***************************************************************************)
EXTENDS TransactionUse

MCAddresses == { address_get("mine", 0), address_get("other", 0) }

\* One place is as good as another.
Symmetry == Permutations(Places)
=============================================================================
