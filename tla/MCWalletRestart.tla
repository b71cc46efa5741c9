--------------------------- MODULE MCWalletRestart ---------------------------
(***************************************************************************)
(* The restarting wallet for TLC, with the tokens and payments of MCWallet *)
(***************************************************************************)
EXTENDS MCWallet, WalletRestart
=============================================================================
