------------------------------ MODULE MCWallet ------------------------------
(***************************************************************************)
(* The wallet for TLC: payments of 2 coming in and amounts of 1 and 2      *)
(* going out, so that a payment needs part of an address, all of it, or    *)
(* two of them.                                                            *)
(***************************************************************************)
EXTENDS Wallet

iota == "iota"
red  == "red"

OneToken  == {iota}
TwoTokens == {iota, red}

\* Two iota.
IncomingIota == { [c \in OneToken |-> 2] }

\* Two iota, or one of each token.
IncomingMixed == { [c \in TwoTokens |-> IF c = iota THEN 2 ELSE 0],
                   [c \in TwoTokens |-> 1] }

MCAmounts == {1, 2}
=============================================================================
