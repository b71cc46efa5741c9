-------------------------- MODULE MCAddressManager --------------------------
(***************************************************************************)
(* The address manager for TLC: bytes of two bits, so that six addresses   *)
(* span three bytes and an address can lie inside a short mask, in the     *)
(* byte behind it, or beyond that.                                         *)
(***************************************************************************)
EXTENDS AddressManager

MCByteBits == 2
MCMaxIndex == 5
=============================================================================
