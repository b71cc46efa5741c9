----------------------------- MODULE MCBuffers -----------------------------
(***************************************************************************)
(* The buffers for TLC: base64 digits, the padding, a byte that is no      *)
(* character, the blanks base64 skips, and nothing.                        *)
(***************************************************************************)
EXTENDS Buffers

MCChunks == { <<>>, <<65, 65>>, <<61>>, <<200>>, <<32, 10>> }
=============================================================================
