----------------------------- MODULE ByteString -----------------------------
(***************************************************************************)
(* What a byte buffer promises its user: a byte string that calls append   *)
(* to, replace or terminate.  A call that reports failure has changed      *)
(* nothing.                                                                *)
(***************************************************************************)
EXTENDS Sequences, Integers

CONSTANT Chunks   \* what is appended or assigned

VARIABLES
  value,   \* the byte string
  last     \* the last call: what it was, its argument, and what it returned

Init == value = <<>> /\ last = [call |-> "none", arg |-> <<>>, ok |-> TRUE]

Reports(call, s, ok) == last' = [call |-> call, arg |-> s, ok |-> ok]

Extend(s, ok) ==
  /\ Reports("append", s, ok)
  /\ value' = IF ok THEN value \o s ELSE value

Assign(s, ok) ==
  /\ Reports("set", s, ok)
  /\ value' = IF ok THEN s ELSE value

\* Nothing is reported, so both outcomes are possible: the string ends with a
\* 0 as it stands, gets one, or there was no memory for it.
Terminate ==
  /\ Reports("2str", <<>>, TRUE)
  /\ value' \in {value, value \o <<0>>}
  /\ value # <<>> /\ value[Len(value)] = 0 => value' = value

Clear == Reports("free", <<>>, TRUE) /\ value' = <<>>

Look == last'.call \notin {"append", "set", "2str", "free"} /\ value' = value

Next ==
  \/ \E s \in Chunks, ok \in BOOLEAN : Extend(s, ok) \/ Assign(s, ok)
  \/ Terminate
  \/ Clear
  \/ Look

Spec == Init /\ [][Next]_<<value, last>>
=============================================================================
