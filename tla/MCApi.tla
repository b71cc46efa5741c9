------------------------------- MODULE MCApi -------------------------------
(***************************************************************************)
(* The client API for TLC.  The documents a node may answer with: for      *)
(* get_unspent_outputs two proper ones, and one for each field that can be *)
(* missing, of the wrong type, doubled or out of range; for the others     *)
(* every choice of fields.                                                 *)
(***************************************************************************)
EXTENDS Api

State(confirmed) == [solid |-> TRUE, confirmed |-> confirmed, rejected |-> ~confirmed]
Money(color, value) == [color |-> color, value |-> value]
Out(id, st, balances) == [id |-> id, st |-> st, balances |-> balances]
At(address, ids) == [address |-> address, output_ids |-> ids]
Tell(list) == [error |-> Missing, unspent |-> list]

five == <<Money("IOTA", 5)>>
both == <<Money("red", 2), Money("IOTA", 3)>>
yes  == State(TRUE)
no   == State(FALSE)

ProperReplies ==
  { Tell(<<At("a", <<Out("x", yes, both), Out("y", no, five)>>), At("b", <<Out("y", yes, five)>>)>>),
    Tell(<<At("b", <<>>), At("a", <<Out("x", yes, five), Out("y", yes, five)>>)>>) }

OddReplies ==
  { Tell(list) : list \in
      { Missing, NotArray, <<>>,
        <<At("a", Missing), At("b", NotArray)>>,
        <<At("a", <<Out("x", yes, five)>>), At("b", NotArray)>>,
        <<At("a", <<Out("x", yes, five)>>), At(Missing, <<Out("y", yes, five)>>)>>,
        <<At("a", <<Out("x", no, both), Out(Missing, yes, five)>>)>>,
        <<At("a", <<Out("x", yes, both), Out("y", yes, <<Money(Missing, 4)>>)>>)>>,
        <<At("a", <<Out("x", yes, <<Money("red", 1), Money("red", 2)>>)>>)>>,
        <<At("a", <<Out("x", yes, five), Out("y", yes, NotArray)>>)>>,
        <<At("a", <<Out("x", yes, <<Money("red", -1), Money("IOTA", 11)>>), Out("y", Missing, five)>>)>> } }

MCReplies ==
  [call \in Calls |->
     CASE call = "unspent" -> ProperReplies \union OddReplies
            \union { [error |-> "e", unspent |-> Missing] }
       [] call \in {"send", "funds"} ->
            { [error |-> Missing, id |-> "m"], [error |-> Missing, id |-> Missing],
              [error |-> "e", id |-> Missing] }
       [] call = "info" ->
            [version : {"v", Missing}, id : {"i", Missing}, synced : BOOLEAN \union {Missing}]]

\* Without its middle a reply has lost elements, fields or its sense.
MCTorn ==
  [MCReplies EXCEPT !["unspent"] =
     { Tell(Missing), Tell(<<At("a", <<Out("x", no, both), Out(Missing, yes, five)>>)>>) }]
=============================================================================
