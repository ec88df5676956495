------------------------------ MODULE MCReplay ------------------------------
(* Replay over a trace of two records with the same blocks, one with their   *)
(* first block only, and one without an arrival.                             *)
EXTENDS Replay

CONSTANTS a, b, x, y

Record(prompt, arrival, output, itl, fin) ==
  [prompt |-> prompt, scheduled |-> TRUE, arrival |-> arrival, ids |-> TRUE,
   output |-> output, timed |-> itl # << >>, sized |-> itl # << >>, summary |-> FALSE, itl |-> itl, fin |-> fin]

MCTrace ==
  <<Record(<<a, a, a, b>>, 2, 2, <<1>>, "stop"),
    Record(<<a, a, a, b, b>>, 1, 4, <<1, 2>>, "length"),
    [Record(<<a, a, a, b>>, 0, 1, << >>, "stop") EXCEPT !.scheduled = FALSE],
    Record(<<a, a>>, 2, 3, <<2>>, "stop")>>

MCDataset ==
  <<[prompt |-> <<a, a, a, b>>, ids |-> TRUE, output |-> 2, fin |-> "stop"],
    [prompt |-> <<a, a>>, ids |-> TRUE, output |-> 1, fin |-> "stop"]>>

MCPrompts == {<<a, a, a, b, a>>, <<a, a, b, b>>, <<b, b>>, <<a>>}
MCIndexOf == (x :> 2) @@ (y :> 0)

MCModes ==
  [tokens : {"trace"}, match : {"index", "prefix"}, steps : BOOLEAN]
    \cup [tokens : {"dataset"}, match : {"index", "prefix"}, steps : {FALSE, TRUE}]
=============================================================================
