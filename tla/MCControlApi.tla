---------------------------- MODULE MCControlApi ----------------------------
(* ControlApi with two engines and four patches: two that disagree on a       *)
(* field, one of a latency field, one that does not validate.                 *)
EXTENDS ControlApi

MCPatches ==
  {[seqs |-> 1, tokens |-> 1], [seqs |-> 2], [ttft |-> 2], [seqs |-> 3]}

MCDefault == [seqs |-> 0, tokens |-> 0, ttft |-> 0]

Patch(p) == [kind |-> "patch", patch |-> p]
Get(k) == [kind |-> k]

\* Two patches that disagree, or a patch and a reset, with a read or a patch
\* that is refused, overlap in every order.
MCMenu ==
  <<{Patch([seqs |-> 1, tokens |-> 1]), Patch([ttft |-> 2]), Get("get_stats")},
    {Patch([seqs |-> 2]), Get("reset_stats")},
    {Get("get_config"), Patch([seqs |-> 3])}>>
=============================================================================
