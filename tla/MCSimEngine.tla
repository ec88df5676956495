---------------------------- MODULE MCSimEngine ----------------------------
(* SimEngine on small instances. *)
EXTENDS SimEngine

Kind(max_tokens, mode, lora) ==
  [max_tokens |-> max_tokens, mode |-> mode, lora |-> lora, priority |-> 0, arrival |-> 0]

\* A local request, one that pulls, and one without tokens to generate.
MCKinds ==
  {Kind(2, "local", {}), Kind(1, "remote", {}), Kind(0, "local", {})}

\* With ids reused: two adapters that exclude each other, one behind a pull and of
\* another priority, one prefilled for a remote decoder; and a request with the
\* remote-prefill flag but no descriptor.
MCReuseKinds ==
  {[Kind(1, "remote", {"x"}) EXCEPT !.priority = 1],
   [Kind(1, "advertise", {"y"}) EXCEPT !.arrival = 1],
   Kind(2, "flag", {})}

Symmetry == Permutations(Ids)
=============================================================================
