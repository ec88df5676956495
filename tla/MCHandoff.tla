----------------------------- MODULE MCHandoff ------------------------------
(* Handoff on a small instance. *)
EXTENDS Handoff

MCRequests == {"r1", "r2", "r3"}

\* A prompt, a prefix of it, and one that shares nothing, for which one of the
\* others' blocks must go.
MCPrompt == [r1 |-> <<"a", "b">>, r2 |-> <<"a">>, r3 |-> <<"d">>]

\* Two ids whose patterns collide.
MCPattern == [r1 |-> 1, r2 |-> 3, r3 |-> 1]
=============================================================================
