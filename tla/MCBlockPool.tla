---------------------------- MODULE MCBlockPool ----------------------------
(* BlockPool on a small instance. *)
EXTENDS BlockPool

Base(blocks) == [blocks |-> blocks, lora |-> <<>>, salt |-> <<>>]

\* Prompts that share prefixes of every length, one of them longer than the
\* pool, and one under a LoRA adapter.
MCPrompts ==
  {Base(<<"a", "b", "c">>), Base(<<"a", "b">>), Base(<<"b">>),
   [blocks |-> <<"a">>, lora |-> <<"x">>, salt |-> <<"">>]}

Symmetry == Permutations(Requests)
=============================================================================
