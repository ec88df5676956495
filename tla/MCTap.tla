------------------------------- MODULE MCTap -------------------------------
(* Tap between one engine and a frontend that sends one of each INIT shape. *)
EXTENDS Tap

CONSTANTS r1, r2

MCInits ==
  {[inputs |-> 1, outputs |-> 1, coordinator |-> "none"],
   [inputs |-> 1, outputs |-> 1, coordinator |-> "both"],
   [inputs |-> 1, outputs |-> 1, coordinator |-> "one"],
   [inputs |-> 0, outputs |-> 0, coordinator |-> "none"],
   [inputs |-> 2, outputs |-> 1, coordinator |-> "none"]}
=============================================================================
