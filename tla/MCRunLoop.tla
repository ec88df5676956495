----------------------------- MODULE MCRunLoop -----------------------------
(* RunLoop with two clients, one of whose requests names a client_index that *)
(* has no socket.                                                            *)
EXTENDS RunLoop

CONSTANTS r1, r2, c1, c2, nobody

MCOrigin == (r1 :> c1) @@ (r2 :> c2)
MCClientIndex == (r1 :> c1) @@ (r2 :> nobody)
MCExtras ==
  {[type |-> "utility", via |-> c1], [type |-> "junk", via |-> c1],
   [type |-> "bad_utility", via |-> c2], [type |-> "wave", via |-> c2]}
=============================================================================
