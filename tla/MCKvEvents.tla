----------------------------- MODULE MCKvEvents -----------------------------
(* KvEvents on a small instance. *)
EXTENDS KvEvents

=============================================================================
