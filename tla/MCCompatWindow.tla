--------------------------- MODULE MCCompatWindow ---------------------------
(***************************************************************************)
(* A window of two lines, and upstream's next releases: a patch of either  *)
(* line, two new lines and a candidate of each.                            *)
(***************************************************************************)
EXTENDS CompatWindow

V(minor, patch, rc) == [minor |-> minor, patch |-> patch, rc |-> rc]
MCWindow == <<V(2, 0, 0), V(1, 0, 0)>>
MCForked == {2}
MCRc == V(2, 0, 1)
MCUpstream == {V(2, 1, 0), V(1, 1, 0), V(3, 0, 1), V(3, 0, 0), V(4, 0, 0)}
MCAnnotated == {V(2, 1, 0), V(3, 0, 0)}
=============================================================================
