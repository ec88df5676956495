---------------------------- MODULE PrefixCache ----------------------------
(***************************************************************************)
(* What the block pool (src/src/blockpool.rs) promises to the engine that  *)
(* owns it, without slots, reference counts, LRU clock or event runs: a    *)
(* bounded set of resident blocks, of which a live request holds some.  A  *)
(* held block is never dropped, and a block is dropped only to make room   *)
(* in a full pool or when the whole cache is cleared while nobody holds    *)
(* anything.                                                               *)
(***************************************************************************)
EXTENDS Integers, FiniteSets

CONSTANTS
  Requests,   \* the requests that call the pool
  Blocks,     \* block identities: content chained on everything before it
  Capacity    \* the number of physical slots

VARIABLES
  resident,   \* the blocks the pool has cached
  holds       \* holds[r]: the blocks request r keeps from being dropped

vars == <<resident, holds>>

Held == UNION {holds[r] : r \in Requests}

Init ==
  /\ resident = {}
  /\ holds = [r \in Requests |-> {}]

\* A block that is already resident is shared with request r.
Share(r, b) ==
  /\ b \in resident
  /\ holds' = [holds EXCEPT ![r] = @ \cup {b}]
  /\ UNCHANGED resident

\* Request r brings a new block in.  Only a full pool drops one for it, and
\* only one that nobody holds.
Store(r, b) ==
  /\ b \notin resident
  /\ \/ /\ Cardinality(resident) < Capacity
        /\ resident' = resident \cup {b}
     \/ /\ Cardinality(resident) = Capacity
        /\ \E v \in resident \ Held : resident' = (resident \ {v}) \cup {b}
  /\ holds' = [holds EXCEPT ![r] = @ \cup {b}]

\* Request r ends: it lets go of everything it holds, and nothing is dropped.
Release(r) ==
  /\ holds' = [holds EXCEPT ![r] = {}]
  /\ UNCHANGED resident

\* The cache is reset, which no request may be holding on to.
Clear ==
  /\ Held = {}
  /\ resident' = {}
  /\ UNCHANGED holds

Next ==
  \/ \E r \in Requests, b \in Blocks : Share(r, b) \/ Store(r, b)
  \/ \E r \in Requests : Release(r)
  \/ Clear

Spec == Init /\ [][Next]_vars
=============================================================================
