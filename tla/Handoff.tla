------------------------------ MODULE Handoff ------------------------------
(***************************************************************************)
(* The handoff of KV blocks from a prefill engine to a decode engine       *)
(* (src/src/dataplane.rs with the nixl feature, called from                *)
(* src/src/engine.rs): the slots of the prefill engine's registered pool,  *)
(* the bytes in them, the descriptor the decode engine caches, and the     *)
(* pull threads that read the slots while both engines go on.              *)
(*                                                                         *)
(* The bytes of a slot are the pattern of the request that filled it last. *)
(* The model also remembers which request and which block that was, which  *)
(* the code cannot see: a pattern is a sum of the id's bytes, so two ids   *)
(* may share it.  The prefill engine may crash and come back, with an      *)
(* empty pool at another address.  A decode engine's own bytes are never   *)
(* read (only the prefill role serves its pool) and are left out; of its   *)
(* pool, what matters is how many slots it had for the request.            *)
(***************************************************************************)
EXTENDS Integers, SequencesExt

CONSTANTS
  Requests,    \* each is prefilled under its own id
  Prompt,      \* Prompt[r]: the blocks of r's prompt, all different
  Pattern,     \* Pattern[r]: pattern_for of r's id, never zero
  Slots,       \* slots of the prefill engine's pool
  Nothing,     \* no block in a slot, a slot still zero, no descriptor
  MaxFaults    \* bound on restarts and on failing fetches and transfers

ASSUME HandoffAssumption ==
  /\ MaxFaults \in Nat
  /\ \A r \in Requests :
       /\ Prompt[r] \in Seq(ToSet(Prompt[r])) /\ IsInjective(Prompt[r])
       /\ \A b \in ToSet(Prompt[r]) : Nothing # [req |-> r, block |-> b]

VARIABLES
  cached,    \* slot -> the block it backs
  bytes,     \* slot -> [req, block] of the last fill
  req,       \* r -> [st, slots, local, landed]
  base,      \* the prefill engine's pool_base, which a restart changes
  peer,      \* the pool_base in the decode engine's `peers', if loaded
  dp_owner,  \* the pull threads holding the decode engine's data-plane mutex
  faults,    \* counted against MaxFaults
  disturbed  \* ghost: requests that a fault, a restart or another request's
             \* bytes got in the way of

vars == <<cached, bytes, req, base, peer, dp_owner, faults, disturbed>>

prefill == <<cached, bytes, base>>

-----------------------------------------------------------------------------
New == [st |-> "new", slots |-> <<>>, local |-> 0, landed |-> <<>>]

Init ==
  /\ cached = [s \in Slots |-> Nothing]
  /\ bytes = [s \in Slots |-> Nothing]
  /\ req = [r \in Requests |-> New]
  /\ base = 1 /\ peer = Nothing
  /\ dp_owner = {} /\ faults = 0 /\ disturbed = {}

In(st) == {r \in Requests : req[r].st = st}

\* Requests whose advertised blocks the decode engine may still read.
Outstanding == In("advertised") \cup In("pulling") \cup In("reading")

Pinned == UNION {ToSet(req[r].slots) : r \in In("running")}

-----------------------------------------------------------------------------
(* The prefill engine                                                      *)

\* The slots cache_prompt may give to a prompt: a block that is still cached
\* keeps its slot, the others get a free slot, or else any that nobody pins;
\* the call stops at a block for which there is none.
Victims(taken) ==
  LET open == Slots \ (Pinned \cup taken)
      free == {s \in open : cached[s] = Nothing}
  IN  IF free # {} THEN free ELSE open

SlotsFor(taken, b) ==
  LET hits == {s \in Slots \ taken : cached[s] = b}
  IN  IF hits # {} THEN hits ELSE Victims(taken)

BlockIds(p) ==
  {f \in UNION {[1..k -> Slots] : k \in 0..Len(p)} :
     LET taken(i) == {f[j] : j \in 1..(i - 1)}
     IN  /\ \A i \in DOMAIN f : f[i] \in SlotsFor(taken(i), p[i])
         /\ Len(f) < Len(p) => SlotsFor(taken(Len(f) + 1), p[Len(f) + 1]) = {}}

\* Admission pins the prompt's blocks.
Prefill(r) ==
  /\ req[r].st = "new"
  /\ \E f \in BlockIds(Prompt[r]) :
       /\ cached' = [s \in Slots |->
                       IF \E i \in DOMAIN f : f[i] = s
                         THEN Prompt[r][CHOOSE i \in DOMAIN f : f[i] = s]
                         ELSE cached[s]]
       /\ req' = [req EXCEPT ![r] = [@ EXCEPT !.st = "running", !.slots = f]]
  /\ UNCHANGED <<bytes, base, peer, dp_owner, faults, disturbed>>

Advertise_OnlyMisses(r) ==
  LET ids == {s \in ToSet(req[r].slots) : bytes[s] = Nothing \/ bytes[s].block # cached[s]}
  IN  /\ req[r].st = "running"
      /\ bytes' = [s \in Slots |-> IF s \in ids THEN [req |-> r, block |-> cached[s]]
                                   ELSE bytes[s]]
      /\ req' = [req EXCEPT ![r].st = "advertised"]
      /\ disturbed' = disturbed
           \cup {q \in Outstanding : ToSet(req[q].slots) \cap ids # {}}
      /\ UNCHANGED <<cached, base, peer, dp_owner, faults>>

\* step() when the prefill has finished: the blocks are unpinned, their slots
\* filled with the request's pattern, and the slot ids sent with its output.
Advertise(r) ==
  LET ids == ToSet(req[r].slots)
  IN  /\ req[r].st = "running"
      /\ bytes' = [s \in Slots |-> IF s \in ids THEN [req |-> r, block |-> cached[s]]
                                   ELSE bytes[s]]
      /\ req' = [req EXCEPT ![r].st = "advertised"]
      /\ disturbed' = disturbed
           \cup {q \in Outstanding : ToSet(req[q].slots) \cap ids # {}}
      /\ UNCHANGED <<cached, base, peer, dp_owner, faults>>

\* A request that is aborted, or is not for a remote decoder, only unpins.
Unpin(r) ==
  /\ req[r].st = "running"
  /\ req' = [req EXCEPT ![r] = [New EXCEPT !.st = "gone"]]
  /\ UNCHANGED <<prefill, peer, dp_owner, faults, disturbed>>

\* The prefill engine is restarted: an empty pool, registered elsewhere.  What it
\* advertised is still on its way, and a descriptor already loaded is stale.
Restart ==
  /\ faults < MaxFaults /\ faults' = faults + 1
  /\ cached' = [s \in Slots |-> Nothing]
  /\ bytes' = [s \in Slots |-> Nothing]
  /\ base' = base + 1
  /\ req' = [r \in Requests |-> IF r \in In("running") THEN New ELSE req[r]]
  /\ disturbed' = disturbed \cup (IF peer = Nothing THEN Outstanding ELSE Requests)
  /\ UNCHANGED <<peer, dp_owner>>

-----------------------------------------------------------------------------
(* The decode engine.  do_pull runs on a thread of its own and holds the   *)
(* mutex from beginning to end.                                            *)

\* admit: the request is parked, with the slots its own pool had for it.
Admit(r) ==
  /\ req[r].st = "advertised"
  /\ \E local \in 0..Len(req[r].slots) :
       req' = [req EXCEPT ![r] = [@ EXCEPT !.st = "pulling", !.local = local]]
  /\ UNCHANGED <<prefill, peer, dp_owner, faults, disturbed>>

PullLock(r) ==
  /\ req[r].st = "pulling" /\ dp_owner = {}
  /\ dp_owner' = {r}
  /\ UNCHANGED <<prefill, req, peer, faults, disturbed>>

Ends(r, st) ==
  /\ req' = [req EXCEPT ![r] = IF st = "ok" THEN [@ EXCEPT !.st = st]
                               ELSE [New EXCEPT !.st = st]]
  /\ dp_owner' = {}

\* Nothing advertised: nothing to move.
PullNothing(r) ==
  /\ r \in dp_owner /\ req[r].st = "pulling" /\ req[r].slots = <<>>
  /\ Ends(r, "ok")
  /\ UNCHANGED <<prefill, peer, faults, disturbed>>

\* ensure_peer fetches the descriptor once and keeps it.
EnsurePeer(r) ==
  /\ r \in dp_owner /\ req[r].st = "pulling" /\ req[r].slots # <<>>
  /\ peer' = IF peer = Nothing THEN base ELSE peer
  /\ req' = [req EXCEPT ![r].st = "reading"]
  /\ UNCHANGED <<prefill, dp_owner, faults, disturbed>>

FetchFails(r) ==
  /\ r \in dp_owner /\ req[r].st = "pulling" /\ req[r].slots # <<>> /\ peer = Nothing
  /\ faults < MaxFaults /\ faults' = faults + 1
  /\ disturbed' = disturbed \cup {r}
  /\ Ends(r, "failed")
  /\ UNCHANGED <<prefill, peer>>

\* The READ, one descriptor at a time: the prefill engine may write in between.
\* A descriptor from before a restart reads nothing.
Landed(r) == Len(req[r].landed)

ReadBlock(r) ==
  /\ req[r].st = "reading" /\ Landed(r) < Len(req[r].slots) /\ peer = base
  /\ req' = [req EXCEPT ![r].landed = Append(@, bytes[req[r].slots[Landed(r) + 1]])]
  /\ UNCHANGED <<prefill, peer, dp_owner, faults, disturbed>>

\* The transfer does not succeed within XFER_TIMEOUT, or NIXL reports an error.
ReadFails_NoTimeout(r) ==
  /\ req[r].st = "reading" /\ Landed(r) < Len(req[r].slots) /\ peer = base
  /\ faults < MaxFaults /\ faults' = faults + 1
  /\ disturbed' = disturbed \cup {r}
  /\ Ends(r, "failed")
  /\ UNCHANGED <<prefill, peer>>

ReadFails(r) ==
  /\ req[r].st = "reading" /\ Landed(r) < Len(req[r].slots)
  /\ \/ peer # base /\ UNCHANGED <<faults, disturbed>>
     \/ /\ peer = base /\ faults < MaxFaults /\ faults' = faults + 1
        /\ disturbed' = disturbed \cup {r}
  /\ Ends(r, "failed")
  /\ UNCHANGED <<prefill, peer>>

\* Only as many blocks are looked at as the decode engine has slots for.
Matches_AnyPattern(r) ==
  \A j \in 1..req[r].local : req[r].landed[j] # Nothing

Matches(r) ==
  \A j \in 1..req[r].local :
    req[r].landed[j] # Nothing /\ Pattern[req[r].landed[j].req] = Pattern[r]

Verify(r) ==
  /\ req[r].st = "reading" /\ req[r].slots # <<>> /\ Landed(r) = Len(req[r].slots)
  /\ Ends(r, IF Matches(r) THEN "ok" ELSE "failed")
  /\ UNCHANGED <<prefill, peer, faults, disturbed>>

-----------------------------------------------------------------------------
PullThread(r) ==
  \/ PullLock(r) \/ PullNothing(r) \/ EnsurePeer(r) \/ FetchFails(r)
  \/ ReadBlock(r) \/ ReadFails(r) \/ Verify(r)

Next ==
  \/ \E r \in Requests : Prefill(r) \/ Advertise(r) \/ Unpin(r) \/ Admit(r) \/ PullThread(r)
  \/ Restart

\* The pull threads run, and every fetch and transfer ends or times out.
Spec == Init /\ [][Next]_vars /\ \A r \in Requests : WF_vars(PullThread(r))
-----------------------------------------------------------------------------
(* Properties                                                              *)

\* A pull that succeeds verified the right bytes: each block it looked at was
\* written for this request and for this place in its prompt, although its slots
\* are no longer pinned when they are advertised and read.  The only exception is
\* another request with the same pattern that advertised the slot since.
VerifiedOwnBlocks ==
  \A r \in In("ok") : \A j \in 1..req[r].local :
    \/ req[r].landed[j] = [req |-> r, block |-> Prompt[r][j]]
    \/ /\ r \in disturbed
       /\ req[r].landed[j].req \in {q \in Requests \ {r} : Pattern[q] = Pattern[r]}

\* A pull fails only if something got in its way: a failing fetch or transfer, a
\* restart that its descriptor or its advertisement does not survive, or another
\* request that advertised one of the same slots, evicted or shared, first.
FailsOnlyIfDisturbed == In("failed") \subseteq disturbed

\* The outcome a pull reports is the right one: success for its own blocks only,
\* failure only where something interfered.
PullOutcome == VerifiedOwnBlocks /\ FailsOnlyIfDisturbed

\* A pull ends, whatever the prefill engine does, and lets go of the mutex that
\* the decode engine's own task waits for.
PullsEnd == \A r \in Requests : req[r].st = "pulling" ~> req[r].st \in {"ok", "failed"}
=============================================================================
