----------------------------- MODULE SimEngine -----------------------------
(***************************************************************************)
(* The simulated engine of src/src/engine.rs: the waiting queue, the       *)
(* running batch, the remote-KV pulls in flight on their own threads, the  *)
(* step clock (one composed step at a time: decoders and prefill chunks),  *)
(* the emission queues and the control API's request counters.             *)
(*                                                                         *)
(* One task owns the engine.  A handler runs to its end before the next    *)
(* message or deadline is taken, so `pc' is "idle" between handlers; its   *)
(* loops are one action per iteration, with what is left of the loop in    *)
(* `todo'.  Every handler that changes the batch ends in schedule()        *)
(* followed by ensure_step() (pc = "schedule").  Only the pull threads run *)
(* concurrently, and they meet the engine at the data-plane mutex and at   *)
(* the completion channel.                                                 *)
(*                                                                         *)
(* A definition such as Generate_Unclamped is a faulty variant of the one  *)
(* after it; the properties are tested on these.                           *)
(*                                                                         *)
(* Abstractions.  Time: a step or an emission may fall due whenever the    *)
(* engine is idle.  One step() call that completes several steps or emits  *)
(* several chunks of a request is a run of CompleteStep and Emit actions:  *)
(* schedule() and ensure_step() are at a fixed point between them.  The    *)
(* block pool (module BlockPool) is the set `pins' of requests that hold   *)
(* blocks, and the size of its prefix hit is a choice of `remaining'.      *)
(* `out', `base' and `pins' are history: no guard of the engine reads them *)
(* (IdPolicy, a choice of the frontend, reads `out').  A latency patch     *)
(* changes delays only.                                                    *)
(***************************************************************************)
EXTENDS Integers, SequencesExt

CONSTANTS
  Ids,        \* request ids the frontend may use
  Kinds,      \* records [max_tokens, mode, lora, priority, arrival]; lora: {} or one adapter
  IdPolicy,   \* when the frontend may use an id again: "fresh", "finished", "any"
  Policy,     \* scheduling policy: "fcfs" or "priority"
  MaxLoras,   \* distinct adapters in the running batch; 0 disables the cap
  ChunkSize,  \* output_token_chunk_size
  Threshold,  \* long_prefill_token_threshold; 0 disables it
  SeqCaps,    \* values of max_num_seqs a config patch may set
  Budgets,    \* values of max_num_batched_tokens a config patch may set
  Failures,   \* whether maybe_fail can fail a request
  MaxPrompt,  \* bound on the uncached prompt tokens of a request
  MaxDraw,    \* bound on the tokens drawn for one decode step
  MaxSends,   \* bound on the requests sent
  MaxInputs,  \* bound on the other messages (abort, control, utility)
  MaxAbort    \* bound on the ids in one abort message

ASSUME KindsAssumption ==
  \A k \in Kinds :
    /\ k.max_tokens \in Nat /\ k.mode \in {"local", "advertise", "remote", "flag"}
    /\ IsFiniteSet(k.lora) /\ Cardinality(k.lora) <= 1
ASSUME ConfigAssumption ==
  SeqCaps \subseteq Nat /\ Budgets \subseteq Nat /\ ChunkSize \in Nat /\ Threshold \in Nat
ASSUME BoundsAssumption ==
  /\ MaxPrompt \in Nat /\ MaxDraw \in Nat /\ MaxSends \in Nat
  /\ MaxInputs \in Nat /\ MaxAbort \in Nat /\ MaxLoras \in Nat

VARIABLES
  waiting,         \* sequence of [n, id, kind]; n numbers the requests sent
  pending_pulls,   \* id -> [n, kind]: admitted, its remote KV still on the way
  active_requests, \* id -> ActiveRequest: the running batch
  current_step,    \* the composed step, or NoStep
  prefill_order,   \* ids, in the order prefills claim the step budget
  cfg,             \* [max_num_seqs, budget]
  stats,           \* [received, completed, failed, aborted]
  pulls,           \* pull threads that have not yet locked the data plane
  dp_owner,        \* the pull thread inside the data-plane mutex ({} or one)
  completions,     \* pull_completion channel
  pc, todo,        \* where the handler in progress is
  inputs,          \* messages counted against MaxInputs
  lifecycle,       \* of run_loop: "running", "draining" (drain_deadline set), "ended"
  out,             \* n -> [id, tokens, ends]: what the frontend was sent
  base,            \* requests unfinished at the last reset of the counters
  pins             \* requests whose prompt blocks are pinned in the pool

engine == <<waiting, pending_pulls, active_requests, current_step, prefill_order>>
plane == <<pulls, dp_owner, completions>>
history == <<out, base, pins>>
session == <<inputs, lifecycle>>
vars == <<engine, cfg, stats, plane, pc, todo, session, history>>

-----------------------------------------------------------------------------
NoStep == [decoders |-> <<>>, chunks |-> <<>>]

NoStats == [received |-> 0, completed |-> 0, failed |-> 0, aborted |-> 0]

Put(f, x, v) == [y \in DOMAIN f \cup {x} |-> IF y = x THEN v ELSE f[y]]

Drop(f, S) == [y \in DOMAIN f \ S |-> f[y]]

Larger(a, b) == IF a >= b THEN a ELSE b

Smaller(a, b) == IF a <= b THEN a ELSE b

Init ==
  /\ waiting = <<>> /\ prefill_order = <<>> /\ completions = <<>> /\ todo = <<>>
  /\ pending_pulls = <<>> /\ active_requests = <<>>
  /\ current_step = NoStep
  /\ cfg \in [max_num_seqs : SeqCaps, budget : Budgets]
  /\ stats = NoStats
  /\ pulls = {} /\ dp_owner = {}
  /\ pc = "idle" /\ inputs = 0 /\ lifecycle = "running"
  /\ out = <<>> /\ base = 0 /\ pins = {}

-----------------------------------------------------------------------------
(* Views of the state                                                      *)

WaitingIds == {waiting[k].id : k \in DOMAIN waiting}

InFlight == DOMAIN active_requests \cup DOMAIN pending_pulls \cup WaitingIds

NumUnfinished ==
  Cardinality(DOMAIN active_requests) + Cardinality(DOMAIN pending_pulls) + Len(waiting)

\* run_loop has left its loop: after abort_all_requests, or when a drain is done.
Ended == lifecycle = "ended" \/ (lifecycle = "draining" /\ NumUnfinished = 0)

\* run_loop is at its select!, between two handlers.
Ready == pc = "idle" /\ ~Ended

IsGenerating(i) == active_requests[i].generated < active_requests[i].max_tokens

Generating == {i \in DOMAIN active_requests : IsGenerating(i)}

Prefilling == {i \in DOMAIN active_requests : active_requests[i].phase = "prefill"}

Decoders_AnyPhase == Generating

Decoders == Generating \ Prefilling

BatchSize == Cardinality(Generating) + Cardinality(DOMAIN pending_pulls)

RunningCapacity == Larger(cfg.max_num_seqs, 1)

Budget == Larger(cfg.budget, 1)

\* step_token_backlog: every prefill's remaining tokens, one per decoder and
\* one per pending pull.
StepTokenBacklog ==
  SumFunction([i \in Prefilling |-> active_requests[i].remaining])
    + Cardinality(Decoders) + Cardinality(DOMAIN pending_pulls)

-----------------------------------------------------------------------------
(* Which waiting request is admitted next                                  *)

ResidentLoras ==
  UNION ({active_requests[i].kind.lora : i \in DOMAIN active_requests}
           \cup {pending_pulls[i].kind.lora : i \in DOMAIN pending_pulls})

LoraAdmits_IgnoresPulls(kind) ==
  LET resident == UNION {active_requests[i].kind.lora : i \in DOMAIN active_requests}
  IN  MaxLoras = 0 \/ kind.lora \subseteq resident \/ Cardinality(resident) < MaxLoras

LoraAdmits(kind) ==
  \/ MaxLoras = 0
  \/ kind.lora \subseteq ResidentLoras
  \/ Cardinality(ResidentLoras) < MaxLoras

Admissible == {k \in DOMAIN waiting : LoraAdmits(waiting[k].kind)}

\* Queue position j goes before position k.
Before(j, k) ==
  LET a == waiting[j].kind
      b == waiting[k].kind
  IN  CASE Policy = "fcfs" -> j < k
        [] Policy = "priority" ->
             \/ a.priority < b.priority
             \/ a.priority = b.priority /\ a.arrival < b.arrival
             \/ a.priority = b.priority /\ a.arrival = b.arrival /\ j < k

NextAdmissible == {k \in Admissible : \A j \in Admissible \ {k} : Before(k, j)}

CanAdmit_OffByOne ==
  BatchSize <= RunningCapacity /\ StepTokenBacklog < Budget /\ Admissible # {}

CanAdmit ==
  /\ BatchSize < RunningCapacity
  /\ StepTokenBacklog < Budget
  /\ Admissible # {}

-----------------------------------------------------------------------------
(* Generation                                                              *)

Generate_Unclamped(a, size) ==
  IF size = 0 THEN a
  ELSE [a EXCEPT !.generated = @ + size, !.pending_emits = Append(@, size)]

\* ActiveRequest::generate: at most `size' of the tokens still owed become one
\* chunk waiting for its emission.
Generate(a, size) ==
  LET len == Smaller(a.max_tokens - a.generated, size)
  IN  IF len = 0 THEN a
      ELSE [a EXCEPT !.generated = @ + len, !.pending_emits = Append(@, len)]

\* The elements of s that are in T, in order (SelectSeq, as a recursive function,
\* which proofs can reason about).
Keep(s, T) ==
  LET kept[k \in 0..Len(s)] ==
        IF k = 0 THEN <<>>
        ELSE IF s[k] \in T THEN Append(kept[k-1], s[k]) ELSE kept[k-1]
  IN  kept[Len(s)]

PrefillBudget_Whole(draws) == Budget

\* What the decoders' claims leave of the step budget.
PrefillBudget(draws) == Larger(Budget - SumFunction(draws), 0)

\* compose_step: every decoder draws its tokens; what the draws leave of the
\* budget goes to the prefills in order; left[k] is what is left after the
\* k-th.  With neither decoders nor chunks the clock stays idle.
ComposeStep ==
  LET order == Keep(prefill_order, Prefilling)
      Wanted(k) == IF Threshold > 0
                     THEN Smaller(active_requests[order[k]].remaining, Threshold)
                     ELSE active_requests[order[k]].remaining
  IN  \E draws \in [Decoders -> 1..MaxDraw], left \in [0..Len(order) -> 0..Budget] :
        /\ left[0] = PrefillBudget(draws)
        /\ \A k \in 1..Len(order) : left[k] = left[k-1] - Smaller(Wanted(k), left[k-1])
        /\ prefill_order' = order
        /\ current_step' =
             [decoders |-> draws,
              chunks |-> Keep([k \in 1..Len(order) |->
                                 [id |-> order[k], take |-> left[k-1] - left[k]]],
                              [id : Ids, take : 1..Budget])]

EnsureStep_DecodersOnly ==
  IF current_step = NoStep /\ Decoders # {}
    THEN ComposeStep
    ELSE UNCHANGED <<current_step, prefill_order>>

EnsureStep ==
  IF current_step = NoStep
    THEN ComposeStep
    ELSE UNCHANGED <<current_step, prefill_order>>

-----------------------------------------------------------------------------
(* Requests from the frontend                                              *)

MayUse(i) ==
  CASE IdPolicy = "any" -> TRUE
    [] IdPolicy = "finished" -> i \notin InFlight
    [] IdPolicy = "fresh" -> \A n \in DOMAIN out : out[n].id # i

IsDuplicate_IgnoresPulls(i) == i \in DOMAIN active_requests \cup WaitingIds

IsDuplicate(i) == i \in InFlight

Receive(i, ends) ==
  /\ Ready
  /\ Len(out) < MaxSends
  /\ MayUse(i)
  /\ out' = Append(out, [id |-> i, tokens |-> 0, ends |-> ends])

\* A duplicate of an id in flight is answered with an error.
AddDuplicate(i) ==
  /\ lifecycle = "running"
  /\ Receive(i, 1)
  /\ IsDuplicate(i)
  /\ stats' = [stats EXCEPT !.received = @ + 1, !.failed = @ + 1]
  /\ UNCHANGED <<engine, cfg, plane, pc, todo, session, base, pins>>

\* maybe_fail: over-long or injected failures never enter the queue.
AddFailed(i) ==
  /\ lifecycle = "running"
  /\ Failures
  /\ Receive(i, 1)
  /\ ~IsDuplicate(i)
  /\ stats' = [stats EXCEPT !.received = @ + 1, !.failed = @ + 1]
  /\ UNCHANGED <<engine, cfg, plane, pc, todo, session, base, pins>>

AddQueued(i, kind) ==
  /\ lifecycle = "running"
  /\ Receive(i, 0)
  /\ ~IsDuplicate(i)
  /\ stats' = [stats EXCEPT !.received = @ + 1]
  /\ waiting' = Append(waiting, [n |-> Len(out) + 1, id |-> i, kind |-> kind])
  /\ pc' = "schedule"
  /\ UNCHANGED <<pending_pulls, active_requests, current_step, prefill_order, cfg, plane,
                 todo, session, base, pins>>

-----------------------------------------------------------------------------
(* schedule() and ensure_step(), the tail of every handler                 *)

RejectInvalid_NotFailed(q) ==
  /\ out' = [out EXCEPT ![q.n].ends = @ + 1]
  /\ pins' = pins \ {q.n}
  /\ UNCHANGED <<active_requests, prefill_order, stats>>

\* admit_direct, a request without tokens to generate: it is answered and the
\* pins just taken for it are released.
RejectInvalid(q) ==
  /\ stats' = [stats EXCEPT !.failed = @ + 1]
  /\ out' = [out EXCEPT ![q.n].ends = @ + 1]
  /\ pins' = pins \ {q.n}
  /\ UNCHANGED <<active_requests, prefill_order>>

\* max_tokens of a running request: cut to a sampled or recorded length of at
\* least one token.
Lengths(kind) == 1..kind.max_tokens

\* admit_direct: the request joins the batch.  A do_remote_prefill request has
\* no prompt to compute, any other has at least one token.
Activate(q) ==
  /\ \E max_tokens \in Lengths(q.kind), remaining \in 1..MaxPrompt :
       LET local == q.kind.mode \in {"local", "advertise"}
       IN  /\ active_requests' =
                Put(active_requests, q.id,
                    [n |-> q.n, kind |-> q.kind,
                     max_tokens |-> max_tokens,
                     phase |-> IF local THEN "prefill" ELSE "decode",
                     remaining |-> IF local THEN remaining ELSE 0,
                     generated |-> 0, emitted |-> 0, pending_emits |-> <<>>])
           /\ prefill_order' = IF local THEN Append(prefill_order, q.id) ELSE prefill_order
  /\ pins' = pins \cup {q.n}
  /\ UNCHANGED <<stats, out>>

AdmitDirect(q) ==
  \/ q.kind.max_tokens = 0 /\ RejectInvalid(q)
  \/ q.kind.max_tokens > 0 /\ Activate(q)

\* admit: a request with a remote KV descriptor is parked and its pull starts
\* on a thread of its own (if the spawn fails the pull has failed at once).
AdmitPull(q) ==
  /\ pending_pulls' = Put(pending_pulls, q.id, [n |-> q.n, kind |-> q.kind])
  /\ pins' = pins \cup {q.n}
  /\ \/ pulls' = pulls \cup {[n |-> q.n, id |-> q.id]} /\ UNCHANGED completions
     \/ completions' = Append(completions, [n |-> q.n, id |-> q.id])
        /\ UNCHANGED pulls
  /\ UNCHANGED <<active_requests, prefill_order, stats, out>>

Admit ==
  /\ pc = "schedule"
  /\ CanAdmit
  /\ \E k \in NextAdmissible :
       /\ waiting' = RemoveAt(waiting, k)
       /\ IF waiting[k].kind.mode = "remote"
            THEN AdmitPull(waiting[k])
            ELSE AdmitDirect(waiting[k]) /\ UNCHANGED <<pending_pulls, pulls, completions>>
  /\ UNCHANGED <<current_step, cfg, dp_owner, pc, todo, session, base>>

ScheduleEnd ==
  /\ pc = "schedule"
  /\ ~CanAdmit
  /\ EnsureStep
  /\ pc' = "idle"
  /\ UNCHANGED <<waiting, pending_pulls, active_requests, cfg, stats, plane, todo, session,
                 history>>

\* A loop over s: schedule() follows once nothing is left.
Loop(name, s) ==
  /\ todo' = s
  /\ pc' = IF s = <<>> THEN "schedule" ELSE name

-----------------------------------------------------------------------------
(* step(): the step clock and the emissions                                *)

\* complete_step: every decoder still in the batch generates, a draw of several
\* tokens being the chunk; then the prefill chunks are drained one by one.
CompleteStep ==
  /\ Ready
  /\ current_step # NoStep
  /\ active_requests' =
       [i \in DOMAIN active_requests |->
          IF i \in DOMAIN current_step.decoders
            THEN Generate(active_requests[i],
                          IF current_step.decoders[i] > 1 THEN current_step.decoders[i]
                                                          ELSE ChunkSize)
            ELSE active_requests[i]]
  /\ current_step' = NoStep
  /\ Loop("drain", current_step.chunks)
  /\ UNCHANGED <<waiting, pending_pulls, prefill_order, cfg, stats, plane, session, history>>

\* One prefill chunk: the chunk that computes the last prompt token also
\* generates the first output (a replayed request its recorded first chunk).
DrainChunk ==
  /\ pc = "drain"
  /\ LET i == Head(todo).id
         left == Larger(active_requests[i].remaining - Head(todo).take, 0)
     IN  CASE i \notin Prefilling -> UNCHANGED active_requests
           [] i \in Prefilling /\ left > 0 ->
                active_requests' = [active_requests EXCEPT ![i].remaining = left]
           [] OTHER ->
                \E size \in {ChunkSize} \cup 1..MaxDraw :
                  active_requests' =
                    [active_requests EXCEPT
                       ![i] = Generate([@ EXCEPT !.phase = "decode", !.remaining = 0], size)]
  /\ Loop("drain", Tail(todo))
  /\ UNCHANGED <<waiting, pending_pulls, current_step, prefill_order, cfg, stats, plane, session,
                 history>>

\* The emission part of step(): each request in R has a chunk due.  A request
\* that has emitted its last token is counted, removed and unpinned, and then
\* advertised if its KV is for a remote decoder.
Emit(R) ==
  /\ Ready
  /\ R # {}
  /\ \A i \in R : active_requests[i].pending_emits # <<>>
  /\ LET sent(i) == Head(active_requests[i].pending_emits)
         finished == {i \in R : active_requests[i].emitted + sent(i)
                                  >= active_requests[i].max_tokens}
     IN  /\ active_requests' =
              [i \in DOMAIN active_requests \ finished |->
                 IF i \in R
                   THEN [active_requests[i] EXCEPT !.emitted = @ + sent(i),
                                                   !.pending_emits = Tail(@)]
                   ELSE active_requests[i]]
         /\ out' = [n \in DOMAIN out |->
                      IF \E i \in R : active_requests[i].n = n
                        THEN LET i == CHOOSE j \in R : active_requests[j].n = n
                             IN  [out[n] EXCEPT !.tokens = @ + sent(i),
                                                !.ends = IF i \in finished THEN @ + 1 ELSE @]
                        ELSE out[n]]
         /\ pins' = pins \ {active_requests[i].n : i \in finished}
         /\ stats' = [stats EXCEPT !.completed = @ + Cardinality(finished)]
         /\ \E s \in SetToSeqs({i \in finished : active_requests[i].kind.mode = "advertise"}) :
              Loop("advertise", s)
  /\ UNCHANGED <<waiting, pending_pulls, current_step, prefill_order, cfg, plane, session, base>>

\* advertise_prefilled runs under the data-plane mutex, and waits for it.
AdvertiseOne ==
  /\ pc = "advertise"
  /\ dp_owner = {}
  /\ Loop("advertise", Tail(todo))
  /\ UNCHANGED <<engine, cfg, stats, plane, session, history>>

-----------------------------------------------------------------------------
(* Pulls                                                                   *)

PullLock(p) ==
  /\ dp_owner = {}
  /\ dp_owner' = {p}
  /\ pulls' = pulls \ {p}
  /\ UNCHANGED <<engine, cfg, stats, completions, pc, todo, session, history>>

PullDone_FailureLost(p, ok) ==
  /\ dp_owner = {p}
  /\ dp_owner' = {}
  /\ completions' = IF ok THEN Append(completions, [n |-> p.n, id |-> p.id])
                    ELSE completions
  /\ UNCHANGED <<engine, cfg, stats, pulls, pc, todo, session, history>>

\* The thread posts its result, success or failure: finish_pull only logs which.
PullDone(p, ok) ==
  /\ dp_owner = {p}
  /\ dp_owner' = {}
  /\ completions' = Append(completions, [n |-> p.n, id |-> p.id])
  /\ UNCHANGED <<engine, cfg, stats, pulls, pc, todo, session, history>>

\* The pending request a completion is for, by id.
PullTarget(c) == {c.id} \cap DOMAIN pending_pulls

\* finish_pull for a request that is pending: admitted, even if the pull failed.
FinishPull ==
  /\ Ready
  /\ completions # <<>>
  /\ \E i \in PullTarget(Head(completions)) :
       /\ pending_pulls' = Drop(pending_pulls, {i})
       /\ AdmitDirect([n |-> pending_pulls[i].n, id |-> i, kind |-> pending_pulls[i].kind])
  /\ completions' = Tail(completions)
  /\ pc' = "schedule"
  /\ UNCHANGED <<waiting, current_step, cfg, pulls, dp_owner, todo, session, base>>

\* finish_pull for an id no longer pending: the result is dropped.
DropPull ==
  /\ Ready
  /\ completions # <<>>
  /\ PullTarget(Head(completions)) = {}
  /\ completions' = Tail(completions)
  /\ UNCHANGED <<engine, cfg, stats, pulls, dp_owner, pc, todo, session, history>>

-----------------------------------------------------------------------------
(* Abort, control and utility messages                                     *)

Input == Ready /\ inputs < MaxInputs /\ inputs' = inputs + 1 /\ UNCHANGED lifecycle

Abort(s) ==
  /\ Input
  /\ Loop("abort", s)
  /\ UNCHANGED <<engine, cfg, stats, plane, history>>

RemoveWaiting_Kept(i) == waiting

\* The queue without request i.
RemoveWaiting(i) == RemoveFirstMatch(waiting, LAMBDA q : q.id = i)

\* The request id i stands for in the batch, else in the pending pulls, else in
\* the queue; {} if it is unknown.
Holder(i) ==
  CASE i \in DOMAIN active_requests -> {active_requests[i].n}
    [] i \in DOMAIN pending_pulls \ DOMAIN active_requests -> {pending_pulls[i].n}
    [] OTHER -> {waiting[k].n : k \in {j \in DOMAIN waiting : waiting[j].id = i}}

\* One id of abort_requests: release under the data-plane mutex, then remove
\* the request wherever it stands; an unknown id is ignored.
AbortOne ==
  /\ pc = "abort"
  /\ dp_owner = {}
  /\ LET i == Head(todo)
     IN  /\ \/ /\ i \in DOMAIN active_requests
               /\ active_requests' = Drop(active_requests, {i})
               /\ UNCHANGED <<pending_pulls, waiting>>
            \/ /\ i \in DOMAIN pending_pulls \ DOMAIN active_requests
               /\ pending_pulls' = Drop(pending_pulls, {i})
               /\ UNCHANGED <<active_requests, waiting>>
            \/ /\ i \notin DOMAIN active_requests \cup DOMAIN pending_pulls
               /\ waiting' = RemoveWaiting(i)
               /\ UNCHANGED <<active_requests, pending_pulls>>
         /\ stats' = [stats EXCEPT !.aborted = @ + Cardinality(Holder(i))]
         /\ out' = [n \in DOMAIN out |->
                      IF n \in Holder(i) THEN [out[n] EXCEPT !.ends = @ + 1] ELSE out[n]]
         /\ pins' = pins \ Holder(i)
  /\ Loop("abort", Tail(todo))
  /\ UNCHANGED <<current_step, prefill_order, cfg, plane, session, base>>

PatchConfig(c) ==
  /\ Input
  /\ cfg' = c
  /\ pc' = "schedule"
  /\ UNCHANGED <<engine, stats, plane, todo, history>>

ResetStats ==
  /\ Input
  /\ stats' = NoStats
  /\ base' = NumUnfinished
  /\ UNCHANGED <<engine, cfg, plane, pc, todo, out, pins>>

ResetPrefixCache_IgnoresPulls ==
  /\ Input
  /\ pins' = IF DOMAIN active_requests = {} THEN {} ELSE pins
  /\ UNCHANGED <<engine, cfg, stats, plane, pc, todo, out, base>>

\* reset_prefix_cache drops every block, pinned or not, so it is refused while
\* a request is running or pulling.
ResetPrefixCache ==
  /\ Input
  /\ pins' = IF DOMAIN active_requests = {} /\ DOMAIN pending_pulls = {} THEN {} ELSE pins
  /\ UNCHANGED <<engine, cfg, stats, plane, pc, todo, out, base>>

-----------------------------------------------------------------------------
(* Shutdown, as run_loop drives it                                         *)

\* The signal, with a shutdown_timeout: drain.
StartDrain ==
  /\ Ready
  /\ lifecycle = "running"
  /\ inputs < MaxInputs
  /\ inputs' = inputs + 1
  /\ lifecycle' = "draining"
  /\ UNCHANGED <<engine, cfg, stats, plane, pc, todo, history>>

\* reject_request: a request that arrives during the drain is answered at once,
\* whether or not its id is in flight.
RejectRequest(i) ==
  /\ lifecycle = "draining"
  /\ Receive(i, 1)
  /\ stats' = [stats EXCEPT !.received = @ + 1, !.aborted = @ + 1]
  /\ UNCHANGED <<engine, cfg, plane, pc, todo, session, base, pins>>

AbortAllIds_IgnoresPulls(a, p) == a \o [k \in DOMAIN waiting |-> waiting[k].id]

\* The ids in flight: the batch and the pending pulls, in the order a and p of
\* their maps, then the queue.
AbortAllIds(a, p) == a \o p \o [k \in DOMAIN waiting |-> waiting[k].id]

\* abort_all_requests: the signal with no shutdown_timeout, or the drain's
\* deadline.  It is the last call of the engine.
AbortAll ==
  /\ Ready
  /\ lifecycle = "running" => inputs < MaxInputs
  /\ inputs' = IF lifecycle = "running" THEN inputs + 1 ELSE inputs
  /\ lifecycle' = "ended"
  /\ \E a \in SetToSeqs(DOMAIN active_requests), p \in SetToSeqs(DOMAIN pending_pulls) :
       Loop("abort", AbortAllIds(a, p))
  /\ UNCHANGED <<engine, cfg, stats, plane, history>>

-----------------------------------------------------------------------------
AbortLists == UNION {[1..k -> Ids] : k \in 1..MaxAbort}

Configs == [max_num_seqs : SeqCaps, budget : Budgets]

\* What the frontend and the control API send.
Message ==
  \/ \E i \in Ids : AddDuplicate(i)
  \/ \E i \in Ids : AddFailed(i)
  \/ \E i \in Ids, kind \in Kinds : AddQueued(i, kind)
  \/ \E s \in AbortLists : Abort(s)
  \/ \E c \in Configs : PatchConfig(c)
  \/ ResetStats
  \/ ResetPrefixCache
  \/ StartDrain
  \/ \E i \in Ids : RejectRequest(i)
  \/ AbortAll

\* What the engine and the pull threads do by themselves.
Work ==
  \/ Admit
  \/ ScheduleEnd
  \/ CompleteStep
  \/ DrainChunk
  \/ \E R \in SUBSET DOMAIN active_requests : Emit(R)
  \/ AdvertiseOne
  \/ \E p \in pulls : PullLock(p)
  \/ \E p \in dp_owner, ok \in BOOLEAN : PullDone(p, ok)
  \/ FinishPull
  \/ DropPull
  \/ AbortOne

Next == Message \/ Work

Spec == Init /\ [][Next]_vars

\* The run loop keeps taking deadlines and completions, every pull ends (it has
\* a timeout) and the mutex is handed over, so work that can be done is done.
FairSpec == Spec /\ WF_vars(Work)
-----------------------------------------------------------------------------
(* Properties                                                              *)

\* The requests that have not been answered, wherever they stand.
Unanswered ==
  {waiting[k].n : k \in DOMAIN waiting}
    \cup {pending_pulls[i].n : i \in DOMAIN pending_pulls}
    \cup {active_requests[i].n : i \in DOMAIN active_requests}

\* Every request received is, at every moment, either in exactly one of the
\* queue, the pending pulls and the batch, or has been sent exactly one
\* terminal output: none is lost and none answered twice, whatever the order of
\* aborts, pull completions, admissions and finishes, also when ids are reused.
\* No two requests in flight have the same id.  Once run_loop has ended, by a
\* drain or by abort_all_requests, all have been answered.
AnsweredOnce ==
  /\ \A n \in DOMAIN out : out[n].ends = IF n \in Unanswered THEN 0 ELSE 1
  /\ Cardinality(Unanswered) = NumUnfinished
  /\ Cardinality(InFlight) = NumUnfinished
  /\ Unanswered \subseteq DOMAIN out
  /\ Ended /\ pc = "idle" => Unanswered = {}

\* The counters of GET /stats balance at every moment: what was received since
\* the last reset, and what was in flight then, is completed, failed, aborted
\* or still in flight.
CountersBalance ==
  stats.received + base
    = stats.completed + stats.failed + stats.aborted + NumUnfinished

\* The pool holds pins for exactly the requests that run or pull: an abort, an
\* invalid request or a finish leaves none behind, and reset_prefix_cache never
\* drops one (what module BlockPool assumes of its caller).
PinsMatchBatch ==
  pins = {pending_pulls[i].n : i \in DOMAIN pending_pulls}
           \cup {active_requests[i].n : i \in DOMAIN active_requests}

\* Between handlers nothing is left without a reason to move.  The step clock
\* runs whenever a request has tokens to compute or to generate, and a request
\* without has chunks to emit: otherwise earliest_deadline would be None and the
\* engine would sleep on it.  And a request waits only while something runs or
\* pulls, whose end will admit it.
NoStall ==
  pc = "idle" =>
    /\ \A i \in DOMAIN active_requests :
         /\ i \in Prefilling \cup Generating => current_step # NoStep
         /\ active_requests[i].pending_emits # <<>> \/ i \in Prefilling \cup Generating
    /\ waiting # <<>> => DOMAIN active_requests # {} \/ DOMAIN pending_pulls # {}

\* Distinct adapters of the running and pulling requests stay within max_loras.
LoraCapRespected == MaxLoras > 0 => Cardinality(ResidentLoras) <= MaxLoras

\* Admission errs on neither side: no request waits that nothing will admit, and
\* none is admitted past the LoRA cap while others are still pulling.
AdmissionSound == NoStall /\ LoraCapRespected

\* A request is emitted what it generated, in order and without loss, and never
\* more than its max_tokens; one that is not generating owes exactly the rest.
TokensConserved ==
  \A i \in DOMAIN active_requests :
    LET a == active_requests[i]
    IN  /\ a.emitted + SumFunction(a.pending_emits) = a.generated
        /\ a.generated <= a.max_tokens
        /\ a.emitted < a.max_tokens
        /\ out[a.n].tokens = a.emitted

\* Nothing is lost or counted twice, neither requests nor tokens: the counters of
\* GET /stats balance, and every request's stream is what it generated.
Conserved == CountersBalance /\ TokensConserved

\* The batch grows only within max_num_seqs and, as every request in it demands
\* at least one token of the next step, only within the token budget; a patch
\* that lowers either leaves the batch as it is.
BatchGrowsWithinLimits ==
  [][BatchSize' > BatchSize =>
       BatchSize' <= RunningCapacity /\ BatchSize' <= Budget]_vars

\* A step that computes prompt tokens never exceeds the token budget: the chunks
\* get only what the decoders' draws leave of it.
StepWithinBudget ==
  [][current_step'.chunks \notin {<<>>, current_step.chunks} =>
       SumFunction(current_step'.decoders)
         + SumFunction([k \in DOMAIN current_step'.chunks |-> current_step'.chunks[k].take])
         <= Budget]_vars

\* A prompt is computed before its request generates (ReqPhase): with ids never
\* reused, a prefilling request has generated nothing.
PrefillBeforeTokens ==
  \A i \in Prefilling : active_requests[i].generated = 0

\* The batch is sound between any two handlers: it holds the pool's pins and no
\* one else does, and no request of it generates before its prompt is computed.
BatchSound == PinsMatchBatch /\ PrefillBeforeTokens

\* What a step may never do to max_num_seqs and max_num_batched_tokens: grow the
\* batch past them, or compute more prompt tokens than the draws leave.
WithinLimits == BatchGrowsWithinLimits /\ StepWithinBudget

Answered == {n \in DOMAIN out : out[n].ends > 0}

\* The requests the engine still counts and those it has answered, as the run
\* loop sees them.
Contract ==
  INSTANCE EngineContract WITH
    Requests <- 1..MaxSends, unfinished <- Unanswered, answered <- Answered

\* The engine keeps the promise of the EngineCore trait to the run loop: every
\* request it is handed gets one terminal output, exactly when it stops being
\* counted as unfinished (num_unfinished_requests drives the shutdown drain).
KeepsContract == Contract!Spec

\* While handlers and pull threads run, the engine never stops owing an answer:
\* step(), on_internal() and the admissions they cause get to every request.
EventuallyAnswered == Contract!FairSpec
=============================================================================
