------------------------------ MODULE RunLoop ------------------------------
(***************************************************************************)
(* One engine of the process: the generic engine loop                      *)
(* (src/src/engine_core.rs, run_loop), the ZMQ IO loop (src/src/io.rs,     *)
(* run_io_loop) and the task that supervises both (src/src/lib.rs,         *)
(* run_engine).  The three are tokio tasks that share two unbounded        *)
(* channels and a cancellation token.  The engine behind the loop is any   *)
(* EngineCore: it is known here only by EngineContract.                    *)
(*                                                                         *)
(* A select! arm is one action.  Its guard says that no arm above it in    *)
(* the biased order is ready; an arm that becomes ready between two polls  *)
(* is an event that commutes with the action, except where the IO loop has *)
(* taken a frame and not yet forwarded it, which is two actions.           *)
(*                                                                         *)
(* An operator A_Variant just above A is a plausible bug in A, used to      *)
(* check that the properties can fail.                                     *)
(*                                                                         *)
(* Left out: control calls (they share the input channel; see ControlApi), *)
(* token outputs that end no request, and the text of errors.              *)
(***************************************************************************)
EXTENDS Naturals, SequencesExt

CONSTANTS
  Requests,
  Sockets,       \* frontend clients with a dealer and a push socket
  Origin,        \* the client whose dealer carries a request and its abort
  ClientIndex,   \* the client_index a request names; it may have no socket
  Extras,        \* other frames: utility calls, wave starts, undecodable ones
  MaxSent,       \* bound: frames the frontend sends
  MaxInternal,   \* bound: internal events posted
  Fragile        \* bound: the clients whose sockets may fail

ASSUME RunLoopConstants ==
  /\ Origin \in [Requests -> Sockets]
  /\ Fragile \subseteq Sockets
  /\ Extras \subseteq [type : {"utility", "bad_utility", "wave", "junk"}, via : Sockets]
  /\ MaxSent \in Nat /\ MaxInternal \in Nat

VARIABLES
  sup,          \* run_engine: "connect", "select", "flush", "exited"
  result,       \* what run_engine returned: "none", "ok", "error"
  zero_timeout, \* --shutdown-timeout is zero
  shutdown,     \* the cancellation token
  loop,         \* run_loop: "idle", "running", "draining", "done", "failed", "aborted"
  expired,      \* the drain deadline has passed
  unfinished, answered,   \* the engine, as EngineContract sees it
  internal,     \* internal events not yet received
  posted,       \* internal events posted so far
  io,           \* run_io_loop: "idle", "running", "flushing", "done", "failed", "aborted"
  holding,      \* the frame the IO loop has decoded and not yet forwarded
  sent,         \* frames the frontend has sent
  dealers,      \* frames in each dealer socket
  peer,         \* each client's sockets: "up", "wedged" (a send never ends), "closed"
  input_rx, output_rx,    \* the two channels
  delivered,    \* terminal outputs each request's client has been sent
  undeliverable \* requests whose output was dropped: no socket for its client_index

engine == <<unfinished, answered, internal, posted>>
frontend == <<sent, peer>>
vars == <<sup, result, zero_timeout, shutdown, loop, expired, engine, io, holding, frontend,
          dealers, input_rx, output_rx, delivered, undeliverable>>

Contract == INSTANCE EngineContract

Add(r) == [type |-> "add", req |-> r, via |-> Origin[r]]
AbortOf(r) == [type |-> "abort", req |-> r, via |-> Origin[r]]
Frames ==
  {Add(r) : r \in Requests} \cup {AbortOf(r) : r \in Requests}
    \cup Extras

Alive == loop \in {"running", "draining"}
Ended == loop \in {"done", "failed", "aborted"}
IoAlive == io \in {"running", "flushing"}

Init ==
  /\ sup = "connect" /\ result = "none"
  /\ zero_timeout \in BOOLEAN
  /\ shutdown = FALSE
  /\ loop = "idle" /\ expired = FALSE
  /\ Contract!Init
  /\ internal = 0 /\ posted = 0
  /\ io = "idle" /\ holding = {}
  /\ sent = {}
  /\ dealers = [c \in Sockets |-> <<>>]
  /\ peer = [c \in Sockets |-> "up"]
  /\ input_rx = <<>> /\ output_rx = <<>>
  /\ delivered = [r \in Requests |-> 0]
  /\ undeliverable = {}

-----------------------------------------------------------------------------
(* The frontend and the operating system. *)

\* A frontend sends a frame once; it aborts only what it has added.
FrontendSend(m) ==
  /\ sup \in {"select", "flush"}
  /\ m \notin sent /\ Cardinality(sent) < MaxSent
  /\ peer[m.via] # "closed"
  /\ m.type = "abort" => Add(m.req) \in sent
  /\ sent' = sent \cup {m}
  /\ dealers' = [dealers EXCEPT ![m.via] = Append(@, m)]
  /\ UNCHANGED <<sup, result, zero_timeout, shutdown, loop, expired, engine, io, holding, peer,
                 input_rx, output_rx, delivered, undeliverable>>

PeerFails(c) ==
  /\ sup \in {"select", "flush"} /\ peer[c] = "up"
  /\ \E s \in {"wedged", "closed"} : peer' = [peer EXCEPT ![c] = s]
  /\ UNCHANGED <<sup, result, zero_timeout, shutdown, loop, expired, engine, io, holding, sent,
                 dealers, input_rx, output_rx, delivered, undeliverable>>

\* SIGINT or SIGTERM.
Signal ==
  /\ sup # "exited" /\ ~shutdown /\ shutdown' = TRUE
  /\ UNCHANGED <<sup, result, zero_timeout, loop, expired, engine, io, holding, frontend,
                 dealers, input_rx, output_rx, delivered, undeliverable>>

\* The drain deadline set at the start of the drain is reached.
DrainExpires ==
  /\ loop = "draining" /\ ~expired
  /\ expired' = TRUE
  /\ UNCHANGED <<sup, result, zero_timeout, shutdown, loop, engine, io, holding, frontend,
                 dealers, input_rx, output_rx, delivered, undeliverable>>

\* A pull thread of the engine posts its completion, whatever became of the
\* request it was for.
PostInternal ==
  /\ Alive /\ posted < MaxInternal
  /\ posted' = posted + 1 /\ internal' = internal + 1
  /\ UNCHANGED <<sup, result, zero_timeout, shutdown, loop, expired, unfinished, answered, io,
                 holding, frontend, dealers, input_rx, output_rx, delivered,
                 undeliverable>>

-----------------------------------------------------------------------------
(* run_loop. *)

\* One EngineOutput per client, in any order; a control or utility answer
\* names no request.
Batches(S) ==
  {[client |-> c, reqs |-> {r \in S : ClientIndex[r] = c}] : c \in {ClientIndex[r] : r \in S}}

\* The sends at the end of an iteration: one that finds the IO loop gone ends
\* the engine loop with an error.
SendOutputs(q, next) ==
  /\ output_rx' = IF IoAlive THEN output_rx \o q ELSE output_rx
  /\ loop' = IF IoAlive \/ q = <<>> THEN next ELSE "failed"

\* The arms' readiness, from the top of the biased order.
DrainComplete == loop = "draining" /\ unfinished = {}
ShutdownReady == loop = "running" /\ shutdown
DeadlineReady == loop = "draining" /\ expired
InputReady == input_rx # <<>>

LoopFrame == UNCHANGED <<sup, result, zero_timeout, shutdown, expired, posted, io, holding,
                         frontend, dealers, delivered, undeliverable>>

LoopDrained ==
  /\ DrainComplete
  /\ loop' = "done"
  /\ LoopFrame /\ UNCHANGED <<unfinished, answered, internal, input_rx, output_rx>>

\* A deadline arm that leaves without aborting what is left.
AbortAll_Skipped ==
  /\ UNCHANGED <<unfinished, answered>>
  /\ SendOutputs(<<>>, "done")

\* abort_all_requests, its outputs, and the break.
AbortAll ==
  /\ \/ Contract!Finish(unfinished)
     \/ unfinished = {} /\ UNCHANGED <<unfinished, answered>>
  /\ \E q \in SetToSeqs(Batches(unfinished)) : SendOutputs(q, "done")

LoopShutdown ==
  /\ ShutdownReady
  /\ \/ /\ zero_timeout
        /\ AbortAll
     \/ /\ ~zero_timeout
        /\ loop' = "draining"
        /\ UNCHANGED <<unfinished, answered, output_rx>>
  /\ LoopFrame /\ UNCHANGED <<internal, input_rx>>

\* A deadline that starts the drain again instead of ending it.
LoopDeadline_Rearmed ==
  /\ ~DrainComplete /\ DeadlineReady
  /\ expired' = FALSE
  /\ UNCHANGED <<sup, result, zero_timeout, shutdown, loop, engine, io, holding, frontend,
                 dealers, input_rx, output_rx, delivered, undeliverable>>

LoopDeadline ==
  /\ ~DrainComplete /\ DeadlineReady
  /\ AbortAll
  /\ LoopFrame /\ UNCHANGED <<internal, input_rx>>

\* reject_request forgotten: a drain that drops a new request.
HandleAdd_DroppedInDrain(r) ==
  \/ /\ loop = "running"
     /\ \/ Contract!Accept(r) /\ SendOutputs(<<>>, loop)
        \/ Contract!Refuse(r) /\ \E q \in SetToSeqs(Batches({r})) : SendOutputs(q, loop)
  \/ /\ loop = "draining"
     /\ UNCHANGED <<unfinished, answered>> /\ SendOutputs(<<>>, loop)

\* A request: kept or answered at once while running (handle_input), answered
\* at once while draining (reject_request).
HandleAdd(r) ==
  \/ /\ loop = "running" /\ Contract!Accept(r)
     /\ SendOutputs(<<>>, loop)
  \/ /\ Contract!Refuse(r)
     /\ \E q \in SetToSeqs(Batches({r})) : SendOutputs(q, loop)

\* An abort that is answered whether or not the request is still there.
HandleAbort_AlwaysAnswered(r) ==
  /\ unfinished' = unfinished \ {r} /\ answered' = answered \cup {r}
  /\ \E q \in SetToSeqs(Batches({r})) : SendOutputs(q, loop)

HandleAbort(r) ==
  \/ /\ Contract!Finish({r})
     /\ \E q \in SetToSeqs(Batches({r})) : SendOutputs(q, loop)
  \/ /\ r \notin unfinished
     /\ UNCHANGED <<unfinished, answered>> /\ SendOutputs(<<>>, loop)

\* A utility call answers its caller; one whose arguments do not parse is an
\* error of handle_input and ends the loop.
HandleExtra(m) ==
  /\ UNCHANGED <<unfinished, answered>>
  /\ \/ m.type = "utility" /\ SendOutputs(<<[client |-> m.via, reqs |-> {}]>>, loop)
     \/ m.type = "wave" /\ SendOutputs(<<>>, loop)
     \/ m.type = "bad_utility" /\ SendOutputs(<<>>, "failed")

LoopInput ==
  /\ Alive /\ ~DrainComplete /\ ~ShutdownReady /\ ~DeadlineReady /\ InputReady
  /\ LET m == Head(input_rx) IN
       \/ m.type = "add" /\ HandleAdd(m.req)
       \/ m.type = "abort" /\ HandleAbort(m.req)
       \/ HandleExtra(m)
  /\ input_rx' = Tail(input_rx)
  /\ LoopFrame /\ UNCHANGED internal

\* The requests a step() or an on_internal() call ends, if any.
FinishSome ==
  \/ /\ UNCHANGED <<unfinished, answered>> /\ SendOutputs(<<>>, loop)
  \/ \E S \in SUBSET unfinished :
       /\ Contract!Finish(S)
       /\ \E q \in SetToSeqs(Batches(S)) : SendOutputs(q, loop)

LoopInternal ==
  /\ Alive /\ ~DrainComplete /\ ~ShutdownReady /\ ~DeadlineReady /\ ~InputReady
  /\ internal > 0 /\ internal' = internal - 1
  /\ FinishSome
  /\ LoopFrame /\ UNCHANGED input_rx

\* earliest_deadline is Some only while something is in flight.
LoopStep ==
  /\ Alive /\ ~DrainComplete /\ ~ShutdownReady /\ ~DeadlineReady /\ ~InputReady
  /\ internal = 0
  /\ unfinished # {}
  /\ FinishSome
  /\ LoopFrame /\ UNCHANGED <<internal, input_rx>>

-----------------------------------------------------------------------------
(* run_io_loop. *)

IoFrame == UNCHANGED <<sup, result, zero_timeout, shutdown, loop, expired, engine, frontend>>

\* The push socket is picked by client_index; without one the batch is dropped.
\* A wedged peer blocks the send, and with it the whole IO loop.
IoSend ==
  /\ IoAlive /\ (io = "running" => holding = {})
  /\ output_rx # <<>>
  /\ LET b == Head(output_rx) IN
       \/ /\ b.client \notin Sockets
          /\ undeliverable' = undeliverable \cup b.reqs
          /\ UNCHANGED <<io, delivered>>
       \/ /\ b.client \in Sockets /\ peer[b.client] = "up"
          /\ delivered' = [r \in Requests |-> delivered[r] + IF r \in b.reqs THEN 1 ELSE 0]
          /\ UNCHANGED <<io, undeliverable>>
       \/ /\ b.client \in Sockets /\ peer[b.client] = "closed"
          /\ io' = "failed"
          /\ UNCHANGED <<delivered, undeliverable>>
  /\ output_rx' = Tail(output_rx)
  /\ IoFrame /\ UNCHANGED <<holding, dealers, input_rx>>

\* The output channel is empty and its sender dropped.
IoClosed ==
  /\ IoAlive /\ (io = "running" => holding = {})
  /\ output_rx = <<>> /\ Ended
  /\ io' = "done"
  /\ IoFrame /\ UNCHANGED <<holding, dealers, input_rx, output_rx, delivered, undeliverable>>

\* Taking the next frame before the last one is forwarded.
\* The input arm takes the next frame of some dealer; a frame that does not
\* decode is ignored.
IoTake(c) ==
  /\ io = "running" /\ holding = {}
  /\ output_rx = <<>> /\ ~Ended
  /\ dealers[c] # <<>>
  /\ dealers' = [dealers EXCEPT ![c] = Tail(@)]
  /\ holding' = IF Head(dealers[c]).type = "junk" THEN {} ELSE {Head(dealers[c])}
  /\ IoFrame /\ UNCHANGED <<io, input_rx, output_rx, delivered, undeliverable>>

\* Leaving at once when the engine loop has gone, with outputs still queued.
IoForward_NoFlush ==
  /\ io = "running" /\ holding # {}
  /\ \/ ~Ended /\ input_rx' = input_rx \o SetToSeq(holding) /\ UNCHANGED io
     \/ Ended /\ io' = "done" /\ UNCHANGED input_rx
  /\ holding' = {}
  /\ IoFrame /\ UNCHANGED <<dealers, output_rx, delivered, undeliverable>>

\* The send into the engine's channel.  If the engine loop has gone since the
\* output arm was polled, the frame is dropped and the outputs are flushed.
IoForward ==
  /\ io = "running" /\ holding # {}
  /\ \/ ~Ended /\ input_rx' = input_rx \o SetToSeq(holding) /\ UNCHANGED io
     \/ Ended /\ io' = "flushing" /\ UNCHANGED input_rx
  /\ holding' = {}
  /\ IoFrame /\ UNCHANGED <<dealers, output_rx, delivered, undeliverable>>

IoRecvFails(c) ==
  /\ io = "running" /\ holding = {}
  /\ output_rx = <<>> /\ ~Ended
  /\ dealers[c] = <<>> /\ peer[c] = "closed"
  /\ io' = "failed"
  /\ IoFrame /\ UNCHANGED <<holding, dealers, input_rx, output_rx, delivered, undeliverable>>

-----------------------------------------------------------------------------
(* run_engine. *)

SupFrame == UNCHANGED <<zero_timeout, shutdown, expired, engine, holding, frontend, dealers,
                        input_rx, output_rx, delivered, undeliverable>>

\* The handshake: a shutdown signal wins over it, and a failure is an error.
\* Then the IO loop is spawned, the engine built and its loop spawned; if the
\* engine cannot be built the IO loop ends with the dropped output sender.
SupConnect ==
  /\ sup = "connect"
  /\ \/ /\ shutdown
        /\ sup' = "exited" /\ result' = "ok" /\ UNCHANGED <<loop, io>>
     \/ /\ ~shutdown
        /\ sup' = "exited" /\ result' = "error" /\ UNCHANGED <<loop, io>>
     \/ /\ ~shutdown
        /\ sup' = "select" /\ loop' = "running" /\ io' = "running"
        /\ UNCHANGED result
  /\ SupFrame

\* The engine loop has ended: wait for the IO loop to flush.
SupLoopEnded ==
  /\ sup = "select" /\ Ended
  /\ sup' = "flush"
  /\ SupFrame /\ UNCHANGED <<result, loop, io>>

\* An IO error while flushing is only logged; the engine loop's own result is
\* returned.
SupFlushed ==
  /\ sup = "flush" /\ io \in {"done", "failed"}
  /\ sup' = "exited"
  /\ result' = IF loop = "done" THEN "ok" ELSE "error"
  /\ SupFrame /\ UNCHANGED <<loop, io>>

\* The flush is bounded: after 5 seconds the IO loop is aborted.
SupFlushTimeout ==
  /\ sup = "flush" /\ IoAlive
  /\ sup' = "exited" /\ io' = "aborted"
  /\ result' = IF loop = "done" THEN "ok" ELSE "error"
  /\ SupFrame /\ UNCHANGED loop

\* The IO loop has ended: abort the engine loop and return the IO loop's result.
\* The engine loop's channels close before its task counts as finished, so this
\* arm can also win after a normal end of both.
SupIoEnded ==
  /\ sup = "select" /\ io \in {"done", "failed"}
  /\ sup' = "exited"
  /\ loop' = IF Ended THEN loop ELSE "aborted"
  /\ result' = IF io = "done" THEN "ok" ELSE "error"
  /\ SupFrame /\ UNCHANGED io

Exited == sup = "exited" /\ UNCHANGED vars

Frontend ==
  \/ \E m \in Frames : FrontendSend(m)
  \/ \E c \in Fragile : PeerFails(c)
  \/ Signal
  \/ PostInternal

Loop ==
  LoopDrained \/ LoopShutdown \/ LoopDeadline \/ LoopInput \/ LoopInternal \/ LoopStep

Io == IoSend \/ IoClosed \/ IoForward \/ \E c \in Sockets : IoTake(c) \/ IoRecvFails(c)

Supervisor == SupConnect \/ SupLoopEnded \/ SupFlushed \/ SupIoEnded

Timers == DrainExpires \/ SupFlushTimeout

Next == Frontend \/ Loop \/ Io \/ Supervisor \/ Timers \/ Exited

Spec == Init /\ [][Next]_vars

\* Each task is scheduled when it can run, and timers fire.  Nothing is assumed
\* of the frontend, the engine's progress or the peers.
FairSpec ==
  /\ Spec
  /\ WF_vars(Loop) /\ WF_vars(Io) /\ WF_vars(Supervisor)
  /\ WF_vars(DrainExpires) /\ WF_vars(SupFlushTimeout)

-----------------------------------------------------------------------------
(* Properties. *)

InPipeline(m) ==
  \/ m \in ToSet(dealers[m.via]) \/ m \in holding \/ m \in ToSet(input_rx)

\* While the engine loop is up, no frame is lost or overtaken on its way from
\* the dealer socket through the IO loop to the engine: a request the frontend
\* sent is on its way or known to the engine, and a request whose abort is no
\* longer on its way is not unfinished.
FramesReachEngine ==
  \A r \in Requests : Alive =>
    /\ Add(r) \in sent => InPipeline(Add(r)) \/ r \in unfinished \cup answered
    /\ AbortOf(r) \in sent => InPipeline(AbortOf(r)) \/ r \notin unfinished

Queued(r) == Cardinality({i \in 1..Len(output_rx) : r \in output_rx[i].reqs})

\* Every terminal output the engine gave is in exactly one place until the IO
\* loop gives up: still queued, delivered once, or dropped because its
\* client_index has no socket.  No request is told twice how it ended.
OutputsConserved ==
  \A r \in Requests :
    LET n == Queued(r) + delivered[r] + IF r \in undeliverable THEN 1 ELSE 0 IN
    /\ r \notin answered => n = 0
    /\ r \in answered /\ IoAlive => n = 1
    /\ n <= 1

\* Nothing is lost between a frontend and the engine while both loops are up, in
\* either direction: frames, and the terminal outputs that answer them.
NothingLost == FramesReachEngine /\ OutputsConserved

\* run_loop returns Ok only when the engine owes nothing, on all three of its
\* ways out: the drain completed, the zero timeout and the drain deadline.
SettledAtExit == loop = "done" => unfinished = {}

\* A graceful end is complete: when the engine loop and the IO loop both ended
\* normally, every request the engine took was told how it ended, unless its
\* client_index had no socket.  This is what the IO loop's flush after a failed
\* send is for.
GracefulEndDelivers ==
  (sup = "exited" /\ loop = "done" /\ io = "done") =>
    \A r \in unfinished \cup answered : r \in undeliverable \/ delivered[r] = 1

\* A graceful shutdown keeps its promise on both levels: the engine owes nothing,
\* and the frontends were told.
GracefulEnd == SettledAtExit /\ GracefulEndDelivers

\* A signal, an engine error or a transport error ends run_engine: neither a
\* request that never finishes nor a wedged peer holds it up.
ExitsEventually ==
  (shutdown \/ loop = "failed" \/ io = "failed") ~> (sup = "exited")
=============================================================================
