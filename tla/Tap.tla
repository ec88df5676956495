-------------------------------- MODULE Tap --------------------------------
(***************************************************************************)
(* The recording tap: `vllm-vcr record` (src/src/record.rs) around run_tap *)
(* (src/crates/sim-tap/src/tap.rs), a proxy between a real frontend and a  *)
(* real engine that writes one trace record per finished request.          *)
(*                                                                         *)
(* Two drain tasks feed two unbounded channels; a socket and the channel   *)
(* behind it are one queue here (req_rx, out_rx).  The proxy loop selects  *)
(* over the channels, shutdown first, then requests, then outputs.  A loop *)
(* body is two actions: the frame is forwarded, and from then on the other *)
(* side may answer it; then the tap's copy is observed.                    *)
(*                                                                         *)
(* The engine and the frontend are external.  The engine runs the requests *)
(* it has received and may put several outputs of one request in a         *)
(* message, as SimEngine does when it catches up.                          *)
(*                                                                         *)
(* Left out: instants and gap lengths, batch context, prompt and           *)
(* multimodal hashes, token ids (as many as the tokens counted), the meta  *)
(* line's fields, the step-stats lines (only their file is kept), and a    *)
(* record that cannot be written, which the tap only warns about.  An      *)
(* operator named A_Variant is A with a plausible mistake.                 *)
(***************************************************************************)
EXTENDS Naturals, SequencesExt, FiniteSetsExt

CONSTANTS
  Requests,    \* request ids; a frontend adds each at most once
  Fickle,      \* bound: those the frontend may abort
  Chunks,      \* numbers of new tokens an output may carry
  MaxAsked,    \* bound: frames the frontend sends
  MaxOutputs,  \* bound: outputs the engine makes for one request
  MaxMessage,  \* bound: outputs in one engine message
  MaxSaid,     \* bound: engine messages
  MaxGarbled,  \* bound: engine messages the tap cannot decode
  StepStats,   \* --step-stats-out is given
  Inits        \* INIT messages a frontend may send: numbers of input and
               \* output addresses, and which coordinator addresses are there

ASSUME TapConstants ==
  /\ Fickle \subseteq Requests
  /\ Chunks \subseteq Nat /\ StepStats \in BOOLEAN
  /\ {MaxAsked, MaxOutputs, MaxMessage, MaxSaid, MaxGarbled} \subseteq Nat
  /\ Inits \subseteq [inputs : Nat, outputs : Nat, coordinator : {"both", "none", "one"}]

VARIABLES
  phase,     \* where run_record is, run_tap's handshake and loop included
  result,    \* what run_record will return: "none", "ok", "error"
  signal,    \* the cancellation token
  asked, req_rx, to_engine,   \* requests: sent by the frontend, queued, forwarded
  said, out_rx, to_frontend,  \* outputs: sent by the engine, queued, forwarded
  copy,      \* the frames forwarded and not yet observed
  connected, \* the peers whose drain task still runs: "frontend", "engine"
  taken,     \* forwarded requests the engine has received
  running,   \* the requests it runs
  requests,  \* the tap's RequestState of every request it tracks
  trace,     \* records written, in order, behind the meta line
  files      \* "trace" and "steps": "absent", "open", or one of Outcomes

wires == <<asked, req_rx, to_engine, said, out_rx, to_frontend>>
vars == <<phase, result, signal, wires, copy, connected, taken, running, requests, trace, files>>

Nothing == [type |-> "nothing"]
Add(r) == [type |-> "add", req |-> r]
Abort(r) == [type |-> "abort", req |-> r]
\* Any frame the tap does not track: a utility call, or one it cannot decode.
Other == [type |-> "other"]
Untracked == << >>

Init ==
  /\ phase = "hello" /\ result = "none" /\ signal = FALSE
  /\ asked = << >> /\ req_rx = << >> /\ to_engine = << >>
  /\ said = << >> /\ out_rx = << >> /\ to_frontend = << >>
  /\ copy = Nothing
  /\ connected = {"frontend", "engine"}
  /\ taken = 0 /\ running = {}
  /\ requests = Untracked
  /\ trace = << >>
  /\ files = [trace |-> "open", steps |-> IF StepStats THEN "open" ELSE "absent"]

(***************************************************************************)
(* The frontend and the engine                                             *)
(***************************************************************************)
Proxying == phase \in {"proxy", "observe_request", "observe_output"}

FrontendSend(frame) ==
  /\ Proxying /\ "frontend" \in connected
  /\ Len(asked) < MaxAsked /\ frame \notin Range(asked)
  /\ frame.type = "abort" => Add(frame.req) \in Range(asked)
  /\ asked' = Append(asked, frame)
  /\ req_rx' = Append(req_rx, frame)
  /\ UNCHANGED <<phase, result, signal, to_engine, said, out_rx, to_frontend, copy, connected,
                 taken, running, requests, trace, files>>

Output(r, n, fin) == [req |-> r, tokens |-> n, fin |-> fin]
Message(outputs, ok) == [outputs |-> outputs, ok |-> ok]

Outputs == FlattenSeq([i \in DOMAIN said |-> said[i].outputs])
OutputsOf(r) == SelectSeq(Outputs, LAMBDA o : o.req = r)

\* An engine may answer an abort with an Abort output; vLLM's does not, SimEngine does.
EngineTake(answer) ==
  /\ Proxying /\ "engine" \in connected
  /\ taken < Len(to_engine)
  /\ taken' = taken + 1
  /\ LET frame == to_engine[taken + 1]
         aborted == IF frame.type = "abort" THEN running \cap {frame.req} ELSE {}
     IN /\ running' = (running \ aborted) \cup IF frame.type = "add" THEN {frame.req} ELSE {}
        /\ answer => aborted # {}
        /\ LET message == Message(<<Output(frame.req, 0, "abort")>>, TRUE)
           IN IF answer
                THEN said' = Append(said, message) /\ out_rx' = Append(out_rx, message)
                ELSE UNCHANGED <<said, out_rx>>
  /\ UNCHANGED <<phase, result, signal, asked, req_rx, to_engine, to_frontend, copy, connected,
                 requests, trace, files>>

\* A step's outputs: none follows a request's last one.
EngineOutputs(outputs, ok) ==
  /\ Proxying /\ "engine" \in connected /\ Len(said) < MaxSaid
  /\ \A i \in DOMAIN outputs :
       /\ outputs[i].req \in running
       /\ \A j \in 1..(i - 1) : outputs[j].req = outputs[i].req => outputs[j].fin = "none"
  /\ \A r \in running :
       Len(OutputsOf(r)) + Len(SelectSeq(outputs, LAMBDA o : o.req = r)) <= MaxOutputs
  /\ ~ok => Cardinality({i \in DOMAIN said : ~said[i].ok}) < MaxGarbled
  /\ said' = Append(said, Message(outputs, ok))
  /\ out_rx' = Append(out_rx, Message(outputs, ok))
  /\ running' = running \ {o.req : o \in {o \in Range(outputs) : o.fin # "none"}}
  /\ UNCHANGED <<phase, result, signal, asked, req_rx, to_engine, to_frontend, copy, connected,
                 taken, requests, trace, files>>

\* recv fails: the peer's drain task ends and its channel closes once it is empty.
PeerGone(p) ==
  /\ Proxying /\ p \in connected
  /\ connected' = connected \ {p}
  /\ UNCHANGED <<phase, result, signal, wires, copy, taken, running, requests, trace, files>>

\* A signal that comes after the loop has ended changes nothing.
Signal ==
  /\ ~signal /\ phase \notin {"finish_trace", "finish_steps", "ended"}
  /\ signal' = TRUE
  /\ UNCHANGED <<phase, result, wires, copy, connected, taken, running, requests, trace, files>>

(***************************************************************************)
(* Connecting: the engine first, then the frontend                         *)
(***************************************************************************)
Untouched == UNCHANGED <<signal, wires, copy, connected, taken, running, requests, trace, files>>

Goto(p) == phase' = p /\ UNCHANGED result
Fail_Unfinalized == phase' = "ended" /\ result' = "error"

\* run_tap returns an error: run_record still finishes its files.
Fail == phase' = "finish_trace" /\ result' = "error"

\* HELLO, READY and the registration: two frames that decode, or an error.
UpstreamHello(ok) ==
  phase = "hello" /\ (IF ok THEN Goto("ready") ELSE Fail) /\ Untouched
UpstreamReady(ok) ==
  phase = "ready" /\ (IF ok THEN Goto("register") ELSE Fail) /\ Untouched

\* guard_vllm_version: a capture labelled for another vLLM line is refused.
GuardVllmVersion(line) == line # "other"

UpstreamRegister(ok, line) ==
  /\ phase = "register"
  /\ IF ok /\ GuardVllmVersion(line) THEN Goto("dial") ELSE Fail
  /\ Untouched

\* connect_to_frontend_raw: HELLO, then an INIT that names the data sockets.
InitAccepted(init) ==
  /\ init.inputs > 0 /\ init.inputs = init.outputs
  /\ init.coordinator # "one"

DownstreamInit(init) ==
  /\ phase = "dial"
  /\ IF InitAccepted(init)
       THEN Goto(IF init.coordinator = "both" THEN "coordinator" ELSE "proxy")
       ELSE Fail
  /\ Untouched

DownstreamCoordinatorReady(ok) ==
  phase = "coordinator" /\ (IF ok THEN Goto("proxy") ELSE Fail) /\ Untouched

\* An endpoint that never appears, or a socket operation that fails.
ConnectFails ==
  phase \in {"hello", "ready", "register", "dial", "coordinator"} /\ Fail /\ Untouched

(***************************************************************************)
(* Observing the copies                                                    *)
(***************************************************************************)
NewState == [output_tokens |-> 0, awaiting_first |-> TRUE, gaps |-> << >>]
Track(reqs, r, state) == [x \in DOMAIN reqs \cup {r} |-> IF x = r THEN state ELSE reqs[x]]
Untrack(reqs, r) == [x \in DOMAIN reqs \ {r} |-> reqs[x]]

ObserveRequest_KeepsAborted(frame, reqs) ==
  IF frame.type = "add" THEN Track(reqs, frame.req, NewState) ELSE reqs

ObserveRequest(frame, reqs) ==
  CASE frame.type = "add" -> Track(reqs, frame.req, NewState)
    [] frame.type = "abort" -> Untrack(reqs, frame.req)
    [] OTHER -> reqs

\* The first chunk sets TTFT; every later one is one gap, however many tokens it carries.
RecordChunk(state, n) ==
  [output_tokens |-> state.output_tokens + n,
   awaiting_first |-> FALSE,
   gaps |-> IF state.awaiting_first THEN state.gaps ELSE Append(state.gaps, n)]

IntoRecord(r, state) ==
  [req |-> r, output_tokens |-> state.output_tokens, itl_tokens |-> state.gaps]

ObserveOne_WithoutLastChunk(acc, o) ==
  IF o.req \notin DOMAIN acc.requests THEN acc
  ELSE IF o.fin = "abort" THEN [acc EXCEPT !.requests = Untrack(acc.requests, o.req)]
  ELSE IF o.fin = "none"
         THEN [acc EXCEPT !.requests =
                 Track(acc.requests, o.req, RecordChunk(acc.requests[o.req], o.tokens))]
         ELSE [requests |-> Untrack(acc.requests, o.req),
               trace |-> Append(acc.trace, IntoRecord(o.req, acc.requests[o.req]))]

\* One output: a request that is not tracked is ignored, an aborted one is dropped, a
\* finished one leaves the table and becomes a record.
ObserveOne(acc, o) ==
  IF o.req \notin DOMAIN acc.requests THEN acc
  ELSE IF o.fin = "abort" THEN [acc EXCEPT !.requests = Untrack(acc.requests, o.req)]
  ELSE LET state == IF o.tokens > 0 THEN RecordChunk(acc.requests[o.req], o.tokens)
                    ELSE acc.requests[o.req]
       IN IF o.fin = "none"
            THEN [acc EXCEPT !.requests = Track(acc.requests, o.req, state)]
            ELSE [requests |-> Untrack(acc.requests, o.req),
                  trace |-> Append(acc.trace, IntoRecord(o.req, state))]

Observed(message) ==
  IF message.ok
    THEN FoldLeft(ObserveOne, [requests |-> requests, trace |-> trace], message.outputs)
    ELSE [requests |-> requests, trace |-> trace]

(***************************************************************************)
(* The proxy loop                                                          *)
(***************************************************************************)
ShutdownArm_WithOutput ==
  /\ phase = "proxy" /\ signal /\ (out_rx # << >> \/ "engine" \notin connected)
  /\ phase' = "finish_trace" /\ result' = "ok"
  /\ Untouched

\* The signal comes before everything; the flush behind the loop may fail.
ShutdownArm ==
  /\ phase = "proxy" /\ signal
  /\ phase' = "finish_trace" /\ result' \in {"ok", "error"}
  /\ Untouched

RequestReady == req_rx # << >> \/ "frontend" \notin connected

\* Forward first, observe after.  A send to a peer that is gone may fail.
ForwardRequest ==
  /\ phase = "proxy" /\ ~signal /\ req_rx # << >>
  /\ \/ /\ to_engine' = Append(to_engine, Head(req_rx))
        /\ req_rx' = Tail(req_rx)
        /\ copy' = Head(req_rx)
        /\ Goto("observe_request")
     \/ "engine" \notin connected /\ Fail /\ UNCHANGED <<to_engine, req_rx, copy>>
  /\ UNCHANGED <<signal, asked, said, out_rx, to_frontend, connected, taken, running, requests,
                 trace, files>>

ObserveRequestCopy ==
  /\ phase = "observe_request"
  /\ requests' = ObserveRequest(copy, requests)
  /\ copy' = Nothing
  /\ Goto("proxy")
  /\ UNCHANGED <<signal, wires, connected, taken, running, trace, files>>

RequestsClosed ==
  phase = "proxy" /\ ~signal /\ req_rx = << >> /\ "frontend" \notin connected /\ Fail /\ Untouched

ForwardOutput_OnlyDecoded ==
  /\ phase = "proxy" /\ ~signal /\ ~RequestReady /\ out_rx # << >>
  /\ to_frontend' = IF Head(out_rx).ok THEN Append(to_frontend, Head(out_rx)) ELSE to_frontend
  /\ out_rx' = Tail(out_rx)
  /\ copy' = Head(out_rx)
  /\ Goto("observe_output")
  /\ UNCHANGED <<signal, asked, req_rx, to_engine, said, connected, taken, running, requests,
                 trace, files>>

ForwardOutput ==
  /\ phase = "proxy" /\ ~signal /\ ~RequestReady /\ out_rx # << >>
  /\ \/ /\ to_frontend' = Append(to_frontend, Head(out_rx))
        /\ out_rx' = Tail(out_rx)
        /\ copy' = Head(out_rx)
        /\ Goto("observe_output")
     \/ "frontend" \notin connected /\ Fail /\ UNCHANGED <<to_frontend, out_rx, copy>>
  /\ UNCHANGED <<signal, asked, req_rx, to_engine, said, connected, taken, running, requests,
                 trace, files>>

ObserveOutputCopy ==
  /\ phase = "observe_output"
  /\ requests' = Observed(copy).requests
  /\ trace' = Observed(copy).trace
  /\ copy' = Nothing
  /\ Goto("proxy")
  /\ UNCHANGED <<signal, wires, connected, taken, running, files>>

OutputsClosed ==
  /\ phase = "proxy" /\ ~signal /\ ~RequestReady /\ out_rx = << >> /\ "engine" \notin connected
  /\ Fail /\ Untouched

(***************************************************************************)
(* run_record's end: finish and upload the trace, then the step statistics *)
(***************************************************************************)
Outcomes == {"uploaded", "not_uploaded", "not_finished"}

\* finish, then upload; the error of either ends run_record there and then.
FinishFile(file, outcome, next) ==
  /\ files' = [files EXCEPT ![file] = outcome]
  /\ result' = IF outcome = "uploaded" THEN result ELSE "error"
  /\ phase' = IF outcome = "uploaded" THEN next ELSE "ended"
  /\ UNCHANGED <<signal, wires, copy, connected, taken, running, requests, trace>>

FinishTrace(outcome) ==
  /\ phase = "finish_trace"
  /\ FinishFile("trace", outcome, IF files.steps = "open" THEN "finish_steps" ELSE "ended")

FinishSteps(outcome) ==
  /\ phase = "finish_steps"
  /\ FinishFile("steps", outcome, "ended")

Ended == phase = "ended" /\ UNCHANGED vars

-----------------------------------------------------------------------------
Frames == {Add(r) : r \in Requests} \cup {Abort(r) : r \in Fickle} \cup {Other}
StepOutputs ==
  {Output(r, n, "none") : r \in running, n \in Chunks \ {0}}
    \cup {Output(r, n, "stop") : r \in running, n \in Chunks}
    \cup {Output(r, 0, "abort") : r \in running}
Steps == UNION {[1..n -> StepOutputs] : n \in 1..MaxMessage}

Environment ==
  \/ \E frame \in Frames : FrontendSend(frame)
  \/ \E answer \in BOOLEAN : EngineTake(answer)
  \/ \E outputs \in Steps, ok \in BOOLEAN : EngineOutputs(outputs, ok)
  \/ \E p \in connected : PeerGone(p)
  \/ Signal
Connecting ==
  \/ \E ok \in BOOLEAN : UpstreamHello(ok) \/ UpstreamReady(ok) \/ DownstreamCoordinatorReady(ok)
  \/ \E ok \in BOOLEAN, line \in {"same", "other", "unparsed"} : UpstreamRegister(ok, line)
  \/ \E init \in Inits : DownstreamInit(init)
  \/ ConnectFails
Proxy ==
  \/ ShutdownArm \/ ForwardRequest \/ ObserveRequestCopy \/ RequestsClosed
  \/ ForwardOutput \/ ObserveOutputCopy \/ OutputsClosed
Finishing ==
  \E outcome \in Outcomes : FinishTrace(outcome) \/ FinishSteps(outcome)

Next == Environment \/ Connecting \/ Proxy \/ Finishing \/ Ended
Spec == Init /\ [][Next]_vars

\* A loop body runs to its end once its frame is there, and so does run_record's end: a
\* send and an upload end, with success or with an error.  No peer is assumed to speak.
FairSpec == Spec /\ WF_vars(Proxy) /\ WF_vars(Finishing)

-----------------------------------------------------------------------------
(* "Frames move verbatim in both directions": across two channels, errors and shutdown,    *)
(* no frame is lost before one that is forwarded, doubled, reordered, or held back because *)
(* the tap could not decode it.                                                            *)
Verbatim ==
  /\ asked = to_engine \o req_rx
  /\ said = to_frontend \o out_rx

Says(message, r) == \E j \in DOMAIN message.outputs : message.outputs[j].req = r
Undecoded == {r \in Requests : \E i \in DOMAIN said : ~said[i].ok /\ Says(said[i], r)}

\* What messages say of r: its chunks, in order, and their sum.
Unheard == [total |-> 0, chunks |-> << >>]
Hear(r, told, o) ==
  IF o.req = r /\ o.tokens > 0
    THEN [total |-> told.total + o.tokens, chunks |-> Append(told.chunks, o.tokens)]
    ELSE told
HearMessage(r, told, message) == FoldLeft(LAMBDA t, o : Hear(r, t, o), told, message.outputs)
Told(r, messages) == FoldLeft(LAMBDA t, m : HearMessage(r, t, m), Unheard, messages)

Gaps(chunks) == IF chunks = << >> THEN << >> ELSE Tail(chunks)
ExactRecord(r, told) ==
  [req |-> r, output_tokens |-> told.total, itl_tokens |-> Gaps(told.chunks)]

\* Messages forwarded and observed.
Handled == IF phase = "observe_output" THEN Len(to_frontend) - 1 ELSE Len(to_frontend)
Stopped(r) ==
  \E i \in 1..Handled : \E j \in DOMAIN to_frontend[i].outputs :
    to_frontend[i].outputs[j].req = r /\ to_frontend[i].outputs[j].fin = "stop"

(* The trace is exact: a request the frontend never aborted, whose frames all decode, has   *)
(* one record once its last output has been handled and none before, and the record's first *)
(* chunk and gaps are the chunks the engine sent for it, in order.  Above all, no output is *)
(* observed before the request it answers, although the request is forwarded first.         *)
TraceExact ==
  \A r \in Requests \ Undecoded :
    Abort(r) \notin Range(to_engine) =>
      IF Stopped(r)
        THEN \E i \in DOMAIN trace :
               /\ trace[i] = ExactRecord(r, Told(r, said))
               /\ \A j \in DOMAIN trace : trace[j].req = r => j = i
        ELSE \A i \in DOMAIN trace : trace[i].req # r

(* The tap's table, whose size becomes the concurrency column, is the set of requests the    *)
(* engine runs whenever both directions are quiet: aborts and ends that cross on the wire    *)
(* leave no request behind.                                                                  *)
TableMatchesEngine ==
  phase = "proxy" /\ req_rx = << >> /\ out_rx = << >> /\ taken = Len(to_engine) =>
    DOMAIN requests \ Undecoded = running \ Undecoded

(* What the tap observes is what happened between frontend and engine: the records it writes *)
(* and the table it counts requests in.                                                      *)
ObservedExactly == TraceExact /\ TableMatchesEngine

(* run_record: "finalize and upload even on transport error".  However run_tap ended, the    *)
(* trace is finished and uploaded, and so are the step statistics unless the trace itself    *)
(* could not be; success is reported only when everything landed.                            *)
EndsFinalized ==
  phase = "ended" =>
    /\ files.trace # "open"
    /\ files.trace = "uploaded" => files.steps # "open"
    /\ result = "ok" => files.trace = "uploaded" /\ files.steps \in {"absent", "uploaded"}

(* Once the loop is proxying, a signal ends the process whatever the peers do. *)
SignalEndsProxy == (signal /\ Proxying) ~> phase = "ended"
=============================================================================
