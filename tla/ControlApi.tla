----------------------------- MODULE ControlApi -----------------------------
(***************************************************************************)
(* The runtime control API (src/src/control.rs): HTTP handlers, any number *)
(* of them at once, that send the same call to every engine in turn and    *)
(* wait for each answer before the next.  A call travels on the engine's   *)
(* input channel and is handled between two steps                          *)
(* (src/src/engine.rs, handle_control); its answer comes back on a         *)
(* oneshot.  An engine may exit, dropping the calls queued for it, and an  *)
(* HTTP client may go away, dropping its handler.  Around them is the      *)
(* process (src/src/lib.rs, run_with_log_filter): it waits for its engines *)
(* and the server, and ends with the first of them that fails.             *)
(*                                                                         *)
(* A configuration is abstracted to the fields the patches name, the       *)
(* counters of an engine to requests_received.  Left out: the /log routes, *)
(* JSON, and what an engine does with its configuration (see SimEngine).   *)
(* An operator A_Variant just above A is a plausible bug in A, used to     *)
(* check that the properties can fail.                                     *)
(***************************************************************************)
EXTENDS Naturals, SequencesExt

CONSTANTS
  N,              \* --engine-count
  MaxCalls,       \* bound: HTTP calls, numbered as they arrive
  Fields, Values, \* configuration fields and their values
  LatencyFields,  \* the fields the latency model is built from
  Patches,        \* ConfigPatch bodies: functions from some fields to values
  Invalid,        \* the values validate refuses
  Default,        \* the options the engines are started with
  Trace,          \* --latency-trace is in use
  Menu,           \* bound: what each call may ask for
  MaxReceived,    \* bound: requests each engine receives
  MaxFaults       \* bound: failures, client disconnects and signals

Ops == {[kind |-> k] : k \in {"get_config", "get_stats", "reset_stats"}}
         \cup {[kind |-> "patch", patch |-> p] : p \in Patches}

ASSUME ControlConstants ==
  /\ N \in Nat \ {0}
  /\ LatencyFields \subseteq Fields /\ Invalid \subseteq Values
  /\ \A p \in Patches : DOMAIN p \subseteq Fields /\ \A f \in DOMAIN p : p[f] \in Values
  /\ Default \in [Fields -> Values] /\ Trace \in BOOLEAN
  /\ MaxCalls \in Nat /\ Menu \in [1..MaxCalls -> SUBSET Ops]
  /\ MaxReceived \in Nat /\ MaxFaults \in Nat

VARIABLES
  op,        \* what each call asks for
  pc,        \* "new", "send", "wait", or how it ended: "ok", "bad_request",
             \* "conflict", "internal", "gone" (the client disconnected)
  at,        \* the engine each call has come to
  replies,   \* the replies each call has collected
  reply,     \* each call's current oneshot: {} or one answer
  up,        \* each engine: "yes" while it receives, or how it ended: "ok", "error"
  server,    \* control::serve: "bind", "serving", "ok", "error"
  shutdown,  \* the process was signalled
  process,   \* run: "running", or what it returned: "ok", "error"
  input_rx,  \* the control calls queued for each engine
  config,    \* each engine's patchable options
  received,  \* each engine's requests_received
  faults,    \* failures, disconnects and signals so far
  applied,   \* history: the patches each engine has applied, in order
  seen,      \* history: for each config call, the patches answered 200 before it began
  low,       \* history: for each GET /stats, all requests received when it began
  resets     \* history: some engine has handled a reset

handlers == <<op, pc, at, replies>>
history == <<applied, seen, low, resets>>
tasks == <<server, shutdown, process>>
vars == <<handlers, reply, up, tasks, input_rx, config, received, faults, history>>

Engines == 1..N
Calls == 1..MaxCalls
Idle == [kind |-> "none"]

IsPatch(c) == op[c].kind = "patch"
Finished(c) == pc[c] \in {"ok", "bad_request", "conflict", "internal", "gone"}

Init ==
  /\ op = [c \in Calls |-> Idle]
  /\ pc = [c \in Calls |-> "new"]
  /\ at = [c \in Calls |-> 1]
  /\ replies = [c \in Calls |-> <<>>]
  /\ reply = [c \in Calls |-> {}]
  /\ up = [e \in Engines |-> "yes"]
  /\ server = "bind" /\ shutdown = FALSE /\ process = "running"
  /\ input_rx = [e \in Engines |-> <<>>]
  /\ config = [e \in Engines |-> Default]
  /\ received = [e \in Engines |-> 0]
  /\ applied = [e \in Engines |-> <<>>]
  /\ seen = [c \in Calls |-> {}]
  /\ low = [c \in Calls |-> 0]
  /\ resets = FALSE
  /\ faults = 0

Total(counts) == FoldLeft(+, 0, counts)

-----------------------------------------------------------------------------
(* The handlers: patch_config, get_config, get_stats and reset_stats. *)

\* ConfigPatch::validate.
Validates(o) ==
  o.kind = "patch" => \A f \in DOMAIN o.patch : o.patch[f] \notin Invalid

\* A request to the API: an invalid patch is answered before any engine is asked.
Begin(c, o) ==
  /\ server = "serving" /\ ~shutdown
  /\ pc[c] = "new" /\ \A d \in 1..c - 1 : pc[d] # "new"
  /\ op' = [op EXCEPT ![c] = o]
  /\ pc' = [pc EXCEPT ![c] = IF Validates(o) THEN "send" ELSE "bad_request"]
  /\ seen' = [seen EXCEPT ![c] = 
                       {d \in Calls : o.kind \in {"get_config", "patch"} /\ IsPatch(d) /\ pc[d] = "ok"}]
  /\ low' = [low EXCEPT ![c] = IF o.kind = "get_stats" THEN Total(received) ELSE 0]
  /\ UNCHANGED <<at, replies, reply, up, tasks, input_rx, config, received, faults, applied, resets>>

\* A broadcast that sends the call to the next engine without waiting for the
\* last one's answer.
Send_All(c) ==
  /\ pc[c] = "send"
  /\ \A e \in Engines : up[e] = "yes"
  /\ input_rx' = [e \in Engines |-> Append(input_rx[e], c)]
  /\ pc' = [pc EXCEPT ![c] = "wait"]
  /\ UNCHANGED <<op, at, replies, reply, up, tasks, config, received, faults, history>>

\* Engines::call: the send fails when the engine loop is gone.
Send(c) ==
  /\ pc[c] = "send"
  /\ \/ /\ up[at[c]] = "yes"
        /\ input_rx' = [input_rx EXCEPT ![at[c]] = Append(@, c)]
        /\ pc' = [pc EXCEPT ![c] = "wait"]
     \/ /\ up[at[c]] # "yes"
        /\ pc' = [pc EXCEPT ![c] = "internal"]
        /\ UNCHANGED input_rx
  /\ UNCHANGED <<op, at, replies, reply, up, tasks, config, received, faults, history>>

\* A broadcast that carries on over an engine that dropped the call.
ReplyDropped_Skipped(c) ==
  /\ pc[c] = "wait" /\ reply[c] = {}
  /\ c \notin ToSet(input_rx[at[c]])
  /\ pc' = [pc EXCEPT ![c] = IF at[c] = N THEN "ok" ELSE "send"]
  /\ at' = [at EXCEPT ![c] = @ + 1]
  /\ UNCHANGED <<op, replies, reply, up, tasks, input_rx, config, received, faults, history>>

\* The engine went away with the call still queued.
ReplyDropped(c) ==
  /\ pc[c] = "wait" /\ reply[c] = {}
  /\ c \notin ToSet(input_rx[at[c]])
  /\ pc' = [pc EXCEPT ![c] = "internal"]
  /\ UNCHANGED <<op, at, replies, reply, up, tasks, input_rx, config, received, faults, history>>

\* A handler that tries again when an engine refuses.
Receive_RetriesConflict(c) ==
  /\ pc[c] = "wait" /\ reply[c] # {}
  /\ \E a \in reply[c] :
       IF a.kind = "conflict"
       THEN /\ pc' = [pc EXCEPT ![c] = "send"]
            /\ UNCHANGED <<at, replies>>
       ELSE /\ pc' = [pc EXCEPT ![c] = IF at[c] = N THEN "ok" ELSE "send"]
            /\ at' = [at EXCEPT ![c] = @ + 1]
            /\ replies' = [replies EXCEPT ![c] = Append(@, a)]
  /\ reply' = [reply EXCEPT ![c] = {}]
  /\ UNCHANGED <<op, up, tasks, input_rx, config, received, faults, history>>

\* The answer of one engine; after the last one the HTTP response is sent.
Receive(c) ==
  /\ pc[c] = "wait" /\ reply[c] # {}
  /\ \E a \in reply[c] :
       IF a.kind = "conflict"
       THEN /\ pc' = [pc EXCEPT ![c] = "conflict"]
            /\ UNCHANGED <<at, replies>>
       ELSE /\ pc' = [pc EXCEPT ![c] = IF at[c] = N THEN "ok" ELSE "send"]
            /\ at' = [at EXCEPT ![c] = @ + 1]
            /\ replies' = [replies EXCEPT ![c] = Append(@, a)]
  /\ reply' = [reply EXCEPT ![c] = {}]
  /\ UNCHANGED <<op, up, tasks, input_rx, config, received, faults, history>>

\* The HTTP client disconnects and its handler is dropped where it waits.  A
\* call already queued stays queued.
Disconnect(c) ==
  /\ faults < MaxFaults /\ faults' = faults + 1
  /\ pc[c] \in {"send", "wait"}
  /\ pc' = [pc EXCEPT ![c] = "gone"]
  /\ reply' = [reply EXCEPT ![c] = {}]
  /\ UNCHANGED <<op, at, replies, up, tasks, input_rx, config, received, history>>

-----------------------------------------------------------------------------
(* The engines. *)

\* apply_patch refuses latency fields while a trace paces the requests.
Conflicts(p) == Trace /\ DOMAIN p \cap LatencyFields # {}

\* A patch whose absent fields go back to their defaults.
Patched_Whole(cf, p) == [f \in Fields |-> IF f \in DOMAIN p THEN p[f] ELSE Default[f]]

Patched(cf, p) == [f \in Fields |-> IF f \in DOMAIN p THEN p[f] ELSE cf[f]]

ApplyPatch(e, c) ==
  IF Conflicts(op[c].patch)
  THEN UNCHANGED <<config, applied>>
  ELSE /\ config' = [config EXCEPT ![e] = Patched(@, op[c].patch)]
       /\ applied' = [applied EXCEPT ![e] = Append(@, c)]

\* The answer an engine gives, from its state after the call.
Answer(c, cf, n) ==
  IF IsPatch(c) /\ Conflicts(op[c].patch) THEN [kind |-> "conflict"]
  ELSE IF op[c].kind \in {"patch", "get_config"} THEN [kind |-> "config", config |-> cf]
  ELSE [kind |-> "stats", count |-> n]

\* handle_input(Control): the call takes effect and is answered in one step of
\* the engine loop, whether or not anyone still waits for the answer.
HandleControl(e) ==
  /\ up[e] = "yes" /\ input_rx[e] # <<>>
  /\ LET c == Head(input_rx[e]) IN
       /\ IF IsPatch(c) THEN ApplyPatch(e, c) ELSE UNCHANGED <<config, applied>>
       /\ \/ /\ op[c].kind = "reset_stats"
             /\ received' = [received EXCEPT ![e] = 0] /\ resets' = TRUE
          \/ /\ op[c].kind # "reset_stats"
             /\ UNCHANGED <<received, resets>>
       /\ reply' = IF pc[c] = "wait" THEN [reply EXCEPT ![c] = {Answer(c, config'[e], received'[e])}] ELSE reply
  /\ input_rx' = [input_rx EXCEPT ![e] = Tail(@)]
  /\ UNCHANGED <<handlers, up, tasks, faults, seen, low>>

\* A request from the frontend.
ReceiveRequest(e) ==
  /\ up[e] = "yes" /\ received[e] < MaxReceived
  /\ received' = [received EXCEPT ![e] = @ + 1]
  /\ UNCHANGED <<handlers, reply, up, tasks, input_rx, config, faults, history>>

\* run_engine ends: its receiver is dropped with every call in it.  It drains and
\* ends well only when asked to; otherwise it fails.
EngineExit(e, how) ==
  /\ up[e] = "yes" /\ up' = [up EXCEPT ![e] = how]
  /\ input_rx' = [input_rx EXCEPT ![e] = <<>>]
  /\ UNCHANGED <<handlers, reply, tasks, config, received, history>>

EngineDrains(e) == shutdown /\ EngineExit(e, "ok") /\ UNCHANGED faults
EngineFails(e) == faults < MaxFaults /\ faults' = faults + 1 /\ EngineExit(e, "error")

-----------------------------------------------------------------------------
(* The process. *)

Calm == <<handlers, reply, up, input_rx, config, received, history>>

\* SIGINT or SIGTERM: the token every task holds is cancelled.
Signal ==
  /\ faults < MaxFaults /\ faults' = faults + 1
  /\ ~shutdown /\ shutdown' = TRUE
  /\ UNCHANGED <<Calm, server, process>>

\* serve: the address may be taken.
Bind ==
  /\ server = "bind"
  /\ \/ server' = "serving" /\ UNCHANGED faults
     \/ server' = "error" /\ faults < MaxFaults /\ faults' = faults + 1
  /\ UNCHANGED <<Calm, shutdown, process>>

\* with_graceful_shutdown: once signalled, no new call is taken, and the server
\* ends when the handlers it has have answered.
ServerCloses ==
  /\ server = "serving" /\ shutdown
  /\ \A c \in Calls : pc[c] = "new" \/ Finished(c)
  /\ server' = "ok"
  /\ UNCHANGED <<Calm, shutdown, process, faults>>

\* join_next: the first failure ends the process, and aborts the other tasks;
\* otherwise it waits for all of them.
Join_FirstOnly ==
  /\ \/ "error" \in {server, up[1]} /\ process' = "error"
     \/ server = "ok" /\ (\A e \in Engines : up[e] = "ok") /\ process' = "ok"
  /\ UNCHANGED <<Calm, server, shutdown, faults>>
Join ==
  /\ \/ (server = "error" \/ \E e \in Engines : up[e] = "error") /\ process' = "error"
     \/ server = "ok" /\ (\A e \in Engines : up[e] = "ok") /\ process' = "ok"
  /\ UNCHANGED <<Calm, server, shutdown, faults>>

Handler(c) == Send(c) \/ ReplyDropped(c) \/ Receive(c)
Server == Bind \/ ServerCloses

Running ==
  \/ \E c \in Calls : Handler(c) \/ Disconnect(c) \/ \E o \in Menu[c] : Begin(c, o)
  \/ \E e \in Engines : HandleControl(e) \/ ReceiveRequest(e) \/ EngineDrains(e) \/ EngineFails(e)
  \/ Signal \/ Server \/ Join

Over == process # "running" /\ UNCHANGED vars

Next == (process = "running" /\ Running) \/ Over

Spec == Init /\ [][Next]_vars

\* Handlers, the server and the process run when they can; an engine loop takes
\* its inputs (the input arm comes before the engine's own events and steps), and
\* a signalled one ends (module RunLoop).
FairSpec ==
  /\ Spec
  /\ \A c \in Calls : WF_vars(process = "running" /\ Handler(c))
  /\ \A e \in Engines : WF_vars(process = "running" /\ HandleControl(e))
  /\ \A e \in Engines : WF_vars(process = "running" /\ EngineDrains(e))
  /\ WF_vars(process = "running" /\ Server) /\ WF_vars(process = "running" /\ Join)

-----------------------------------------------------------------------------
(* Properties. *)

Applied(c) == {e \in Engines : c \in ToSet(applied[e])}

\* A patch reaches the engines in order, each at most once, and never runs more
\* than one engine ahead of its handler: a patch that fails part-way, whether
\* an engine exits or the client leaves, has changed a prefix of the engines,
\* one answered 200 has changed them all, and a refusal never comes after some
\* engine has applied it.
PatchesReachPrefix ==
  \A c \in Calls : IsPatch(c) =>
    /\ \E k \in {at[c] - 1, at[c]} : Applied(c) = 1..k
    /\ pc[c] = "ok" => Applied(c) = Engines
    /\ pc[c] \in {"bad_request", "conflict"} => Applied(c) = {}
    /\ \A e \in Engines : Cardinality({i \in DOMAIN applied[e] : applied[e][i] = c}) <= 1

\* GET /stats is taken engine by engine while requests arrive; without a reset
\* its sum still lies between the counts at its start and at its end.
StatsBracketed ==
  \A c \in Calls : op[c].kind = "get_stats" /\ pc[c] = "ok" /\ ~resets =>
    LET sum == Total([e \in DOMAIN replies[c] |-> replies[c][e].count])
    IN  low[c] <= sum /\ sum <= Total(received)

Index(e, c) == CHOOSE i \in DOMAIN applied[e] : applied[e][i] = c

\* A configuration read after a patch was answered 200 shows the patch, or a
\* patch the first engine applied after it.
ReadsSeePatches ==
  \A c, p \in Calls :
    op[c].kind = "get_config" /\ pc[c] = "ok" /\ p \in seen[c] =>
      \A f \in DOMAIN op[p].patch :
        \/ replies[c][1].config[f] = op[p].patch[f]
        \/ \E i \in DOMAIN applied[1] :
             LET q == applied[1][i] IN
             i > Index(1, p) /\ f \in DOMAIN op[q].patch /\ replies[c][1].config[f] = op[q].patch[f]

\* Every patch that began was answered 200 or refused, and none is in progress.
NoPatchFailed ==
  \A c \in Calls : IsPatch(c) => pc[c] \in {"ok", "bad_request", "conflict"}

\* Of two patches answered 200, one began after the other's answer.
NoPatchesOverlap ==
  \A c, d \in Calls : IsPatch(c) /\ IsPatch(d) /\ c # d /\ pc[c] = "ok" /\ pc[d] = "ok" =>
    c \in seen[d] \/ d \in seen[c]

\* The engines' configurations differ only if a patch failed part-way
\* (docs/control-api.md) or two patches overlapped (broadcast orders nothing).
EnginesAgree ==
  NoPatchFailed /\ NoPatchesOverlap => \A d, e \in Engines : config[d] = config[e]

\* What a patch leaves behind on the engines, whichever way it ends.
PatchesApplied == PatchesReachPrefix /\ EnginesAgree

\* What a read reports, although it asks one engine, or one after the other,
\* while requests and patches go on.
ReadsFaithful == ReadsSeePatches /\ StatsBracketed

\* Nothing holds the process up: every call is answered, abandoned or ended with
\* the process, even when an engine exits with the call queued, and a signal or
\* the first task that fails ends the process, whatever calls are in progress.
ProcessEnds ==
  /\ []<>(process # "running" \/ \A c \in Calls : pc[c] = "new" \/ Finished(c))
  /\ (shutdown \/ server = "error" \/ \E e \in Engines : up[e] = "error") ~> (process # "running")
=============================================================================
