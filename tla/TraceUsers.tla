----------------------------- MODULE TraceUsers -----------------------------
(***************************************************************************)
(* A captured trace and its users: what the capture left on disk, when it  *)
(* ended or was killed, is drawn as a timeline or replayed against the     *)
(* simulator (src/inspect.rs, the Perfetto and CalibrateE2e commands), or  *)
(* kept in an object store, played and captured again from there.          *)
(***************************************************************************)
EXTENDS TraceFile, Perfetto, ArrivalReplay, RemoteInputs

CONSTANT Modes    \* command lines: requests at most, --replay-sessions, prompts with shared prefixes

VARIABLE phase    \* "capture" until a user has loaded the trace

vars == <<fileVars, doc, replayVars, remoteVars, phase>>

Init == FileInit /\ doc = NoDoc /\ ReplayInit /\ RemoteInit /\ phase = "capture"

Capture ==
  /\ phase = "capture" /\ FileNext
  /\ UNCHANGED <<doc, replayVars, remoteVars, phase>>

\* A user sees nothing of the capture but what it read.
Load(trace) ==
  /\ phase = "capture" /\ ~Writing /\ trace.ok
  /\ gz' = FALSE /\ records' = <<>> /\ stream' = <<>> /\ disk' = 0 /\ writer' = "dead" /\ handled' = 0

ToPerfetto(track_per_request) ==
  LET trace == ReadTrace(Split) IN
  /\ Load(trace) /\ WritePerfetto(trace.records, track_per_request)
  /\ phase' = "timeline"
  /\ UNCHANGED <<replayVars, remoteVars>>

CalibrateE2e(mode) ==
  LET trace == ReadTrace(Split) IN
  /\ Load(trace) /\ SpawnTasks(trace.records, mode.limit, mode.sessions, mode.prefixes)
  /\ phase' = "replay"
  /\ UNCHANGED <<doc, remoteVars>>

Replay ==
  /\ phase = "replay" /\ ReplayStep
  /\ UNCHANGED <<fileVars, doc, remoteVars, phase>>

\* A finished trace is the object the players and writers of a host start from.
Store ==
  /\ writer = "finished" /\ Load(ReadTrace(Split))
  /\ phase' = "stored"
  /\ UNCHANGED <<doc, replayVars, remoteVars>>

Remote ==
  /\ phase = "stored" /\ RemoteStep
  /\ UNCHANGED <<fileVars, doc, replayVars, phase>>

Next ==
  \/ Capture
  \/ \E t \in BOOLEAN : ToPerfetto(t)
  \/ \E mode \in Modes : CalibrateE2e(mode)
  \/ Replay
  \/ Store
  \/ Remote

\* The runtime runs a task that is ready, in the end.
Spec == Init /\ [][Next]_vars /\ WF_vars(Replay)

-----------------------------------------------------------------------------
\* The measurements can be written as a trace and read back, unless an answer
\* of several tokens came in one message (replay_arrivals against
\* validate_record).
MeasuredReadable ==
  verdict.kind = "done" =>
    \A k \in DOMAIN verdict.measured :
      LET r == verdict.measured[k] IN ValidateRecord(r) \/ (r.itl = <<>> /\ r.output > 1)

\* What a finished replay reports can be relied on: its verdict, and the trace of
\* its measurements.
ReplayOutcome == VerdictSound /\ MeasuredReadable
=============================================================================
