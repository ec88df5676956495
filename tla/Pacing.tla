------------------------------- MODULE Pacing -------------------------------
(***************************************************************************)
(* The engine's step clock driven by a latency model fitted to a trace:    *)
(* admission, composition and completion of steps (src/engine.rs), and the *)
(* per-request pacing state (DecodePacing).  The same model is also drawn  *)
(* from without an engine, by the calibration report (src/calibrate.rs).   *)
(***************************************************************************)
EXTENDS LatencyModel, TLC

CONSTANTS
  Ids,          \* requests, as numbers: the order of active_requests
  Kinds,        \* what a request asks for: prompt, cached, remote and max_tokens
  Knob,         \* the configured knobs
  Budget,       \* max_num_batched_tokens
  Threshold,    \* long_prefill_token_threshold; zero is no limit
  ChurnWindow,  \* one scaled second
  MaxLate,      \* bound: how late the engine loop wakes up
  MaxNow        \* bound: the time up to which requests arrive

VARIABLES
  records,  \* the trace the model was built from
  model,    \* the latency model, or why there is none
  user,     \* who draws: the engine or the report
  now,
  active,   \* active_requests, those that left included
  prefill_order,
  current_step,
  anchor,   \* where the step to compose begins; the handler is not done
  stepping, \* a call of step() is in progress
  recent_big_admissions,
  report    \* position of the report

engineVars == <<now, active, prefill_order, current_step, anchor, stepping, recent_big_admissions>>
pacingVars == <<records, model, user, engineVars, report>>

NoModel == [kind |-> "none"]
NoStep == [end |-> -1]
NoAnchor == -1
Empty == [i \in {} |-> 0]
Built == model.kind \in {"trace", "knob"}

\* DecodePacing::for_prompt.
Pacing(prompt, churn) ==
  [donors |-> [cb \in ConcurrencyBuckets |-> 0], stall |-> 0,
   context_bucket |-> PromptBucket(prompt), churn |-> churn]

\* Zero stands for no stall: only prefills of at least one token are noted.
NotePrefill(p, tokens) == [p EXCEPT !.stall = Larger(p.stall, tokens)]

TakeStall_Kept(p) == p
TakeStall(p) == [p EXCEPT !.stall = 0]

\* The donor pinned at this concurrency, or any of the cell's.
PickDonor_Fresh(p, cb, cell) == DOMAIN model.donors[cell]
PickDonor(p, cb, cell) == IF p.donors[cb] # 0 THEN {p.donors[cb]} ELSE DOMAIN model.donors[cell]

\* The results of one draw: the step, the pacing state after it, and where it
\* came from: a stall cell, a donor, or neither (kind).
PacedStep(p, running) ==
  LET cb == ConcurrencyBucket(running)
      clear == TakeStall(p)
      stalls == ~IsKnob(model) /\ p.stall > 0 /\ HasData(model.stalls)
      donors == ~IsKnob(model) /\ HasData(model.donors)
      stall == NearestGridCell(model.stalls, PromptBucket(p.stall), cb)
      cell == NearestGridCell(model.donors, p.context_bucket + CellOffset(p.churn), cb)
      Draw(ms, tokens, pacing, source) == [ms |-> ms, tokens |-> tokens, pacing |-> pacing, source |-> source]
      From(kind, at, donor) == [cb |-> cb, kind |-> kind, cell |-> at, donor |-> donor]
  IN CASE stalls -> {Draw(m, 1, clear, From("stall", stall, 0)) : m \in SampleInverseCdf(model.stalls[stall])}
       [] ~stalls /\ donors ->
            UNION {{Draw(s.ms, s.tokens, [clear EXCEPT !.donors[cb] = d], From("donor", cell, d))
                      : s \in SampleStepInverseCdf(model.donors[cell][d])} : d \in PickDonor(p, cb, cell)}
       [] OTHER -> {Draw(m, 1, IF IsKnob(model) THEN p ELSE clear, From("marginal", <<0, 0>>, 0))
                      : m \in InterTokenDelay(model, running)}

-----------------------------------------------------------------------------
NoDraw == [record |-> 0, marked |-> FALSE, source |-> [kind |-> "none"]]

PacingInit ==
  /\ records = <<>> /\ model = NoModel /\ user = "none"
  /\ now = 0 /\ active = Empty /\ prefill_order = <<>>
  /\ current_step = NoStep /\ anchor = NoAnchor /\ stepping = FALSE /\ recent_big_admissions = <<>>
  /\ report = [record |-> 1, gap |-> 0, pacing |-> Pacing(0, FALSE), sources |-> {}, last |-> NoDraw]

BuildModel(rs) ==
  /\ model = NoModel
  /\ records' = rs
  /\ model' = FromRecords(rs, Knob, Budget)
  /\ user' \in {"engine", "report"}
  /\ UNCHANGED <<engineVars, report>>

\* Without a trace the engine runs on the knobs alone.
ConfigureKnobs ==
  /\ model = NoModel
  /\ model' = KnobModel(Knob) /\ user' = "engine"
  /\ UNCHANGED <<records, engineVars, report>>

-----------------------------------------------------------------------------
(* The engine.                                                             *)

\* Requests in the batch; one that has gone is kept for the properties only.
Live == {i \in DOMAIN active : ~active[i].gone}
Running == Cardinality(Live)
Generating(r) == r.generated < r.max_tokens
Decoders == {i \in Live : active[i].remaining = 0 /\ Generating(active[i])}

EngineIdle == user = "engine" /\ Built /\ anchor = NoAnchor /\ ~stepping

\* The step's end or the first pending emission.
Deadlines ==
  (IF current_step = NoStep THEN {} ELSE {current_step.end})
    \cup {Head(active[i].pending_emits) : i \in {j \in Live : active[j].pending_emits # <<>>}}

\* Time passes while the engine sleeps; it wakes up at most MaxLate late.
Tick ==
  /\ EngineIdle
  /\ IF Deadlines = {} THEN now < MaxNow ELSE now < Min(Deadlines) + MaxLate
  /\ now' = now + 1
  /\ UNCHANGED <<records, model, user, active, prefill_order, current_step, anchor, stepping,
                 recent_big_admissions, report>>

\* admit_direct after the prompt went through the cache, then ensure_step at
\* the current time if the clock idles.
AdmitDirect(i, kind) ==
  LET recent == SelectSeq(recent_big_admissions, LAMBDA t : now - t <= ChurnWindow)
      remaining == IF kind.remote THEN 0 ELSE Larger(SatSub(kind.prompt, kind.cached), 1)
      ctx == [prompt |-> kind.prompt, cached |-> kind.cached, remote |-> TRUE, running |-> Running + 1]
      Request(max_tokens, offset) ==
        [prompt |-> kind.prompt, cached |-> kind.cached, remote |-> kind.remote, remaining |-> remaining,
         max_tokens |-> max_tokens, generated |-> 0, pacing |-> Pacing(kind.prompt, recent # <<>>),
         emit_offset |-> offset, pending_emits |-> <<>>, gone |-> FALSE,
         arrived |-> now, alone |-> Live = {}, first_due |-> -1, sources |-> {}]
  IN /\ EngineIdle /\ now <= MaxNow /\ i \in Ids \ DOMAIN active
     /\ \E n \in OutputLens(model, kind.max_tokens),
           offset \in IF kind.remote THEN FirstTokenOverhead(model, ctx) ELSE {0} :
          active' = [j \in DOMAIN active |-> [active[j] EXCEPT !.alone = @ /\ active[j].first_due >= 0]]
                      @@ (i :> Request(n, offset))
     /\ prefill_order' = IF kind.remote THEN prefill_order ELSE Append(prefill_order, i)
     /\ recent_big_admissions' = IF remaining > BigChunkTokens THEN Append(recent, now) ELSE recent
     /\ anchor' = IF current_step = NoStep THEN now ELSE NoAnchor
     /\ UNCHANGED <<records, model, user, now, current_step, stepping, report>>

\* The decoder that sets the pace: the deepest context, the first of several.
Pacer ==
  CHOOSE i \in Decoders : \A j \in Decoders :
    LET bi == active[i].pacing.context_bucket   bj == active[j].pacing.context_bucket
    IN bi > bj \/ (bi = bj /\ i <= j)

\* Tokens taken by the prefills of a step, in order, from what decoders leave.
Chunks(order, budget) ==
  FoldLeft(LAMBDA acc, i :
             LET take == Min({active[i].remaining, acc.left} \cup ({Threshold} \ {0}))
             IN IF acc.left = 0 THEN acc
                ELSE [left |-> acc.left - take, take |-> acc.take @@ (i :> take),
                      cost |-> acc.cost + PrefillChunkCost(model, take, SatSub(active[i].prompt, active[i].remaining))],
           [left |-> budget, take |-> Empty, cost |-> 0], order)

\* A step whose prefills take all of the budget costs at least the full-step floor.
StepCost_NoFloor(chunks) == chunks.cost
StepCost(chunks) ==
  IF chunks.left = 0 /\ chunks.take # Empty THEN Larger(chunks.cost, model.floor) ELSE chunks.cost

\* compose_step with the given draws.
ComposeStep(draws) ==
  LET order == SelectSeq(prefill_order, LAMBDA i : i \in Live /\ active[i].remaining > 0)
      claim == SumOver(LAMBDA i : Larger(draws[i].tokens, 1), Decoders)
      chunks == Chunks(order, SatSub(Larger(Budget, 1), claim))
      cost == StepCost(chunks)
      base == IF Decoders = {} THEN 0 ELSE draws[Pacer].ms
  IN /\ prefill_order' = order
     /\ active' = [i \in DOMAIN active |->
                     IF i \in Decoders
                     THEN [active[i] EXCEPT !.pacing = draws[i].pacing, !.sources = @ \cup {draws[i].source}]
                     ELSE active[i]]
     /\ current_step' = IF Decoders = {} /\ chunks.take = Empty THEN NoStep
                        ELSE [end |-> anchor + Larger(base, cost),
                              tokens |-> [i \in Decoders |-> draws[i].tokens], chunks |-> chunks.take]

EnsureStep ==
  LET Draws(i) == PacedStep(active[i].pacing, Running) IN
  /\ anchor # NoAnchor
  /\ \E draws \in {f \in [Decoders -> UNION {Draws(i) : i \in Decoders}] : \A i \in Decoders : f[i] \in Draws(i)} :
       ComposeStep(draws)
  /\ anchor' = NoAnchor
  /\ UNCHANGED <<records, model, user, now, stepping, recent_big_admissions, report>>

\* step() is called once a deadline has passed.
StepBegin ==
  /\ EngineIdle /\ \E d \in Deadlines : d <= now
  /\ stepping' = TRUE
  /\ UNCHANGED <<records, model, user, now, active, prefill_order, current_step, anchor,
                 recent_big_admissions, report>>

\* A request generates n tokens at the end of a step, emitted emit_offset later.
Generate(r, n, end) ==
  [r EXCEPT !.generated = Min({@ + n, r.max_tokens}), !.pending_emits = Append(@, end + r.emit_offset),
            !.first_due = IF @ < 0 THEN end + r.emit_offset ELSE @]

StepDue == current_step # NoStep /\ current_step.end <= now

\* complete_step: decoders generate, chunks drain, a finished prefill generates
\* its first token, its emissions delayed by what the chunks did not charge.
CompleteStep ==
  LET end == current_step.end
      done == {i \in DOMAIN current_step.chunks : active[i].remaining <= current_step.chunks[i]}
      Overhead(i) == FirstTokenOverhead(model, [prompt |-> active[i].prompt, cached |-> active[i].cached,
                                                remote |-> FALSE, running |-> Running])
      After(i, offset) ==
        LET r == active[i] IN
        CASE i \in done -> Generate([r EXCEPT !.remaining = 0, !.emit_offset = offset], 1, end)
          [] i \in DOMAIN current_step.chunks \ done -> [r EXCEPT !.remaining = @ - current_step.chunks[i]]
          [] i \in DOMAIN current_step.tokens -> Generate(r, Larger(current_step.tokens[i], 1), end)
          [] OTHER -> r
  IN /\ stepping /\ anchor = NoAnchor /\ StepDue
     /\ \E offset \in {f \in [done -> UNION {Overhead(i) : i \in done}] : \A i \in done : f[i] \in Overhead(i)} :
          active' = [i \in DOMAIN active |-> After(i, IF i \in done THEN offset[i] ELSE 0)]
     /\ current_step' = NoStep /\ anchor' = end
     /\ UNCHANGED <<records, model, user, now, prefill_order, stepping, recent_big_admissions, report>>

\* The rest of step(): what is due is emitted, and finished requests
\* leave.
EmitDue ==
  LET Due(r) == Len(SelectSeq(r.pending_emits, LAMBDA d : d <= now))
      out == {i \in Live : Due(active[i]) > 0}
      Sent(r) == SubSeq(r.pending_emits, Due(r) + 1, Len(r.pending_emits))
  IN /\ stepping /\ anchor = NoAnchor /\ ~StepDue
     /\ active' = [i \in DOMAIN active |->
                     IF i \in out
                     THEN [active[i] EXCEPT !.pending_emits = Sent(active[i]),
                                            !.gone = ~Generating(active[i]) /\ Sent(active[i]) = <<>>]
                     ELSE active[i]]
     /\ stepping' = FALSE
     /\ anchor' = IF current_step = NoStep THEN now ELSE NoAnchor
     /\ UNCHANGED <<records, model, user, now, prefill_order, current_step, recent_big_admissions, report>>

-----------------------------------------------------------------------------
(* request_total_report: each record's gaps drawn again, with a fresh      *)
(* pacing state, stalls where it stalled.  gap = 0 before the first.       *)

GapCount(r) == IF r.gaps # <<>> THEN Len(r.gaps) ELSE r.summary.count

Reporting == user = "report" /\ Built /\ report.record <= Len(records)

ReportRecord ==
  LET r == records[report.record] IN
  /\ Reporting /\ report.gap = 0
  /\ report' = IF GapCount(r) = 0 THEN [report EXCEPT !.record = @ + 1]
               ELSE [report EXCEPT !.gap = 1, !.pacing = Pacing(r.prompt, RecordChurn(r)), !.sources = {}]
  /\ UNCHANGED <<records, model, user, engineVars>>

ReportGap ==
  LET r == records[report.record]
      marked == r.ctx /\ r.gaps # <<>> /\ r.gaps[report.gap].mark > 0
      noted == IF marked THEN NotePrefill(report.pacing, r.gaps[report.gap].mark) ELSE report.pacing
      more == report.gap < GapCount(r)
  IN /\ Reporting /\ report.gap > 0
     /\ \E d \in PacedStep(noted, r.concurrency) :
          report' = [record |-> IF more THEN report.record ELSE report.record + 1,
                     gap |-> IF more THEN report.gap + 1 ELSE 0,
                     pacing |-> d.pacing, sources |-> report.sources \cup {d.source},
                     last |-> [record |-> report.record, marked |-> marked, source |-> d.source]]
     /\ UNCHANGED <<records, model, user, engineVars>>

-----------------------------------------------------------------------------
PacingNext(traces) ==
  \/ \E rs \in traces : BuildModel(rs)
  \/ ConfigureKnobs
  \/ Tick
  \/ \E i \in Ids, kind \in Kinds : AdmitDirect(i, kind)
  \/ EnsureStep
  \/ StepBegin
  \/ CompleteStep
  \/ EmitDue
  \/ ReportRecord
  \/ ReportGap

-----------------------------------------------------------------------------
(* Within-request correlation: at one concurrency a request draws all its  *)
(* clean gaps from one recorded request, however its batch changes in      *)
(* between (paced_step, DecodePacing::donors).                             *)
OneDonor(sources) ==
  \A s, t \in sources : s.kind = "donor" /\ t.kind = "donor" /\ s.cb = t.cb => s = t

DonorPinned == OneDonor(report.sources) /\ \A i \in DOMAIN active : OneDonor(active[i].sources)

\* The report draws a stall for exactly the gaps the record marked, and a
\* record's other gaps from the cell the record was filed under, if it left a
\* donor there (request_total_report, note_prefill, from_records).
ReportFaithful ==
  report.last # NoDraw =>
    LET r == records[report.last.record] IN
    /\ HasData(model.stalls) => (report.last.source.kind = "stall" <=> report.last.marked)
    /\ report.last.source.kind = "donor" /\ DonorOf(r) # <<>> => report.last.source.cell = <<Row(r), Column(r)>>

Ttft(r) == r.first_due - r.arrived
\* A request prefilled here; one wholly cached is left out, as its last token
\* is charged at another depth by the engine than by first_token_overhead.
Prefilled(r) == r.first_due >= 0 /\ ~r.remote /\ r.cached < r.prompt
Service(r) == FirstTokenDelay(model, [prompt |-> r.prompt, cached |-> r.cached, remote |-> FALSE, running |-> 1])
Charged(r) == ChunksCharged(model, [prompt |-> r.prompt, cached |-> r.cached, remote |-> FALSE])

\* Load only delays: a request's first token does not come before its service
\* time has passed, whatever it shares its steps with (compose_step against
\* first_token_overhead); it may gain what the loop was late by, as a step is
\* anchored at the end of the one before and not at the time it is composed.
LoadNeverSpeedsUp ==
  \A i \in DOMAIN active :
    LET r == active[i] IN
    Prefilled(r) => \E t \in Service(r) : Ttft(r) + MaxLate >= t

\* A request alone in the engine has its first token after exactly its service
\* time, or what its chunks cost if that is more; except that the last chunk,
\* when it fills the budget, is charged as a full step by the engine and as
\* a partial one by first_token_overhead.
IsolatedTtft ==
  \A i \in DOMAIN active :
    LET r == active[i]
        last == Uncached(r) - ((Uncached(r) - 1) \div model.budget) * model.budget
        law == PrefillChunkCost(model, last, r.prompt - last)
        premium == IF last = model.budget THEN SatSub(model.floor, law) ELSE 0
    IN ~IsKnob(model) /\ r.alone /\ Prefilled(r) =>
         \E t \in Service(r) : Ttft(r) = Larger(t, Charged(r)) + premium

\* Every draw comes from the recording that applies: one donor per concurrency,
\* a stall where a prompt was computed and nowhere else.
DrawsFaithful == DonorPinned /\ ReportFaithful

\* The step clock keeps the fitted service time: exactly for a request alone,
\* and never less under load.
ServiceTimeKept == LoadNeverSpeedsUp /\ IsolatedTtft
=============================================================================
