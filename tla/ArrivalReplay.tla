---------------------------- MODULE ArrivalReplay ----------------------------
(***************************************************************************)
(* replay_arrivals (src/calibrate.rs): one task per recorded request waits *)
(* for its recorded offset, or for its session's previous turn and the     *)
(* recorded think time, sends a rebuilt prompt to the simulator and        *)
(* measures the answer; a verdict compares the measurements with the trace.*)
(* Times are milliseconds of the trace: the time scale divides them on the *)
(* way out and multiplies them on the way back.                            *)
(***************************************************************************)
EXTENDS Integers, SequencesExt, FiniteSetsExt

CONSTANTS
  Slower,         \* by how much an answer may be slower than recorded
  TimeoutBase,    \* the least time a request is given
  TimeoutFactor,  \* and what is added per millisecond recorded
  Tolerance,      \* of the verdict, in percent
  HashBlock       \* block_size of the trace: tokens per hash

ASSUME ReplayAssumption ==
  /\ Slower \subseteq Nat /\ 0 \in Slower
  /\ TimeoutBase \in Nat \ {0} /\ TimeoutFactor \in Nat
  /\ Tolerance \in 0 .. 99 /\ HashBlock \in Nat \ {0}

VARIABLES
  subset,    \* the records replayed, in arrival order
  chained,   \* SessionPacing::Chained
  shared,    \* PromptReplay::SharedPrefixes
  prompts,   \* the prompts sent, as sequences of tokens
  clock,
  tasks,     \* state, when it is due, sent and ended, and the answer
  verdict    \* none, refused, or the outcome

replayVars == <<subset, chained, shared, prompts, clock, tasks, verdict>>

TotalOf(s) == FoldLeft(LAMBDA a, b : a + b, 0, s)
Tasks == DOMAIN tasks

\* Gaps of a record: recorded one by one, or as many as the summary counts.
SourceGaps(r) == IF r.itl # <<>> THEN r.itl ELSE [i \in 1 .. r.summary.count |-> r.summary.mean]
SourceMs(r) == r.ttft + TotalOf(SourceGaps(r))
SourceCompletion(r) == r.arrival + SourceMs(r)

\* replay_subset: the records with an arrival, by arrival, ties in file order.
ByArrival(trace) ==
  FoldLeft(LAMBDA order, r :
             IF r.arrival < 0 THEN order
             ELSE InsertAt(order, 1 + Cardinality({k \in DOMAIN order : order[k].arrival <= r.arrival}), r),
           <<>>, trace)

-----------------------------------------------------------------------------
(* Prompts.  mix_token is taken to be injective; a seed is a block hash,   *)
(* a sequence of numbers from 1, or a request's index after a zero.        *)

MixToken(seed, position) == <<seed, position>>

SyntheticPrompt_Fill(i, len) == [j \in 1 .. len |-> MixToken(<<0>>, j)]
SyntheticPrompt(i, len) == [j \in 1 .. len |-> MixToken(<<0, i>>, j)]

PromptFromBlockHashes(hashes, len, i) ==
  LET full == [j \in 1 .. Min({HashBlock * Len(hashes), len}) |->
                 MixToken(hashes[(j - 1) \div HashBlock + 1], ((j - 1) % HashBlock) + 1)]
  IN full \o SyntheticPrompt(i, len - Len(full))

PromptOf(r, i, prefixes) ==
  IF prefixes /\ r.hashes # <<>> THEN PromptFromBlockHashes(r.hashes, r.prompt, i)
  ELSE SyntheticPrompt(i, r.prompt)

-----------------------------------------------------------------------------
(* Sessions.                                                               *)

\* The latest earlier record whose whole chain this one's extends, the longest
\* chain first; zero for the root of a session.
Parent(rs, i) ==
  LET Ends(k) == {p \in 1 .. i - 1 : rs[p].hashes # <<>> /\ Last(rs[p].hashes) = rs[i].hashes[k]}
      lens == {k \in 1 .. Len(rs[i].hashes) - 1 : Ends(k) # {} /\ Len(rs[Max(Ends(k))].hashes) = k}
  IN IF lens = {} THEN 0 ELSE Max(Ends(Max(lens)))

Offset(i) == subset[i].arrival - subset[1].arrival

Think_FromArrival(i, p) == subset[i].arrival - subset[p].arrival
Think(i, p) == Max({subset[i].arrival - SourceCompletion(subset[p]), 0})

ParentOf(i) == IF chained THEN Parent(subset, i) ELSE 0

-----------------------------------------------------------------------------
NoTasks == <<>>
NoAnswer == [ok |-> FALSE]
NoVerdict == [kind |-> "none"]

ReplayInit ==
  /\ subset = <<>> /\ chained = FALSE /\ shared = FALSE /\ prompts = <<>> /\ clock = 0
  /\ tasks = NoTasks /\ verdict = NoVerdict

\* The trace is loaded, its first max requests spawned as tasks; the engine runs
\* on its own thread and the client is connected.
SpawnTasks(trace, max, sessions, prefixes) ==
  LET all == ByArrival(trace)
      rs == SubSeq(all, 1, Min({Len(all), max}))
      Task(i) == [state |-> IF sessions /\ Parent(rs, i) # 0 THEN "waiting" ELSE "timed",
                  due |-> rs[i].arrival - rs[1].arrival, sent |-> -1, ended |-> -1,
                  answer |-> NoAnswer, fate |-> "none"]
  IN /\ verdict = NoVerdict /\ tasks = NoTasks
     /\ subset' = rs /\ chained' = sessions /\ shared' = prefixes
     /\ tasks' = [i \in DOMAIN rs |-> Task(i)]
     /\ prompts' = [i \in DOMAIN rs |-> PromptOf(rs[i], i, prefixes)]
     /\ verdict' = IF rs = <<>> THEN [kind |-> "refused"] ELSE NoVerdict
     /\ UNCHANGED clock

TimeoutOf(r) == TimeoutBase + TimeoutFactor * SourceMs(r)

\* The engine's answer, external to the harness: as recorded or slower, in one
\* chunk per gap or all tokens at once; an error; or none in time.
Answers(r) ==
  {[ok |-> TRUE, ttft |-> r.ttft + s, gaps |-> SourceGaps(r), chunks |-> <<1>> \o [i \in DOMAIN SourceGaps(r) |-> size]]
     : s \in Slower, size \in {1, 2}}
    \cup {[ok |-> TRUE, ttft |-> SourceMs(r), gaps |-> <<>>, chunks |-> <<Max({r.output, 1})>>]}
Duration(a) == a.ttft + TotalOf(a.gaps)

\* measure_one until the answer is in: fate and answer are the engine's choice.
Send(i) ==
  /\ tasks[i].state = "timed" /\ tasks[i].due <= clock
  /\ \/ \E a \in Answers(subset[i]) :
          tasks' = [tasks EXCEPT ![i].state = "sent", ![i].sent = clock, ![i].answer = a, ![i].fate = "answered",
                                 ![i].due = clock + Min({Duration(a), TimeoutOf(subset[i])})]
     \/ tasks' = [tasks EXCEPT ![i].state = "sent", ![i].sent = clock, ![i].fate = "error", ![i].due = clock]
     \/ tasks' = [tasks EXCEPT ![i].state = "sent", ![i].sent = clock, ![i].fate = "lost",
                               ![i].due = clock + TimeoutOf(subset[i])]
  /\ UNCHANGED <<subset, chained, shared, prompts, clock, verdict>>

\* The turns that wait for this one are released, whether it was answered or not.
Release_OnSuccess(i, answered, c) == answered /\ ParentOf(c) = i
Release(i, answered, c) == ParentOf(c) = i

EndTask(i) ==
  LET t == tasks[i]
      answered == t.fate = "answered" /\ Duration(t.answer) <= TimeoutOf(subset[i])
  IN /\ t.state = "sent" /\ t.due <= clock
     /\ tasks' = [c \in Tasks |->
          CASE c = i -> [t EXCEPT !.state = "ended", !.ended = clock,
                                  !.answer = IF answered THEN t.answer ELSE NoAnswer]
            [] c # i /\ tasks[c].state = "waiting" /\ Release(i, answered, c) ->
                 [tasks[c] EXCEPT !.state = "timed", !.due = clock + Think(c, i)]
            [] OTHER -> tasks[c]]
     /\ UNCHANGED <<subset, chained, shared, prompts, clock, verdict>>

Pending == {i \in Tasks : tasks[i].state \in {"timed", "sent"}}

\* Time passes while no task has anything to do.
Tick ==
  /\ Pending # {} /\ \A i \in Pending : tasks[i].due > clock
  /\ clock' = Min({tasks[i].due : i \in Pending})
  /\ UNCHANGED <<subset, chained, shared, prompts, tasks, verdict>>

-----------------------------------------------------------------------------
(* The verdict.                                                            *)

\* Nearest rank; zero of nothing.
Percentile(sorted, pct) == IF sorted = <<>> THEN 0 ELSE sorted[Max({(pct * Len(sorted) + 99) \div 100, 1})]

\* The relative error at one quantile is within the tolerance.
Near(a, b) == 100 * Max({a - b, b - a}) <= Tolerance * Max({a, b})

WithinTolerance(source, measured) ==
  LET s == SortSeq(source, <)   m == SortSeq(measured, <)
  IN \A pct \in {50, 90, 99} : Near(Percentile(s, pct), Percentile(m, pct))

MeasuredTotals_AlsoEmpty(answers) == [i \in DOMAIN answers |-> TotalOf(answers[i].gaps)]
MeasuredTotals(answers) ==
  LET decoded == SelectSeq(answers, LAMBDA a : a.gaps # <<>>) IN [i \in DOMAIN decoded |-> TotalOf(decoded[i].gaps)]

SourceTotals(rs) ==
  LET decoded == SelectSeq(rs, LAMBDA r : SourceGaps(r) # <<>>) IN [i \in DOMAIN decoded |-> TotalOf(SourceGaps(decoded[i]))]

\* All samples of the trace, and of the answers; the verdict takes the pooled row.
PoolSamples(rs) ==
  [ttfts |-> [i \in DOMAIN rs |-> rs[i].ttft], itls |-> FlattenSeq([i \in DOMAIN rs |-> SourceGaps(rs[i])])]
BucketsFromMeasured(answers) ==
  [ttfts |-> [k \in DOMAIN answers |-> answers[k].ttft], itls |-> FlattenSeq([k \in DOMAIN answers |-> answers[k].gaps])]

\* chunks is one longer than the gaps: the first message closes none.
ItlTokens_WithFirst(chunks) == IF \E i \in DOMAIN chunks : chunks[i] > 1 THEN chunks ELSE <<>>
ItlTokens(chunks) ==
  IF \E i \in 2 .. Len(chunks) : chunks[i] > 1 THEN Tail(chunks) ELSE <<>>

\* The measurements of a request as a record, to be written as a trace.
MeasuredRecord(r, a) ==
  [prompt |-> r.prompt, hashes |-> <<>>, arrival |-> r.arrival, output |-> TotalOf(a.chunks), ttft |-> a.ttft,
   itl |-> a.gaps, itl_tokens |-> ItlTokens(a.chunks), ctx |-> -1, summary |-> [count |-> 0, mean |-> 0],
   concurrency |-> r.concurrency, ids |-> -1]

\* Every task was joined: requests without an answer are left out.
JudgeReplay ==
  LET done == SelectSeq([i \in Tasks |-> i], LAMBDA i : tasks[i].answer.ok)
      answers == [k \in DOMAIN done |-> tasks[done[k]].answer]
      totals == MeasuredTotals(answers)
      source == SourceTotals(subset)
      pooled == PoolSamples(subset)
      measured == BucketsFromMeasured(answers)
      pass == /\ WithinTolerance(pooled.ttfts, measured.ttfts) /\ WithinTolerance(pooled.itls, measured.itls)
              /\ source # <<>> /\ totals # <<>> => WithinTolerance(source, totals)
  IN /\ verdict = NoVerdict /\ tasks # NoTasks
     /\ \A i \in Tasks : tasks[i].state = "ended"
     /\ verdict' = [kind |-> "done", pass |-> pass, completed |-> Len(done),
                    measured |-> [k \in DOMAIN done |-> MeasuredRecord(subset[done[k]], answers[k])]]
     /\ UNCHANGED <<subset, chained, shared, prompts, clock, tasks>>

ReplayStep == (\E i \in Tasks : Send(i) \/ EndTask(i)) \/ Tick \/ JudgeReplay

-----------------------------------------------------------------------------
Over(i) == tasks[i].ended >= 0
Took(i) == tasks[i].ended - tasks[i].sent
\* A turn recorded before its parent was done.
Overlapped(i) == ParentOf(i) # 0 /\ subset[i].arrival < SourceCompletion(subset[ParentOf(i)])

\* Closed-loop pacing is the recorded one: while no answer took less time than
\* recorded, no request is sent before its recorded offset; while all took just
\* that, and no turn was recorded before its parent's end, each is sent at its
\* recorded offset (infer_session_parents, source_completion_ms, think_ms).
PaceKept ==
  /\ (\A i \in Tasks : Over(i) => Took(i) >= SourceMs(subset[i])) =>
       \A i \in Tasks : tasks[i].sent >= 0 => tasks[i].sent >= Offset(i)
  /\ (\A i \in Tasks : (Over(i) => Took(i) = SourceMs(subset[i])) /\ ~Overlapped(i)) =>
       \A i \in Tasks : tasks[i].sent >= 0 => tasks[i].sent = Offset(i)

Common(s, t) == Max({k \in 0 .. Min({Len(s), Len(t)}) : SubSeq(s, 1, k) = SubSeq(t, 1, k)})

\* Two prompts share as many whole blocks as the recorded prompts did, so that
\* the prefix cache hits where the captured engine's could have; replayed cold
\* they share none (prompt_from_block_hashes, synthetic_prompt).
PromptsShare ==
  \A i, j \in Tasks : i # j =>
    Common(prompts[i], prompts[j]) \div HashBlock
      = IF shared THEN Common(subset[i].hashes, subset[j].hashes) ELSE 0

\* The load the simulator sees is the recorded one, in time and in content.
ReplayFaithful == PaceKept /\ PromptsShare

\* A replay answered just as recorded passes, and one that passes was answered,
\* unless all but one in a hundred of the recorded times to first token are zero,
\* as no quantile beyond p99 is looked at (Verdict, replay_pass).
VerdictSound ==
  verdict.kind = "done" =>
    /\ (\A i \in Tasks : tasks[i].answer.ok /\ tasks[i].answer.ttft = subset[i].ttft
                                           /\ tasks[i].answer.gaps = SourceGaps(subset[i])) => verdict.pass
    /\ verdict.pass /\ verdict.completed = 0 =>
         100 * Cardinality({i \in Tasks : subset[i].ttft # 0}) <= Cardinality(Tasks)

\* The replay ends, whatever happens to its requests: a failed turn releases the
\* ones that wait for it (replay_arrivals, "or the replay deadlocks on errors").
ReplayEnds == (tasks # NoTasks) ~> (verdict # NoVerdict)
=============================================================================
