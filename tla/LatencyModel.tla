---------------------------- MODULE LatencyModel ----------------------------
(***************************************************************************)
(* The latency models of crates/sim-trace/src/latency.rs as functions: the *)
(* knob model, and the model fitted to a recorded trace.  A random draw is *)
(* the set of values it can give.  Times are whole milliseconds; fitted    *)
(* coefficients are exact fractions over a common denominator.  The tables *)
(* and thresholds of the source are constants, so that an instance can use *)
(* small ones.                                                             *)
(***************************************************************************)
EXTENDS Integers, SequencesExt, FiniteSetsExt

CONSTANTS
  PromptEdges,        \* lower ends of the prompt buckets, the first one 0
  ConcurrencyLows,    \* lower ends of CONCURRENCY_RANGES, the first one 1
  BigChunkTokens,     \* above this an admitted prefill makes the batch churn
  WindowWidth, WindowStride, WindowMin,   \* service_windows
  CleanMin, ChunkMin, ObsMin              \* fit_chunk_cost, fit_full_step_floor

Increasing(s) == \A i, j \in DOMAIN s : i < j => s[i] < s[j]

ASSUME TablesAssumption ==
  /\ PromptEdges \in Seq(Nat) /\ Increasing(PromptEdges) /\ PromptEdges[1] = 0
  /\ ConcurrencyLows \in Seq(Nat) /\ Increasing(ConcurrencyLows) /\ ConcurrencyLows[1] = 1
ASSUME ThresholdsAssumption ==
  /\ {WindowWidth, WindowStride, WindowMin, CleanMin, ChunkMin, ObsMin} \subseteq Nat \ {0}
  /\ BigChunkTokens \in Nat

PromptBuckets == DOMAIN PromptEdges
ConcurrencyBuckets == DOMAIN ConcurrencyLows

PromptBucket(tokens) == Max({i \in PromptBuckets : PromptEdges[i] <= tokens})

\* The ranges are contiguous; what fits in none of them (zero) goes to the last.
ConcurrencyBucket(n) ==
  IF n >= 1 THEN Max({i \in ConcurrencyBuckets : ConcurrencyLows[i] <= n})
  ELSE Len(ConcurrencyLows)

SatSub(a, b) == IF a > b THEN a - b ELSE 0
Larger(a, b) == IF a > b THEN a ELSE b
Sorted(s) == SortSeq(s, <)
Median(sorted) == sorted[(Len(sorted) \div 2) + 1]
SumOver(Value(_), S) == MapThenSumSet(Value, S)

-----------------------------------------------------------------------------
(* The knob model.  load is the load factor as a fraction.                 *)

LoadFactor(knob, running) ==
  IF knob.max_num_seqs <= 1 THEN <<1, 1>>
  ELSE <<100 * (knob.max_num_seqs - 1) + (knob.percent_under_load - 100) * SatSub(running, 1),
         100 * (knob.max_num_seqs - 1)>>

Scale(ms, load) == (ms * load[1]) \div load[2]

RandomNormTruncated(mean, stddev) ==
  IF stddev = 0 THEN {mean} ELSE ((3 * mean) \div 10) .. ((17 * mean) \div 10)

KnobFirstTokenDelay(knob, ctx) ==
  LET load == LoadFactor(knob, ctx.running)
      uncached == SatSub(ctx.prompt, ctx.cached)
  IN CASE ctx.remote /\ knob.transfer = 0 /\ knob.transfer_dev = 0 ->
            RandomNormTruncated(knob.transfer_per_token * ctx.prompt, knob.transfer_per_token_dev)
       [] ctx.remote /\ ~(knob.transfer = 0 /\ knob.transfer_dev = 0) ->
            RandomNormTruncated(knob.transfer, knob.transfer_dev)
       [] ~ctx.remote /\ knob.ttft = 0 /\ knob.ttft_dev = 0 ->
            RandomNormTruncated(Scale(knob.prefill, load) + uncached * Scale(knob.prefill_per_token, load),
                                knob.prefill_dev)
       [] OTHER -> RandomNormTruncated(Scale(knob.ttft, load), knob.ttft_dev)

KnobInterTokenDelay(knob, running) ==
  RandomNormTruncated(Scale(knob.itl, LoadFactor(knob, running)), knob.itl_dev)

-----------------------------------------------------------------------------
(* A record: prompt, cached, concurrency, ttft, output, and its gaps, each *)
(* with its milliseconds, its chunk's tokens and the prompt tokens of the  *)
(* prefill marked on it.  ctx says whether the marks were recorded;        *)
(* without itl_ms there are no gaps and summary holds a count and a mean.  *)

Uncached(r) == Larger(SatSub(r.prompt, r.cached), 1)

RecordChurn(r) ==
  LET big == {i \in DOMAIN r.gaps : r.gaps[i].mark > BigChunkTokens}
  IN r.ctx /\ Cardinality(big) * 100 > Larger(Len(r.gaps), 1) * 6

\* Churn cells are the upper half of the donor table.
CellOffset(churn) == IF churn THEN Len(PromptEdges) ELSE 0

Row(r) == PromptBucket(r.prompt) + CellOffset(RecordChurn(r))
Column(r) == ConcurrencyBucket(r.concurrency)

Unmarked(r) == SelectSeq(r.gaps, LAMBDA g : ~r.ctx \/ g.mark = 0)
Step(g) == [ms |-> g.ms, tokens |-> g.tokens]

\* A donor's steps, sorted by gap; with marks, gaps far beyond the median are
\* later chunks of a marked prefill and are cut off.
DonorSteps(r) ==
  LET clean == Unmarked(r)
      steps == SortSeq([i \in DOMAIN clean |-> Step(clean[i])], LAMBDA a, b : a.ms < b.ms)
  IN IF r.ctx /\ steps # <<>>
     THEN SelectSeq(steps, LAMBDA s : s.ms <= 4 * Median(steps).ms)
     ELSE steps

DonorOf(r) ==
  CASE r.gaps # <<>> -> DonorSteps(r)
    [] r.gaps = <<>> /\ r.summary.count > 0 -> <<[ms |-> r.summary.mean, tokens |-> 1]>>
    [] OTHER -> <<>>

Cells == (1 .. 2 * Len(PromptEdges)) \X ConcurrencyBuckets
StallCells == PromptBuckets \X ConcurrencyBuckets

\* A donor of weight zero is not taken.
DonorsGrid(records) ==
  [cell \in Cells |->
     LET here == SelectSeq(records, LAMBDA r :
                   /\ <<Row(r), Column(r)>> = cell
                   /\ \E i \in DOMAIN DonorOf(r) : DonorOf(r)[i].tokens > 0)
     IN [i \in DOMAIN here |-> DonorOf(here[i])]]

StallsGrid(records) ==
  [cell \in StallCells |->
     LET Stalled(r) == SelectSeq(r.gaps, LAMBDA g :
                         r.ctx /\ g.mark > 0 /\ <<PromptBucket(g.mark), Column(r)>> = cell)
         all == FlattenSeq([i \in DOMAIN records |-> Stalled(records[i])])
     IN Sorted([i \in DOMAIN all |-> all[i].ms])]

ItlByConcurrency(records) ==
  [cb \in ConcurrencyBuckets |->
     LET here == SelectSeq(records, LAMBDA r : Column(r) = cb)
         Samples(r) == IF r.gaps # <<>> THEN [i \in DOMAIN r.gaps |-> r.gaps[i].ms]
                       ELSE [i \in 1 .. r.summary.count |-> r.summary.mean]
     IN Sorted(FlattenSeq([i \in DOMAIN here |-> Samples(here[i])]))]

ServiceByPrompt(records) ==
  [pb \in PromptBuckets |->
     LET here == SelectSeq(records, LAMBDA r : PromptBucket(SatSub(r.prompt, r.cached)) = pb)
         low == SelectSeq(here, LAMBDA r : \A s \in ToSet(here) : Column(r) <= Column(s))
     IN [samples |-> Sorted([i \in DOMAIN low |-> low[i].ttft]),
         median_uncached |-> IF low = <<>> THEN 0
                             ELSE Median(Sorted([i \in DOMAIN low |-> Uncached(low[i])]))]]

-----------------------------------------------------------------------------
(* The service curve T(u) = (a + b u + c u^2) / det, at least floor.       *)

NoFit == [det |-> 0, a |-> 0, b |-> 0, c |-> 0, floor |-> 0]

ServiceWindows(obs) ==
  LET Slice(k) == LET lo == obs[1].u + k * WindowStride
                  IN SelectSeq(obs, LAMBDA o : lo <= o.u /\ o.u < lo + WindowWidth)
      ks == {k \in 0 .. ((Last(obs).u - obs[1].u) \div WindowStride) : Len(Slice(k)) >= WindowMin}
      Window(k) ==
        LET s == Slice(k)
            ttfts == Sorted([i \in DOMAIN s |-> s[i].ttft])
        IN [u |-> Median(s).u, p10 |-> ttfts[(Len(s) \div 10) + 1], count |-> Len(s)]
  IN IF obs = <<>> THEN <<>>
     ELSE LET order == SetToSortSeq(ks, <) IN [i \in DOMAIN order |-> Window(order[i])]

\* sqrt(count), rounded down.
Weight(w) == Max({n \in 0 .. w.count : n * n <= w.count})
Moment(windows, k) == SumOver(LAMBDA i : Weight(windows[i]) * windows[i].u ^ k, DOMAIN windows)
MomentY(windows, k) ==
  SumOver(LAMBDA i : Weight(windows[i]) * windows[i].u ^ k * windows[i].p10, DOMAIN windows)

\* The normal equations by Cramer's rule; det = 0 is a singular system.
SolveWeightedLine(windows) ==
  LET S(k) == Moment(windows, k)   Y(k) == MomentY(windows, k)
  IN [det |-> S(0) * S(2) - S(1) * S(1),
      a |-> Y(0) * S(2) - S(1) * Y(1),  b |-> S(0) * Y(1) - Y(0) * S(1),  c |-> 0]

Det3(p, q, r) ==
  p[1] * (q[2] * r[3] - q[3] * r[2]) - q[1] * (p[2] * r[3] - p[3] * r[2])
    + r[1] * (p[2] * q[3] - p[3] * q[2])

SolveWeightedQuadratic(windows) ==
  LET S(k) == Moment(windows, k)
      y == <<MomentY(windows, 0), MomentY(windows, 1), MomentY(windows, 2)>>
      s0 == <<S(0), S(1), S(2)>>   s1 == <<S(1), S(2), S(3)>>   s2 == <<S(2), S(3), S(4)>>
  IN [det |-> Det3(s0, s1, s2), a |-> Det3(y, s1, s2), b |-> Det3(s0, y, s2), c |-> Det3(s0, s1, y)]

FitServiceCurve(windows) ==
  LET floor == Min({windows[i].p10 : i \in DOMAIN windows})
      u_max == Max({windows[i].u : i \in DOMAIN windows})
      quad == SolveWeightedQuadratic(windows)
      line == SolveWeightedLine(windows)
      With(f) == [det |-> f.det, a |-> f.a, b |-> f.b, c |-> f.c, floor |-> floor]
  IN CASE windows = <<>> -> NoFit
       [] Len(windows) >= 4 /\ quad.det > 0 /\ quad.c >= 0 /\ quad.b + 2 * quad.c * u_max >= 0 -> With(quad)
       [] Len(windows) >= 2 /\ line.det > 0 /\ line.b >= 0 -> With(line)
       [] OTHER -> NoFit

ServiceMs(fit, u) == Larger((fit.a + fit.b * u + fit.c * u * u) \div fit.det, fit.floor)

ServiceFit(records) ==
  LET low == SelectSeq(records, LAMBDA r : \A s \in ToSet(records) : r.concurrency <= s.concurrency)
      obs == [i \in DOMAIN low |-> [u |-> Uncached(low[i]), ttft |-> low[i].ttft]]
      Before(x, y) == x.u < y.u \/ (x.u = y.u /\ x.ttft < y.ttft)
  IN FitServiceCurve(ServiceWindows(SortSeq(obs, Before)))

-----------------------------------------------------------------------------
(* The chunk law (c0 t + c1 (d1^2 - d0^2) / 2) / det, from marked gaps.    *)

NoLaw == [det |-> 1, c0 |-> 0, c1 |-> 0]

\* Half the difference of the squared depths, kept doubled: a whole number.
DepthIntegral2(tokens, depth) == (depth + tokens) * (depth + tokens) - depth * depth

\* \div truncates like the conversion to whole milliseconds.
ChunkMs(law, tokens, depth) ==
  (2 * law.c0 * tokens + law.c1 * DepthIntegral2(tokens, depth)) \div (2 * law.det)

Usable(r) == r.ctx /\ r.gaps # <<>> /\ Len(Unmarked(r)) >= CleanMin
Base(r) == LET clean == Unmarked(r) IN Median(Sorted([i \in DOMAIN clean |-> clean[i].ms]))

\* Marked gaps with no other mark within two, and a final chunk that is not small.
ChunkObservations(records, budget) ==
  LET Final(p) == ((p - 1) % budget) + 1
      Lone(r, i) == \A j \in (i - 2) .. (i + 2) : j \in DOMAIN r.gaps /\ j # i => r.gaps[j].mark = 0
      Of(r) ==
        LET marked == {i \in DOMAIN r.gaps : /\ r.gaps[i].mark > 0 /\ Final(r.gaps[i].mark) >= ChunkMin
                                             /\ Lone(r, i)}
            Obs(i) == LET p == r.gaps[i].mark IN
                      [t |-> Final(p), d |-> DepthIntegral2(Final(p), p - Final(p)),
                       y |-> SatSub(r.gaps[i].ms, Base(r))]
            order == SetToSortSeq(marked, <)
        IN [k \in DOMAIN order |-> Obs(order[k])]
      usable == SelectSeq(records, Usable)
  IN FlattenSeq([i \in DOMAIN usable |-> Of(usable[i])])

\* The sums of the normal equations; d is doubled, so c1 comes out halved and is
\* doubled back.
Moments(obs) ==
  FoldLeft(LAMBDA m, o : [tt |-> m.tt + o.t * o.t, td |-> m.td + o.t * o.d, dd |-> m.dd + o.d * o.d,
                          ty |-> m.ty + o.t * o.y, dy |-> m.dy + o.d * o.y],
           [tt |-> 0, td |-> 0, dd |-> 0, ty |-> 0, dy |-> 0], obs)
LeastSquares2(m) ==
  [det |-> m.tt * m.dd - m.td * m.td, c0 |-> m.dd * m.ty - m.td * m.dy, c1 |-> 2 * (m.tt * m.dy - m.td * m.ty)]

Residual(law, o) ==
  LET e == 2 * law.c0 * o.t + law.c1 * o.d - 2 * law.det * o.y IN IF e < 0 THEN -e ELSE e

\* The four fifths that fit the law best.
KeepBest(law, obs) ==
  SubSeq(SortSeq(obs, LAMBDA x, y : Residual(law, x) < Residual(law, y)), 1, (Len(obs) * 4) \div 5)

\* One of the four rounds: fit, then keep the best.
TrimRound(acc, round) ==
  LET law == LeastSquares2(Moments(acc.kept))
  IN IF ~acc.ok \/ Len(acc.kept) < ObsMin \/ law.det = 0 THEN [acc EXCEPT !.ok = FALSE]
     ELSE [ok |-> TRUE, law |-> law, kept |-> KeepBest(law, acc.kept)]

Accepted(fit) == IF fit.ok /\ fit.law.c0 >= 0 /\ fit.law.c1 >= 0 THEN fit.law ELSE NoLaw
FitChunkCost(records, budget) ==
  Accepted(FoldLeft(TrimRound, [ok |-> TRUE, law |-> NoLaw, kept |-> ChunkObservations(records, budget)],
                    <<1, 2, 3, 4>>))

\* Median surcharge of unmarked gaps near the law's price of a full step.
FitFullStepFloor(records, law, budget) ==
  LET full == ChunkMs(law, budget, 0)
      Near(r, g) == g.mark = 0 /\ 8 * full <= 10 * (g.ms - Base(r)) /\ 10 * (g.ms - Base(r)) <= 25 * full
      Of(r) == LET near == SelectSeq(r.gaps, LAMBDA g : Near(r, g))
               IN [i \in DOMAIN near |-> near[i].ms - Base(r)]
      usable == SelectSeq(records, Usable)
      obs == Sorted(FlattenSeq([i \in DOMAIN usable |-> Of(usable[i])]))
  IN IF full <= 0 \/ Len(obs) < ObsMin THEN 0 ELSE Median(obs)

-----------------------------------------------------------------------------
(* Building the model, which may be refused.                               *)

Refused == [kind |-> "refused"]

\* A knob model charges steps nothing and has no burst sizes or output lengths.
KnobModel(knob) == [kind |-> "knob", knob |-> knob, floor |-> 0, budget |-> 1, spec |-> 0]
IsKnob(model) == model.kind = "knob"

FromRecords(records, knob, max_batched_tokens) ==
  LET itl == ItlByConcurrency(records)
      law == FitChunkCost(records, Larger(max_batched_tokens, 1))
      widest == Max({1} \cup UNION {{records[i].gaps[j].tokens : j \in DOMAIN records[i].gaps}
                                      : i \in DOMAIN records})
  IN IF records = <<>> \/ \A cb \in ConcurrencyBuckets : itl[cb] = <<>> THEN Refused
     ELSE [kind |-> "trace", knob |-> knob, itl |-> itl,
           donors |-> DonorsGrid(records), stalls |-> StallsGrid(records),
           service |-> ServiceByPrompt(records), fit |-> ServiceFit(records), law |-> law,
           floor |-> FitFullStepFloor(records, law, Larger(max_batched_tokens, 1)),
           budget |-> Larger(max_batched_tokens, 1),
           spec |-> widest - 1,
           output_lens |-> Sorted([i \in DOMAIN records |-> Larger(records[i].output, 1)])]

-----------------------------------------------------------------------------
(* Draws.  Interpolation between sorted neighbours gives every value from  *)
(* the least to the largest; a step's tokens are the nearer neighbour's.   *)

SampleInverseCdf(samples) == samples[1] .. Last(samples)

SampleStepInverseCdf(steps) ==
  IF Len(steps) = 1 THEN {steps[1]}
  ELSE UNION {LET lo == steps[i]   hi == steps[i + 1] IN
              {[ms |-> m, tokens |-> IF 2 * (m - lo.ms) < hi.ms - lo.ms THEN lo.tokens ELSE hi.tokens]
                 : m \in lo.ms .. hi.ms} \cup {lo}
              : i \in 1 .. Len(steps) - 1}

Distance(a, b) == IF a > b THEN a - b ELSE b - a

\* Manhattan distance, then the same prompt bucket, then the scan order.
Nearer(x, y, pb, cb) ==
  LET Key(z) == <<Distance(z[1], pb) + Distance(z[2], cb), Distance(z[1], pb), z[1], z[2]>>
      first == {i \in 1 .. 4 : Key(x)[i] # Key(y)[i]}
  IN first = {} \/ Key(x)[Min(first)] < Key(y)[Min(first)]

NearestGridCell(grid, pb, cb) ==
  LET filled == {cell \in DOMAIN grid : grid[cell] # <<>>}
  IN CHOOSE x \in filled : \A y \in filled : Nearer(x, y, pb, cb)

HasData(grid) == \E cell \in DOMAIN grid : grid[cell] # <<>>

\* The nearest bucket with data, the lower one of two.
NearestIndex(filled, at) ==
  CHOOSE i \in filled : \A j \in filled :
    Distance(i, at) < Distance(j, at) \/ (Distance(i, at) = Distance(j, at) /\ i <= j)

NearestItl(itl, cb) == itl[NearestIndex({i \in DOMAIN itl : itl[i] # <<>>}, cb)]

InterTokenDelay(model, running) ==
  IF IsKnob(model) THEN KnobInterTokenDelay(model.knob, running)
  ELSE SampleInverseCdf(NearestItl(model.itl, ConcurrencyBucket(running)))

FirstTokenDelay(model, ctx) ==
  LET u == SatSub(ctx.prompt, ctx.cached)
      pb == PromptBucket(u)
      near == NearestIndex({i \in PromptBuckets : model.service[i].samples # <<>>}, pb)
      cell == model.service[near]
      Scaled(ms) ==
        LET num == Larger(u, 1)   den == cell.median_uncached
        IN CASE near = pb \/ den = 0 -> ms
             [] 4 * num < den -> ms \div 4
             [] num > 8 * den -> 8 * ms
             [] OTHER -> (ms * num) \div den
  IN CASE ctx.remote \/ IsKnob(model) -> KnobFirstTokenDelay(model.knob, ctx)
       [] ~(ctx.remote \/ IsKnob(model)) /\ model.fit # NoFit -> {ServiceMs(model.fit, Larger(u, 1))}
       [] OTHER -> {Scaled(ms) : ms \in SampleInverseCdf(cell.samples)}

PrefillChunkCost(model, tokens, depth) ==
  IF IsKnob(model) THEN 0 ELSE ChunkMs(model.law, tokens, depth)

\* What the step stream charges an isolated request: full chunks at least the
\* floor, the last one the law.  left and depth after k full chunks.
ChunksCharged(model, ctx) ==
  LET left == Larger(SatSub(ctx.prompt, ctx.cached), 1)
      full == (left - 1) \div model.budget
      Full(k) == Larger(PrefillChunkCost(model, model.budget, ctx.cached + k * model.budget), model.floor)
  IN SumOver(Full, 0 .. full - 1)
       + PrefillChunkCost(model, left - full * model.budget, ctx.cached + full * model.budget)

FirstTokenOverhead(model, ctx) ==
  IF ctx.remote \/ IsKnob(model) THEN FirstTokenDelay(model, ctx)
  ELSE {SatSub(total, ChunksCharged(model, ctx)) : total \in FirstTokenDelay(model, ctx)}

\* The engine's cap on a request's output: a recorded length, within its own.
OutputLens(model, max_tokens) ==
  IF IsKnob(model) THEN {max_tokens}
  ELSE {Min({Larger(n, 1), Larger(max_tokens, 1)}) : n \in SampleInverseCdf(model.output_lens)}
=============================================================================
