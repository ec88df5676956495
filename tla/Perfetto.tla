------------------------------ MODULE Perfetto ------------------------------
(***************************************************************************)
(* The timeline of a trace (crates/sim-trace/src/perfetto.rs): requests    *)
(* placed on lanes, their prefill and decode spans, and the counter of     *)
(* active requests.                                                        *)
(***************************************************************************)
EXTENDS Integers, SequencesExt, FiniteSetsExt

VARIABLE doc    \* the timeline written, or NoDoc

NoDoc == [lanes |-> 0]

Total(s) == FoldLeft(LAMBDA a, b : a + b, 0, s)

\* The prefill and every decode gap, or what their summary says.
SpanDuration(r) == r.ttft + (IF r.itl # <<>> THEN Total(r.itl) ELSE r.summary.mean * r.summary.count)
End(r) == r.arrival + SpanDuration(r)

\* What itl_tokens leaves of the output is the first chunk's.
FirstChunkTokens(r) ==
  IF r.itl_tokens # <<>> THEN Max({r.output - Total(r.itl_tokens), 0}) ELSE Min({r.output, 1})

\* The spans of a request on its lane: a prefill and a decode span per gap, each
\* from where the one before ended, with the tokens it delivers.
EmitRequest(r, lane) ==
  LET tokens == [i \in DOMAIN r.itl |-> IF r.itl_tokens # <<>> THEN r.itl_tokens[i] ELSE 1]
      Decode(i) ==
        [lane |-> lane, cat |-> "decode", ts |-> r.arrival + r.ttft + Total(SubSeq(r.itl, 1, i - 1)),
         dur |-> r.itl[i], from |-> FirstChunkTokens(r) + Total(SubSeq(tokens, 1, i - 1)),
         tokens |-> tokens[i]]
  IN <<[lane |-> lane, cat |-> "prefill", ts |-> r.arrival, dur |-> r.ttft, from |-> 0,
        tokens |-> FirstChunkTokens(r)]>>
       \o [i \in DOMAIN r.itl |-> Decode(i)]

\* A lane is free the instant its request ends.
Free_Strict(lane_end, arrival) == lane_end < arrival
Free(lane_end, arrival) == lane_end <= arrival

\* Each request, in arrival order, goes to the first free lane, or to a new one.
AssignLanes(placed) ==
  FoldLeft(LAMBDA acc, r :
             LET free == {l \in DOMAIN acc.lane_end : Free(acc.lane_end[l], r.arrival)}
                 lane == IF free = {} THEN Len(acc.lane_end) + 1 ELSE Min(free)
             IN [lane_of |-> Append(acc.lane_of, lane),
                 lane_end |-> IF free = {} THEN Append(acc.lane_end, End(r))
                              ELSE [acc.lane_end EXCEPT ![lane] = End(r)]],
           [lane_end |-> <<>>, lane_of |-> <<>>], placed)

\* One sample per arrival and end in time order, ends first at a tie.
ActiveRequestCounter(placed) ==
  LET deltas == SortSeq([i \in DOMAIN placed |-> [at |-> placed[i].arrival, delta |-> 1]]
                          \o [i \in DOMAIN placed |-> [at |-> End(placed[i]), delta |-> -1]],
                        LAMBDA a, b : a.at < b.at \/ (a.at = b.at /\ a.delta < b.delta))
      Active(k) == Total([i \in 1 .. k |-> deltas[i].delta])
  IN [k \in DOMAIN deltas |-> [at |-> deltas[k].at, value |-> Max({Active(k), 0})]]

\* Records without an arrival are dropped; one track per request on demand.
WritePerfetto(trace, track_per_request) ==
  LET placed == SortSeq(SelectSeq(trace, LAMBDA r : r.arrival >= 0), LAMBDA a, b : a.arrival < b.arrival)
      packed == AssignLanes(placed)
      lane_of == IF track_per_request THEN [i \in DOMAIN placed |-> i] ELSE packed.lane_of
  IN doc' = [lanes |-> IF track_per_request THEN Len(placed) ELSE Len(packed.lane_end),
             packed |-> ~track_per_request,
             requests |-> placed,
             spans |-> FlattenSeq([i \in DOMAIN placed |-> EmitRequest(placed[i], lane_of[i])]),
             active |-> ActiveRequestCounter(placed)]

-----------------------------------------------------------------------------
Overlap(s, t) == s.ts < t.ts + t.dur /\ t.ts < s.ts + s.dur

\* Two spans never overlap on a lane, and there are as many lanes as requests
\* were at most active at once by the counter drawn above them; a request
\* without a duration, which the counter removes before it adds it, may need one
\* lane more (assign_lanes against active_request_counter_refs).
Timeline ==
  doc # NoDoc =>
    LET peak == Max({0} \cup {doc.active[i].value : i \in DOMAIN doc.active})
        instant == \E i \in DOMAIN doc.requests : SpanDuration(doc.requests[i]) = 0
    IN /\ \A i, j \in DOMAIN doc.spans :
            i # j /\ doc.spans[i].lane = doc.spans[j].lane => ~Overlap(doc.spans[i], doc.spans[j])
       /\ doc.packed => doc.lanes \in peak .. (peak + IF instant THEN 1 ELSE 0)
=============================================================================
