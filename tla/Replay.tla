------------------------------- MODULE Replay -------------------------------
(***************************************************************************)
(* Content and timing replay: which recorded stream a live request is      *)
(* served (src/src/tokens.rs), which recorded decode schedule paces it     *)
(* (src/src/replay_steps.rs), and how the engine combines the two          *)
(* (src/src/engine.rs, admission and generation).                          *)
(*                                                                         *)
(* The two sources match a request independently, each consuming its own   *)
(* records, in the order in which the engine admits requests.  A block     *)
(* hash folds the hash before it, so it stands for the whole prompt up to  *)
(* its block: a hash is that prefix here, and two prefixes never collide.  *)
(* A token id is the record and the position it comes from.                *)
(*                                                                         *)
(* Left out: gap lengths (a schedule is its chunk sizes), the order of     *)
(* steps and emissions (SimEngine), parsing and tokenizing, and multi-     *)
(* token draws of a latency trace beside the schedules.  An operator       *)
(* named A_Variant is A with a plausible mistake.                          *)
(***************************************************************************)
EXTENDS Naturals, SequencesExt, FiniteSetsExt

CONSTANTS
  Vocabulary, \* token ids of prompts
  Trace,      \* the trace file: records in file order, with or without an arrival, token
              \* ids, gaps, chunk sizes and a summary of the gaps
  Dataset,    \* a dataset's rows: prompt and output length
  BlockSize,
  Ids,        \* ids of live requests
  IndexOf,    \* the trailing integer of an id plus one, or 0 when it has none
  Remote,     \* the ids that arrive with do_remote_prefill
  Prompts, Limits,  \* prompts and max_tokens clients send
  ChunkSize,  \* output_token_chunk_size
  Modes,      \* --replay-tokens, --replay-match and --replay-steps
  MaxAdmitted \* bound: requests admitted

ASSUME ReplayConstants ==
  /\ BlockSize \in Nat \ {0} /\ ChunkSize \in Nat \ {0} /\ MaxAdmitted \in Nat
  /\ IndexOf \in [Ids -> Nat] /\ Remote \subseteq Ids
  /\ Limits \subseteq Nat \ {0} /\ Prompts \subseteq Seq(Vocabulary)
  /\ Modes \subseteq [tokens : {"trace", "dataset"}, match : {"index", "prefix"}, steps : BOOLEAN]

TraceRecord ==
  [prompt : Seq(Vocabulary), scheduled : BOOLEAN, arrival : Nat, ids : BOOLEAN, output : Nat,
   timed : BOOLEAN, sized : BOOLEAN, summary : BOOLEAN, itl : Seq(Nat), fin : {"stop", "length"}]

DatasetRow == [prompt : Seq(Vocabulary), ids : BOOLEAN, output : Nat, fin : {"stop"}]

Total(s) == FoldLeft(LAMBDA x, y : x + y, 0, s)

\* validate_record, which read_trace applies to every line: more than one token needs gaps
\* or a summary of them, and chunk sizes are positive and leave at least one token to the
\* first chunk.
ValidateRecord(rec) ==
  /\ rec.output > 1 => rec.timed \/ rec.summary
  /\ rec.timed /\ rec.sized => (\A i \in DOMAIN rec.itl : rec.itl[i] > 0) /\ Total(rec.itl) < rec.output

\* Without chunk sizes every gap is of one token.
ASSUME TraceAssumption ==
  /\ Trace \in Seq(TraceRecord) /\ Dataset \in Seq(DatasetRow)
  /\ \A i \in DOMAIN Trace :
       /\ ValidateRecord(Trace[i])
       /\ ~Trace[i].sized => \A k \in DOMAIN Trace[i].itl : Trace[i].itl[k] = 1

VARIABLES
  mode,
  live,       \* the requests the engine runs
  consumed,   \* records each source has served: "tokens", "steps"
  admitted,   \* every admission: what it asked for and what it was served
  finished    \* every request that ran to its end

serveVars == <<mode, live, consumed, admitted, finished>>

ServeInit ==
  /\ mode \in Modes
  /\ live = << >>
  /\ consumed = [tokens |-> {}, steps |-> {}]
  /\ admitted = << >>
  /\ finished = {}

(***************************************************************************)
(* The records and their block-hash chains                                 *)
(***************************************************************************)
\* replay_subset: the records with an arrival, by arrival, ties in file order.
InsertByArrival(subset, rec) ==
  InsertAt(subset, 1 + Cardinality({k \in DOMAIN subset : subset[k].arrival <= rec.arrival}), rec)

ReplaySubset ==
  FoldLeft(LAMBDA subset, rec : IF rec.scheduled THEN InsertByArrival(subset, rec) ELSE subset,
           << >>, Trace)

\* prompt_block_hashes: full blocks only.
PromptBlockHashes(p) == [d \in 1..(Len(p) \div BlockSize) |-> SubSeq(p, 1, d * BlockSize)]

\* What --replay-tokens serves from, and what --replay-steps does.
TokenRows == IF mode.tokens = "trace" THEN ReplaySubset ELSE Dataset
TokensIndexed == {i \in DOMAIN TokenRows : TokenRows[i].ids /\ TokenRows[i].output > 0}
StepsIndexed == {i \in DOMAIN ReplaySubset : ReplaySubset[i].timed}

(***************************************************************************)
(* Matching                                                                *)
(***************************************************************************)
ByHash(rows, indexed, hash) ==
  {i \in indexed : hash \in Range(PromptBlockHashes(rows[i].prompt))}

MatchPrefix_Shallowest(rows, indexed, used, prompt) ==
  LET chain == PromptBlockHashes(prompt)
      hits == {d \in DOMAIN chain : ByHash(rows, indexed, chain[d]) # {}}
      candidates == ByHash(rows, indexed, chain[Min(hits)])
      fresh == candidates \ used
  IN IF hits = {} THEN 0 ELSE IF fresh # {} THEN Min(fresh) ELSE Min(candidates)

\* The deepest hash some record holds; its first fresh record, or its first one again.
MatchPrefix(rows, indexed, used, prompt) ==
  LET chain == PromptBlockHashes(prompt)
      hits == {d \in DOMAIN chain : ByHash(rows, indexed, chain[d]) # {}}
      candidates == ByHash(rows, indexed, chain[Max(hits)])
      fresh == candidates \ used
  IN IF hits = {} THEN 0 ELSE IF fresh # {} THEN Min(fresh) ELSE Min(candidates)

MatchIndex(rows, r) == IF IndexOf[r] \in DOMAIN rows THEN IndexOf[r] ELSE 0

TokenRecord(r, prompt) ==
  IF mode.match = "index" THEN MatchIndex(TokenRows, r)
  ELSE MatchPrefix(TokenRows, TokensIndexed, consumed.tokens, prompt)

\* take_schedule: by index, a record without gaps has no schedule.
StepRecord(r, prompt) ==
  IF ~mode.steps THEN 0
  ELSE IF mode.match = "index"
         THEN IF MatchIndex(ReplaySubset, r) \in StepsIndexed THEN MatchIndex(ReplaySubset, r) ELSE 0
  ELSE MatchPrefix(ReplaySubset, StepsIndexed, consumed.steps, prompt)

MaxOf(m, n) == IF m >= n THEN m ELSE n
MinOf(m, n) == IF m <= n THEN m ELSE n

\* schedule_from_record: the first chunk owns what the gaps leave, one token at least.
FirstChunk(rec) == MaxOf(rec.output - MinOf(rec.output, Total(rec.itl)), 1)

(***************************************************************************)
(* The engine's side                                                       *)
(***************************************************************************)
\* on_request_added reports a length unless ReplayTokens resolves by index.
Clamps == mode.tokens = "dataset" \/ mode.match = "prefix"

ClampByTokens(limit, i) ==
  IF i # 0 /\ Clamps THEN MinOf(limit, TokenRows[i].output) ELSE limit

ClampBySteps(limit, s) ==
  IF s # 0 THEN MinOf(limit, FirstChunk(ReplaySubset[s]) + Total(ReplaySubset[s].itl)) ELSE limit

\* Index matching neither reads nor marks `consumed`.
Consume(used, i) == IF i # 0 /\ mode.match = "prefix" THEN used \cup {i} ELSE used

Admit(r, prompt, limit) ==
  /\ r \notin DOMAIN live /\ Len(admitted) < MaxAdmitted
  /\ LET i == TokenRecord(r, prompt)
         s == StepRecord(r, prompt)
         request ==
           [req |-> r, prompt |-> prompt, limit |-> limit, tokens |-> i, steps |-> s,
            max_tokens |-> ClampBySteps(ClampByTokens(limit, i), s),
            script |-> IF s # 0 THEN ReplaySubset[s].itl ELSE << >>,
            prefilling |-> r \notin Remote, out |-> << >>, chunks |-> << >>]
     IN /\ live' = [x \in DOMAIN live \cup {r} |-> IF x = r THEN request ELSE live[x]]
        /\ consumed' = [tokens |-> Consume(consumed.tokens, i),
                        steps |-> Consume(consumed.steps, s)]
        /\ admitted' = Append(admitted, [prompt |-> prompt, tokens |-> i, steps |-> s])
  /\ UNCHANGED <<mode, finished>>

RandomToken == "random"
RecordedToken(i, k) == <<i, k>>

NextTokens_FromStart(q, n) ==
  [k \in 1..n |-> IF q.tokens \in TokensIndexed /\ k <= TokenRows[q.tokens].output
                    THEN RecordedToken(q.tokens, k) ELSE RandomToken]

\* next_tokens: the recorded ids from where the request stands, random ones beyond.
NextTokens(q, n) ==
  [k \in 1..n |-> IF q.tokens \in TokensIndexed /\ Len(q.out) + k <= TokenRows[q.tokens].output
                    THEN RecordedToken(q.tokens, Len(q.out) + k) ELSE RandomToken]

\* The tokens of a step: the end of a prefill emits the recorded first chunk; a decode step
\* pops its recorded size, and a size of one is the configured chunk size.
ChunkTokens(q) ==
  IF q.prefilling THEN IF q.steps # 0 THEN FirstChunk(ReplaySubset[q.steps]) ELSE ChunkSize
  ELSE IF q.script # << >> /\ Head(q.script) > 1 THEN Head(q.script) ELSE ChunkSize

Generate(r) ==
  /\ r \in DOMAIN live /\ Len(live[r].out) < live[r].max_tokens
  /\ LET q == live[r]
         n == MinOf(ChunkTokens(q), q.max_tokens - Len(q.out))
     IN live' = [live EXCEPT ![r] =
          [q EXCEPT !.out = q.out \o NextTokens(q, n),
                    !.chunks = Append(q.chunks, n),
                    !.prefilling = FALSE,
                    !.script = IF q.prefilling \/ q.script = << >> THEN q.script
                               ELSE Tail(q.script)]]
  /\ UNCHANGED <<mode, consumed, admitted, finished>>

\* The source's finish reason, or the engine's own.
FinishReason(q) ==
  IF q.tokens = 0 THEN "length"
  ELSE IF mode.tokens = "trace" THEN TokenRows[q.tokens].fin
  ELSE IF Len(q.out) >= TokenRows[q.tokens].output THEN "stop" ELSE "length"

Without(r) == [x \in DOMAIN live \ {r} |-> live[x]]

\* on_request_finished drops the assignment; the record stays consumed.
Finish(r) ==
  /\ r \in DOMAIN live /\ Len(live[r].out) >= live[r].max_tokens
  /\ finished' = finished \cup {[request |-> live[r], reason |-> FinishReason(live[r])]}
  /\ live' = Without(r)
  /\ UNCHANGED <<mode, consumed, admitted>>

AbortRequest(r) ==
  /\ r \in DOMAIN live
  /\ live' = Without(r)
  /\ UNCHANGED <<mode, consumed, admitted, finished>>

Idle == Len(admitted) = MaxAdmitted /\ live = << >> /\ UNCHANGED serveVars

ServeNext ==
  \/ \E r \in Ids, prompt \in Prompts, limit \in Limits : Admit(r, prompt, limit)
  \/ \E r \in Ids : Generate(r)
  \/ \E r \in Ids : Finish(r)
  \/ \E r \in Ids : AbortRequest(r)
  \/ Idle

ServeSpec == ServeInit /\ [][ServeNext]_serveVars

-----------------------------------------------------------------------------
\* Reference definition of the depth of a match, from the tokens alone: how many full blocks
\* two prompts share from the start.
SharedBlocks(p, q) ==
  Max({d \in 0..MinOf(Len(p) \div BlockSize, Len(q) \div BlockSize) :
         \A k \in 1..(d * BlockSize) : p[k] = q[k]})

\* The record a request is served shares as many full blocks with its prompt as any record
\* that can be served, and a request is left to random tokens only when no record shares one.
LongestPrefix(k) ==
  LET Depth(i) == SharedBlocks(admitted[k].prompt, TokenRows[i].prompt)
  IN IF admitted[k].tokens = 0
       THEN \A i \in TokensIndexed : Depth(i) = 0
       ELSE \A i \in TokensIndexed : Depth(i) <= Depth(admitted[k].tokens)

\* A request passes over an earlier record of the same depth only if another request had it,
\* and is served one that was served before only if all of that depth were.
ArrivalOrder(k) ==
  LET p == admitted[k].prompt
      i == admitted[k].tokens
      before == {admitted[j].tokens : j \in 1..(k - 1)}
      ties == {j \in TokensIndexed :
                 SharedBlocks(p, TokenRows[j].prompt) = SharedBlocks(p, TokenRows[i].prompt)}
  IN i # 0 =>
       /\ \A j \in ties : j < i => j \in before
       /\ i \in before => ties \subseteq before /\ i = Min(ties)

(* "Longest shared prefix wins, ties go to arrival order, and each record is consumed by     *)
(* its first match" (docs/trace-replay/content-identical.md), over every sequence of         *)
(* admissions, aborts and retries.  The reference counts shared blocks from the tokens; the  *)
(* code looks chained hashes up, deepest first.                                              *)
ConsumeOnceMatching ==
  mode.match = "prefix" => \A k \in DOMAIN admitted : LongestPrefix(k) /\ ArrivalOrder(k)

(* "Serves the recorded ids verbatim": the stream of a request that ran to its end is the    *)
(* recorded one from its first token, cut only by the client's own max_tokens, and padded    *)
(* with random tokens only where the length is not clamped (index matching on a trace).  A   *)
(* request paced by another record's schedule is cut to that one's length as well.           *)
ContentIdentical ==
  \A f \in finished :
    LET q == f.request
        recorded == TokenRows[q.tokens].output
        served == MinOf(q.limit, recorded)
    IN q.tokens \in TokensIndexed =>
         /\ \A k \in DOMAIN q.out :
              q.out[k] = IF k <= recorded THEN RecordedToken(q.tokens, k) ELSE RandomToken
         /\ (q.steps = 0 \/ (mode.tokens = "trace" /\ q.steps = q.tokens)) /\ Clamps =>
              Len(q.out) = served
         /\ Len(q.out) = recorded => f.reason \in {"stop", TokenRows[q.tokens].fin}

(* A schedule's chunks as they are emitted: a decode step of one token is framed by          *)
(* --output-token-chunk-size.                                                                *)
Framed(rec) ==
  <<FirstChunk(rec)>> \o [k \in DOMAIN rec.itl |-> IF rec.itl[k] > 1 THEN rec.itl[k] ELSE ChunkSize]

(* "Each matched request emits its recorded per-chunk token counts, bit-for-bit"             *)
(* (src/src/replay_steps.rs): the chunks of a request that ran to its end and was prefilled  *)
(* here are its schedule's, the last one cut by its max_tokens, and all of them unless the   *)
(* client or the tokens of another record cut it short.                                      *)
ScheduleVerbatim ==
  \A f \in finished :
    LET q == f.request
        rec == ReplaySubset[q.steps]
        framed == Framed(rec)
    IN q.steps # 0 /\ q.req \notin Remote =>
         /\ Len(q.chunks) <= Len(framed)
         /\ \A k \in 1..(Len(q.chunks) - 1) : q.chunks[k] = framed[k]
         /\ q.chunks # << >> => Last(q.chunks) <= framed[Len(q.chunks)]
         /\ ChunkSize = 1 /\ q.max_tokens = FirstChunk(rec) + Total(rec.itl) =>
              q.chunks = <<FirstChunk(rec)>> \o rec.itl

(* Timing-verbatim replay (docs/trace-replay/pacing.md) gives --replay-tokens and            *)
(* --replay-steps one trace: "each request replays its recorded per-chunk sizes and gaps".   *)
(* A request that is served a record with a schedule is paced by that schedule, although the *)
(* two sources match it separately, across aborts, retries and duplicate prompts.            *)
OneRecord ==
  mode.tokens = "trace" /\ mode.steps =>
    \A k \in DOMAIN admitted :
      admitted[k].tokens \in StepsIndexed => admitted[k].steps = admitted[k].tokens

(* Matching by prefix, that holds only of a trace in which the records with token ids are    *)
(* those with gaps: the sources keep their own books, and a record that only one of them     *)
(* knows puts them out of step.                                                              *)
SameRecord == (mode.match = "prefix" => TokensIndexed = StepsIndexed) => OneRecord

(* Both sources pick the record the documents promise, and the same one.                     *)
RecordsMatched == ConsumeOnceMatching /\ SameRecord

(* What a matched request is served is its record: its tokens, and its chunks.               *)
ReplayedVerbatim == ContentIdentical /\ ScheduleVerbatim
=============================================================================
