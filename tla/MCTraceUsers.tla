---------------------------- MODULE MCTraceUsers ----------------------------
(* Instance of TraceUsers: a session of three turns, a request that was    *)
(* never answered, one answered in a single chunk, and converted records.  *)
EXTENDS TraceUsers

Request(blocks, arrival, ttft, chunks, gaps) ==
  [prompt |-> 2 * Len(blocks) + 1, blocks |-> blocks, arrival |-> arrival, ttft |-> ttft, chunks |-> chunks,
   gaps |-> gaps, concurrency |-> 1, record_tokens |-> TRUE]

MCCaptured == {
  Request(<<1>>, 0, 1, <<1, 1>>, <<1>>),              \* a session's first turn
  Request(<<1, 2>>, 3, 1, <<1, 2>>, <<1>>),           \* the next one, after some thought
  Request(<<1, 2, 3>>, 4, 1, <<1>>, <<>>),            \* the last, sent before that was done
  Request(<<>>, 0, 1, <<>>, <<>>),                    \* ended before its first token
  Request(<<1, 4>>, 2, 2, <<2>>, <<>>)}               \* two tokens in one chunk

MCConverted == {
  [prompt |-> 3, hashes |-> <<>>, arrival |-> a, output |-> 3, ttft |-> 1, itl |-> <<>>, itl_tokens |-> <<>>,
   ctx |-> None, summary |-> [count |-> 2, mean |-> 1], concurrency |-> 2, ids |-> None] : a \in {None, 1}}

Strategy(type, streams) == [type |-> type, streams |-> streams, max_concurrency |-> None]
Stats(output, itl, ttft) == [prompt |-> 3, output |-> output, itl |-> itl, ttft |-> ttft]
MCReports == {
  <<[strategy |-> Strategy("concurrent", 2), successful |-> <<Stats(3, 1, 1), Stats(1, None, 1)>>],
    [strategy |-> Strategy("throughput", None), successful |-> <<Stats(2, None, 2)>>]>>,
  <<[strategy |-> Strategy("synchronous", None), successful |-> <<Stats(2, 1, None)>>]>>}

Mode(limit, sessions, prefixes) == [limit |-> limit, sessions |-> sessions, prefixes |-> prefixes]
MCModes == {Mode(3, TRUE, TRUE), Mode(3, FALSE, TRUE), Mode(2, TRUE, FALSE)}

\* Two objects with the same basename; one is played, with its hash checked, while
\* it is captured anew, the other by another player.
MCInputs == [player |-> [replay_tokens |-> "a", latency_trace |-> "a"], other |-> [replay_steps |-> "b"]]
MCExpect == [player |-> "h1", other |-> NoHash]
MCTarget == [capture |-> "a"]
MCHashOf == [old |-> "h1", second |-> "h1", capture |-> "h2"]
MCBasename == [a |-> "trace", b |-> "trace"]
MCStored == [a |-> "old", b |-> "second"]
=============================================================================
