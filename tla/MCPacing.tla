------------------------------ MODULE MCPacing ------------------------------
(* Instance of Pacing: small bucket tables, four traces, two requests.     *)
EXTENDS Pacing

MCPromptEdges == <<0, 4>>
MCConcurrencyLows == <<1, 2>>

Gap(ms, tokens, mark) == [ms |-> ms, tokens |-> tokens, mark |-> mark]
Clean(ms) == Gap(ms, 1, 0)
NoSummary == [count |-> 0, mean |-> 0]
Record(prompt, concurrency, ttft, ctx, gaps, summary) ==
  [prompt |-> prompt, cached |-> 0, concurrency |-> concurrency, ttft |-> ttft,
   output |-> Len(gaps) + 1, ctx |-> ctx, gaps |-> gaps, summary |-> summary]
Marked(prompt, concurrency, ttft, gaps) == Record(prompt, concurrency, ttft, TRUE, gaps, NoSummary)

\* Marks at two depths, so that the chunk law and the full-step floor are
\* fitted; steps of two tokens; two donors in one cell.
Fitted == <<
  Marked(2, 1, 6, <<Gap(3, 1, 2), Clean(1), Clean(1), Gap(2, 1, 1), Clean(1)>>),
  Marked(5, 1, 12, <<Gap(4, 1, 3), Clean(1), Gap(1, 2, 0), Gap(3, 1, 5), Clean(1)>>),
  Marked(2, 2, 9, <<Gap(5, 1, 3), Clean(2), Gap(3, 2, 0), Gap(4, 1, 5), Clean(2)>>),
  Marked(2, 2, 9, <<Clean(1), Clean(1), Clean(1), Clean(6), Clean(6)>>),
  Marked(2, 2, 9, <<Clean(2), Clean(2)>>) >>
\* A record with a summary of its gaps only, and one without marks.
Summaries == << Record(3, 1, 4, FALSE, <<>>, [count |-> 2, mean |-> 2]),
                Record(2, 2, 5, FALSE, <<Clean(1), Clean(2)>>, NoSummary) >>
\* Every gap marked: stalls and no donor.
OnlyStalls == << Marked(2, 1, 4, <<Gap(3, 1, 4)>>) >>
\* No gap at all: refused.
NoGaps == << Record(2, 1, 4, FALSE, <<>>, NoSummary) >>

MCTraces == {Fitted, Summaries, OnlyStalls, NoGaps}

MCKinds ==
  {[prompt |-> p, cached |-> 0, remote |-> FALSE, max_tokens |-> 3] : p \in {3, 4}}
    \cup {[prompt |-> 2, cached |-> 0, remote |-> TRUE, max_tokens |-> 2]}

MCKnob ==
  [ttft |-> 2, ttft_dev |-> 0, itl |-> 1, itl_dev |-> 1, prefill |-> 1, prefill_per_token |-> 1,
   prefill_dev |-> 0, transfer |-> 0, transfer_dev |-> 0, transfer_per_token |-> 1,
   transfer_per_token_dev |-> 0, percent_under_load |-> 200, max_num_seqs |-> 2]

Spec == PacingInit /\ [][PacingNext(MCTraces)]_pacingVars
=============================================================================
