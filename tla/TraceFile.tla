------------------------------ MODULE TraceFile ------------------------------
(***************************************************************************)
(* Trace files (crates/sim-trace/src/trace.rs): the writer of the tap, one *)
(* flushed line per request, plain or compressed, that may be killed or    *)
(* fail a write at any point, the converter of guidellm reports            *)
(* (trace_convert.rs), and the readers of what is then on disk.            *)
(*                                                                         *)
(* A line is written in three pieces: the first half of its JSON, the rest *)
(* and the newline.  disk is how many pieces a reader can get back.        *)
(***************************************************************************)
EXTENDS Integers, SequencesExt, FiniteSetsExt

CONSTANTS
  Captured,    \* requests the tap may finish
  Converted,   \* records that came from elsewhere than the tap
  Reports,     \* guidellm reports: benchmarks, each a strategy and its requests
  MaxRecords   \* bound: records in a file

VARIABLES
  gz,        \* the path ends in .gz
  records,   \* the records appended, those whose write failed included
  stream,    \* the pieces written
  disk,      \* how many of them can be read back
  writer,    \* what the writer does next
  handled    \* records appended without an error, and flushed

fileVars == <<gz, records, stream, disk, writer, handled>>

Sum(s) == FoldLeft(LAMBDA a, b : a + b, 0, s)

\* Absent fields of a record.
None == -1
NoSummary == [count |-> 0, mean |-> 0]

\* Chained: a block's hash stands for the block and all before it.
PromptBlockHashes(blocks) == [i \in DOMAIN blocks |-> SubSeq(blocks, 1, i)]

\* A request's chunks are their sizes; the first one ends the TTFT, each later
\* one closes a gap.  Sizes are omitted if every later chunk has one token.
IntoRecord(c) ==
  LET later == IF c.chunks = <<>> THEN <<>> ELSE Tail(c.chunks) IN
  [prompt |-> c.prompt, hashes |-> PromptBlockHashes(c.blocks), arrival |-> c.arrival,
   output |-> Sum(c.chunks), ttft |-> IF c.chunks = <<>> THEN 0 ELSE c.ttft,
   itl |-> c.gaps, itl_tokens |-> IF \E i \in DOMAIN later : later[i] > 1 THEN later ELSE <<>>,
   ctx |-> IF c.gaps = <<>> THEN None ELSE Len(c.gaps), summary |-> NoSummary,
   concurrency |-> c.concurrency, ids |-> IF c.record_tokens THEN Sum(c.chunks) ELSE None]

\* A benchmark's concurrency, where its strategy tells it.
DeriveConcurrency(strategy) ==
  LET known == CASE strategy.type = "concurrent" -> strategy.streams
                 [] strategy.type = "throughput" -> strategy.max_concurrency
                 [] OTHER -> 1
  IN IF known = None THEN 1 ELSE known

\* guidellm knows a request's mean gap only, and not even that of one token.
ConvertRequest(strategy, q) ==
  [prompt |-> q.prompt, hashes |-> <<>>, arrival |-> None, output |-> q.output, ttft |-> q.ttft,
   itl |-> <<>>, itl_tokens |-> <<>>, ctx |-> None, ids |-> None, concurrency |-> DeriveConcurrency(strategy),
   summary |-> IF q.output > 1 THEN [count |-> q.output - 1, mean |-> IF q.itl = None THEN 0 ELSE q.itl]
               ELSE NoSummary]

\* All benchmarks as one trace; a report without any, or with a request that
\* lacks a count or its first token's time, is refused.
ConvertGuidellm(report) ==
  FlattenSeq([b \in DOMAIN report |->
    [i \in DOMAIN report[b].successful |-> ConvertRequest(report[b].strategy, report[b].successful[i])]])
Convertible(report) ==
  report # <<>> /\ \A b \in DOMAIN report : \A i \in DOMAIN report[b].successful :
    LET q == report[b].successful[i] IN None \notin {q.prompt, q.output, q.ttft}

-----------------------------------------------------------------------------
(* The writer.                                                             *)

Piece(kind, line) == [kind |-> kind, line |-> line]

\* The file is created and the meta line, line 0, begun.
FileInit ==
  /\ gz \in BOOLEAN /\ records = <<>> /\ handled = 0
  /\ stream = <<Piece("half", 0)>> /\ disk = 0 /\ writer = "rest"

Writing == writer \notin {"finished", "dead"}

AppendRecord(r) ==
  /\ writer = "idle" /\ Len(records) < MaxRecords
  /\ records' = Append(records, r)
  /\ stream' = Append(stream, Piece("half", Len(records) + 1))
  /\ writer' = "rest"
  /\ UNCHANGED <<gz, disk, handled>>

\* from-guidellm writes the whole trace, line by line, and flushes nothing.
WriteConversion(report) ==
  LET rs == ConvertGuidellm(report)
      Line(k) == <<Piece("half", k), Piece("rest", k), Piece("newline", k)>>
  IN /\ writer = "idle" /\ records = <<>> /\ Convertible(report)
     /\ records' = rs
     /\ stream' = stream \o FlattenSeq([k \in DOMAIN rs |-> Line(k)])
     /\ writer' = "converted"
     /\ UNCHANGED <<gz, disk, handled>>

WriteRest ==
  /\ writer = "rest"
  /\ stream' = Append(stream, Piece("rest", Len(records)))
  /\ writer' = "newline"
  /\ UNCHANGED <<gz, records, disk, handled>>

\* The meta line is not flushed, a record's is.
WriteNewline ==
  /\ writer = "newline"
  /\ stream' = Append(stream, Piece("newline", Len(records)))
  /\ writer' = IF records = <<>> THEN "idle" ELSE "flush"
  /\ UNCHANGED <<gz, records, disk, handled>>

\* A failed write of a record is only logged: what was written of the line stays.
WriteFails ==
  /\ writer \in {"rest", "newline"} /\ records # <<>>
  /\ writer' = "flush"
  /\ UNCHANGED <<gz, records, stream, disk, handled>>

\* The buffer is full: some of it goes out, up to any byte.
Spill ==
  /\ Writing
  /\ disk' \in (disk + 1) .. Len(stream)
  /\ UNCHANGED <<gz, records, stream, writer, handled>>

FlushRecord_Forgotten ==
  /\ writer = "flush"
  /\ handled' = IF Last(stream).kind = "newline" THEN Len(records) ELSE handled
  /\ writer' = "idle"
  /\ UNCHANGED <<gz, records, stream, disk>>

FlushRecord ==
  /\ writer = "flush"
  /\ disk' = Len(stream)
  /\ handled' = IF Last(stream).kind = "newline" THEN Len(records) ELSE handled
  /\ writer' = "idle"
  /\ UNCHANGED <<gz, records, stream>>

Finish ==
  /\ writer \in {"idle", "converted"}
  /\ disk' = Len(stream) /\ writer' = "finished"
  /\ UNCHANGED <<gz, records, stream, handled>>

\* The process is killed.
Crash ==
  /\ Writing
  /\ writer' = "dead"
  /\ UNCHANGED <<gz, records, stream, disk, handled>>

-----------------------------------------------------------------------------
(* The readers.  A gzip stream without its trailer ends in UnexpectedEof,  *)
(* and the line it cuts is dropped; a plain one ends like any file, and    *)
(* its last line needs no newline.                                         *)

Finalized == writer = "finished"
CleanEof == ~gz \/ Finalized

\* What is on disk as lines and what follows the last newline.
Split ==
  LET newlines == SetToSortSeq({i \in 1 .. disk : stream[i].kind = "newline"}, <)
      From(k) == IF k = 1 THEN 1 ELSE newlines[k - 1] + 1
  IN [lines |-> [k \in DOMAIN newlines |-> SubSeq(stream, From(k), newlines[k] - 1)],
      last |-> SubSeq(stream, From(Len(newlines) + 1), disk)]

Delivered_KeepsCut(split) == IF split.last = <<>> THEN split.lines ELSE Append(split.lines, split.last)
Delivered(split) == IF split.last = <<>> \/ ~CleanEof THEN split.lines ELSE Append(split.lines, split.last)

\* Valid JSON: a line's two parts and nothing else.
Parses(line) == Len(line) = 2 /\ line[1].line = line[2].line

ValidateRecord(r) ==
  /\ ~(r.output > 1 /\ r.itl = <<>> /\ r.summary = NoSummary)
  /\ r.ctx # None => r.ctx = Len(r.itl)
  /\ r.itl_tokens # <<>> =>
       /\ Len(r.itl_tokens) = Len(r.itl)
       /\ \A i \in DOMAIN r.itl_tokens : r.itl_tokens[i] > 0
       /\ Sum(r.itl_tokens) < r.output
  /\ r.ids # None => r.ids = r.output

Failed == [ok |-> FALSE]

\* Line 0 is the meta line, and always the first.
ReadTrace(split) ==
  LET lines == Delivered(split)
      body == SubSeq(lines, 2, Len(lines))
      read == [i \in DOMAIN body |-> records[body[i][1].line]]
  IN IF /\ \A i \in DOMAIN lines : Parses(lines[i])
        /\ \A i \in DOMAIN read : ValidateRecord(read[i])
     THEN [ok |-> TRUE, meta |-> lines # <<>>, records |-> read]
     ELSE Failed

\* read_trace_meta looks at the first line only, and takes every read error as one.
ReadMeta(split) ==
  LET lines == Delivered(split)
  IN CASE lines = <<>> /\ ~CleanEof -> Failed
       [] lines = <<>> /\ CleanEof -> [ok |-> TRUE, meta |-> FALSE]
       [] OTHER -> IF Parses(lines[1]) THEN [ok |-> TRUE, meta |-> TRUE] ELSE Failed

FileNext ==
  \/ \E r \in {IntoRecord(c) : c \in Captured} \cup Converted : AppendRecord(r)
  \/ \E report \in Reports : WriteConversion(report)
  \/ WriteRest \/ WriteNewline \/ WriteFails \/ Spill \/ FlushRecord \/ Finish \/ Crash

-----------------------------------------------------------------------------
\* A failed write joined two lines, or left the last one of a finished file cut.
Spoilt(split) ==
  (\E i \in DOMAIN split.lines : ~Parses(split.lines[i])) \/ (Finalized /\ split.last # <<>>)

\* A request whose tokens, several, all came in the chunk that ended the prefill.
OneChunk(c) == Len(c.chunks) = 1 /\ c.chunks[1] > 1

\* Whatever moment a reader looks, and whenever the capture is killed: a trace
\* that reads back holds the first records that were written, unaltered and
\* in order, every one the tap was done with among them; and one is refused
\* only if a plain file is cut inside a line, a failed write spoilt a line, or
\* a request got all its tokens in one chunk (read_trace, is_unfinalized_gz_eof,
\* into_record and convert_guidellm against validate_record).
ReadBack ==
  LET split == Split
      trace == ReadTrace(split)
      meta == ReadMeta(split)
  IN /\ trace.ok => IsPrefix(trace.records, records) /\ Len(trace.records) >= handled
     /\ ~trace.ok => \/ ~gz /\ split.last # <<>>
                     \/ Spoilt(split)
                     \/ \E c \in Captured : OneChunk(c) /\ IntoRecord(c) \in ToSet(records)
     /\ trace.ok /\ meta.ok => trace.meta = meta.meta
=============================================================================
