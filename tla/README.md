# A TLA+ model of vllm-vcr

`vllm-vcr` is a mock vLLM engine. It speaks vLLM's engine-core protocol to a real
frontend over ZMQ, schedules requests as vLLM does (continuous batching with
chunked prefill), paces them by a latency model or a recorded trace, serves
recorded or synthetic tokens, keeps a prefix cache whose blocks it announces to
a router, moves KV blocks between prefill and decode engines, and can be
reconfigured while it runs. This directory holds TLA+ modules for its stateful
core, TLC configurations that check them on small instances, and TLAPS proofs.
`PROJECT.json` maps every definition to the lines it models (paths are relative
to the directory above, so the repository's `src/engine.rs` is
`src/src/engine.rs`).

## Inventory

| Part | State | Operations | What is hard about it |
|---|---|---|---|
| Block pool (`blockpool.rs`) | slots, free stack, reference counts, LRU clock, hit counters | `cache_prompt`, `unpin`, `reset`, `take_stats` | prompts that share prefixes, eviction inside a call, a full pool, runs of misses split by a hit, events that must rebuild the cache elsewhere |
| Engine (`engine.rs`) | waiting queue, pending pulls, running batch, current step, prefill order, emission queues, counters, options | `handle_input`, `on_internal`, `step`, `schedule`, `ensure_step`, aborts, patches | steps name requests by id; pulls run on threads; patches and aborts land anywhere; a clock that is restarted by hand |
| Scheduling (`sched.rs`), LoRA (`lora.rs`) | none; loaded adapters | which waiting request is next; the adapter cap | head-of-line blocking, pulls that count against the cap |
| Run loop (`engine_core.rs`) | drain deadline | biased `select!` over shutdown, deadline, inputs, internal events, steps | shutdown against everything else |
| IO loop (`io.rs`) | sockets, two channels | take a frame, forward it, send an output, flush | the engine may end between two polls; a peer may wedge |
| Process (`lib.rs`) | tasks per engine, cancellation token | handshake, supervision, bounded flush, join of all engines | which task ends first |
| Control API (`control.rs`) | one handler per HTTP call | fan-out of config and stats calls, `/log` | several engines, overlapping calls, engines and clients that leave |
| KV events (`kvevents.rs`) | bounded queue, sequence number | publish | drops when full, sequence numbers that hide them, late subscribers |
| Data plane (`dataplane.rs`) | registered memory, peers | `advertise`, `pull`, `release` | transfer threads against aborts, timeouts |
| Token sources (`tokens.rs`), step replay (`replay_steps.rs`) | recorded streams and schedules, each consumed once | deepest-prefix or index match, clamps, served tokens and chunks | prompts that share prefixes, duplicates, retries, two sources that must agree |
| Tap (`crates/sim-tap`, `record.rs`, `frontend_connect.rs`) | requests in flight, trace and step files | two handshakes, forward and observe in both directions, finish and upload | ordering across directions, aborts that cross outputs, shutdown with queued messages |
| Latency models (`latency.rs`) | a fitted model; per request a noted stall and pinned donors | fit to a trace, draw a step, charge a chunk | the engine's step clock and the fit must agree on what a prefill costs; state that outlives its step |
| Trace files (`trace.rs`, `trace_convert.rs`) | a stream on disk | append, flush, finish, convert, read | kills and failed writes at any byte, unfinished gzip, a reader stricter than the writers |
| Timeline (`perfetto.rs`) | lanes | place requests, sweep a counter | ties and requests without a duration |
| Calibration (`calibrate.rs`) | one task per recorded request | pace, send, time out, measure, judge | sessions that wait for turns that fail, missing answers, a verdict over what is left |
| Remote traces (`crates/sim-s3`, `inspect.rs`) | scratch files that all processes of a host share | fetch, check, load per engine, upload | a file rewritten between check and use |
| Compatibility window (`crates/sim-compat`, `xtask`, workflows) | `compat.toml`, goldens, pin, pull requests, release jobs | watch, roll, capture goldens, merge, release | bots and people who merge late, in any order, on branches that are made again |
| Conformance, dataset conversion | none | compare, convert | nothing concurrent |

Who talks to whom: the frontend's frames enter the IO loop, go through an unbounded
channel to the run loop, which calls the engine; outputs return on a second
channel. Control calls use the same input channel and answer on a oneshot. The
engine calls the block pool, hands its events to the KV-event queue, and spawns
pull threads that post to the engine's internal channel and share the data plane
under a mutex. The step clock asks the latency model what a step costs. The tap writes
the traces from which tokens, schedules and latencies are later replayed, timelines drawn and the
simulator judged; in between they may live in an object store.

## Modules

| Module | Models | Uses |
|---|---|---|
| `PrefixCache` | what a prefix cache promises: a bounded set of blocks, those held are never dropped | |
| `BlockPool` | `blockpool.rs` | refines `PrefixCache` |
| `KvEvents` | `kvevents.rs`, and how the publisher ends in `run_engine` | composed with `PrefixCache` |
| `EngineContract` | what an `EngineCore` promises the run loop | |
| `SimEngine` | `engine.rs` with `sched.rs` and the cap of `lora.rs` | refines `EngineContract` |
| `RunLoop` | `engine_core.rs`, `io.rs`, `run_engine` of `lib.rs` | calls `EngineContract`'s actions |
| `ControlApi` | `control.rs`, `handle_control`, and the process around it: `run_with_log_filter` with its signal and its join | |
| `LatencyModel` | `latency.rs` as operators: fits, buckets, draws | |
| `Pacing` | the step clock of `engine.rs` and `DecodePacing`, driven by a fitted or configured model; the draws of `request_total_report` | `LatencyModel` |
| `TraceFile` | `TraceWriter`, the readers and `validate_record` of `trace.rs`, `into_record` of the tap, `trace_convert.rs` | |
| `Perfetto` | `perfetto.rs` | |
| `ArrivalReplay` | `replay_arrivals` of `calibrate.rs` | |
| `RemoteInputs` | `crates/sim-s3`, `materialize_remote_inputs`, `build_latency`, `verify_config_hash` and the engines' reads | |
| `TraceUsers` | the commands of `inspect.rs` that use a captured trace | composes the four above |
| `CompatWindow` | `sim-compat`, the `xtask` watch, roll, pin and golden commands, and the workflows that run them | |
| `Tap` | `crates/sim-tap/src/tap.rs`, `run_record`, the frontend handshake | |
| `Replay` | `tokens.rs`, `replay_steps.rs`, their use in `engine.rs`, the replay order, prompt hashes and `validate_record` of `trace.rs` | |
| `Handoff` | `dataplane.rs` with NIXL, between a prefill and a decode engine | |
| `TraceProofs` | the theorems about `Tap`, `RemoteInputs`, `Replay` and `ArrivalReplay`, the life of a trace, which share their lemmas about folds | these four |
| `...Proofs` | the theorems about the module of that name, see Proofs | that module |
| `MC...` | small instances | |

A definition whose name is another definition's followed by an underscore and a word
(`Victims_IgnorePins`) is a faulty variant, used to show that a property can fail;
no specification refers to it.

### BlockPool

`cached`, `free_slots`, `tick` and `stats` are the fields of `BlockPool`; `call` holds
the local variables of the `cache_prompt` call in progress, one action per
block of the prompt (`CachePromptHit`, `CachePromptMiss`) between `CachePromptBegin`
and `CachePromptReturn`. `Unpin`, `Reset` and `TakeStats` run only between calls, as
the pool has one owner. `mirror` is the set of blocks a consumer of every event holds. A
hash is the chain it was computed from, so collisions of the hash function are not
modelled.

### KvEvents

The cache is `PrefixCache`, so what holds here holds of the block pool that implements
it. `batch` collects what one `cache_prompt` call leaves stored and removed; `CacheReturn` and
`ResetPrefixCache` publish. The publisher's arms are `SendDelivered`, `SendLost`, `SendFails`,
`ExitCancelled` and `ExitClosed`; cancellation comes first, as in the biased `select!`. The
router (`index`, `heard`) is environment: it subscribes at any time and may be too slow. `stale` is
the set of blocks whose last event was lost, wherever that happened.

### SimEngine

The engine's fields keep their names. A handler runs to its end before the next
message or deadline; its loops are one action per iteration, with `pc` and
`todo` saying where it is. Every handler that changes the batch ends in
`schedule` and `ensure_step` (`Admit`* then `ScheduleEnd`). Pull threads lock the
data plane (`PullLock`), end (`PullDone`, with success or failure) and post a
completion that `FinishPull` or `DropPull` takes. Time is abstracted: a step or an
emission may fall due whenever the engine is idle. The block pool is
represented by the set of requests that hold pins. `out` records what each request's
client was sent. `lifecycle` is where the run loop is with its shutdown: during a
drain a request is answered by `RejectRequest`, whatever its id, and `AbortAll` (no timeout,
or the deadline) is the last call; once the loop has ended no handler runs, only pull
threads still post results nobody takes.

### RunLoop

Each `select!` arm is an action guarded by the arms above it in the biased order.
The IO loop's input arm is two actions (`IoTake`, `IoForward`), because the engine
loop may end in between, the case the flush in `run_io_loop` is written for. The
engine behind the loop is any one that keeps `EngineContract`. Peers may wedge
(a send never ends) or close.

### ControlApi

Each HTTP call is a process that walks through the engines: `Send`, then `Receive`, or
`ReplyDropped` when the engine went away with the call queued. `HandleControl` is
the engine's side. Engines may fail and clients disconnect at any point. Calls
are numbered in the order they begin. Around the handlers is the process: the server
binds or fails to, a signal asks everybody to stop, the server closes once its handlers have
answered, and `Join` ends the process with the first task that fails, or after all of them.

### LatencyModel and Pacing

A random draw is the set of values it can give, times are whole milliseconds, and fitted
coefficients exact fractions, so that least squares are computed and not assumed. Bucket tables and
thresholds are constants, to be small in an instance. `BuildModel` fits a trace or refuses it;
`ConfigureKnobs` is the model without one. The engine half keeps what decides when things happen:
remaining prompt tokens, `prefill_order`, the current step with its end, `emit_offset` and the
pending emissions. A handler runs to its end (`anchor`, `stepping`), and the loop may wake up late.
The other user of a model is the calibration report, which draws every recorded request again.

### TraceFile, Perfetto, ArrivalReplay, RemoteInputs and TraceUsers

A line reaches the file in three pieces, so that a kill, a spilled buffer or a failed write can
fall inside it; `disk` is what a reader can get back. `ReadTrace` and `ReadMeta` read whatever is
there. `WriteConversion` is the other writer, `from-guidellm`. `Perfetto` is one operation on the
records that were read. `ArrivalReplay` has one task per recorded request: it waits for its
offset or for its session's previous turn (`Parent`), sends a rebuilt prompt, and ends with an answer, an
error or its timeout; `JudgeReplay` joins them and compares. Prompts are sequences of mixed
tokens, so that what they share can be compared with what the recorded ones shared. Time is that of
the trace; the time scale cancels out. A verdict looks at no quantile beyond p99, so that of a hundred or more requests
a passing replay may have lost all, if all but one in a hundred have a time to first token of zero: `VerdictSound` says so.

`RemoteInputs` has processes of one host: players that fetch each input once, write it to the
scratch file of its URI, read the latency trace, check headers and let every engine read all of it again,
and writers that finish a file and upload it. A content is a header and the records, each
named by its version, written piece by piece; `touched` tells whether another process changed the
file of the same object in between.

`TraceUsers` puts them behind each other: what a capture left is drawn, replayed, or stored.

### CompatWindow

`main` is what is committed: the lines, the goldens, the pin in `Cargo.toml` and the version.
`WatchRc` and `WatchStable` read the upstream tags and make pull requests; `CaptureBegin` and `CaptureEnd`
are a golden capture that takes long and pushes onto the roll's branch; `AutoMergeRoll`,
`MergeByHand`, `MergeRc` and `MergeRelease` push to `main`, and `ReleasePr` is the release workflow
with its one running and one waiting job. Only the stable lines are ordered; a line is its tag,
its revision, whether it is built from a fork, and whether it is the default.

### Tap

`phase` walks through `run_record`: the two handshakes, the proxy loop, the finish and
upload of each file. A socket, its drain task and its channel are one queue
(`req_rx`, `out_rx`). A loop body is two actions, forward and observe, since
the other side may answer a frame once it is forwarded. The frontend and the engine
are environment: the engine runs what it received, may put several outputs of a
request into one message and may or may not answer an abort; some messages do not
decode. `requests` holds what `RequestState` counts: tokens and one entry per gap.

### Replay

`mode` is the combination of `--replay-tokens` (a trace or a dataset), `--replay-match`
and `--replay-steps`. `Admit` is the part of `admit_direct` that asks both sources
and clamps `max_tokens`; `Generate` a chunk of a completed step; `Finish` and
`AbortRequest` drop the assignment and keep the record consumed. A block hash is the
prefix it folds, and a recorded token is its record and position, so that a
stream served from the wrong place is seen. Requests outside a schedule draw one
token a step.

### Handoff

`cached` is the prefill engine's pool, as far as slots matter; `bytes` what the registered
memory holds: the request and block it was last filled for, of which the code sees the
pattern only. `Prefill` is `cache_prompt` at admission, with any unpinned victim; `Advertise` the end
of `step`: unpin, fill, send the slot ids. A pull thread locks (`PullLock`), loads the peer once
(`EnsurePeer`, `FetchFails`), reads block by block (`ReadBlock`, `ReadFails`), because the prefill
engine may write meanwhile, and verifies. `Restart` empties the prefill engine and moves its pool;
`disturbed` collects the requests something got in the way of.

## Runs

| Run | Instance | Shows |
|---|---|---|
| `pool` | 4 requests, 3 slots, 4 prompts (one longer than the pool's free part, one under an adapter); 58,000 states | `IInv`, the invariant of the proofs, holds (slots are not shared, held slots stay put, counts are holders); events rebuild the cache, prompts are walked right (`PromptWalk`: runs are chains, hits are exact); `PrefixCache` is implemented |
| `engine` | 3 requests of 3 kinds, caps 0 and 2, budgets 1 and 3, draws up to 2, injected failures, one abort of up to two ids, patch, reset or shutdown; 552,000 states | requests and tokens are conserved (`Conserved`), pins and prefills fit the batch (`BatchSound`), limits hold, and `EngineContract` |
| `engine_id_reuse` | 2 ids for 3 requests, reuse at any time, priority policy, one adapter slot, failing pulls, two aborts, patches, resets or a shutdown; 782,000 states | every request is answered, and once, all of them by the time the loop has ended; admission neither stalls, with stale steps, stale prefill order and orphaned pulls about, nor exceeds the adapter cap (`AdmissionSound`) |
| `kv_events` | 3 blocks, 2 slots, 2 requests, 3 calls, a queue of 2; 337,000 states | a router's index is wrong only about blocks whose last event was lost, gaps in the numbers count the wire's losses, a publisher ends with its engine |
| `run_loop` | 2 requests, 2 clients (one may fail), one unknown `client_index`, 3 frames, 1 internal event, drain and no drain; 636,000 states | no frame or output is lost or doubled (`NothingLost`), graceful ends are settled and deliver everything (`GracefulEnd`), exit is certain |
| `handoff` | 3 prefills (a prompt, its prefix, and one with the first's pattern), 2 slots, one restart, failing fetch or failing transfer; 281,000 states | `PullOutcome`: a pull that succeeds verified its own blocks, except where another request with the same pattern took the slot, and fails only if disturbed; every pull ends |
| `control` | 2 engines, 3 calls, one failure, disconnect or signal, with a latency trace; 458,000 states | `PatchesApplied`: a patch reaches a prefix of the engines and a refused one none, and engines differ only after a failure or an overlap; `ReadsFaithful`: reads see completed patches, sums are bracketed; `ProcessEnds`: calls end, and a signal or a failure ends the process |
| `tap` | 2 requests (one may be aborted), 2 frames asked, 2 engine messages of up to 2 outputs, one that does not decode, five shapes of INIT; 836,000 states | frames pass verbatim, records and table are exactly what happened (`ObservedExactly`), files are finalized however the tap ends, a signal ends the proxy |
| `replay` | 3 admissions, 2 ids (one remote), 4 prompts, limits 2 and 5, a trace of 4 records, 8 modes; 924,000 states | `RecordsMatched`: the longest prefix and arrival order decide, and content and schedule come from one record if both sources index the same records; `ReplayedVerbatim`: streams and chunks are the recorded ones |
| `pacing` | 4 traces (with marks, summaries, stalls only, no gap) and the knobs, 2 requests of 3 kinds, a budget of 3, a loop up to 1 ms late; 766,000 states | `DrawsFaithful`: one donor per request and concurrency, a stall where a prefill was recorded and nowhere else; `ServiceTimeKept`: a request alone has its first token after its fitted service time, one under load not before |
| `compat` | a window of 2 lines and 5 upstream versions: patches, new lines, a candidate; 61,000 states | `WindowSound`: one default, the newest, revisions and pin that fit; `MergesSound`: no merge goes back, a roll without hands carries its goldens; the window catches up; a moved default is released |
| `trace_users` | up to 3 records of 7 shapes or one of 2 reports, 3 replay modes, 2 objects, 2 players, 1 writer, 2 engines; 337,000 states | `ReadBack`: what reads back is a prefix that holds everything flushed, and what is refused has one of three causes; `Timeline`: lanes do not overlap and are as many as the counter's peak; `ReplayFaithful`, `ReplayOutcome`, `ReplayEnds`: the replayed load is the recorded one, its verdict and measurements can be relied on, it ends; `InputsIntact`: processes disturb each other only through the same object |

Bounds: the pool instance is smaller than the blocks it is asked to hold, so
eviction, a full pool and miss-hit-miss prompts all happen. Three requests fill an
engine batch of two and leave one waiting; two would never wait behind a
pull. Two ids for three requests give every reuse. Three calls fill a queue of two and lose a batch. One fault in `control` already
separates "before", "during" and "after" for both engines. Deadlock is
checked in `run_loop`, `tap` and `replay`; in the others the frontend may
simply stop sending, a server wait for calls, upstream publish nothing, or the work be done. In `handoff` two slots for three different blocks make prefills evict or share,
and one fault at a time tells the ways a pull can fail apart. Three admissions are the least that serve both of two
duplicates and then re-serve one. Two outputs in a message and three per request give
a first chunk, a gap and an end in one message or in two. In `pacing` prompts of 3 and 4 tokens
with a budget of 3 fill a step exactly and spill into a second; two requests share steps and a donor cell
of two donors tells a pinned donor from a fresh one. Two lines and two newer ones make a roll trim the
window twice, and a patch of either line makes the pull requests that meet it. Three records are a session
of three turns, or a record between a spoilt line and the end.

Fairness. `SimEngine`: the engine task and the pull threads run (`WF` of `Work`);
nothing is assumed of the frontend. A pull ends because transfers have a timeout.
`RunLoop`: each tokio task and each timer, separately; neither the engine's
progress nor a peer's. `ControlApi`: handlers, and engine loops taking their
inputs, which the biased order puts before everything but shutdown, a signalled engine that
ends (shown by `run_loop`'s `ExitsEventually`), the server and the join. `TraceUsers`: the runtime runs a
replay task that is ready, and time passes; a request's timeout is the harness's own.
`CompatWindow`: the watcher runs daily, jobs end, and green pull requests are merged; nobody has to publish or
to merge by hand. `KvEvents`: the publisher
task alone. `Handoff`: the pull threads; a READ ends within `XFER_TIMEOUT`, a descriptor fetch because
the peer answers or its connection fails, and a thread gets the mutex because only finitely many
are ahead of it. `Tap`: the proxy
loop and the finish of the files, which end with success or with an error; no peer is
assumed to speak.

### Disagreements between text and code

Seen while modelling; the properties are stated so that they hold of the code.

Engine and process: a step outlives the abort of its request, so a new request with the same id
generates before its prefill (`engine.rs:1488`); two overlapping patches, both answered 200, can leave
engines with different configurations (`docs/control-api.md:23`, hence the second condition of
`EnginesAgree`); hit counters and speculation counts are
drained in every `step` and lost when that step has no outputs (`engine.rs:1704`).

Pacing: a prompt whose uncached part is an exact multiple of the budget pays the full-step premium
of its last chunk although the fitted time holds it already (`latency.rs:1229`); chunks that cost more than
the fitted time are charged all the same; a wholly cached prompt is charged at another depth
by the engine than by the model; a patch of `max_num_batched_tokens` leaves the model's budget as it was,
and a `long_prefill_token_threshold` makes chunks smaller than the model assumes; the slope of the
service curve is checked at its upper end only; the load factor is not capped; a late loop anchors the next step
at the last one's end, so a new request's first token may come early by as much.

Traces: a cut last line is an error in a plain file and tolerated in an unfinished compressed one, which in
turn `read_trace_meta` refuses; a failed record write is only logged (`tap.rs:828`) and
makes the whole file unreadable; `itl_tokens` is omitted when the later chunks have one token each, also
if the first had several, which the timeline then draws as one; the comment that the lane count is exactly the
counter's peak fails for a request without a duration.

Calibration: requests that time out are left out of the measurements, so a replay can pass without
them, although the comment at `calibrate.rs:1427` says a timeout should fail the gate; the report pairs
the buckets of trace and replay by position; a session's parent is the longest prefix and not the
most recent one; sending a request is outside its timeout.

Remote inputs: the scratch file of an object is shared and rewritten in place, so a second player or a
recorder of the same URI can make an engine load a cut trace, or a newer one than was checked, and a
recorder can upload what another wrote; `upload` does nothing for an `hf://` target, so such a recording stays in the
scratch directory.

Compatibility window: the stable pull request does not take up `conformance/manifest.toml`, so the deletion of goldens
never reaches it (`docs/versioning.md:143`); a patch of a line that is not the default waits for a
person; a roll that is made again with auto-merge on may merge without goldens; a waiting release job that is
superseded leaves a moved default without a release (`auto-release.yml:24`); a release that stops being the latest
before the watcher runs is never rolled in; `--max-stable 0` writes a table that does not validate; a patch
bump keeps a line's fork.

Also: one prompt can miss, hit and miss under
LRU, which a comment calls impossible (`blockpool.rs:708`); a failed pull is admitted and
never counted as failed (`docs/control-api.md:105`); a latency patch changes the
pacing of running requests (`docs/control-api.md:19`); the completion of an aborted
request's pull admits a new request with the same id (`engine.rs:1225`); a signal that
arrives during the tap's handshakes is not looked at until the proxy loop runs
(`record.rs:143`); a LoRA name and a cache salt are
untagged keys of the same hash, so equal names share a first block
(`blockpool.rs:244`, against the comment at 207); resetting the counters with
requests in flight breaks the balance stated at `docs/control-api.md:110`
(`Conserved` carries the requests then in flight as `base`); the engine task
locks the data-plane mutex that a pull thread may hold for a whole transfer
(`engine.rs:949`, against the comment at 562); `output_token_chunk_size` 0 is
accepted and a request then never generates; requests still in the input
channel when the engine loop ends are dropped unanswered; batches still queued when
the engine ends are dropped, as the token is cancelled at once and looked at first
(`kvevents.rs:53` says the publisher drains), and when the IO loop ends the token is cancelled
before the engine loop is (`lib.rs:805`, against the comment at 756); a batch dropped by a full
queue leaves no gap in the numbers, so a router cannot tell; a request whose tokens all come in
one output is recorded without `itl_ms` (`tap.rs:180`), and `validate_record`
(`trace.rs:428`) then refuses the whole trace; the pattern that a pull verifies is a byte sum
with its low bit set (`dataplane.rs:151`), so one of 128, and equal for ids that are permutations
of each other: bytes of another request pass; of the blocks a pull landed only as many are
looked at as the decode engine had slots for (`dataplane.rs:538`, against the comment at 535);
two prefills that share a prefix write to the same slots, so a pull of the first fails if the
second finishes before it; a loaded descriptor is never dropped, so after a
restart of the prefill engine every pull from it fails until the decode engine restarts; the
descriptor fetch has no timeout of its own.

One came out of the proof that both sources serve one record. With `--replay-tokens trace.gz --replay-steps
trace.gz` "each request replays its recorded per-chunk sizes and gaps" (`docs/trace-replay/pacing.md:9`), which is
`OneRecord`. But the two sources match and consume separately, and index different records: the tap writes no gaps
for a request of one token (`tap.rs:180`), so `PrefixMatchTokens` knows that record (`tokens.rs:191`) and
`PrefixSteps` does not (`replay_steps.rs:152`). Once a request took it, later requests with the same prompt get one
record's tokens with the next one's schedule, and the shorter one's length: with three records of one prompt, the
first of one token, the second admission violates `OneRecord`. `SameRecord` is what is left and holds: content and
schedule come from one record as long as both sources index the same records, and by index always.

## Proofs

TLC checks the properties of a run on its instance; the theorems hold for every value of the
constants that satisfies the module's named assumptions, the bounds included: any number of
requests, calls, engines, slots, messages or faults.

| Module | Theorem | States |
|---|---|---|
| `BlockPoolProofs` | `Invariance`, `TypeCorrect`, `SlotsNeverShared`, `PinsProtect`, `PinsCounted`, `EventsRebuildCache` | `IInv`, `TypeOK`, `SlotsPartitioned`, `HeldSlotsIntact`, `RefcntCountsHolders`, `MirrorExact` |
| | `WalkFollowsPrompt` | `PromptWalk` |
| | `PoolRefinesPrefixCache` | every step of the pool is a step of `PrefixCache` or leaves it unchanged |
| `KvEventsProofs` | `GapsAreWireLoss`, `IndexRepairsItself` | `GapsCountWireLoss`, `IndexWrongOnlyWhereLost` |
| `SimEngineProofs` | `EveryRequestAnsweredOnce` | `AnsweredOnce` |
| | `EngineKeepsContract` | `KeepsContract`: every step of the engine is a step of `EngineContract` or leaves it unchanged |
| | `BatchStaysSound` | `BatchSound`, when no id is used twice |
| | `NothingLostOrCountedTwice` | `Conserved` (its half `CountersBalance` by `CountersAlwaysBalance`) |
| | `AdmissionStaysSound` | `AdmissionSound` (its half `LoraCapRespected` by `LoraCapAlwaysRespected`) |
| | `LimitsAlwaysRespected` | the action property `WithinLimits` |
| `RunLoopProofs` | `LoopsLoseNothing`, `GracefulEndIsComplete` | `NothingLost`, `GracefulEnd` |
| `TraceProofs` | `ForwardsVerbatim`, `RecordsWhatHappened`, `CaptureAlwaysFinalized` | `Verbatim`, `ObservedExactly`, `EndsFinalized` |
| | `OutputsFollowRequests` | `AnswersForwarded`: an output on the wire answers a request forwarded before it |
| | `InputsStayIntact` | `InputsIntact` |
| | `RecordsAreMatched`, `ReplayIsVerbatim` | `RecordsMatched`, `ReplayedVerbatim` |
| | `ReplayKeepsLoad` | `ReplayFaithful`, for any traces whose hashes cover full blocks of their prompts |
| `HandoffProofs` | `PullsReportTruly` | `PullOutcome` |
| `ControlApiProofs` | `PatchesLeaveAgreement`, `PatchesGoInOrder` | `PatchesApplied`, and its half `PatchesReachPrefix` |
| | `ReadsStayFaithful` | `ReadsFaithful` (its half `ReadsSeePatches` by `ReadsFollowPatches`) |
| `CompatWindowProofs` | `WindowStaysSound`, `MergesNeverGoBack` | `WindowSound`, and the action property `MergesSound` |

None of these is inductive as it stands. What each proof adds, and why:

- **Pool** (`IInv`). That held slots are intact needs the counts (a victim has count zero, so
  nobody holds it), the counts need that only live requests hold blocks and that the
  call in progress is a live request's (`CallInv`), and that slots are not shared
  needs the shape of the free stack (`SlotInv`: it holds the highest ids, as
  eviction never refills it and reset rebuilds it). `CountInv` ties the number of cached
  blocks to the free stack, which the refinement needs to know that a pool
  without a free slot is full. `WalkInv`, on top of `IInv`, adds what the flags of `cache_prompt` say: a run
  is pending exactly when `prev_was_miss` is up, and until the first miss the cache is the one the call found.
- **Publisher** (`NumberInv`). The publisher's counter is what the router
  received plus what the wire lost, which fails as soon as a refused send uses a number. `IndexInv` is about
  what the router will know once it has received all that is queued and, after it, the batch of the call in
  progress: that differs from the cache only on blocks whose own last event was lost.
- **Engine** (`EngineInv`). That each request is answered once needs that a request stands under the
  id it was sent with (`Linked`), that no id is in the queue, the pulls and the batch at the same time
  (`OnePlace`, what `is_duplicate` and the re-checks after a pull are for), and what
  `abort_all_requests` still has on its list (`ShutdownInv`). Every handler has one lemma that says which
  ids it moves and which it ends; one more (`Effect`) sums them up as: nothing, one request taken, one
  refused, or a set finished, and the counters and the refinement follow from that alone. `BatchSound`
  needs `FreshInv`: no id among the decoders of the composed step stands in the queue or in a pull, so
  no later request can come to stand under it and be made to decode before its prompt is computed. That is where ids used
  twice matter, and why the theorem has `IdPolicy = "fresh"` as its hypothesis; the
  run `engine_id_reuse`, with ids used again, checks other properties.
- **Tokens** (`TokensConserved` with `Unstreamed`). That the stream of a request is what it generated
  is kept by every step only if a request enters the batch with nothing streamed: nothing was emitted of one
  that waits or pulls (`Unstreamed`).
- **Step clock** (`ClockInv`, `Awake`). Every prefilling request is in `prefill_order` with tokens
  left to compute (`ClockInv`); from that, composing a step from a batch with anything to do never yields the empty step: either
  a decoder draws, or the first prefill gets at least one token of a whole budget. So between handlers the clock stands
  only when nothing is to be computed, and nobody waits behind nothing (`Awake`). With
  `TokensConserved` (who generates nothing more owes chunks) this is `NoStall`. The same two bound the batch: each of its requests
  demands a token of the next step (`BatchWithinBacklog`), and what the chunks take telescopes to
  what the meter handed out (`KeepSum`).
- **Loops** (`LoopInv`). Every terminal output is in one of three places (`Places`), and a
  request is ahead of its abort on the same dealer, in the receive in progress and in the input queue
  (`Ordered`), as the engine would otherwise drop the abort and then take the request.
- **Tap** (`WireInv`, `FilesInv`, `EngineInv`, `ObservedInv`). An output's request was forwarded before: the loop forwards first and
  tracks afterwards, so tracking alone says nothing of the order on the wire. What the tap observes needs the
  engine's side of the bargain (`EngineInv`: a request is sent once and before its abort, the engine says nothing of
  a request after its end, and runs those it took that have neither ended nor been aborted), and then, request by
  request, that the table's row is what the messages handled so far say of it (`RowOK`: tokens, whether the
  first chunk is still awaited, one gap per later chunk) and that a record is there exactly from its stop on
  (`RecordOK`). The hazard is in `CopyInv`: while a forwarded request is not observed yet, or before it is forwarded, no output of it has been forwarded, so none
  can be dropped as untracked.
- **Remote inputs** (`RemoteInv`). Until a process is disturbed, the scratch file of each object it fetched holds
  what its GET returned, and the file it is writing holds the first pieces of that (`Undisturbed`); scratch paths
  of different objects differ, so another process changes one only by disturbing. What it has read is a part of what it
  fetched (`SeenRight`) and no read names an object it has not fetched (`Placed`). A playing
  player's files have the expected hash because its checks read the header of each object once (`Verified`, `OnlyFacts`,
  `ChecksFacts`, facts about filters and positions). What a writer uploads it has wholly written (`PutRight`).
- **Replay** (`ServeInv`). A source marks what it serves, so what is marked is exactly what admissions were served
  (`Books`); with it the matching of each admission (`Matched`) is a statement about earlier admissions alone, which
  later ones cannot change. That the chained hashes find the longest shared prefix is `HashShared`, for any prompts and
  block size: a prompt's hash of depth d occurs in another's chain exactly if they share d blocks. For each live request
  `Content` says that its output is the recorded one so far and `Chunked` that its chunks are its schedule's, uncut
  as long as it is short of its limit, with the script holding the rest. The script cannot run out early: by then the
  chunks would total the schedule, which is no less than the limit (`ChunkFacts`). Nothing recorded is
  cut off by a schedule of the same record, as its chunks total at least the recorded length (`RecordFacts`).
- **Replayed arrivals** (`ArrivalInv`). Time stops at the next due task, so a task is sent and ended exactly when it is due
  (`TaskOK`: the clock never passes the due time of a task in `Pending`). The premises of `PaceKept`, that no answer so far was
  faster than recorded, or all were as recorded, can only become false, so the invariant carries the due times of
  unsent tasks under the same premises (`NeverEarly`, `OnTime`): a released turn is due at its offset because its parent ended at its
  own offset plus its service time, and the records are in order of arrival (`ByArrival`, shown sorted by the fold lemmas).
  That two prompts share just the recorded blocks is a fact about where sequences part (`PartAt`, `BuiltPart`): at the first
  block hash that differs, or where a request's own tokens begin, which are no other's and no hash's.
- **Handoff** (`HandoffInv`). What each request's slots hold in each of its states, that a slot has
  a request's bytes only after it advertised (`Unwritten`), and that a read aimed at an older
  pool base was disturbed (`Aimed`).
- **Control API** (`PatchInv`, `HistoryInv`). Where a call is decides which engines have it queued and
  which have applied it (`CallOK`); then each engine's configuration is described by its history (`ConfigsOK`),
  a patch follows those answered before it began (`OrderOK`), and a reply in flight shows them (`ReadsOK`).
  Until a reset, a stats call is followed engine by engine (`StatsInv`): the counts it has collected, the one in its
  oneshot and the present counts of the engines not yet asked never sum below the sum at its start, and none is
  above the engine's present count, so the answer lies between the two sums.
- **Window** (`WindowInv`). The tables on main *and* on an open roll are well formed, and a roll's table lies
  ahead of the one on main (`Forward`), so that merging it late is harmless; a captured set of goldens
  belongs to the head it was captured for (`RollOK`), whatever was made again meanwhile.

The assumptions are those the code or its configuration justifies. `BlockPool`: finitely many
requests, capacity above zero. `SimEngine`: a request names at most one adapter. `Handoff`: a prompt's
block hashes differ (they are chained), a pattern value and "no bytes" differ. `ControlApi`: at least one
engine; patches assign values to fields. `CompatWindow`: the table the automation starts from is one the code accepts (one to
`MaxStable` lines, releases, newest first) and the tracker is on a candidate, as in `compat.toml`. `RemoteInputs`: a player
has an input and an engine. `ArrivalReplay`: a block has a token, and the replayed records are `FileRecord`s,
whose block hashes cover full blocks of the prompt only, as `prompt_block_hashes` writes them (`ReplayKeepsLoad` has it as its hypothesis). `Replay`: the records of the trace passed `validate_record`, and without chunk sizes every gap is of one token, as `schedule_from_record` reads it.

Sums and filters are proved about without the library's induction theorems that take an operator: `SimEngineProofs` derives
from `WellFoundedInduction` that a set of naturals with 0 and closed under successor holds all of them (`NatInductive`) and that a family
of finite sets closed under adding an element holds all of them (`FiniteInduction`), and from these that the fold of the community
modules is the sum it stands for (`SumFacts`, `SumAppend`, `SumTail`) and that `Keep` filters (`KeepFacts`). `Keep` is
therefore a recursive function, where `SelectSeq` would be the same to TLC. `KvEventsProofs` and `ControlApiProofs` use
`NatInductive` in the same way for what a fold over events leaves known (`FoldExists`) and over replies sums to (`TotalFacts`).
`TraceProofs` has it in general: the community `FoldLeft` is a recursion over sets of positions that has a solution
(`SetRecursion`), and so has come to the next step's result after each element (`Unrolled`); with it, what `ObserveOne`
folded over a message does to one request is what the message says of it (`ObservedOf`), what `Only` keeps is what is
in the set (`OnlyFacts`), a total grows by what is appended, and a sequence below another has the smaller total, unless they are
equal (`TotalAppend`, `TotalBelow`).

Only model-checked:

- every liveness property (`EventuallyAnswered`, `ExitsEventually` and the like), as fairness and
  ENABLED are out of the prover's reach;
- what is filtered or folded over histories and has no inductive account yet: all of `Pacing` (`DrawsFaithful`,
  `ServiceTimeKept`), `TraceFile` (`ReadBack`) and `Perfetto` (`Timeline`), whose definitions are folds or recursive (fits, cuts, lanes), and
  `ReplayOutcome` of `TraceUsers`, the verdict on a replay and its measurements, which are quantiles of sorted samples;
- progress of merges and releases in `CompatWindow`.

## Not modelled

Hash collisions, token sampling and tokenizers, the distribution of latency draws, JSON and the wire codec,
argument and URI parsing, log filters, the hub library's cache, spec-decoding statistics, the commands that only print
statistics, dataset conversion and conformance. They keep no state, or their work is I/O or
formatting; `PROJECT.json` lists each with its reason.

## Plan

1. Proofs: `DrawsFaithful` of `Pacing` and `Timeline` of `Perfetto`, with the fold lemmas of `TraceProofs`.
2. Several prefill engines in `Handoff`.
