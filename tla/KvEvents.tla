----------------------------- MODULE KvEvents ------------------------------
(***************************************************************************)
(* KV-cache event publishing (src/src/kvevents.rs) between the engine's    *)
(* prefix cache and the router that keeps an index of it: the batch that   *)
(* one cache_prompt call or reset yields, the bounded queue, the publisher *)
(* task with its sequence number, and the way both end with the engine     *)
(* (run_engine of src/src/lib.rs).                                         *)
(*                                                                         *)
(* The cache is PrefixCache, which BlockPool implements: this module adds  *)
(* what its steps announce.  A batch keeps, of the events of one call, what*)
(* they leave stored and what they leave removed.  Sending and delivery    *)
(* are one step: a delay on the wire has no other effect than one in the   *)
(* queue.  A full queue or a dead publisher drops a batch and says nothing.*)
(***************************************************************************)
EXTENDS PrefixCache, SequencesExt

CONSTANTS
  NoRequest,   \* caller when no cache_prompt call is in progress
  QueueSize,   \* capacity of the mpsc channel (1024 in the code)
  MaxCalls     \* bound on the cache_prompt calls

ASSUME KvEventsAssumption ==
  NoRequest \notin Requests /\ QueueSize \in Nat \ {0} /\ MaxCalls \in Nat

VARIABLES
  caller,      \* the request whose cache_prompt call is in progress
  batch,       \* the events of that call
  calls,       \* calls counted against MaxCalls
  engine,      \* the engine loop: "running" or "ended", which drops KvEventTx
  engine_done, \* the token that run_engine cancels
  publisher,   \* "starting", "none" (disabled or failed), "running", "exited"
  queue,       \* batches between the engine and the publisher
  seq,         \* the publisher's next sequence number
  subscribed,  \* whether a router has subscribed
  index,       \* the blocks the router believes to be cached
  heard,       \* router: [next, count], one past the last number and how many
  missed,      \* ghost: [sent, seen], messages lost between publisher and router
               \* so far, and those of them before the last one it received
  stale        \* ghost: blocks whose last event was lost

pool == <<resident, holds>>
calling == <<caller, batch, calls>>
life == <<engine, engine_done>>
router == <<subscribed, index, heard, missed>>
all == <<pool, calling, life, publisher, queue, seq, router, stale>>

-----------------------------------------------------------------------------
(* Batches                                                                 *)

NoEvents == [stored |-> {}, removed |-> {}, cleared |-> FALSE]

AllCleared == [NoEvents EXCEPT !.cleared = TRUE]

Touched(b) == IF b.cleared THEN Blocks ELSE b.stored \cup b.removed

\* What a consumer holds after applying a batch.
Apply(known, b) == ((IF b.cleared THEN {} ELSE known) \ b.removed) \cup b.stored

\* A step of cache_prompt brought block b in, and may have evicted another.
Extend(bt, b, evicted) ==
  [bt EXCEPT !.stored = (@ \ evicted) \cup {b}, !.removed = (@ \cup evicted) \ {b}]

\* KvEventTx::publish.  try_send fails on a full queue and on one whose
\* receiver is gone; without a publisher the engine has nothing to call.
Publish_Replaces(b) ==
  IF b = NoEvents THEN UNCHANGED <<queue, stale>>
  ELSE IF publisher = "running"
       THEN /\ queue' = IF Len(queue) < QueueSize THEN Append(queue, b)
                        ELSE [queue EXCEPT ![Len(queue)] = b]
            /\ stale' = stale \ Touched(b)
       ELSE UNCHANGED queue /\ stale' = stale \cup Touched(b)

Publish(b) ==
  \/ /\ b = NoEvents
     /\ UNCHANGED <<queue, stale>>
  \/ /\ b # NoEvents /\ publisher = "running" /\ Len(queue) < QueueSize
     /\ queue' = Append(queue, b)
     /\ stale' = stale \ Touched(b)
  \/ /\ b # NoEvents /\ (publisher # "running" \/ Len(queue) = QueueSize)
     /\ stale' = stale \cup Touched(b)
     /\ UNCHANGED queue

\* Batches are lost from the front of the queue: only what the rest of the
\* queue does not announce again stays wrong.
Lost(front, rest) ==
  stale' = stale \cup ((UNION {Touched(front[i]) : i \in DOMAIN front})
                         \ UNION {Touched(rest[i]) : i \in DOMAIN rest})

-----------------------------------------------------------------------------
KvInit ==
  /\ Init
  /\ caller = NoRequest /\ batch = NoEvents /\ calls = 0
  /\ engine = "running" /\ engine_done = FALSE
  /\ publisher = "starting"
  /\ queue = <<>> /\ seq = 0
  /\ subscribed = FALSE /\ index = {}
  /\ heard = [next |-> 0, count |-> 0] /\ missed = [sent |-> 0, seen |-> 0]
  /\ stale = {}

\* spawn: run_engine goes on without events when the socket cannot be set up.
Spawn ==
  /\ publisher = "starting"
  /\ publisher' \in {"none", "running"}
  /\ UNCHANGED <<pool, calling, life, queue, seq, router, stale>>

Engine == engine = "running" /\ publisher # "starting"

-----------------------------------------------------------------------------
(* The engine: admit calls cache_prompt and publishes what it returns.     *)

CacheBegin(r) ==
  /\ Engine /\ caller = NoRequest /\ calls < MaxCalls /\ holds[r] = {}
  /\ caller' = r /\ calls' = calls + 1
  /\ UNCHANGED <<pool, batch, life, publisher, queue, seq, router, stale>>

CacheBlock(b) ==
  /\ Engine /\ caller # NoRequest
  /\ b \notin holds[caller]
  /\ Share(caller, b) \/ Store(caller, b)
  /\ batch' = IF b \in resident THEN batch ELSE Extend(batch, b, resident \ resident')
  /\ UNCHANGED <<caller, calls, life, publisher, queue, seq, router, stale>>

CacheReturn ==
  /\ Engine /\ caller # NoRequest
  /\ Publish(batch)
  /\ caller' = NoRequest /\ batch' = NoEvents
  /\ UNCHANGED <<pool, calls, life, publisher, seq, router>>

Unpin(r) ==
  /\ Engine /\ caller = NoRequest /\ holds[r] # {}
  /\ Release(r)
  /\ UNCHANGED <<calling, life, publisher, queue, seq, router, stale>>

\* The reset_prefix_cache utility: an empty cache announces nothing.
ResetPrefixCache ==
  /\ Engine /\ caller = NoRequest
  /\ Clear
  /\ Publish(IF resident = {} THEN NoEvents ELSE AllCleared)
  /\ UNCHANGED <<calling, life, publisher, seq, router>>

-----------------------------------------------------------------------------
(* run_engine: the token is cancelled after the engine loop ended, or when *)
(* the IO loop ended, which aborts an engine loop that still runs.         *)

EngineLoopEnds ==
  /\ Engine /\ caller = NoRequest
  /\ engine' = "ended"
  /\ UNCHANGED <<pool, calling, engine_done, publisher, queue, seq, router, stale>>

EngineDone ==
  /\ engine = "ended" /\ ~engine_done
  /\ engine_done' = TRUE
  /\ UNCHANGED <<pool, calling, engine, publisher, queue, seq, router, stale>>

IoLoopEnds ==
  /\ Engine /\ ~engine_done
  /\ engine_done' = TRUE
  /\ UNCHANGED <<pool, calling, engine, publisher, queue, seq, router, stale>>

-----------------------------------------------------------------------------
(* The publisher task: cancellation is looked at before the queue.         *)

Running == publisher = "running"

Receives == Running /\ ~engine_done /\ queue # <<>>

\* The message reaches the router.
SendDelivered ==
  /\ Receives /\ subscribed
  /\ index' = Apply(index, Head(queue))
  /\ heard' = [next |-> seq + 1, count |-> heard.count + 1]
  /\ missed' = [missed EXCEPT !.seen = missed.sent]
  /\ seq' = seq + 1
  /\ queue' = Tail(queue)
  /\ UNCHANGED <<pool, calling, life, publisher, subscribed, stale>>

\* The socket takes the message, but no router is there or it is too slow.
SendLost ==
  /\ Receives
  /\ missed' = [missed EXCEPT !.sent = @ + 1]
  /\ Lost(<<Head(queue)>>, Tail(queue))
  /\ seq' = seq + 1
  /\ queue' = Tail(queue)
  /\ UNCHANGED <<pool, calling, life, publisher, subscribed, index, heard>>

\* The batch cannot be encoded or the socket refuses it: no number is used.
SendFails_UsesNumber ==
  /\ Receives
  /\ Lost(<<Head(queue)>>, Tail(queue))
  /\ seq' = seq + 1
  /\ queue' = Tail(queue)
  /\ UNCHANGED <<pool, calling, life, publisher, router>>

SendFails ==
  /\ Receives
  /\ Lost(<<Head(queue)>>, Tail(queue))
  /\ queue' = Tail(queue)
  /\ UNCHANGED <<pool, calling, life, publisher, seq, router>>

ExitCancelled ==
  /\ Running /\ engine_done
  /\ publisher' = "exited" /\ queue' = <<>>
  /\ Lost(queue, <<>>)
  /\ UNCHANGED <<pool, calling, life, seq, router>>

\* Every KvEventTx is dropped and the queue is empty.
ExitClosed_Waits ==
  /\ FALSE
  /\ UNCHANGED all

ExitClosed ==
  /\ Running /\ ~engine_done /\ engine = "ended" /\ queue = <<>>
  /\ publisher' = "exited"
  /\ UNCHANGED <<pool, calling, life, queue, seq, router, stale>>

-----------------------------------------------------------------------------
\* A router subscribes, at any time and with an empty index.
Subscribe ==
  /\ ~subscribed
  /\ subscribed' = TRUE
  /\ UNCHANGED <<pool, calling, life, publisher, queue, seq, index, heard, missed, stale>>

Publisher == SendDelivered \/ SendLost \/ SendFails \/ ExitCancelled \/ ExitClosed

KvNext ==
  \/ Spawn
  \/ \E r \in Requests : CacheBegin(r) \/ Unpin(r)
  \/ \E b \in Blocks : CacheBlock(b)
  \/ CacheReturn \/ ResetPrefixCache
  \/ EngineLoopEnds \/ EngineDone \/ IoLoopEnds
  \/ Publisher \/ Subscribe

\* Only the publisher task is assumed to be scheduled.
KvSpec == KvInit /\ [][KvNext]_all /\ WF_all(Publisher)
-----------------------------------------------------------------------------
(* Properties                                                              *)

Difference(s, t) == (s \ t) \cup (t \ s)

\* Once the queue is delivered, the router's index can be wrong only about
\* blocks whose own last event was lost (dropped by publish, refused by the
\* socket, lost on the wire, sent before the router came, left in the queue at
\* the end): a later event about a block, or a reset, repairs it.
IndexWrongOnlyWhereLost ==
  caller = NoRequest => Difference(FoldLeft(Apply, index, queue), resident) \subseteq stale

\* The numbers a router sees tell it exactly how many messages it missed on the
\* wire before the last one, from a publisher that starts at 0 and advances
\* only when the socket took a message.
GapsCountWireLoss == heard.next - heard.count = missed.seen

\* A publisher does not outlive its engine, whether or not the token is
\* cancelled.
PublisherExits == engine = "ended" ~> publisher \in {"none", "exited"}
=============================================================================
