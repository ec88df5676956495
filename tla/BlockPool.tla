----------------------------- MODULE BlockPool -----------------------------
(***************************************************************************)
(* The KV-cache block pool of src/src/blockpool.rs: the map from chained   *)
(* block hash to physical slot, the stack of free slots, the LRU clock and *)
(* the pins of live requests, with the KV-cache events (Stored, Removed,   *)
(* AllCleared) folded into `mirror', the set of blocks a router that       *)
(* applied every event so far believes to be cached.                       *)
(*                                                                         *)
(* A definition whose name has an underscore and a capital (Reset_...) is  *)
(* a faulty variant of the one after it; properties are tested on these.   *)
(*                                                                         *)
(* The pool belongs to one engine task, so a call runs to its end before   *)
(* another starts.  cache_prompt loops over the blocks of a prompt; `call' *)
(* holds its local variables and every iteration is one action, enabled    *)
(* only for the call in progress.  No other action is enabled then.        *)
(*                                                                         *)
(* Abstractions: a prompt is the sequence of its full blocks (the partial  *)
(* tail that cache_prompt drops is left out), a block's tokens are one     *)
(* value, and hash_block is injective, so a hash is the chain of blocks    *)
(* and extra keys it was computed from (FNV collisions are not modelled).  *)
(***************************************************************************)
EXTENDS Integers, SequencesExt

CONSTANTS
  Requests,   \* each request caches one prompt, once, and later ends
  NoRequest,  \* call.req when no cache_prompt call is in progress
  Prompts,    \* records [blocks, lora, salt]; an Option is a sequence of length <= 1
  Capacity    \* number of physical slots (BlockPool::new takes max(1))

ASSUME RequestsAssumption == IsFiniteSet(Requests) /\ NoRequest \notin Requests
ASSUME CapacityAssumption == Capacity \in Nat \ {0}
ASSUME PromptsAssumption == \A p \in Prompts : Len(p.blocks) \in Nat

VARIABLES
  cached,      \* hash -> [block_id, refcnt, last_used]
  free_slots,  \* slot ids not backing a cached block, a stack (last is on top)
  tick,        \* LRU clock
  stats,       \* [requests, queries, hits] since the last take_stats
  requests,    \* r -> [st, prompt, block_ids]: what the engine keeps of r
  call,        \* the local variables of the cache_prompt call in progress
  mirror       \* the hashes a consumer of all events so far holds

vars == <<cached, free_slots, tick, stats, requests, call, mirror>>

-----------------------------------------------------------------------------
(* Hashes.  A request's LoRA name is mixed into every block, its salt only *)
(* into the first, both as untagged keys; an empty salt counts as none.    *)

Salt(p) == IF p.salt = <<"">> THEN <<>> ELSE p.salt

ExtraKeys(p, i) == p.lora \o (IF i = 1 THEN Salt(p) ELSE <<>>)

\* The hash of block i of prompt p; Hash(p, 0) is the absent parent.
Hash(p, i) == [j \in 1..i |-> [toks |-> p.blocks[j], extra |-> ExtraKeys(p, j)]]

Hashes == UNION {{Hash(p, i) : i \in 1..Len(p.blocks)} : p \in Prompts}

\* Hash(p, 0) for every p: `None'.
NoParent == <<>>

-----------------------------------------------------------------------------
Idle ==
  [req |-> NoRequest, in_prefix |-> TRUE, num_cached |-> 0, prev_was_miss |-> FALSE,
   run |-> <<>>, run_parent |-> NoParent, before |-> {}]

AllFree == [i \in 1..Capacity |-> Capacity - i]

Fresh == [st |-> "new", prompt |-> <<>>, block_ids |-> <<>>]

Ended == [st |-> "done", prompt |-> <<>>, block_ids |-> <<>>]

NoStats == [requests |-> 0, queries |-> 0, hits |-> 0]

Init ==
  /\ cached = [h \in {} |-> 0]
  /\ free_slots = AllFree
  /\ tick = 0
  /\ stats = NoStats
  /\ requests = [r \in Requests |-> Fresh]
  /\ call = Idle
  /\ mirror = {}

InCall == call.req # NoRequest

Live == {r \in Requests : requests[r].st = "live"}

\* The slot ids request r was given, as unpin collects them.
IdSet(r) == ToSet(requests[r].block_ids)

-----------------------------------------------------------------------------
(* cache_prompt.  The iteration variable i is one more than the number of  *)
(* block ids handed out, because every iteration but the last hands out    *)
(* one.                                                                    *)

Prompt == requests[call.req].prompt

BlockIndex == Len(requests[call.req].block_ids) + 1

MoreBlocks == BlockIndex <= Len(Prompt.blocks)

NextHash == Hash(Prompt, BlockIndex)

\* allocate_slot: the possible results; none when every slot is pinned.
Victims ==
  {h \in DOMAIN cached :
     /\ cached[h].refcnt = 0
     /\ \A g \in DOMAIN cached :
          cached[g].refcnt = 0 => cached[h].last_used <= cached[g].last_used}

AllocateSlot_KeepsVictim ==
  IF free_slots # <<>>
    THEN {[block_id |-> Last(free_slots), removed |-> {}, free |-> Front(free_slots)]}
    ELSE {[block_id |-> cached[v].block_id, removed |-> {}, free |-> free_slots] : v \in Victims}

AllocateSlot ==
  IF free_slots # <<>>
    THEN {[block_id |-> Last(free_slots), removed |-> {}, free |-> Front(free_slots)]}
    ELSE {[block_id |-> cached[v].block_id, removed |-> {v}, free |-> free_slots] :
            v \in Victims}

PushBlockId(id) ==
  requests' = [requests EXCEPT ![call.req].block_ids = Append(@, id)]

CachePromptBegin(r, p) ==
  /\ ~InCall
  /\ requests[r].st = "new"
  /\ requests' = [requests EXCEPT ![r] = [st |-> "live", prompt |-> p, block_ids |-> <<>>]]
  /\ call' = [Idle EXCEPT !.req = r, !.before = DOMAIN cached]
  /\ stats' = [stats EXCEPT !.requests = @ + 1, !.queries = @ + Len(p.blocks)]
  /\ UNCHANGED <<cached, free_slots, tick, mirror>>

CachePromptHit_CountsAll ==
  /\ InCall /\ MoreBlocks
  /\ NextHash \in DOMAIN cached
  /\ cached' = [cached EXCEPT ![NextHash].refcnt = @ + 1, ![NextHash].last_used = tick + 1]
  /\ tick' = tick + 1
  /\ PushBlockId(cached[NextHash].block_id)
  /\ LET flush == call.prev_was_miss /\ call.run # <<>>
     IN  /\ mirror' = IF flush THEN mirror \cup ToSet(call.run) ELSE mirror
         /\ call' = [call EXCEPT !.prev_was_miss = FALSE,
                                 !.run = IF flush THEN <<>> ELSE @,
                                 !.num_cached = @ + 1]
  /\ UNCHANGED <<free_slots, stats>>

\* A cached block: a pending run of misses is flushed as one Stored event,
\* and the block is pinned and becomes the most recently used.
CachePromptHit ==
  /\ InCall /\ MoreBlocks
  /\ NextHash \in DOMAIN cached
  /\ cached' = [cached EXCEPT ![NextHash].refcnt = @ + 1, ![NextHash].last_used = tick + 1]
  /\ tick' = tick + 1
  /\ PushBlockId(cached[NextHash].block_id)
  /\ LET flush == call.prev_was_miss /\ call.run # <<>>
     IN  /\ mirror' = IF flush THEN mirror \cup ToSet(call.run) ELSE mirror
         /\ call' = [call EXCEPT !.prev_was_miss = FALSE,
                                 !.run = IF flush THEN <<>> ELSE @,
                                 !.num_cached = IF call.in_prefix THEN @ + 1 ELSE @]
  /\ UNCHANGED <<free_slots, stats>>

CachePromptMiss_ParentMoves ==
  /\ InCall /\ MoreBlocks
  /\ NextHash \notin DOMAIN cached
  /\ \E slot \in AllocateSlot :
       /\ cached' = [h \in (DOMAIN cached \ slot.removed) \cup {NextHash} |->
                       IF h = NextHash
                         THEN [block_id |-> slot.block_id, refcnt |-> 1, last_used |-> tick + 1]
                         ELSE cached[h]]
       /\ free_slots' = slot.free
       /\ mirror' = mirror \ slot.removed
       /\ PushBlockId(slot.block_id)
  /\ tick' = tick + 1
  /\ call' = [call EXCEPT !.in_prefix = FALSE,
                          !.prev_was_miss = TRUE,
                          !.run = Append(@, NextHash),
                          !.run_parent = Hash(Prompt, BlockIndex - 1)]
  /\ UNCHANGED stats

\* A miss that gets a slot; an eviction is announced at once, the stored
\* block when its run is flushed.
CachePromptMiss ==
  /\ InCall /\ MoreBlocks
  /\ NextHash \notin DOMAIN cached
  /\ \E slot \in AllocateSlot :
       /\ cached' = [h \in (DOMAIN cached \ slot.removed) \cup {NextHash} |->
                       IF h = NextHash
                         THEN [block_id |-> slot.block_id, refcnt |-> 1, last_used |-> tick + 1]
                         ELSE cached[h]]
       /\ free_slots' = slot.free
       /\ mirror' = mirror \ slot.removed
       /\ PushBlockId(slot.block_id)
  /\ tick' = tick + 1
  /\ call' = [call EXCEPT !.in_prefix = FALSE,
                          !.prev_was_miss = TRUE,
                          !.run = Append(@, NextHash),
                          !.run_parent = IF call.prev_was_miss THEN @
                                         ELSE Hash(Prompt, BlockIndex - 1)]
  /\ UNCHANGED stats

CachePromptReturn_NoFlush ==
  /\ InCall
  /\ MoreBlocks => NextHash \notin DOMAIN cached /\ AllocateSlot = {}
  /\ stats' = [stats EXCEPT !.hits = @ + call.num_cached]
  /\ mirror' = mirror
  /\ call' = Idle
  /\ UNCHANGED <<cached, free_slots, tick, requests>>

\* The loop is over, or breaks because every slot is pinned: the last run of
\* misses is flushed and the outcome goes back to the engine.
CachePromptReturn ==
  /\ InCall
  /\ MoreBlocks => NextHash \notin DOMAIN cached /\ AllocateSlot = {}
  /\ stats' = [stats EXCEPT !.hits = @ + call.num_cached]
  /\ mirror' = mirror \cup ToSet(call.run)
  /\ call' = Idle
  /\ UNCHANGED <<cached, free_slots, tick, requests>>

-----------------------------------------------------------------------------
\* unpin, called by the engine once when a request that was admitted ends.
Unpin(r) ==
  /\ ~InCall
  /\ r \in Live
  /\ cached' = [h \in DOMAIN cached |->
                  IF cached[h].block_id \in IdSet(r) /\ cached[h].refcnt > 0
                    THEN [cached[h] EXCEPT !.refcnt = @ - 1]
                    ELSE cached[h]]
  /\ requests' = [requests EXCEPT ![r] = Ended]
  /\ UNCHANGED <<free_slots, tick, stats, call, mirror>>

Reset_WhilePinned ==
  /\ ~InCall
  /\ DOMAIN cached # {}
  /\ cached' = [h \in {} |-> 0]
  /\ free_slots' = AllFree
  /\ mirror' = {}
  /\ UNCHANGED <<tick, stats, requests, call>>

\* reset, which the engine refuses while a request is running or pulling
\* (reset_prefix_cache_outputs); it is a no-op on an empty pool.
Reset ==
  /\ ~InCall
  /\ Live = {}
  /\ DOMAIN cached # {}
  /\ cached' = [h \in {} |-> 0]
  /\ free_slots' = AllFree
  /\ mirror' = {}
  /\ UNCHANGED <<tick, stats, requests, call>>

\* take_stats, drained into every SchedulerStats report.
TakeStats ==
  /\ ~InCall
  /\ stats # NoStats
  /\ stats' = NoStats
  /\ UNCHANGED <<cached, free_slots, tick, requests, call, mirror>>

Next ==
  \/ \E r \in Requests, p \in Prompts : CachePromptBegin(r, p)
  \/ CachePromptHit
  \/ CachePromptMiss
  \/ CachePromptReturn
  \/ \E r \in Requests : Unpin(r)
  \/ Reset
  \/ TakeStats

Spec == Init /\ [][Next]_vars

-----------------------------------------------------------------------------
(* Properties                                                              *)

\* The blocks request r pinned: the first blocks of its prompt, one per slot
\* id it was given.
HeldHashes(r) ==
  {Hash(requests[r].prompt, k) : k \in 1..Len(requests[r].block_ids)}

Holders(h) == {r \in Live : h \in HeldHashes(r)}

Slot == [block_id : 0..(Capacity - 1), refcnt : Nat, last_used : Nat]

Stats == [requests : Nat, queries : Nat, hits : Nat]

Request ==
  [st : {"new", "live", "done"}, prompt : Prompts \cup {<<>>},
   block_ids : Seq(0..(Capacity - 1))]

Call ==
  [req : Requests \cup {NoRequest}, in_prefix : BOOLEAN, num_cached : Nat,
   prev_was_miss : BOOLEAN, run : Seq(Hashes), run_parent : Hashes \cup {NoParent},
   before : SUBSET Hashes]

\* The types of the pool's fields, and of the local variables of cache_prompt.
TypeOK ==
  /\ DOMAIN cached \subseteq Hashes
  /\ cached \in [DOMAIN cached -> Slot]
  /\ free_slots \in Seq(0..(Capacity - 1))
  /\ tick \in Nat
  /\ stats \in Stats
  /\ requests \in [Requests -> Request]
  /\ \A r \in Live : requests[r].prompt \in Prompts
  /\ call \in Call
  /\ mirror \subseteq Hashes

\* Every physical slot is either free or backs exactly one cached block: the
\* slot id is what the data plane turns into an address, so two blocks on one
\* slot, or a slot that leaks, corrupts or loses KV memory (allocate_slot,
\* reset).
SlotsPartitioned ==
  /\ \A g, h \in DOMAIN cached : cached[g].block_id = cached[h].block_id => g = h
  /\ {cached[h].block_id : h \in DOMAIN cached} \cap ToSet(free_slots) = {}
  /\ {cached[h].block_id : h \in DOMAIN cached} \cup ToSet(free_slots) = 0..(Capacity - 1)
  /\ IsInjective(free_slots)

\* A block's reference count is the number of live requests that pinned it
\* through cache_prompt and have not been unpinned: no pin is lost when
\* prompts share blocks, and none survives its request.
RefcntCountsHolders ==
  \A h \in DOMAIN cached : cached[h].refcnt = Cardinality(Holders(h))

\* As long as a request lives, the k-th slot it was given still backs the k-th
\* block of its prompt, whatever other requests allocate, evict or release in
\* the meantime (these ids are advertised as remote_block_ids).
HeldSlotsIntact ==
  \A r \in Live : \A k \in 1..Len(requests[r].block_ids) :
     LET h == Hash(requests[r].prompt, k)
     IN  h \in DOMAIN cached /\ cached[h].block_id = requests[r].block_ids[k]

\* A router that applies the published events in order holds exactly the cached
\* blocks; inside a call only the run of misses not yet flushed is missing.
MirrorExact ==
  /\ DOMAIN cached = mirror \cup ToSet(call.run)
  /\ mirror \cap ToSet(call.run) = {}

\* The run of misses waiting for its Stored event is a contiguous piece of the
\* prompt's chain and run_parent is the block just before it, also when the
\* prompt misses, hits and misses again.
RunIsChain ==
  call.run # <<>> =>
    /\ \A k \in 1..Len(call.run) :
         call.run[k] = Hash(Prompt, BlockIndex - 1 - Len(call.run) + k)
    /\ call.run_parent = Hash(Prompt, BlockIndex - 1 - Len(call.run))

\* The prefix hit reported is the longest leading run of the prompt that was
\* cached when the call began: neither the evictions the call itself makes nor
\* blocks found again after a miss change it.
PrefixHitExact ==
  InCall =>
    /\ \A k \in 1..call.num_cached : Hash(Prompt, k) \in call.before
    /\ ~call.in_prefix => Hash(Prompt, call.num_cached + 1) \notin call.before
    /\ call.in_prefix => call.num_cached = BlockIndex - 1

\* cache_prompt walks the prompt right: what it reports as a prefix hit and the
\* run it announces are those of the prompt's own chain, through hits, misses,
\* holes and the evictions the walk itself makes.
PromptWalk == RunIsChain /\ PrefixHitExact

\* PrefixCache seen through the pool: what is cached, and what each live request
\* was given.
Abstract ==
  INSTANCE PrefixCache WITH
    Blocks <- Hashes,
    resident <- DOMAIN cached,
    holds <- [r \in Requests |-> HeldHashes(r)]

\* The pool implements the bounded cache with holds of PrefixCache: a pinned
\* block is never dropped, and one is dropped only from a full pool
\* (allocate_slot, reset).
Refinement == Abstract!Spec

-----------------------------------------------------------------------------
(* The inductive invariant behind the theorems of BlockPoolProofs.         *)

\* cache_prompt runs for a live request, over blocks its prompt has, and the
\* run of misses is among the blocks it has pinned; between calls no run is
\* pending, and only a live request has block ids.
CallInv ==
  /\ InCall => call.req \in Live /\ Len(requests[call.req].block_ids) <= Len(Prompt.blocks)
  /\ InCall => ToSet(call.run) \subseteq HeldHashes(call.req)
  /\ ~InCall => call = Idle
  /\ \A r \in Requests \ Live : requests[r].block_ids = <<>>

\* The free stack holds the highest ids, so the ids in use are the lowest.
SlotInv ==
  /\ Len(free_slots) <= Capacity
  /\ \A i \in 1..Len(free_slots) : free_slots[i] = Capacity - i
  /\ {cached[h].block_id : h \in DOMAIN cached} = 0..(Capacity - Len(free_slots) - 1)
  /\ \A g, h \in DOMAIN cached : cached[g].block_id = cached[h].block_id => g = h

\* As many blocks are cached as slots are in use.
CountInv ==
  /\ IsFiniteSet(DOMAIN cached)
  /\ Cardinality(DOMAIN cached) = Capacity - Len(free_slots)

\* The inductive invariant (a conjunction of the named parts).
IInv ==
  /\ TypeOK
  /\ CallInv
  /\ SlotInv
  /\ CountInv
  /\ HeldSlotsIntact
  /\ RefcntCountsHolders
  /\ MirrorExact
=============================================================================
