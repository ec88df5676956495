-------------------------- MODULE BlockPoolProofs --------------------------
(***************************************************************************)
(* Proofs, for every set of prompts, every finite set of requests and      *)
(* every capacity, of the safety of the block pool.                        *)
(***************************************************************************)
EXTENDS BlockPool, FiniteSetTheorems, SequenceTheorems, TLAPS

-----------------------------------------------------------------------------
(* Hashes                                                                  *)

\* Two blocks of one prompt at different positions have different hashes.
LEMMA HashInjective ==
  ASSUME NEW p, NEW i \in Nat, NEW j \in Nat, Hash(p, i) = Hash(p, j)
  PROVE  i = j
<1>1. DOMAIN Hash(p, i) = 1..i /\ DOMAIN Hash(p, j) = 1..j
  BY DEF Hash
<1>2. 1..i = 1..j
  BY <1>1
<1> QED
  BY <1>2

\* The blocks of a prompt are hashes of the model.
LEMMA HashInHashes ==
  ASSUME NEW p \in Prompts, NEW i \in 1..Len(p.blocks)
  PROVE  Hash(p, i) \in Hashes
  BY DEF Hashes

\* The absent parent is no hash but the type of run_parent allows it.
LEMMA ParentType ==
  ASSUME NEW p \in Prompts, NEW i \in 0..Len(p.blocks)
  PROVE  Hash(p, i) \in Hashes \cup {NoParent}
<1>1. CASE i = 0
  <2>1. Hash(p, 0) = <<>>
    BY DEF Hash
  <2> QED
    BY <1>1, <2>1 DEF NoParent
<1>2. CASE i # 0
  <2>1. i \in 1..Len(p.blocks)
    BY <1>2, PromptsAssumption
  <2> QED
    BY <2>1, HashInHashes
<1> QED
  BY <1>1, <1>2

-----------------------------------------------------------------------------
(* Facts about the call in progress                                        *)

\* The block cache_prompt looks at is a block of a prompt of the model.
LEMMA CallFacts ==
  ASSUME TypeOK, CallInv, InCall
  PROVE  /\ call.req \in Requests
         /\ call.req \in Live
         /\ Prompt \in Prompts
         /\ Len(Prompt.blocks) \in Nat
         /\ BlockIndex \in Nat \ {0}
         /\ MoreBlocks => NextHash \in Hashes
         /\ MoreBlocks => Hash(Prompt, BlockIndex - 1) \in Hashes \cup {NoParent}
<1>1. call.req \in Requests /\ call.req \in Live
  BY DEF CallInv, Live
<1>2. Prompt \in Prompts
  BY <1>1 DEF TypeOK, Prompt
<1>3. Len(Prompt.blocks) \in Nat
  BY <1>2, PromptsAssumption
<1>4. requests[call.req].block_ids \in Seq(0..(Capacity - 1))
  BY <1>1 DEF TypeOK, Request
<1>5. BlockIndex \in Nat \ {0}
  BY <1>4 DEF BlockIndex
<1>6. ASSUME MoreBlocks
      PROVE  /\ BlockIndex \in 1..Len(Prompt.blocks)
             /\ BlockIndex - 1 \in 0..Len(Prompt.blocks)
  BY <1>3, <1>5, <1>6 DEF MoreBlocks
<1> QED
  BY <1>1, <1>2, <1>3, <1>5, <1>6, HashInHashes, ParentType DEF NextHash

\* allocate_slot takes the lowest free id, or else the slot of an unpinned block.
LEMMA AllocateFacts ==
  ASSUME TypeOK, SlotInv, NEW slot \in AllocateSlot
  PROVE  \/ /\ Len(free_slots) \in Nat \ {0}
            /\ slot.block_id = Capacity - Len(free_slots)
            /\ slot.removed = {}
            /\ slot.free \in Seq(0..(Capacity - 1))
            /\ Len(slot.free) = Len(free_slots) - 1
            /\ \A i \in 1..Len(slot.free) : slot.free[i] = Capacity - i
         \/ /\ free_slots = <<>>
            /\ slot.free = <<>>
            /\ \E v \in DOMAIN cached : /\ cached[v].refcnt = 0
                                        /\ slot.block_id = cached[v].block_id
                                        /\ slot.removed = {v}
<1>1. CASE free_slots # <<>>
  <2>1. /\ slot.block_id = Last(free_slots)
        /\ slot.removed = {}
        /\ slot.free = Front(free_slots)
    BY <1>1 DEF AllocateSlot
  <2>2. free_slots \in Seq(0..(Capacity - 1)) /\ Len(free_slots) \in Nat \ {0}
    BY <1>1 DEF TypeOK, Request
  <2>3. Last(free_slots) = Capacity - Len(free_slots)
    BY <2>2 DEF Last, SlotInv
  <2>4. Front(free_slots) \in Seq(0..(Capacity - 1))
        /\ Len(Front(free_slots)) = Len(free_slots) - 1
        /\ \A i \in 1..(Len(free_slots) - 1) : Front(free_slots)[i] = free_slots[i]
    <3>1. 1 \in 1..(Len(free_slots)+1) /\ Len(free_slots) - 1 \in 0..Len(free_slots)
      BY <2>2
    <3> DEFINE S == 0..(Capacity - 1)
               n == Len(free_slots) - 1
    <3>2. free_slots \in Seq(S) /\ n \in 0..Len(free_slots) /\ n \in Nat
      BY <2>2, <3>1
    <3> HIDE DEF S, n
    <3>3. /\ SubSeq(free_slots, 1, n) \in Seq(S)
          /\ Len(SubSeq(free_slots, 1, n)) = IF 1 <= n THEN n - 1 + 1 ELSE 0
          /\ \A i \in 1..(n - 1 + 1) : SubSeq(free_slots, 1, n)[i] = free_slots[1 + i - 1]
      BY <3>1, <3>2, SubSeqProperties
    <3>4. /\ SubSeq(free_slots, 1, n) \in Seq(S)
          /\ Len(SubSeq(free_slots, 1, n)) = n
          /\ \A i \in 1..n : SubSeq(free_slots, 1, n)[i] = free_slots[i]
      BY <3>2, <3>3
    <3> QED
      BY <3>4 DEF Front, S, n
  <2> QED
    BY <2>1, <2>2, <2>3, <2>4 DEF SlotInv
<1>2. CASE free_slots = <<>>
  BY <1>2 DEF AllocateSlot, Victims
<1> QED
  BY <1>1, <1>2

-----------------------------------------------------------------------------
(* What handing out a block id does to the holds                           *)

\* The request that gets a slot for the next block of its prompt holds that
\* block in addition, and nobody else's holds change.
LEMMA PushHeld ==
  ASSUME TypeOK, CallInv, InCall, NEW id \in 0..(Capacity - 1), PushBlockId(id)
  PROVE  /\ requests' \in [Requests -> Request]
         /\ Live' = Live
         /\ \A r \in Requests : r # call.req => requests'[r] = requests[r]
         /\ \A r \in Requests : requests'[r].prompt = requests[r].prompt
         /\ requests'[call.req].block_ids = Append(requests[call.req].block_ids, id)
         /\ \A r \in Requests :
              HeldHashes(r)' = IF r = call.req THEN HeldHashes(r) \cup {NextHash}
                                               ELSE HeldHashes(r)
         /\ NextHash \notin HeldHashes(call.req)
<1>1. call.req \in Requests /\ BlockIndex \in Nat \ {0}
  BY CallFacts
<1>2. /\ \A r \in Requests : r # call.req => requests'[r] = requests[r]
      /\ \A r \in Requests : requests'[r].prompt = requests[r].prompt
      /\ \A r \in Requests : requests'[r].st = requests[r].st
      /\ requests'[call.req].block_ids = Append(requests[call.req].block_ids, id)
  BY <1>1 DEF PushBlockId, TypeOK, Request
<1>3. Live' = Live
  BY <1>2 DEF Live
<1>4. \A r \in Requests : r # call.req => HeldHashes(r)' = HeldHashes(r)
  BY <1>2 DEF HeldHashes
<1>5. requests[call.req].block_ids \in Seq(0..(Capacity - 1))
  BY <1>1 DEF TypeOK, Request
<1>6. Len(requests'[call.req].block_ids) = BlockIndex
  BY <1>2, <1>5 DEF BlockIndex
<1>7. 1..BlockIndex = (1..Len(requests[call.req].block_ids)) \cup {BlockIndex}
  BY <1>1, <1>5 DEF BlockIndex
<1>8. \A r \in Requests : r = call.req => HeldHashes(r)' = {Hash(Prompt, k) : k \in 1..BlockIndex}
  BY <1>2, <1>6 DEF HeldHashes, Prompt
<1>9. HeldHashes(call.req) = {Hash(Prompt, k) : k \in 1..Len(requests[call.req].block_ids)}
  BY DEF HeldHashes, Prompt
<1>10. \A r \in Requests : r = call.req => HeldHashes(r)' = HeldHashes(r) \cup {NextHash}
  BY <1>7, <1>8, <1>9 DEF NextHash
<1>11. NextHash \notin HeldHashes(call.req)
  <2> SUFFICES ASSUME NEW k \in 1..Len(requests[call.req].block_ids),
                      Hash(Prompt, k) = Hash(Prompt, BlockIndex)
               PROVE  FALSE
    BY <1>9 DEF NextHash
  <2>1. k \in Nat /\ k # BlockIndex
    BY <1>5 DEF BlockIndex
  <2> QED
    BY <1>1, <2>1, HashInjective
<1>12. requests' \in [Requests -> Request]
  <2> DEFINE ids == Append(requests[call.req].block_ids, id)
             rec == [requests[call.req] EXCEPT !.block_ids = ids]
  <2>1. ids \in Seq(0..(Capacity - 1))
    BY <1>5
  <2>2. requests[call.req] \in [st : {"new", "live", "done"}, prompt : Prompts \cup {<<>>},
                                block_ids : Seq(0..(Capacity - 1))]
    BY <1>1 DEF TypeOK, Request
  <2>3. requests' = [requests EXCEPT ![call.req] = rec]
    BY DEF PushBlockId
  <2> HIDE DEF ids
  <2>4. rec = [st |-> requests[call.req].st, prompt |-> requests[call.req].prompt, block_ids |-> ids]
    BY <2>2
  <2>5. rec \in Request
    BY <2>1, <2>2, <2>4 DEF Request
  <2> HIDE DEF rec
  <2> QED
    BY <1>1, <2>3, <2>5 DEF TypeOK
<1> QED
  BY <1>2, <1>3, <1>4, <1>10, <1>11, <1>12

-----------------------------------------------------------------------------
(* Every action preserves the inductive invariant                          *)

\* In the initial state nothing is cached, held or announced.
LEMMA InitIInv == Init => IInv
<1> SUFFICES ASSUME Init PROVE IInv
  OBVIOUS
<1>1. DOMAIN cached = {}
  BY DEF Init
<1>2. free_slots \in Seq(0..(Capacity - 1)) /\ Len(free_slots) = Capacity
      /\ \A i \in 1..Capacity : free_slots[i] = Capacity - i
  BY CapacityAssumption DEF Init, AllFree
<1>3. Live = {}
  BY DEF Init, Live, Fresh
<1>4. TypeOK
  BY <1>1, <1>2, <1>3, RequestsAssumption
  DEF Init, TypeOK, Idle, Fresh, NoStats, NoParent, Request, Call, Stats
<1>5. CallInv
  BY <1>3 DEF Init, CallInv, InCall, Idle, Fresh, ToSet
<1>6. SlotInv
  BY <1>1, <1>2, CapacityAssumption DEF SlotInv
<1>7. CountInv
  BY <1>1, <1>2, CapacityAssumption, FS_EmptySet DEF CountInv
<1>8. HeldSlotsIntact /\ RefcntCountsHolders
  BY <1>1, <1>3 DEF HeldSlotsIntact, RefcntCountsHolders
<1>9. MirrorExact
  BY <1>1 DEF Init, MirrorExact, Idle, ToSet
<1> QED
  BY <1>4, <1>5, <1>6, <1>7, <1>8, <1>9 DEF IInv

\* cache_prompt begins: the request is live and holds nothing yet.
LEMMA BeginIInv ==
  ASSUME IInv, NEW r \in Requests, NEW p \in Prompts, CachePromptBegin(r, p)
  PROVE  IInv'
<1>0. /\ TypeOK /\ CallInv /\ SlotInv /\ CountInv
      /\ HeldSlotsIntact /\ RefcntCountsHolders /\ MirrorExact
  BY DEF IInv
<1>1. r # NoRequest /\ Len(p.blocks) \in Nat
  BY RequestsAssumption, PromptsAssumption
<1>2. /\ requests'[r] = [st |-> "live", prompt |-> p, block_ids |-> <<>>]
      /\ \A q \in Requests : q # r => requests'[q] = requests[q]
      /\ requests[r].st = "new"
      /\ UNCHANGED <<cached, free_slots, tick, mirror>>
  BY <1>0 DEF CachePromptBegin, TypeOK
<1>3. call' = [req |-> r, in_prefix |-> TRUE, num_cached |-> 0, prev_was_miss |-> FALSE,
               run |-> <<>>, run_parent |-> NoParent, before |-> DOMAIN cached]
  BY DEF CachePromptBegin, Idle
<1>4. Live' = Live \cup {r} /\ r \notin Live /\ Live \subseteq Requests
  BY <1>2 DEF Live
<1>5. call = Idle
  BY <1>0 DEF CachePromptBegin, CallInv
<1>6. TypeOK'
  <2>1. call' \in Call
    BY <1>0, <1>3 DEF Call, TypeOK
  <2>2. stats' \in Stats
    <3>1. stats \in [requests : Nat, queries : Nat, hits : Nat]
      BY <1>0 DEF TypeOK, Stats
    <3>2. stats' = [stats EXCEPT !.requests = @ + 1, !.queries = @ + Len(p.blocks)]
      BY DEF CachePromptBegin
    <3> DEFINE n == Len(p.blocks)
    <3>3. n \in Nat
      BY <1>1
    <3> HIDE DEF n
    <3>4. stats' = [requests |-> stats.requests + 1, queries |-> stats.queries + n, hits |-> stats.hits]
      BY <3>1, <3>2 DEF n
    <3> QED
      BY <3>1, <3>3, <3>4 DEF Stats
  <2>3. requests' \in [Requests -> Request]
    BY <1>0 DEF CachePromptBegin, TypeOK, Request
  <2>4. \A q \in Live' : requests'[q].prompt \in Prompts
    BY <1>0, <1>2, <1>4 DEF TypeOK
  <2> QED
    BY <1>0, <1>2, <2>1, <2>2, <2>3, <2>4 DEF TypeOK
<1>7. CallInv'
  <2>1. ToSet(call'.run) = {}
    BY <1>3 DEF ToSet
  <2> QED
    BY <1>0, <1>1, <1>2, <1>3, <1>4, <2>1 DEF CallInv, InCall, Prompt
<1>8. SlotInv' /\ CountInv'
  BY <1>0, <1>2 DEF SlotInv, CountInv
<1>9. /\ HeldHashes(r)' = {}
      /\ \A q \in Requests : q # r => HeldHashes(q)' = HeldHashes(q)
  BY <1>2 DEF HeldHashes
<1>10. HeldSlotsIntact'
  BY <1>0, <1>2, <1>4 DEF HeldSlotsIntact
<1>11. RefcntCountsHolders'
  <2>1. \A h : Holders(h)' = Holders(h)
    BY <1>4, <1>9 DEF Holders
  <2> QED
    BY <1>0, <1>2, <2>1 DEF RefcntCountsHolders
<1>12. MirrorExact'
  BY <1>0, <1>2, <1>3, <1>5 DEF MirrorExact, Idle, ToSet
<1> QED
  BY <1>6, <1>7, <1>8, <1>10, <1>11, <1>12 DEF IInv

\* A hit pins a cached block once more, for the request that asked for it.
LEMMA HitIInv ==
  ASSUME IInv, CachePromptHit
  PROVE  IInv'
<1>0. /\ TypeOK /\ CallInv /\ SlotInv /\ CountInv
      /\ HeldSlotsIntact /\ RefcntCountsHolders /\ MirrorExact /\ InCall /\ MoreBlocks
  BY DEF IInv, CachePromptHit
<1> DEFINE c == call.req
           h0 == NextHash
           id == cached[h0].block_id
<1>1. /\ c \in Requests /\ c \in Live /\ Prompt \in Prompts
      /\ BlockIndex \in Nat \ {0} /\ Len(Prompt.blocks) \in Nat
  BY <1>0, CallFacts
<1>2. h0 \in DOMAIN cached /\ cached[h0] \in Slot /\ id \in 0..(Capacity - 1)
  BY <1>0 DEF CachePromptHit, TypeOK, Slot
<1>3. /\ DOMAIN cached' = DOMAIN cached
      /\ cached' \in [DOMAIN cached -> Slot]
      /\ \A h \in DOMAIN cached : cached'[h].block_id = cached[h].block_id
      /\ \A h \in DOMAIN cached : h # h0 => cached'[h].refcnt = cached[h].refcnt
      /\ cached'[h0].refcnt = cached[h0].refcnt + 1
  <2>1. cached' = [cached EXCEPT ![h0].refcnt = @ + 1, ![h0].last_used = tick + 1]
    BY DEF CachePromptHit
  <2>2. cached \in [DOMAIN cached -> [block_id : 0..(Capacity - 1), refcnt : Nat, last_used : Nat]]
    BY <1>0 DEF TypeOK, Slot
  <2>3. tick \in Nat
    BY <1>0 DEF TypeOK
  <2> HIDE DEF h0
  <2> QED
    BY <1>2, <2>1, <2>2, <2>3 DEF Slot
<1>4. PushBlockId(id) /\ UNCHANGED <<free_slots, stats>> /\ tick' = tick + 1
  BY DEF CachePromptHit
<1>5. /\ Live' = Live
      /\ \A r \in Requests : r # c => requests'[r] = requests[r]
      /\ \A r \in Requests : requests'[r].prompt = requests[r].prompt
      /\ requests'[c].block_ids = Append(requests[c].block_ids, id)
      /\ \A r \in Requests : HeldHashes(r)' = IF r = c THEN HeldHashes(r) \cup {h0} ELSE HeldHashes(r)
      /\ h0 \notin HeldHashes(c)
  BY <1>0, <1>2, <1>4, PushHeld
<1>6. /\ requests[c].block_ids \in Seq(0..(Capacity - 1))
      /\ requests'[c].block_ids \in Seq(0..(Capacity - 1))
      /\ Len(requests'[c].block_ids) = BlockIndex
      /\ BlockIndex = Len(requests[c].block_ids) + 1
      /\ \A k \in 1..(BlockIndex - 1) : requests'[c].block_ids[k] = requests[c].block_ids[k]
      /\ requests'[c].block_ids[BlockIndex] = id
  BY <1>0, <1>1, <1>2, <1>5 DEF TypeOK, Request, BlockIndex
<1>7. Live \subseteq Requests
  BY DEF Live
<1>8. call' \in Call /\ call'.req = c
      /\ \/ call'.run = call.run /\ mirror' = mirror
         \/ call'.run = <<>> /\ mirror' = mirror \cup ToSet(call.run)
  <2> DEFINE flush == call.prev_was_miss /\ call.run # <<>>
  <2>1. /\ mirror' = IF flush THEN mirror \cup ToSet(call.run) ELSE mirror
        /\ call' = [call EXCEPT !.prev_was_miss = FALSE,
                                !.run = IF flush THEN <<>> ELSE @,
                                !.num_cached = IF call.in_prefix THEN @ + 1 ELSE @]
    BY DEF CachePromptHit
  <2>2. call \in [req : Requests \cup {NoRequest}, in_prefix : BOOLEAN, num_cached : Nat,
                  prev_was_miss : BOOLEAN, run : Seq(Hashes), run_parent : Hashes \cup {NoParent},
                  before : SUBSET Hashes]
    BY <1>0 DEF TypeOK, Call
  <2>3. call' = [req |-> call.req, in_prefix |-> call.in_prefix,
                 num_cached |-> IF call.in_prefix THEN call.num_cached + 1 ELSE call.num_cached,
                 prev_was_miss |-> FALSE,
                 run |-> IF flush THEN <<>> ELSE call.run,
                 run_parent |-> call.run_parent,
                 before |-> call.before]
    BY <2>1, <2>2
  <2> HIDE DEF flush
  <2>4. call'.req = c
    BY <2>3
  <2>5. call' \in Call
    <3>1. (IF call.in_prefix THEN call.num_cached + 1 ELSE call.num_cached) \in Nat
      BY <2>2
    <3>2. (IF flush THEN <<>> ELSE call.run) \in Seq(Hashes)
      BY <2>2
    <3> QED
      BY <2>2, <2>3, <3>1, <3>2 DEF Call
  <2>6. \/ call'.run = call.run /\ mirror' = mirror
        \/ call'.run = <<>> /\ mirror' = mirror \cup ToSet(call.run)
    BY <2>1, <2>3
  <2> QED
    BY <2>4, <2>5, <2>6
<1>9. TypeOK'
  <2>1. requests' \in [Requests -> Request]
    BY <1>0, <1>2, <1>4, PushHeld
  <2>2. \A r \in Live' : requests'[r].prompt \in Prompts
    BY <1>0, <1>5, <1>7 DEF TypeOK
  <2>3. ToSet(call.run) \subseteq Hashes
    BY <1>0 DEF TypeOK, Call, ToSet
  <2> QED
    BY <1>0, <1>3, <1>4, <1>8, <2>1, <2>2, <2>3 DEF TypeOK
<1>10. CallInv'
  <2>1. c # NoRequest
    BY <1>1, RequestsAssumption
  <2>2. Prompt' = Prompt
    BY <1>1, <1>5, <1>8 DEF Prompt
  <2>3. BlockIndex <= Len(Prompt.blocks)
    BY <1>0 DEF MoreBlocks
  <2>4. ToSet(call'.run) \subseteq HeldHashes(c)'
    <3>1. ToSet(call'.run) \subseteq ToSet(call.run)
      BY <1>8 DEF ToSet
    <3>2. ToSet(call.run) \subseteq HeldHashes(c)
      BY <1>0 DEF CallInv
    <3>3. \A r \in Requests : r = c => HeldHashes(c) \subseteq HeldHashes(r)'
      BY <1>5
    <3> QED
      BY <1>1, <1>8, <3>1, <3>2, <3>3
  <2> QED
    BY <1>0, <1>1, <1>5, <1>6, <1>7, <1>8, <2>1, <2>2, <2>3, <2>4 DEF CallInv, InCall
<1>11. SlotInv' /\ CountInv'
  BY <1>0, <1>3, <1>4 DEF SlotInv, CountInv
<1>12. HeldSlotsIntact'
  <2> SUFFICES ASSUME NEW r \in Live, NEW k \in 1..Len(requests'[r].block_ids)
               PROVE  LET h == Hash(requests[r].prompt, k)
                      IN  h \in DOMAIN cached /\ cached[h].block_id = requests'[r].block_ids[k]
    BY <1>3, <1>5, <1>7 DEF HeldSlotsIntact
  <2>1. CASE r # c
    BY <1>0, <1>5, <1>7, <2>1 DEF HeldSlotsIntact
  <2>2. CASE r = c /\ k # BlockIndex
    BY <1>0, <1>1, <1>6, <2>2 DEF HeldSlotsIntact
  <2>3. CASE r = c /\ k = BlockIndex
    BY <1>2, <1>6, <2>3 DEF NextHash, Prompt
  <2> QED
    BY <2>1, <2>2, <2>3
<1>13. RefcntCountsHolders'
  <2> SUFFICES ASSUME NEW h \in DOMAIN cached
               PROVE  cached'[h].refcnt = Cardinality(Holders(h)')
    BY <1>3 DEF RefcntCountsHolders
  <2>1. CASE h # h0
    <3>1. Holders(h)' = Holders(h)
      BY <1>5, <1>7, <2>1 DEF Holders
    <3> QED
      BY <1>0, <1>3, <2>1, <3>1 DEF RefcntCountsHolders
  <2>2. CASE h = h0
    <3>1. Holders(h)' = Holders(h) \cup {c} /\ c \notin Holders(h)
      BY <1>1, <1>5, <1>7, <2>2 DEF Holders
    <3>2. IsFiniteSet(Holders(h))
      BY <1>7, RequestsAssumption, FS_Subset DEF Holders
    <3>3. Cardinality(Holders(h)') = Cardinality(Holders(h)) + 1
      BY <3>1, <3>2, FS_AddElement
    <3> QED
      BY <1>0, <1>3, <2>2, <3>3 DEF RefcntCountsHolders
  <2> QED
    BY <2>1, <2>2
<1>14. MirrorExact'
  <2>1. ToSet(<<>>) = {}
    BY DEF ToSet
  <2> QED
    BY <1>0, <1>3, <1>8, <2>1 DEF MirrorExact
<1> QED
  BY <1>9, <1>10, <1>11, <1>12, <1>13, <1>14 DEF IInv

\* A block without a reference is held by nobody.
LEMMA UnpinnedUnheld ==
  ASSUME RefcntCountsHolders, NEW v \in DOMAIN cached, cached[v].refcnt = 0
  PROVE  \A r \in Live : v \notin HeldHashes(r)
<1>1. IsFiniteSet(Holders(v))
  BY RequestsAssumption, FS_Subset DEF Holders, Live
<1>2. Holders(v) = {}
  BY <1>1, FS_EmptySet DEF RefcntCountsHolders
<1> QED
  BY <1>2 DEF Holders

\* A block that is not cached is held by nobody.
LEMMA UncachedUnheld ==
  ASSUME HeldSlotsIntact, NEW h, h \notin DOMAIN cached
  PROVE  \A r \in Live : h \notin HeldHashes(r)
  BY DEF HeldSlotsIntact, HeldHashes

\* A miss takes a slot nobody holds: a free one, or that of an unpinned block.
LEMMA MissIInv ==
  ASSUME IInv, CachePromptMiss
  PROVE  IInv'
<1>0. /\ TypeOK /\ CallInv /\ SlotInv /\ CountInv
      /\ HeldSlotsIntact /\ RefcntCountsHolders /\ MirrorExact /\ InCall /\ MoreBlocks
  BY DEF IInv, CachePromptMiss
<1> DEFINE c == call.req
           h0 == NextHash
<1>1. /\ c \in Requests /\ c \in Live /\ Prompt \in Prompts
      /\ BlockIndex \in Nat \ {0} /\ Len(Prompt.blocks) \in Nat
      /\ h0 \in Hashes /\ Hash(Prompt, BlockIndex - 1) \in Hashes \cup {NoParent}
  BY <1>0, CallFacts
<1>2. h0 \notin DOMAIN cached /\ tick' = tick + 1 /\ UNCHANGED stats
  BY DEF CachePromptMiss
<1>3. PICK slot \in AllocateSlot :
        /\ cached' = [h \in (DOMAIN cached \ slot.removed) \cup {h0} |->
                       IF h = h0
                         THEN [block_id |-> slot.block_id, refcnt |-> 1, last_used |-> tick + 1]
                         ELSE cached[h]]
        /\ free_slots' = slot.free
        /\ mirror' = mirror \ slot.removed
        /\ PushBlockId(slot.block_id)
  BY DEF CachePromptMiss
<1> DEFINE id == slot.block_id
           gone == slot.removed
<1>4. /\ DOMAIN cached' = (DOMAIN cached \ gone) \cup {h0}
      /\ \A h \in DOMAIN cached \ gone : cached'[h] = cached[h]
      /\ cached'[h0] = [block_id |-> id, refcnt |-> 1, last_used |-> tick + 1]
  BY <1>2, <1>3
<1>5. \/ /\ Len(free_slots) \in Nat \ {0}
         /\ id = Capacity - Len(free_slots)
         /\ gone = {}
         /\ slot.free \in Seq(0..(Capacity - 1))
         /\ Len(slot.free) = Len(free_slots) - 1
         /\ \A i \in 1..Len(slot.free) : slot.free[i] = Capacity - i
      \/ /\ free_slots = <<>>
         /\ slot.free = <<>>
         /\ \E v \in DOMAIN cached : /\ cached[v].refcnt = 0
                                     /\ id = cached[v].block_id
                                     /\ gone = {v}
  BY <1>0, AllocateFacts
<1>6. \A v \in gone : v \in DOMAIN cached /\ cached[v].refcnt = 0
  BY <1>5
<1>7. id \in 0..(Capacity - 1)
  <2>1. CASE gone = {}
    BY <1>0, <1>5, <2>1, CapacityAssumption DEF SlotInv
  <2>2. CASE gone # {}
    BY <1>0, <1>5, <2>2 DEF TypeOK, Slot
  <2> QED
    BY <2>1, <2>2
<1>8. /\ requests' \in [Requests -> Request]
      /\ Live' = Live
      /\ \A r \in Requests : r # c => requests'[r] = requests[r]
      /\ \A r \in Requests : requests'[r].prompt = requests[r].prompt
      /\ requests'[c].block_ids = Append(requests[c].block_ids, id)
      /\ \A r \in Requests : HeldHashes(r)' = IF r = c THEN HeldHashes(r) \cup {h0} ELSE HeldHashes(r)
  BY <1>0, <1>3, <1>7, PushHeld
<1>9. /\ requests[c].block_ids \in Seq(0..(Capacity - 1))
      /\ Len(requests'[c].block_ids) = BlockIndex
      /\ BlockIndex = Len(requests[c].block_ids) + 1
      /\ \A k \in 1..(BlockIndex - 1) : requests'[c].block_ids[k] = requests[c].block_ids[k]
      /\ requests'[c].block_ids[BlockIndex] = id
  BY <1>0, <1>1, <1>7, <1>8 DEF TypeOK, Request, BlockIndex
<1>10. Live \subseteq Requests
  BY DEF Live
<1>11. call' \in Call /\ call'.req = c /\ call'.run = Append(call.run, h0) /\ call.run \in Seq(Hashes)
  <2> DEFINE par == IF call.prev_was_miss THEN call.run_parent ELSE Hash(Prompt, BlockIndex - 1)
  <2>1. call' = [call EXCEPT !.in_prefix = FALSE, !.prev_was_miss = TRUE,
                             !.run = Append(@, h0), !.run_parent = par]
    BY DEF CachePromptMiss
  <2>2. call \in [req : Requests \cup {NoRequest}, in_prefix : BOOLEAN, num_cached : Nat,
                  prev_was_miss : BOOLEAN, run : Seq(Hashes), run_parent : Hashes \cup {NoParent},
                  before : SUBSET Hashes]
    BY <1>0 DEF TypeOK, Call
  <2>3. par \in Hashes \cup {NoParent}
    BY <1>1, <2>2
  <2> HIDE DEF par, h0
  <2>4. call' = [req |-> call.req, in_prefix |-> FALSE, num_cached |-> call.num_cached,
                 prev_was_miss |-> TRUE, run |-> Append(call.run, h0), run_parent |-> par,
                 before |-> call.before]
    BY <2>1, <2>2
  <2>5. Append(call.run, h0) \in Seq(Hashes)
    BY <1>1, <2>2
  <2> QED
    BY <2>2, <2>3, <2>4, <2>5 DEF Call
<1>12. TypeOK'
  <2>1. tick \in Nat /\ tick' \in Nat
    BY <1>0, <1>2 DEF TypeOK
  <2>2. cached'[h0] \in Slot
    BY <1>4, <1>7, <2>1 DEF Slot
  <2>3. cached' \in [DOMAIN cached' -> Slot] /\ DOMAIN cached' \subseteq Hashes
    BY <1>0, <1>1, <1>3, <1>4, <2>2 DEF TypeOK
  <2>4. free_slots' \in Seq(0..(Capacity - 1))
    <3>1. <<>> \in Seq(0..(Capacity - 1))
      OBVIOUS
    <3> QED
      BY <1>3, <1>5, <3>1
  <2>5. \A r \in Live' : requests'[r].prompt \in Prompts
    BY <1>0, <1>8, <1>10 DEF TypeOK
  <2> QED
    BY <1>0, <1>2, <1>3, <1>8, <1>11, <2>1, <2>3, <2>4, <2>5 DEF TypeOK
<1>13. ToSet(call'.run) = ToSet(call.run) \cup {h0}
  <2> HIDE DEF h0
  <2>1. /\ Len(Append(call.run, h0)) = Len(call.run) + 1
        /\ \A i \in 1..Len(call.run) : Append(call.run, h0)[i] = call.run[i]
        /\ Append(call.run, h0)[Len(call.run) + 1] = h0
        /\ DOMAIN Append(call.run, h0) = 1..(Len(call.run) + 1)
        /\ DOMAIN call.run = 1..Len(call.run)
        /\ Len(call.run) \in Nat
    BY <1>1, <1>11
  <2>2. 1..(Len(call.run) + 1) = 1..Len(call.run) \cup {Len(call.run) + 1}
    BY <2>1
  <2> QED
    BY <1>11, <2>1, <2>2 DEF ToSet
<1>14. CallInv'
  <2>1. c # NoRequest
    BY <1>1, RequestsAssumption
  <2>2. Prompt' = Prompt
    BY <1>1, <1>8, <1>11 DEF Prompt
  <2>3. BlockIndex <= Len(Prompt.blocks)
    BY <1>0 DEF MoreBlocks
  <2>4. ToSet(call'.run) \subseteq HeldHashes(c)'
    <3>1. ToSet(call.run) \subseteq HeldHashes(c)
      BY <1>0 DEF CallInv
    <3>2. \A r \in Requests : r = c => HeldHashes(r)' = HeldHashes(c) \cup {h0}
      BY <1>8
    <3> QED
      BY <1>1, <1>11, <1>13, <3>1, <3>2
  <2> QED
    BY <1>0, <1>1, <1>8, <1>9, <1>10, <1>11, <2>1, <2>2, <2>3, <2>4 DEF CallInv, InCall
<1>15. SlotInv'
  <2> DEFINE n == Capacity - Len(free_slots)
  <2>0. n \in Nat /\ Len(free_slots) \in Nat
    BY <1>0, CapacityAssumption DEF SlotInv, TypeOK
  <2>1. {cached[h].block_id : h \in DOMAIN cached} = 0..(n - 1)
        /\ \A g, h \in DOMAIN cached : cached[g].block_id = cached[h].block_id => g = h
    BY <1>0 DEF SlotInv
  <2>2. CASE gone = {}
    <3>1. Len(free_slots) \in Nat \ {0} /\ id = n
          /\ Len(free_slots') = Len(free_slots) - 1
          /\ \A i \in 1..Len(free_slots') : free_slots'[i] = Capacity - i
      BY <1>3, <1>5, <2>2
    <3>2. {cached'[h].block_id : h \in DOMAIN cached'} = {cached[h].block_id : h \in DOMAIN cached} \cup {n}
      BY <1>2, <1>4, <2>2, <3>1
    <3>3. (0..(n - 1)) \cup {n} = 0..(Capacity - Len(free_slots') - 1)
      <4>1. Capacity - Len(free_slots') - 1 = n
        BY <2>0, <3>1, CapacityAssumption
      <4> HIDE DEF n
      <4>2. (0..(n - 1)) \cup {n} = 0..n
        BY <2>0
      <4> QED
        BY <4>1, <4>2
    <3>4. \A h \in DOMAIN cached : cached[h].block_id # n
      BY <2>0, <2>1
    <3>5. \A g, h \in DOMAIN cached' : cached'[g].block_id = cached'[h].block_id => g = h
      BY <1>2, <1>4, <2>1, <2>2, <3>1, <3>4
    <3>6. Len(free_slots') <= Capacity
      BY <2>0, <3>1, CapacityAssumption
    <3> QED
      BY <2>1, <3>1, <3>2, <3>3, <3>5, <3>6 DEF SlotInv
  <2>3. CASE gone # {}
    <3>1. PICK v \in DOMAIN cached : id = cached[v].block_id /\ gone = {v}
      BY <1>5, <2>3
    <3>2. free_slots' = free_slots
      BY <1>3, <1>5, <2>3
    <3>3. {cached'[h].block_id : h \in DOMAIN cached'} = {cached[h].block_id : h \in DOMAIN cached}
      BY <1>2, <1>4, <3>1
    <3>4. \A g, h \in DOMAIN cached' : cached'[g].block_id = cached'[h].block_id => g = h
      BY <1>2, <1>4, <2>1, <3>1
    <3> QED
      BY <1>0, <3>2, <3>3, <3>4 DEF SlotInv
  <2> QED
    BY <2>2, <2>3
<1>16. CountInv'
  <2>0. Len(free_slots) \in Nat /\ IsFiniteSet(DOMAIN cached)
        /\ Cardinality(DOMAIN cached) = Capacity - Len(free_slots)
    BY <1>0 DEF TypeOK, CountInv
  <2>1. CASE gone = {}
    <3>1. DOMAIN cached' = DOMAIN cached \cup {h0}
      BY <1>4, <2>1
    <3>2. IsFiniteSet(DOMAIN cached') /\ Cardinality(DOMAIN cached') = Cardinality(DOMAIN cached) + 1
      BY <1>2, <2>0, <3>1, FS_AddElement
    <3> QED
      BY <1>3, <1>5, <2>0, <2>1, <3>2, CapacityAssumption DEF CountInv
  <2>2. CASE gone # {}
    <3>1. PICK v \in DOMAIN cached : gone = {v} /\ free_slots' = free_slots
      BY <1>3, <1>5, <2>2
    <3>2. IsFiniteSet(DOMAIN cached \ {v})
          /\ Cardinality(DOMAIN cached \ {v}) = Cardinality(DOMAIN cached) - 1
      BY <2>0, FS_RemoveElement
    <3>3. DOMAIN cached' = (DOMAIN cached \ {v}) \cup {h0} /\ h0 \notin DOMAIN cached \ {v}
      BY <1>2, <1>4, <3>1
    <3>4. IsFiniteSet(DOMAIN cached')
          /\ Cardinality(DOMAIN cached') = Cardinality(DOMAIN cached \ {v}) + 1
      BY <3>2, <3>3, FS_AddElement
    <3> QED
      BY <2>0, <3>1, <3>2, <3>4, CapacityAssumption DEF CountInv
  <2> QED
    BY <2>1, <2>2
<1>17. \A v \in gone : \A r \in Live : v \notin HeldHashes(r)
  BY <1>0, <1>6, UnpinnedUnheld
<1>18. \A r \in Live : h0 \notin HeldHashes(r)
  BY <1>0, <1>2, UncachedUnheld
<1>19. HeldSlotsIntact'
  <2> SUFFICES ASSUME NEW r \in Live, NEW k \in 1..Len(requests'[r].block_ids)
               PROVE  LET h == Hash(requests[r].prompt, k)
                      IN  h \in DOMAIN cached' /\ cached'[h].block_id = requests'[r].block_ids[k]
    BY <1>8, <1>10 DEF HeldSlotsIntact
  <2>1. ASSUME k \in 1..Len(requests[r].block_ids)
        PROVE  LET h == Hash(requests[r].prompt, k)
               IN  /\ h \in DOMAIN cached \ gone
                   /\ cached[h].block_id = requests[r].block_ids[k]
    <3>1. Hash(requests[r].prompt, k) \in HeldHashes(r)
      BY <2>1 DEF HeldHashes
    <3> QED
      BY <1>0, <1>17, <2>1, <3>1 DEF HeldSlotsIntact
  <2>2. CASE r # c
    BY <1>4, <1>8, <1>10, <2>1, <2>2
  <2>3. CASE r = c /\ k # BlockIndex
    <3>1. k \in 1..(BlockIndex - 1) /\ k \in 1..Len(requests[r].block_ids)
      BY <1>1, <1>9, <2>3
    <3> QED
      BY <1>4, <1>9, <2>1, <2>3, <3>1
  <2>4. CASE r = c /\ k = BlockIndex
    BY <1>4, <1>9, <2>4 DEF NextHash, Prompt
  <2> QED
    BY <2>2, <2>3, <2>4
<1>20. RefcntCountsHolders'
  <2> SUFFICES ASSUME NEW h \in DOMAIN cached'
               PROVE  cached'[h].refcnt = Cardinality(Holders(h)')
    BY DEF RefcntCountsHolders
  <2>1. CASE h # h0
    <3>1. Holders(h)' = Holders(h)
      BY <1>8, <1>10, <2>1 DEF Holders
    <3> QED
      BY <1>0, <1>4, <2>1, <3>1 DEF RefcntCountsHolders
  <2>2. CASE h = h0
    <3>1. Holders(h)' = {c}
      BY <1>1, <1>8, <1>10, <1>18, <2>2 DEF Holders
    <3> QED
      BY <1>4, <2>2, <3>1, FS_Singleton
  <2> QED
    BY <2>1, <2>2
<1>21. MirrorExact'
  <2>1. gone \cap ToSet(call.run) = {}
    BY <1>0, <1>1, <1>17 DEF CallInv
  <2> QED
    BY <1>0, <1>2, <1>3, <1>4, <1>13, <2>1 DEF MirrorExact
<1> QED
  BY <1>12, <1>14, <1>15, <1>16, <1>19, <1>20, <1>21 DEF IInv

\* cache_prompt returns: what was still unannounced is announced.
LEMMA ReturnIInv ==
  ASSUME IInv, CachePromptReturn
  PROVE  IInv'
<1>0. /\ TypeOK /\ CallInv /\ SlotInv /\ CountInv
      /\ HeldSlotsIntact /\ RefcntCountsHolders /\ MirrorExact
  BY DEF IInv
<1>1. /\ UNCHANGED <<cached, free_slots, tick, requests>>
      /\ mirror' = mirror \cup ToSet(call.run)
      /\ call' = Idle
  BY DEF CachePromptReturn
<1>2. Live' = Live /\ \A r : HeldHashes(r)' = HeldHashes(r)
  BY <1>1 DEF Live, HeldHashes
<1>3. ToSet(call.run) \subseteq Hashes
  BY <1>0 DEF TypeOK, Call, ToSet
<1>4. stats' \in Stats
  <2>1. stats \in [requests : Nat, queries : Nat, hits : Nat] /\ call.num_cached \in Nat
    BY <1>0 DEF TypeOK, Stats, Call
  <2>2. stats' = [stats EXCEPT !.hits = @ + call.num_cached]
    BY DEF CachePromptReturn
  <2>3. stats' = [requests |-> stats.requests, queries |-> stats.queries,
                  hits |-> stats.hits + call.num_cached]
    BY <2>1, <2>2
  <2> QED
    BY <2>1, <2>3 DEF Stats
<1>5. Idle \in Call
  BY DEF Idle, Call
<1>6. TypeOK'
  BY <1>0, <1>1, <1>2, <1>3, <1>4, <1>5 DEF TypeOK
<1>7. CallInv'
  BY <1>0, <1>1, <1>2 DEF CallInv, InCall, Idle
<1>8. SlotInv' /\ CountInv' /\ HeldSlotsIntact'
  BY <1>0, <1>1, <1>2 DEF SlotInv, CountInv, HeldSlotsIntact
<1>9. RefcntCountsHolders'
  <2>1. \A h : Holders(h)' = Holders(h)
    BY <1>2 DEF Holders
  <2> QED
    BY <1>0, <1>1, <2>1 DEF RefcntCountsHolders
<1>10. MirrorExact'
  <2>1. ToSet(Idle.run) = {}
    BY DEF Idle, ToSet
  <2> QED
    BY <1>0, <1>1, <2>1 DEF MirrorExact
<1> QED
  BY <1>6, <1>7, <1>8, <1>9, <1>10 DEF IInv

\* unpin takes one reference from exactly the blocks the request held.
LEMMA UnpinIInv ==
  ASSUME IInv, NEW r \in Requests, Unpin(r)
  PROVE  IInv'
<1>0. /\ TypeOK /\ CallInv /\ SlotInv /\ CountInv
      /\ HeldSlotsIntact /\ RefcntCountsHolders /\ MirrorExact
  BY DEF IInv
<1>1. /\ ~InCall /\ r \in Live /\ call = Idle
      /\ UNCHANGED <<free_slots, tick, stats, call, mirror>>
  BY <1>0 DEF Unpin, CallInv
<1>2. /\ \A q \in Requests : q # r => requests'[q] = requests[q]
      /\ requests'[r] = Ended
      /\ requests' \in [Requests -> Request]
  BY <1>0 DEF Unpin, TypeOK, Ended, Request
<1>3. Live' = Live \ {r} /\ Live \subseteq Requests
  BY <1>2 DEF Live, Ended
<1>4. /\ \A q \in Requests : q # r => HeldHashes(q)' = HeldHashes(q)
  BY <1>2 DEF HeldHashes
<1>5. \A h \in DOMAIN cached : cached[h].block_id \in IdSet(r) <=> h \in HeldHashes(r)
  <2>1. requests[r].block_ids \in Seq(0..(Capacity - 1))
    BY <1>0 DEF TypeOK, Request
  <2>2. DOMAIN requests[r].block_ids = 1..Len(requests[r].block_ids)
    BY <2>1
  <2>3. \A k \in 1..Len(requests[r].block_ids) :
           /\ Hash(requests[r].prompt, k) \in DOMAIN cached
           /\ cached[Hash(requests[r].prompt, k)].block_id = requests[r].block_ids[k]
    BY <1>0, <1>1 DEF HeldSlotsIntact
  <2>4. \A g, h \in DOMAIN cached : cached[g].block_id = cached[h].block_id => g = h
    BY <1>0 DEF SlotInv
  <2> QED
    BY <2>2, <2>3, <2>4 DEF IdSet, ToSet, HeldHashes
<1>6. \A h \in DOMAIN cached : cached[h] \in [block_id : 0..(Capacity - 1), refcnt : Nat, last_used : Nat]
  BY <1>0 DEF TypeOK, Slot
<1>7. \A h \in DOMAIN cached : h \in HeldHashes(r) => cached[h].refcnt # 0
  BY <1>0, <1>1, UnpinnedUnheld
<1>8. /\ DOMAIN cached' = DOMAIN cached
      /\ \A h \in DOMAIN cached :
           /\ cached'[h] \in Slot
           /\ cached'[h].block_id = cached[h].block_id
           /\ cached'[h].refcnt = IF h \in HeldHashes(r) THEN cached[h].refcnt - 1 ELSE cached[h].refcnt
  <2>1. cached' = [h \in DOMAIN cached |->
                  IF cached[h].block_id \in IdSet(r) /\ cached[h].refcnt > 0
                    THEN [cached[h] EXCEPT !.refcnt = @ - 1]
                    ELSE cached[h]]
    BY DEF Unpin
  <2>2. DOMAIN cached' = DOMAIN cached
    BY <2>1
  <2> SUFFICES ASSUME NEW h \in DOMAIN cached
               PROVE  /\ cached'[h] \in Slot
                      /\ cached'[h].block_id = cached[h].block_id
                      /\ cached'[h].refcnt = IF h \in HeldHashes(r) THEN cached[h].refcnt - 1
                                                                     ELSE cached[h].refcnt
    BY <2>2
  <2>3. cached[h] \in [block_id : 0..(Capacity - 1), refcnt : Nat, last_used : Nat]
    BY <1>6
  <2>4. CASE h \in HeldHashes(r)
    <3>1. cached'[h] = [cached[h] EXCEPT !.refcnt = @ - 1]
      BY <1>5, <1>7, <2>1, <2>3, <2>4
    <3>2. cached'[h] = [block_id |-> cached[h].block_id, refcnt |-> cached[h].refcnt - 1,
                        last_used |-> cached[h].last_used]
      BY <2>3, <3>1
    <3> QED
      BY <1>7, <2>3, <2>4, <3>2 DEF Slot
  <2>5. CASE h \notin HeldHashes(r)
    BY <1>5, <2>1, <2>3, <2>5 DEF Slot
  <2> QED
    BY <2>4, <2>5
<1>9. TypeOK'
  <2>1. cached' \in [DOMAIN cached' -> Slot]
    BY <1>8 DEF Unpin
  <2>2. \A q \in Live' : requests'[q].prompt \in Prompts
    BY <1>0, <1>2, <1>3 DEF TypeOK
  <2> QED
    BY <1>0, <1>1, <1>2, <1>8, <2>1, <2>2 DEF TypeOK
<1>10. CallInv'
  BY <1>0, <1>1, <1>2, <1>3 DEF CallInv, InCall, Ended
<1>11. SlotInv' /\ CountInv'
  BY <1>0, <1>1, <1>8 DEF SlotInv, CountInv
<1>12. HeldSlotsIntact'
  BY <1>0, <1>2, <1>3, <1>8 DEF HeldSlotsIntact
<1>13. RefcntCountsHolders'
  <2> SUFFICES ASSUME NEW h \in DOMAIN cached
               PROVE  cached'[h].refcnt = Cardinality(Holders(h)')
    BY <1>8 DEF RefcntCountsHolders
  <2>1. Holders(h)' = Holders(h) \ {r}
    BY <1>3, <1>4 DEF Holders
  <2>2. cached[h].refcnt = Cardinality(Holders(h))
    BY <1>0 DEF RefcntCountsHolders
  <2>3. CASE h \in HeldHashes(r)
    <3>1. r \in Holders(h)
      BY <1>1, <2>3 DEF Holders
    <3>2. IsFiniteSet(Holders(h))
      BY <1>3, RequestsAssumption, FS_Subset DEF Holders
    <3>3. Cardinality(Holders(h) \ {r}) = Cardinality(Holders(h)) - 1
      BY <3>1, <3>2, FS_RemoveElement
    <3> QED
      BY <1>8, <2>1, <2>2, <2>3, <3>3
  <2>4. CASE h \notin HeldHashes(r)
    <3>1. Holders(h) \ {r} = Holders(h)
      BY <2>4 DEF Holders
    <3> QED
      BY <1>8, <2>1, <2>2, <2>4, <3>1
  <2> QED
    BY <2>3, <2>4
<1>14. MirrorExact'
  BY <1>0, <1>1, <1>8 DEF MirrorExact
<1> QED
  BY <1>9, <1>10, <1>11, <1>12, <1>13, <1>14 DEF IInv

\* reset starts over, and no request is live to notice.
LEMMA ResetIInv ==
  ASSUME IInv, Reset
  PROVE  IInv'
<1>0. /\ TypeOK /\ CallInv /\ MirrorExact /\ call = Idle
  BY DEF IInv, Reset, CallInv
<1>1. /\ Live = {} /\ DOMAIN cached' = {} /\ mirror' = {}
      /\ free_slots' = AllFree
      /\ UNCHANGED <<tick, stats, requests, call>>
  BY DEF Reset
<1>2. /\ free_slots' \in Seq(0..(Capacity - 1)) /\ Len(free_slots') = Capacity
      /\ \A i \in 1..Capacity : free_slots'[i] = Capacity - i
  BY <1>1, CapacityAssumption DEF AllFree
<1>3. Live' = {}
  BY <1>1 DEF Live
<1>4. cached' \in [DOMAIN cached' -> Slot]
  BY <1>1 DEF Reset
<1>5. TypeOK'
  BY <1>0, <1>1, <1>2, <1>3, <1>4 DEF TypeOK
<1>6. CallInv'
  BY <1>0, <1>1, <1>3 DEF CallInv, InCall, Idle
<1>7. SlotInv'
  BY <1>1, <1>2, CapacityAssumption DEF SlotInv
<1>8. CountInv'
  BY <1>1, <1>2, CapacityAssumption, FS_EmptySet DEF CountInv
<1>9. HeldSlotsIntact' /\ RefcntCountsHolders'
  BY <1>1, <1>3 DEF HeldSlotsIntact, RefcntCountsHolders
<1>10. MirrorExact'
  BY <1>0, <1>1 DEF MirrorExact, Idle, ToSet
<1> QED
  BY <1>5, <1>6, <1>7, <1>8, <1>9, <1>10 DEF IInv

\* Only the counters change, or nothing at all.
LEMMA FrameIInv ==
  ASSUME IInv, stats' \in Stats, UNCHANGED <<cached, free_slots, tick, requests, call, mirror>>
  PROVE  IInv'
<1>1. Live' = Live /\ \A r : HeldHashes(r)' = HeldHashes(r)
  BY DEF Live, HeldHashes
<1>2. \A h : Holders(h)' = Holders(h)
  BY <1>1 DEF Holders
<1>3. TypeOK'
  BY <1>1 DEF IInv, TypeOK
<1>4. CallInv'
  BY <1>1 DEF IInv, CallInv, InCall, Prompt
<1>5. SlotInv' /\ CountInv' /\ MirrorExact'
  BY DEF IInv, SlotInv, CountInv, MirrorExact
<1>6. HeldSlotsIntact' /\ RefcntCountsHolders'
  BY <1>1, <1>2 DEF IInv, HeldSlotsIntact, RefcntCountsHolders
<1> QED
  BY <1>3, <1>4, <1>5, <1>6 DEF IInv

\* The invariant is inductive.
LEMMA NextIInv == IInv /\ [Next]_vars => IInv'
<1> SUFFICES ASSUME IInv, [Next]_vars PROVE IInv'
  OBVIOUS
<1>1. ASSUME NEW r \in Requests, NEW p \in Prompts, CachePromptBegin(r, p) PROVE IInv'
  BY <1>1, BeginIInv
<1>2. CASE CachePromptHit
  BY <1>2, HitIInv
<1>3. CASE CachePromptMiss
  BY <1>3, MissIInv
<1>4. CASE CachePromptReturn
  BY <1>4, ReturnIInv
<1>5. ASSUME NEW r \in Requests, Unpin(r) PROVE IInv'
  BY <1>5, UnpinIInv
<1>6. CASE Reset
  BY <1>6, ResetIInv
<1>7. CASE TakeStats
  <2>1. stats' \in Stats
    BY <1>7 DEF TakeStats, NoStats, Stats
  <2> QED
    BY <1>7, <2>1, FrameIInv DEF TakeStats
<1>8. CASE UNCHANGED vars
  <2>1. stats' \in Stats
    BY <1>8 DEF vars, IInv, TypeOK
  <2> QED
    BY <1>8, <2>1, FrameIInv DEF vars
<1> QED
  BY <1>1, <1>2, <1>3, <1>4, <1>5, <1>6, <1>7, <1>8 DEF Next

-----------------------------------------------------------------------------
(* The theorems                                                            *)

\* Every behaviour of the pool satisfies the inductive invariant.
THEOREM Invariance == Spec => []IInv
  BY InitIInv, NextIInv, PTL DEF Spec

\* The pool's fields and the locals of cache_prompt keep their types.
THEOREM TypeCorrect == Spec => []TypeOK
<1>1. IInv => TypeOK
  BY DEF IInv
<1> QED
  BY <1>1, Invariance, PTL

\* Every slot is free or backs exactly one block, whatever the calls.
THEOREM SlotsNeverShared == Spec => []SlotsPartitioned
<1>1. IInv => SlotsPartitioned
  <2> SUFFICES ASSUME IInv PROVE SlotsPartitioned
    OBVIOUS
  <2> DEFINE n == Len(free_slots)
  <2>1. /\ n \in Nat /\ n <= Capacity /\ Capacity \in Nat
        /\ DOMAIN free_slots = 1..n
        /\ \A i \in 1..n : free_slots[i] = Capacity - i
    BY CapacityAssumption DEF IInv, TypeOK, SlotInv
  <2>2. /\ {cached[h].block_id : h \in DOMAIN cached} = 0..(Capacity - n - 1)
        /\ \A g, h \in DOMAIN cached : cached[g].block_id = cached[h].block_id => g = h
    BY DEF IInv, SlotInv
  <2> HIDE DEF n
  <2>3. ToSet(free_slots) = (Capacity - n)..(Capacity - 1)
    <3>1. ToSet(free_slots) = {Capacity - i : i \in 1..n}
      BY <2>1 DEF ToSet
    <3>2. \A x \in (Capacity - n)..(Capacity - 1) : Capacity - x \in 1..n /\ x = Capacity - (Capacity - x)
      BY <2>1
    <3>3. \A i \in 1..n : Capacity - i \in (Capacity - n)..(Capacity - 1)
      BY <2>1
    <3> QED
      BY <3>1, <3>2, <3>3
  <2>4. IsInjective(free_slots)
    BY <2>1 DEF IsInjective
  <2>5. (0..(Capacity - n - 1)) \cap ((Capacity - n)..(Capacity - 1)) = {}
    BY <2>1
  <2>6. (0..(Capacity - n - 1)) \cup ((Capacity - n)..(Capacity - 1)) = 0..(Capacity - 1)
    BY <2>1
  <2> QED
    BY <2>2, <2>3, <2>4, <2>5, <2>6 DEF SlotsPartitioned
<1> QED
  BY <1>1, Invariance, PTL

\* A live request's slots keep its blocks.
THEOREM PinsProtect == Spec => []HeldSlotsIntact
<1>1. IInv => HeldSlotsIntact
  BY DEF IInv
<1> QED
  BY <1>1, Invariance, PTL

\* Reference counts count the live holders.
THEOREM PinsCounted == Spec => []RefcntCountsHolders
<1>1. IInv => RefcntCountsHolders
  BY DEF IInv
<1> QED
  BY <1>1, Invariance, PTL

\* The event stream rebuilds the cache.
THEOREM EventsRebuildCache == Spec => []MirrorExact
<1>1. IInv => MirrorExact
  BY DEF IInv
<1> QED
  BY <1>1, Invariance, PTL

-----------------------------------------------------------------------------
(* The pool implements PrefixCache                                         *)

\* A request that is not live holds nothing.
LEMMA OnlyLiveHold ==
  ASSUME IInv, NEW r \in Requests, r \notin Live
  PROVE  HeldHashes(r) = {}
<1>1. requests[r].block_ids = <<>>
  BY DEF IInv, CallInv
<1> QED
  BY <1>1 DEF HeldHashes

\* PrefixCache counts as the pool does (it extends FiniteSets on its own).
LEMMA SameCardinality ==
  ASSUME NEW S
  PROVE  Abstract!Cardinality(S) = Cardinality(S)
  BY DEF Abstract!Cardinality, Cardinality

\* A hit shares a resident block.
LEMMA HitShares ==
  ASSUME IInv, CachePromptHit
  PROVE  \E r \in Requests, b \in Hashes : Abstract!Share(r, b)
<1>1. TypeOK /\ CallInv /\ InCall /\ MoreBlocks
  BY DEF IInv, CachePromptHit
<1>2. call.req \in Requests /\ NextHash \in Hashes
  BY <1>1, CallFacts
<1>3. NextHash \in DOMAIN cached /\ cached[NextHash].block_id \in 0..(Capacity - 1)
  BY <1>1 DEF CachePromptHit, TypeOK, Slot
<1>4. \A r \in Requests :
        HeldHashes(r)' = IF r = call.req THEN HeldHashes(r) \cup {NextHash} ELSE HeldHashes(r)
  BY <1>1, <1>3, PushHeld DEF CachePromptHit
<1>5. DOMAIN cached' = DOMAIN cached
  BY DEF CachePromptHit
<1>6. [r \in Requests |-> HeldHashes(r)]'
        = [[r \in Requests |-> HeldHashes(r)] EXCEPT ![call.req] = @ \cup {NextHash}]
  BY <1>2, <1>4
<1>7. Abstract!Share(call.req, NextHash)
  BY <1>3, <1>5, <1>6 DEF Abstract!Share
<1> QED
  BY <1>2, <1>7

\* A miss stores a block, dropping an unheld one only from a full pool.
LEMMA MissStores ==
  ASSUME IInv, CachePromptMiss
  PROVE  \E r \in Requests, b \in Hashes : Abstract!Store(r, b)
<1>1. /\ TypeOK /\ CallInv /\ SlotInv /\ CountInv /\ RefcntCountsHolders
      /\ InCall /\ MoreBlocks /\ NextHash \notin DOMAIN cached
  BY DEF IInv, CachePromptMiss
<1>2. call.req \in Requests /\ NextHash \in Hashes
  BY <1>1, CallFacts
<1>3. PICK slot \in AllocateSlot :
        /\ DOMAIN cached' = (DOMAIN cached \ slot.removed) \cup {NextHash}
        /\ PushBlockId(slot.block_id)
  BY DEF CachePromptMiss
<1>4. \/ /\ Len(free_slots) \in Nat \ {0}
         /\ slot.block_id = Capacity - Len(free_slots)
         /\ slot.removed = {}
      \/ /\ free_slots = <<>>
         /\ \E v \in DOMAIN cached : /\ cached[v].refcnt = 0
                                     /\ slot.block_id = cached[v].block_id
                                     /\ slot.removed = {v}
  BY <1>1, AllocateFacts
<1>5. slot.block_id \in 0..(Capacity - 1)
  <2>1. CASE slot.removed = {}
    BY <1>1, <1>4, <2>1, CapacityAssumption DEF SlotInv
  <2>2. CASE slot.removed # {}
    BY <1>1, <1>4, <2>2 DEF TypeOK, Slot
  <2> QED
    BY <2>1, <2>2
<1>6. \A r \in Requests :
        HeldHashes(r)' = IF r = call.req THEN HeldHashes(r) \cup {NextHash} ELSE HeldHashes(r)
  BY <1>1, <1>3, <1>5, PushHeld
<1>7. [r \in Requests |-> HeldHashes(r)]'
        = [[r \in Requests |-> HeldHashes(r)] EXCEPT ![call.req] = @ \cup {NextHash}]
  BY <1>2, <1>6
<1>8. Cardinality(DOMAIN cached) = Capacity - Len(free_slots)
  BY <1>1 DEF CountInv
<1>9. CASE slot.removed = {}
  <2>1. Cardinality(DOMAIN cached) < Capacity
    BY <1>1, <1>4, <1>8, <1>9, CapacityAssumption
  <2>2. DOMAIN cached' = DOMAIN cached \cup {NextHash}
    BY <1>3, <1>9
  <2>3. Abstract!Store(call.req, NextHash)
    BY <1>1, <1>7, <2>1, <2>2, SameCardinality DEF Abstract!Store
  <2> QED
    BY <1>2, <2>3
<1>10. CASE slot.removed # {}
  <2>1. PICK v \in DOMAIN cached : cached[v].refcnt = 0 /\ slot.removed = {v}
    BY <1>4, <1>10
  <2>2. Cardinality(DOMAIN cached) = Capacity
    <3>1. Len(free_slots) = 0
      BY <1>4, <1>10
    <3> QED
      BY <1>8, <3>1, CapacityAssumption
  <2>3. v \notin Abstract!Held
    <3>1. \A r \in Live : v \notin HeldHashes(r)
      BY <1>1, <2>1, UnpinnedUnheld
    <3>2. \A r \in Requests : v \notin HeldHashes(r)
      BY <3>1, OnlyLiveHold
    <3> QED
      BY <3>2 DEF Abstract!Held
  <2>4. DOMAIN cached' = (DOMAIN cached \ {v}) \cup {NextHash}
    BY <1>3, <2>1
  <2>5. Abstract!Store(call.req, NextHash)
    BY <1>1, <1>7, <2>1, <2>2, <2>3, <2>4, SameCardinality DEF Abstract!Store
  <2> QED
    BY <1>2, <2>5
<1> QED
  BY <1>9, <1>10

\* unpin releases the request's holds.
LEMMA UnpinReleases ==
  ASSUME IInv, NEW r \in Requests, Unpin(r)
  PROVE  Abstract!Release(r)
<1>1. /\ DOMAIN cached' = DOMAIN cached
      /\ requests' = [requests EXCEPT ![r] = Ended]
      /\ requests \in [Requests -> Request]
  BY DEF Unpin, IInv, TypeOK
<1>2. \A q \in Requests : HeldHashes(q)' = IF q = r THEN {} ELSE HeldHashes(q)
  BY <1>1 DEF HeldHashes, Ended
<1>3. [q \in Requests |-> HeldHashes(q)]' = [[q \in Requests |-> HeldHashes(q)] EXCEPT ![r] = {}]
  BY <1>2
<1> QED
  BY <1>1, <1>3 DEF Abstract!Release

\* Steps that touch neither the cached set nor the holds are stutters.
LEMMA HoldsUnchanged ==
  ASSUME DOMAIN cached' = DOMAIN cached,
         \A r \in Requests : HeldHashes(r)' = HeldHashes(r)
  PROVE  UNCHANGED Abstract!vars
<1>1. [r \in Requests |-> HeldHashes(r)]' = [r \in Requests |-> HeldHashes(r)]
  OBVIOUS
<1> QED
  BY <1>1 DEF Abstract!vars

\* The pool implements the bounded cache with holds: pinned blocks stay, and
\* eviction happens only in a full pool.
THEOREM PoolRefinesPrefixCache == Spec => Refinement
<1>1. Init => Abstract!Init
  <2> SUFFICES ASSUME Init PROVE Abstract!Init
    OBVIOUS
  <2>1. \A r \in Requests : HeldHashes(r) = {}
    BY DEF Init, Fresh, HeldHashes
  <2> QED
    BY <2>1 DEF Init, Abstract!Init
<1>2. IInv /\ [Next]_vars => [Abstract!Next]_(Abstract!vars)
  <2> SUFFICES ASSUME IInv, [Next]_vars
               PROVE  Abstract!Next \/ UNCHANGED Abstract!vars
    OBVIOUS
  <2>1. ASSUME NEW r \in Requests, NEW p \in Prompts, CachePromptBegin(r, p)
        PROVE  UNCHANGED Abstract!vars
    <3>1. /\ requests' = [requests EXCEPT ![r] = [st |-> "live", prompt |-> p, block_ids |-> <<>>]]
          /\ requests \in [Requests -> Request] /\ requests[r].st = "new"
          /\ DOMAIN cached' = DOMAIN cached
      BY <2>1 DEF CachePromptBegin, IInv, TypeOK
    <3>2. r \notin Live
      BY <3>1 DEF Live
    <3>3. HeldHashes(r) = {}
      BY <3>2, OnlyLiveHold
    <3>4. \A q \in Requests : HeldHashes(q)' = HeldHashes(q)
      BY <3>1, <3>3 DEF HeldHashes
    <3> QED
      BY <3>1, <3>4, HoldsUnchanged
  <2>2. CASE CachePromptHit
    BY <2>2, HitShares DEF Abstract!Next
  <2>3. CASE CachePromptMiss
    BY <2>3, MissStores DEF Abstract!Next
  <2>4. CASE CachePromptReturn \/ TakeStats \/ UNCHANGED vars
    <3>1. cached' = cached /\ requests' = requests
      BY <2>4 DEF CachePromptReturn, TakeStats, vars
    <3>2. \A q \in Requests : HeldHashes(q)' = HeldHashes(q)
      BY <3>1 DEF HeldHashes
    <3> QED
      BY <3>1, <3>2, HoldsUnchanged
  <2>5. ASSUME NEW r \in Requests, Unpin(r) PROVE Abstract!Next
    BY <2>5, UnpinReleases DEF Abstract!Next
  <2>6. CASE Reset
    <3>1. Live = {} /\ DOMAIN cached' = {} /\ requests' = requests
      BY <2>6 DEF Reset
    <3>2. \A q \in Requests : HeldHashes(q) = {} /\ HeldHashes(q)' = HeldHashes(q)
      BY <3>1, OnlyLiveHold DEF HeldHashes
    <3>3. Abstract!Held = {}
      BY <3>2 DEF Abstract!Held
    <3>4. [q \in Requests |-> HeldHashes(q)]' = [q \in Requests |-> HeldHashes(q)]
      BY <3>2
    <3> QED
      BY <3>1, <3>3, <3>4 DEF Abstract!Next, Abstract!Clear
  <2> QED
    BY <2>1, <2>2, <2>3, <2>4, <2>5, <2>6 DEF Next
<1> QED
  BY <1>1, <1>2, Invariance, PTL DEF Spec, Refinement, Abstract!Spec

-----------------------------------------------------------------------------
(* The walk of cache_prompt                                                *)

\* What PromptWalk says, with what the code's flags say of it: a run is pending
\* after a miss and only then, and up to the first miss the walk has found what
\* was cached when it began.
WalkInv ==
  /\ RunIsChain /\ PrefixHitExact
  /\ call.prev_was_miss <=> call.run # <<>>
  /\ InCall /\ call.in_prefix => DOMAIN cached = call.before

\* One more slot moves the walk to the next block of the same prompt.
LEMMA PushMoves ==
  ASSUME TypeOK, CallInv, InCall, NEW id, PushBlockId(id), call'.req = call.req
  PROVE  Prompt' = Prompt /\ BlockIndex' = BlockIndex + 1 /\ InCall' /\ BlockIndex \in Nat \ {0}
<1>. DEFINE s == requests[call.req].block_ids
<1>1. call.req \in Requests /\ BlockIndex \in Nat \ {0}
  BY CallFacts
<1>2. /\ requests'[call.req].block_ids = Append(s, id)
      /\ requests'[call.req].prompt = requests[call.req].prompt
  BY <1>1 DEF PushBlockId, TypeOK, Request
<1>. DEFINE T == (0..(Capacity - 1)) \cup {id}
<1>3. s \in Seq(T) /\ id \in T
  <2>1. s \in Seq(0..(Capacity - 1))
    BY <1>1 DEF TypeOK, Request
  <2>2. 0..(Capacity - 1) \subseteq T /\ id \in T
    OBVIOUS
  <2>. HIDE DEF T
  <2>. QED
    BY <2>1, <2>2, SeqMonotonic
<1>. HIDE DEF T
<1>4. Len(Append(s, id)) = Len(s) + 1 /\ Len(s) \in Nat
  BY <1>3, AppendProperties, LenProperties
<1>. QED
  BY <1>1, <1>2, <1>4 DEF Prompt, BlockIndex, InCall

LEMMA BeginWalk ==
  ASSUME TypeOK, CallInv, NEW r \in Requests, NEW p \in Prompts, CachePromptBegin(r, p)
  PROVE  WalkInv'
<1>1. /\ call' = [Idle EXCEPT !.req = r, !.before = DOMAIN cached] /\ cached' = cached
      /\ requests' = [requests EXCEPT ![r] = [st |-> "live", prompt |-> p, block_ids |-> <<>>]]
  BY DEF CachePromptBegin
<1>2. /\ call'.req = r /\ call'.in_prefix = TRUE /\ call'.num_cached = 0
      /\ call'.prev_was_miss = FALSE /\ call'.run = <<>> /\ call'.before = DOMAIN cached
  BY <1>1 DEF Idle
<1>3. BlockIndex' = 1
  BY <1>1, <1>2 DEF BlockIndex, TypeOK
<1>. QED
  BY <1>1, <1>2, <1>3 DEF WalkInv, RunIsChain, PrefixHitExact

LEMMA HitWalk ==
  ASSUME TypeOK, CallInv, WalkInv, CachePromptHit
  PROVE  WalkInv'
<1>1. /\ InCall /\ MoreBlocks /\ NextHash \in DOMAIN cached /\ DOMAIN cached' = DOMAIN cached
      /\ PushBlockId(cached[NextHash].block_id)
  BY DEF CachePromptHit
<1>2. /\ call'.prev_was_miss = FALSE /\ call'.req = call.req /\ call'.in_prefix = call.in_prefix
      /\ call'.before = call.before
      /\ call'.run = IF call.prev_was_miss /\ call.run # <<>> THEN <<>> ELSE call.run
      /\ call'.num_cached = IF call.in_prefix THEN call.num_cached + 1 ELSE call.num_cached
  BY DEF CachePromptHit, TypeOK, Call
<1>3. call'.run = <<>>
  BY <1>2 DEF WalkInv
<1>4. Prompt' = Prompt /\ BlockIndex' = BlockIndex + 1 /\ InCall' /\ BlockIndex \in Nat \ {0}
  BY <1>1, <1>2, PushMoves
<1>5. call.num_cached \in Nat
  BY DEF TypeOK, Call
<1>6. RunIsChain'
  BY <1>3 DEF RunIsChain
<1>7. PrefixHitExact'
  <2>1. CASE call.in_prefix
    <3>1. call.num_cached = BlockIndex - 1 /\ NextHash \in call.before
      BY <1>1, <2>1 DEF WalkInv, PrefixHitExact
    <3>2. call'.num_cached = BlockIndex /\ BlockIndex = BlockIndex' - 1
      BY <1>2, <1>4, <2>1, <3>1
    <3>3. \A k \in 1..BlockIndex : Hash(Prompt, k) \in call.before
      BY <1>1, <1>4, <3>1 DEF WalkInv, PrefixHitExact, NextHash
    <3>. QED
      BY <1>2, <1>4, <2>1, <3>2, <3>3 DEF PrefixHitExact
  <2>2. CASE ~call.in_prefix
    BY <1>1, <1>2, <1>4, <2>2 DEF WalkInv, PrefixHitExact
  <2>. QED
    BY <2>1, <2>2
<1>. QED
  BY <1>1, <1>2, <1>3, <1>6, <1>7 DEF WalkInv

LEMMA MissWalk ==
  ASSUME TypeOK, CallInv, WalkInv, CachePromptMiss
  PROVE  WalkInv'
<1>1. InCall /\ MoreBlocks /\ NextHash \notin DOMAIN cached
  BY DEF CachePromptMiss
<1>2. /\ call'.in_prefix = FALSE /\ call'.prev_was_miss = TRUE
      /\ call'.run = Append(call.run, NextHash)
      /\ call'.run_parent = IF call.prev_was_miss THEN call.run_parent ELSE Hash(Prompt, BlockIndex - 1)
      /\ call'.req = call.req /\ call'.before = call.before /\ call'.num_cached = call.num_cached
  BY DEF CachePromptMiss, TypeOK, Call
<1>3. Prompt' = Prompt /\ BlockIndex' = BlockIndex + 1 /\ InCall' /\ BlockIndex \in Nat \ {0}
  <2>1. PICK slot \in AllocateSlot : PushBlockId(slot.block_id)
    BY DEF CachePromptMiss
  <2>. QED
    BY <1>1, <1>2, <2>1, PushMoves
<1>. DEFINE n == Len(call.run)
<1>4. call.run \in Seq(Hashes) /\ NextHash \in Hashes /\ n \in Nat
  BY <1>1, CallFacts, LenProperties DEF TypeOK, Call
<1>5. /\ Len(call'.run) = n + 1 /\ call'.run[n + 1] = NextHash /\ call'.run # <<>>
      /\ \A k \in 1..n : call'.run[k] = call.run[k]
  <2>1. /\ Len(Append(call.run, NextHash)) = n + 1 /\ Append(call.run, NextHash)[n + 1] = NextHash
        /\ \A k \in 1..n : Append(call.run, NextHash)[k] = call.run[k]
    BY <1>4, AppendProperties
  <2>2. Append(call.run, NextHash) # <<>>
    BY <1>4, AppendProperties
  <2>. QED
    BY <1>2, <2>1, <2>2
<1>. HIDE DEF n
<1>6. (BlockIndex + 1) - 1 - (n + 1) = BlockIndex - 1 - n
  BY <1>3, <1>4
<1>7. n = 0 <=> ~call.prev_was_miss
  BY <1>4, EmptySeq DEF WalkInv, n
<1>8. RunIsChain'
  <2>1. ASSUME NEW k \in 1..(n + 1)
        PROVE  call'.run[k] = Hash(Prompt, (BlockIndex + 1) - 1 - (n + 1) + k)
    <3>1. CASE k = n + 1
      <4>1. (BlockIndex + 1) - 1 - (n + 1) + k = BlockIndex
        BY <1>3, <1>4, <3>1
      <4>. QED
        BY <1>5, <3>1, <4>1 DEF NextHash
    <3>2. CASE k # n + 1
      <4>1. k \in 1..n /\ n # 0
        BY <1>4, <3>2
      <4>2. call.run[k] = Hash(Prompt, BlockIndex - 1 - n + k)
        BY <1>7, <4>1 DEF WalkInv, RunIsChain, n
      <4>. QED
        BY <1>5, <1>6, <4>1, <4>2
    <3>. QED
      BY <3>1, <3>2
  <2>2. call'.run_parent = Hash(Prompt, (BlockIndex + 1) - 1 - (n + 1))
    <3>1. CASE call.prev_was_miss
      <4>1. call.run_parent = Hash(Prompt, BlockIndex - 1 - n)
        BY <3>1 DEF WalkInv, RunIsChain, n
      <4>. QED
        BY <1>2, <1>6, <3>1, <4>1
    <3>2. CASE ~call.prev_was_miss
      <4>1. (BlockIndex + 1) - 1 - (n + 1) = BlockIndex - 1
        BY <1>3, <1>7, <3>2
      <4>. QED
        BY <1>2, <3>2, <4>1
    <3>. QED
      BY <3>1, <3>2
  <2>. QED
    BY <1>3, <1>5, <2>1, <2>2 DEF RunIsChain
<1>9. PrefixHitExact'
  <2>1. CASE call.in_prefix
    <3>1. NextHash \notin call.before /\ call.num_cached = BlockIndex - 1
      BY <1>1, <2>1 DEF WalkInv, PrefixHitExact
    <3>2. Hash(Prompt, call.num_cached + 1) \notin call.before
      <4>1. call.num_cached + 1 = BlockIndex
        BY <1>3, <3>1
      <4>. QED
        BY <3>1, <4>1 DEF NextHash
    <3>3. \A k \in 1..call.num_cached : Hash(Prompt, k) \in call.before
      BY <1>1 DEF WalkInv, PrefixHitExact
    <3>. QED
      BY <1>2, <1>3, <3>2, <3>3 DEF PrefixHitExact
  <2>2. CASE ~call.in_prefix
    BY <1>1, <1>2, <1>3, <2>2 DEF WalkInv, PrefixHitExact
  <2>. QED
    BY <2>1, <2>2
<1>. QED
  BY <1>2, <1>5, <1>8, <1>9 DEF WalkInv

LEMMA IdleWalk == call = Idle => WalkInv
BY DEF Idle, WalkInv, RunIsChain, PrefixHitExact, InCall

LEMMA WalkStep ==
  ASSUME IInv, WalkInv, [Next]_vars
  PROVE  WalkInv'
<1>1. TypeOK /\ CallInv
  BY DEF IInv
<1>2. ASSUME NEW r \in Requests, NEW p \in Prompts, CachePromptBegin(r, p) PROVE WalkInv'
  BY <1>1, <1>2, BeginWalk
<1>3. CASE CachePromptHit
  BY <1>1, <1>3, HitWalk
<1>4. CASE CachePromptMiss
  BY <1>1, <1>4, MissWalk
<1>5. CASE CachePromptReturn
  <2>1. call' = Idle
    BY <1>5 DEF CachePromptReturn
  <2>. QED
    BY <2>1 DEF Idle, WalkInv, RunIsChain, PrefixHitExact, InCall
<1>6. CASE (\E r \in Requests : Unpin(r)) \/ Reset \/ TakeStats
  <2>1. ~InCall /\ call' = call
    BY <1>6 DEF Unpin, Reset, TakeStats
  <2>2. call.run = <<>> /\ ~call.prev_was_miss
    BY <1>1, <2>1 DEF CallInv, Idle
  <2>. QED
    BY <2>1, <2>2 DEF WalkInv, RunIsChain, PrefixHitExact, InCall
<1>7. CASE UNCHANGED vars
  BY <1>7 DEF vars, WalkInv, RunIsChain, PrefixHitExact, InCall, Prompt, BlockIndex
<1>. QED
  BY <1>2, <1>3, <1>4, <1>5, <1>6, <1>7 DEF Next

\* cache_prompt reports the longest cached prefix there was when it was called,
\* whatever its own evictions drop, and announces runs of the prompt's own chain
\* with the right parent.
THEOREM WalkFollowsPrompt == Spec => []PromptWalk
<1>1. Init => WalkInv
  BY IdleWalk DEF Init
<1>2. IInv /\ WalkInv /\ [Next]_vars => WalkInv'
  BY WalkStep
<1>3. WalkInv => PromptWalk
  BY DEF WalkInv, PromptWalk
<1>. QED
  BY <1>1, <1>2, <1>3, Invariance, PTL DEF Spec
=============================================================================
