-------------------------- MODULE KvEventsProofs ---------------------------
(* What a router knows of the cache, and what sequence numbers tell it, for  *)
(* every cache, queue size and number of calls.                              *)
EXTENDS KvEvents, WellFoundedInduction, TLAPS

\* Every number the publisher used went to a message that was received or lost
\* on the wire.  GapsCountWireLoss needs it at the step that receives a message.
NumbersUsed == seq = heard.count + missed.sent

Numbers ==
  /\ seq \in Nat
  /\ heard \in [next : Nat, count : Nat]
  /\ missed \in [sent : Nat, seen : Nat]

NumberInv == Numbers /\ NumbersUsed /\ GapsCountWireLoss

LEMMA NumberInvInit == KvInit => NumberInv
BY DEF KvInit, NumberInv, Numbers, NumbersUsed, GapsCountWireLoss

\* Only the publisher's sends touch the numbers.
LEMMA NumberInvUnchanged ==
  ASSUME NumberInv, UNCHANGED <<seq, heard, missed>>
  PROVE  NumberInv'
BY DEF NumberInv, Numbers, NumbersUsed, GapsCountWireLoss

LEMMA NumberInvNext == NumberInv /\ [KvNext]_all => NumberInv'
<1> SUFFICES ASSUME NumberInv, [KvNext]_all PROVE NumberInv'
  OBVIOUS
<1>1. CASE SendDelivered
  <2>1. /\ seq' = seq + 1
        /\ heard' = [next |-> seq + 1, count |-> heard.count + 1]
        /\ missed' = [missed EXCEPT !.seen = missed.sent]
    BY <1>1 DEF SendDelivered
  <2>2. Numbers'
    BY <2>1 DEF NumberInv, Numbers
  <2>3. missed'.sent = missed.sent /\ missed'.seen = missed.sent
    BY <2>1 DEF NumberInv, Numbers
  <2>4. NumbersUsed' /\ GapsCountWireLoss'
    BY <2>1, <2>3 DEF NumberInv, Numbers, NumbersUsed, GapsCountWireLoss
  <2> QED BY <2>2, <2>4 DEF NumberInv
<1>2. CASE SendLost
  <2>1. /\ seq' = seq + 1
        /\ heard' = heard
        /\ missed' = [missed EXCEPT !.sent = @ + 1]
    BY <1>2 DEF SendLost
  <2>2. missed'.sent = missed.sent + 1 /\ missed'.seen = missed.seen
    BY <2>1 DEF NumberInv, Numbers
  <2> QED BY <2>1, <2>2 DEF NumberInv, Numbers, NumbersUsed, GapsCountWireLoss
<1>3. CASE SendFails \/ ExitCancelled \/ ExitClosed
  <2>1. UNCHANGED <<seq, heard, missed>>
    BY <1>3 DEF SendFails, ExitCancelled, ExitClosed, router
  <2> QED BY <2>1, NumberInvUnchanged
<1>4. CASE \/ Spawn \/ CacheReturn \/ ResetPrefixCache
           \/ EngineLoopEnds \/ EngineDone \/ IoLoopEnds \/ Subscribe
  <2>1. UNCHANGED <<seq, heard, missed>>
    BY <1>4 DEF Spawn, CacheReturn, ResetPrefixCache, EngineLoopEnds, EngineDone,
                IoLoopEnds, Subscribe, router
  <2> QED BY <2>1, NumberInvUnchanged
<1>5. CASE \E r \in Requests : CacheBegin(r) \/ Unpin(r)
  <2>1. UNCHANGED <<seq, heard, missed>>
    BY <1>5 DEF CacheBegin, Unpin, router
  <2> QED BY <2>1, NumberInvUnchanged
<1>6. CASE \E b \in Blocks : CacheBlock(b)
  <2>1. UNCHANGED <<seq, heard, missed>>
    BY <1>6 DEF CacheBlock, router
  <2> QED BY <2>1, NumberInvUnchanged
<1>7. CASE UNCHANGED all
  <2>1. UNCHANGED <<seq, heard, missed>>
    BY <1>7 DEF all, router
  <2> QED BY <2>1, NumberInvUnchanged
<1> QED BY <1>1, <1>2, <1>3, <1>4, <1>5, <1>6, <1>7 DEF KvNext, Publisher

\* The gaps in the numbers a router received are exactly the messages lost on
\* the wire before the last of them, in every behaviour of the publisher.
THEOREM GapsAreWireLoss == KvSpec => []GapsCountWireLoss
<1>1. NumberInv => GapsCountWireLoss
  BY DEF NumberInv
<1> QED BY <1>1, NumberInvInit, NumberInvNext, PTL DEF KvSpec

-----------------------------------------------------------------------------
(* What a router knows once it has received a sequence of batches            *)

\* A set with 0 and the successors of its numbers holds every number.
LEMMA NatInductive ==
  ASSUME NEW T, 0 \in T, \A n \in Nat : n \in T => n + 1 \in T
  PROVE  Nat \subseteq T
<1> DEFINE Less == {ss \in Nat \X Nat : ss[1] < ss[2]}
<1> SUFFICES ASSUME Nat \ T # {} PROVE FALSE
  OBVIOUS
<1>1. IsWellFoundedOn(Less, Nat)
  BY NatLessThanWellFounded DEF OpToRel
<1>2. PICK n \in Nat \ T : \A m \in Nat \ T : ~(<<m, n>> \in Less)
  BY <1>1, WFMin
<1>3. n # 0 /\ n - 1 \in Nat /\ n - 1 < n
  BY <1>2
<1>4. n - 1 \in T
  BY <1>2, <1>3
<1> QED BY <1>3, <1>4

\* What FoldLeft computes on the way to its result.
Folded(f, known, q) ==
  /\ f[0] = known
  /\ \A k \in 1..Len(q) : f[k] = Apply(f[k-1], q[k])

LEMMA MaxOf ==
  ASSUME NEW n \in Nat, NEW s \in SUBSET (1..n)
  PROVE  /\ n \in s => Max(s) = n
         /\ n \in Nat \ {0} /\ n \notin s => s \in SUBSET (1..(n-1))
<1>1. ASSUME n \in s PROVE Max(s) = n
  <2>1. \E x \in s : \A y \in s : x >= y
    BY <1>1
  <2>2. Max(s) \in s /\ \A y \in s : Max(s) >= y
    BY <2>1 DEF Max
  <2>3. PICK m : m = Max(s)
    OBVIOUS
  <2>4. m \in 1..n /\ m >= n
    BY <1>1, <2>2, <2>3
  <2>5. m = n
    BY <2>4
  <2> QED BY <2>3, <2>5
<1> QED BY <1>1

\* FoldLeft is defined by recursion over the sets of positions, its last one first.
LEMMA FoldExists ==
  ASSUME NEW S, NEW q \in Seq(S), NEW known
  PROVE  \E f : Folded(f, known, q) /\ FoldLeft(Apply, known, q) = f[Len(q)]
<1> DEFINE Rec(n, g) == [s \in SUBSET (1..n) |->
                           IF s = {} THEN known ELSE Apply(g[s \ {Max(s)}], q[Max(s)])]
           N == {n \in Nat : \E g : g = Rec(n, g)}
           iter == CHOOSE g : g = Rec(Len(q), g)
<1>1. 0 \in N
  <2>1. PICK g : g = [s \in SUBSET (1..0) |-> known]
    OBVIOUS
  <2>2. SUBSET (1..0) = {{}}
    OBVIOUS
  <2>3. g = Rec(0, g)
    BY <2>1, <2>2
  <2> QED BY <2>3
<1>2. ASSUME NEW n \in Nat, n \in N PROVE n + 1 \in N
  <2>1. PICK g : g = Rec(n, g)
    BY <1>2
  <2> DEFINE h == [s \in SUBSET (1..(n+1)) |->
                     IF n + 1 \in s THEN Apply(g[s \ {n+1}], q[n+1]) ELSE g[s]]
  <2>2. ASSUME NEW s \in SUBSET (1..(n+1))
        PROVE  h[s] = Rec(n+1, h)[s]
    <3>1. CASE n + 1 \in s
      <4>1. Max(s) = n + 1 /\ s # {}
        BY <3>1, MaxOf
      <4>2. s \ {n+1} \in SUBSET (1..(n+1)) /\ n + 1 \notin s \ {n+1}
        OBVIOUS
      <4>3. h[s] = Apply(g[s \ {n+1}], q[n+1]) /\ h[s \ {n+1}] = g[s \ {n+1}]
        BY <3>1, <4>2
      <4> HIDE DEF h
      <4> QED BY <4>1, <4>3
    <3>2. CASE n + 1 \notin s
      <4>1. s \in SUBSET (1..n)
        BY <3>2
      <4>2. h[s] = g[s]
        BY <3>2
      <4>3. CASE s = {}
        <5>1. g[s] = known
          BY <2>1, <4>1, <4>3
        <5> HIDE DEF h
        <5> QED BY <4>2, <4>3, <5>1
      <4>4. CASE s # {}
        <5>1. s \ {Max(s)} \in SUBSET (1..n) /\ s \ {Max(s)} \in SUBSET (1..(n+1))
              /\ n + 1 \notin s \ {Max(s)}
          BY <3>2, <4>1
        <5>2. h[s \ {Max(s)}] = g[s \ {Max(s)}]
          BY <5>1
        <5>3. g[s] = Apply(g[s \ {Max(s)}], q[Max(s)])
          BY <2>1, <4>1, <4>4
        <5> HIDE DEF h
        <5> QED BY <4>2, <4>4, <5>2, <5>3
      <4> QED BY <4>3, <4>4
    <3> QED BY <3>1, <3>2
  <2>3. h = Rec(n+1, h)
    <3> DEFINE R == Rec(n+1, h)
    <3>1. DOMAIN R = SUBSET (1..(n+1)) /\ R = [s \in SUBSET (1..(n+1)) |-> R[s]]
      OBVIOUS
    <3>2. h = [s \in SUBSET (1..(n+1)) |-> h[s]]
      OBVIOUS
    <3>3. \A s \in SUBSET (1..(n+1)) : h[s] = R[s]
      BY <2>2
    <3> HIDE DEF h, R
    <3>4. h = R
      BY <3>1, <3>2, <3>3
    <3> QED BY <3>4 DEF R
  <2> HIDE DEF h
  <2>4. \E j : j = Rec(n+1, j)
    BY <2>3
  <2>5. n + 1 \in Nat
    OBVIOUS
  <2> HIDE DEF Rec
  <2> QED BY <2>4, <2>5
<1>3. \E g : g = Rec(Len(q), g)
  <2> HIDE DEF N
  <2>1. Nat \subseteq N
    BY <1>1, <1>2, NatInductive
  <2>2. Len(q) \in N
    BY <2>1
  <2> USE DEF N
  <2> QED BY <2>2
<1>4. iter = Rec(Len(q), iter)
  BY <1>3
<1>5. FoldLeft(Apply, known, q) = iter[1..Len(q)]
  <2>1. DOMAIN q = 1..Len(q)
    OBVIOUS
  <2> QED BY <2>1 DEF FoldLeft, MapThenFoldSet
<1> HIDE DEF iter
<1> DEFINE f == [k \in 0..Len(q) |-> iter[1..k]]
<1>6. Folded(f, known, q)
  <2>1. f[0] = known
    <3>1. 1..0 = {} /\ 1..0 \in SUBSET (1..Len(q))
      OBVIOUS
    <3>2. iter[1..0] = known
      BY <1>4, <3>1
    <3> QED BY <3>2
  <2>2. ASSUME NEW k \in 1..Len(q) PROVE f[k] = Apply(f[k-1], q[k])
    <3>1. /\ 1..k \in SUBSET (1..k) /\ k \in 1..k /\ k \in Nat
          /\ 1..k \in SUBSET (1..Len(q)) /\ (1..k) \ {k} = 1..(k-1)
      OBVIOUS
    <3>2. Max(1..k) = k
      BY <3>1, MaxOf
    <3>3. iter[1..k] = Apply(iter[1..(k-1)], q[k])
      BY <1>4, <3>1, <3>2
    <3>4. f[k] = iter[1..k] /\ f[k-1] = iter[1..(k-1)]
      OBVIOUS
    <3> HIDE DEF f
    <3> QED BY <3>3, <3>4
  <2> QED BY <2>1, <2>2 DEF Folded
<1>7. f[Len(q)] = iter[1..Len(q)]
  OBVIOUS
<1> QED BY <1>5, <1>6, <1>7

Batches == [stored : SUBSET Blocks, removed : SUBSET Blocks, cleared : BOOLEAN]

\* What a router that knows known will know when it has received q.
Known(known, q) == FoldLeft(Apply, known, q)

\* However it was computed.
LEMMA KnownIs ==
  ASSUME NEW S, NEW q \in Seq(S), NEW known, NEW f, Folded(f, known, q)
  PROVE  Known(known, q) = f[Len(q)]
<1>1. PICK g : Folded(g, known, q) /\ Known(known, q) = g[Len(q)]
  BY FoldExists DEF Known
<1> DEFINE N == {k \in Nat : k <= Len(q) => f[k] = g[k]}
<1>2. 0 \in N
  BY <1>1 DEF Folded
<1>3. ASSUME NEW k \in Nat, k \in N PROVE k + 1 \in N
  <2> SUFFICES ASSUME k + 1 <= Len(q) PROVE f[k+1] = g[k+1]
    OBVIOUS
  <2>1. k + 1 \in 1..Len(q) /\ (k + 1) - 1 = k /\ f[k] = g[k]
    BY <1>3
  <2>2. f[k+1] = Apply(f[k], q[k+1]) /\ g[k+1] = Apply(g[k], q[k+1])
    BY <1>1, <2>1 DEF Folded
  <2> QED BY <2>1, <2>2
<1> HIDE DEF N
<1>4. Len(q) \in N
  BY <1>2, <1>3, NatInductive
<1> QED BY <1>1, <1>4 DEF N

LEMMA KnownEmpty ==
  ASSUME NEW known PROVE Known(known, <<>>) = known
<1> DEFINE f == [k \in {0} |-> known]
<1>1. Folded(f, known, <<>>) /\ f[Len(<<>>)] = known /\ <<>> \in Seq({})
  BY DEF Folded
<1> QED BY <1>1, KnownIs

LEMMA KnownAppend ==
  ASSUME NEW S, NEW q \in Seq(S), NEW b \in S, NEW known
  PROVE  Known(known, Append(q, b)) = Apply(Known(known, q), b)
<1>1. PICK f : Folded(f, known, q) /\ Known(known, q) = f[Len(q)]
  BY FoldExists DEF Known
<1> DEFINE n == Len(q)
           g == [k \in 0..(n+1) |-> IF k = n + 1 THEN Apply(f[n], b) ELSE f[k]]
           r == Append(q, b)
<1>2. /\ r \in Seq(S) /\ Len(r) = n + 1 /\ r[n+1] = b
      /\ \A k \in 1..n : r[k] = q[k]
  OBVIOUS
<1> HIDE DEF r
<1>3. Folded(g, known, r)
  <2>1. g[0] = known
    BY <1>1 DEF Folded
  <2>2. ASSUME NEW k \in 1..(n+1) PROVE g[k] = Apply(g[k-1], r[k])
    <3>1. CASE k = n + 1
      <4>1. g[k] = Apply(f[n], b) /\ g[k-1] = f[n]
        BY <3>1
      <4> QED BY <1>2, <3>1, <4>1
    <3>2. CASE k # n + 1
      <4>1. k \in 1..n /\ g[k] = f[k] /\ g[k-1] = f[k-1]
        BY <3>2
      <4>2. f[k] = Apply(f[k-1], q[k])
        BY <1>1, <4>1 DEF Folded
      <4> QED BY <1>2, <4>1, <4>2
    <3> QED BY <3>1, <3>2
  <2> QED BY <1>2, <2>1, <2>2 DEF Folded
<1>4. g[n+1] = Apply(f[n], b)
  OBVIOUS
<1>5. Known(known, r) = g[n+1]
  BY <1>2, <1>3, KnownIs
<1> QED BY <1>1, <1>4, <1>5 DEF r

LEMMA KnownHead ==
  ASSUME NEW S, NEW q \in Seq(S), q # <<>>, NEW known
  PROVE  Known(known, q) = Known(Apply(known, Head(q)), Tail(q))
<1> DEFINE n == Len(q)
           t == Tail(q)
<1>1. /\ t \in Seq(S) /\ n \in Nat \ {0} /\ Len(t) = n - 1 /\ Head(q) = q[1]
      /\ \A k \in 1..(n-1) : t[k] = q[k+1]
  OBVIOUS
<1> HIDE DEF t
<1>2. PICK f : Folded(f, Apply(known, Head(q)), t) /\ Known(Apply(known, Head(q)), t) = f[Len(t)]
  BY <1>1, FoldExists DEF Known
<1> DEFINE g == [k \in 0..n |-> IF k = 0 THEN known ELSE f[k-1]]
<1>3. Folded(g, known, q)
  <2>1. ASSUME NEW k \in 1..n PROVE g[k] = Apply(g[k-1], q[k])
    <3>1. CASE k = 1
      <4>1. g[k] = f[0] /\ g[k-1] = known
        BY <3>1
      <4> QED BY <1>1, <1>2, <3>1, <4>1 DEF Folded
    <3>2. CASE k # 1
      <4>1. k - 1 \in 1..(n-1) /\ g[k] = f[k-1] /\ g[k-1] = f[(k-1)-1] /\ (k - 1) + 1 = k
        BY <3>2
      <4>2. f[k-1] = Apply(f[(k-1)-1], t[k-1])
        BY <1>1, <1>2, <4>1 DEF Folded
      <4>3. t[k-1] = q[k]
        BY <1>1, <4>1
      <4> QED BY <4>1, <4>2, <4>3
    <3> QED BY <3>1, <3>2
  <2>2. g[0] = known
    OBVIOUS
  <2> QED BY <2>1, <2>2 DEF Folded
<1>4. g[n] = f[n-1]
  BY <1>1
<1>5. Known(known, q) = g[n]
  BY <1>3, KnownIs
<1> QED BY <1>1, <1>2, <1>4, <1>5 DEF t

LEMMA ApplyFacts ==
  ASSUME NEW b \in Batches, NEW x \in Blocks, NEW i, NEW j
  PROVE  /\ (x \in i <=> x \in j) \/ x \in Touched(b) => (x \in Apply(i, b) <=> x \in Apply(j, b))
         /\ x \notin Touched(b) => (x \in Apply(i, b) <=> x \in i)
BY DEF Apply, Touched, Batches

\* A block that the queue speaks of is known alike whatever was known before; of any
\* other, what was known stays known.
LEMMA KnownOf ==
  ASSUME NEW q \in Seq(Batches), NEW x \in Blocks, NEW i, NEW j
  PROVE  /\ (x \in i <=> x \in j) \/ (\E k \in 1..Len(q) : x \in Touched(q[k]))
              => (x \in Known(i, q) <=> x \in Known(j, q))
         /\ (\A k \in 1..Len(q) : x \notin Touched(q[k])) => (x \in Known(i, q) <=> x \in i)
<1>1. PICK f : Folded(f, i, q) /\ Known(i, q) = f[Len(q)]
  BY FoldExists DEF Known
<1>2. PICK g : Folded(g, j, q) /\ Known(j, q) = g[Len(q)]
  BY FoldExists DEF Known
<1> DEFINE Alike(k) == (x \in i <=> x \in j) \/ (\E m \in 1..k : x \in Touched(q[m]))
                          => (x \in f[k] <=> x \in g[k])
           Same(k) == (\A m \in 1..k : x \notin Touched(q[m])) => (x \in f[k] <=> x \in i)
           N == {k \in Nat : k <= Len(q) => Alike(k) /\ Same(k)}
<1>3. 0 \in N
  BY <1>1, <1>2 DEF Folded
<1>4. ASSUME NEW k \in Nat, k \in N PROVE k + 1 \in N
  <2> SUFFICES ASSUME k + 1 <= Len(q) PROVE Alike(k+1) /\ Same(k+1)
    OBVIOUS
  <2>1. Alike(k) /\ Same(k)
    BY <1>4
  <2>2. k + 1 \in 1..Len(q) /\ (k + 1) - 1 = k /\ q[k+1] \in Batches
    OBVIOUS
  <2>3. f[k+1] = Apply(f[k], q[k+1]) /\ g[k+1] = Apply(g[k], q[k+1])
    BY <1>1, <1>2, <2>2 DEF Folded
  <2>4. /\ (x \in f[k] <=> x \in g[k]) \/ x \in Touched(q[k+1])
             => (x \in f[k+1] <=> x \in g[k+1])
        /\ x \notin Touched(q[k+1]) => (x \in f[k+1] <=> x \in f[k])
    BY <2>2, <2>3, ApplyFacts
  <2>5. Alike(k+1)
    <3>1. \A m \in 1..(k+1) : m \in 1..k \/ m = k + 1
      OBVIOUS
    <3> QED BY <2>1, <2>4, <3>1
  <2>6. Same(k+1)
    <3>1. k + 1 \in 1..(k+1) /\ \A m \in 1..k : m \in 1..(k+1)
      OBVIOUS
    <3> QED BY <2>1, <2>4, <3>1
  <2> QED BY <2>5, <2>6
<1> HIDE DEF N
<1>5. Len(q) \in N
  BY <1>3, <1>4, NatInductive
<1>6. Alike(Len(q)) /\ Same(Len(q))
  BY <1>5 DEF N
<1> QED BY <1>1, <1>2, <1>6

LEMMA KnownWithin ==
  ASSUME NEW q \in Seq(Batches), NEW i \in SUBSET Blocks
  PROVE  Known(i, q) \in SUBSET Blocks
<1>1. PICK f : Folded(f, i, q) /\ Known(i, q) = f[Len(q)]
  BY FoldExists DEF Known
<1> DEFINE N == {k \in Nat : k <= Len(q) => f[k] \in SUBSET Blocks}
<1>2. 0 \in N
  BY <1>1 DEF Folded
<1>3. ASSUME NEW k \in Nat, k \in N PROVE k + 1 \in N
  <2> SUFFICES ASSUME k + 1 <= Len(q) PROVE f[k+1] \in SUBSET Blocks
    OBVIOUS
  <2>1. k + 1 \in 1..Len(q) /\ (k + 1) - 1 = k /\ q[k+1] \in Batches /\ f[k] \in SUBSET Blocks
    BY <1>3
  <2>2. f[k+1] = Apply(f[k], q[k+1])
    BY <1>1, <2>1 DEF Folded
  <2> QED BY <2>1, <2>2 DEF Apply, Batches
<1> HIDE DEF N
<1>4. Len(q) \in N
  BY <1>2, <1>3, NatInductive
<1> QED BY <1>1, <1>4 DEF N

-----------------------------------------------------------------------------
(* The index                                                                 *)

IndexTypes ==
  /\ resident \subseteq Blocks /\ index \subseteq Blocks
  /\ batch \in Batches /\ ~batch.cleared /\ queue \in Seq(Batches)

\* The router is wrong only about stale blocks once it has the queue and, after it,
\* what the call in progress will publish; and that batch says what the cache holds.
IndexInv ==
  /\ IndexTypes
  /\ caller = NoRequest => batch = NoEvents
  /\ batch.stored \subseteq resident /\ batch.removed \cap resident = {}
  /\ Difference(Apply(Known(index, queue), batch), resident) \subseteq stale

LEMMA EmptyBatch ==
  /\ NoEvents \in Batches /\ AllCleared \in Batches /\ ~NoEvents.cleared
  /\ NoEvents.stored = {} /\ NoEvents.removed = {} /\ NoEvents # AllCleared
  /\ Touched(NoEvents) = {} /\ Touched(AllCleared) = Blocks
  /\ \A i : Apply(i, NoEvents) = i /\ Apply(i, AllCleared) = {}
<1>1. /\ NoEvents \in Batches /\ AllCleared \in Batches /\ ~NoEvents.cleared
      /\ NoEvents.stored = {} /\ NoEvents.removed = {} /\ NoEvents # AllCleared
      /\ AllCleared.cleared /\ AllCleared.stored = {} /\ AllCleared.removed = {}
  BY DEF NoEvents, AllCleared, Batches
<1> QED BY <1>1 DEF Touched, Apply

LEMMA IndexInvInit == KvInit => IndexInv
<1> SUFFICES ASSUME KvInit PROVE IndexInv
  OBVIOUS
<1>1. /\ resident = {} /\ index = {} /\ batch = NoEvents /\ queue = <<>>
  BY DEF KvInit, Init
<1>2. Known(index, queue) = {}
  BY <1>1, KnownEmpty
<1> QED BY <1>1, <1>2, EmptyBatch DEF IndexInv, IndexTypes, Difference

\* Whatever publish does with a batch that describes the cache.
LEMMA PublishKeeps ==
  ASSUME IndexTypes, NEW b \in Batches, Publish(b), UNCHANGED index,
         Difference(Apply(Known(index, queue), b), resident') \subseteq stale \cup Touched(b),
         \A x \in Blocks \cap Touched(b) : x \in Apply(Known(index, queue), b) <=> x \in resident',
         resident' \subseteq Blocks,
         b = NoEvents => Difference(Known(index, queue), resident') \subseteq stale
  PROVE  /\ queue' \in Seq(Batches)
         /\ Difference(Known(index', queue'), resident') \subseteq stale'
<1>1. CASE b = NoEvents
  <2>1. UNCHANGED <<queue, stale>>
    BY <1>1 DEF Publish
  <2> QED BY <1>1, <2>1 DEF IndexTypes
<1>2. CASE b # NoEvents /\ queue' = Append(queue, b) /\ stale' = stale \ Touched(b)
  <2>1. queue' \in Seq(Batches) /\ Known(index', queue') = Apply(Known(index, queue), b)
    BY <1>2, KnownAppend DEF IndexTypes
  <2>2. Apply(Known(index, queue), b) \in SUBSET Blocks
    BY KnownWithin DEF IndexTypes, Apply, Batches
  <2>3. ASSUME NEW x \in Difference(Known(index', queue'), resident') PROVE x \in stale'
    <3>1. x \in Blocks /\ x \in Difference(Apply(Known(index, queue), b), resident')
      BY <2>1, <2>2, <2>3 DEF Difference
    <3>2. x \notin Touched(b)
      BY <3>1 DEF Difference
    <3> QED BY <1>2, <3>1, <3>2
  <2> QED BY <2>1, <2>3
<1>3. CASE b # NoEvents /\ stale' = stale \cup Touched(b) /\ UNCHANGED queue
  <2>1. Known(index, queue) \in SUBSET Blocks
    BY KnownWithin DEF IndexTypes
  <2>2. ASSUME NEW x \in Difference(Known(index, queue), resident') PROVE x \in stale'
    <3>1. x \in Blocks
      BY <2>1, <2>2 DEF Difference
    <3>2. x \notin Touched(b) => x \in Difference(Apply(Known(index, queue), b), resident')
      BY <2>2, <3>1, ApplyFacts DEF Difference
    <3> QED BY <1>3, <3>2
  <2> QED BY <1>3, <2>2 DEF IndexTypes
<1> QED BY <1>1, <1>2, <1>3 DEF Publish

LEMMA CacheBlockKeeps ==
  ASSUME IndexInv, NEW b \in Blocks, CacheBlock(b) PROVE IndexInv'
<1>1. /\ caller' = caller /\ caller # NoRequest
      /\ UNCHANGED <<index, queue, stale>>
      /\ batch' = IF b \in resident THEN batch ELSE Extend(batch, b, resident \ resident')
      /\ Share(caller, b) \/ Store(caller, b)
  BY DEF CacheBlock, router
<1>2. CASE Share(caller, b)
  <2>1. resident' = resident /\ batch' = batch
    BY <1>1, <1>2 DEF Share
  <2> QED BY <1>1, <2>1 DEF IndexInv, IndexTypes
<1>3. CASE Store(caller, b)
  <2> DEFINE ev == resident \ resident'
  <2>1. b \notin resident /\ resident' = (resident \ ev) \cup {b} /\ ev \subseteq resident
    BY <1>3 DEF Store
  <2> HIDE DEF ev
  <2>2. batch' = Extend(batch, b, ev)
    BY <1>1, <2>1 DEF ev
  <2>3. /\ batch' \in Batches /\ ~batch'.cleared
        /\ batch'.stored = (batch.stored \ ev) \cup {b}
        /\ batch'.removed = (batch.removed \cup ev) \ {b}
    BY <2>1, <2>2 DEF IndexInv, IndexTypes, Extend, Batches
  <2>4. Known(index', queue') = Known(index, queue)
    BY <1>1
  <2>5. /\ Apply(Known(index, queue), batch)
             = (Known(index, queue) \ batch.removed) \cup batch.stored
        /\ Apply(Known(index', queue'), batch')
             = (Known(index, queue) \ batch'.removed) \cup batch'.stored
    BY <2>3, <2>4 DEF IndexInv, IndexTypes, Apply
  <2>6. Difference(Apply(Known(index', queue'), batch'), resident')
          \subseteq Difference(Apply(Known(index, queue), batch), resident)
    BY <2>1, <2>3, <2>5 DEF Difference
  <2>7. batch'.stored \subseteq resident' /\ batch'.removed \cap resident' = {}
    BY <2>1, <2>3 DEF IndexInv
  <2> QED BY <1>1, <2>1, <2>3, <2>6, <2>7 DEF IndexInv, IndexTypes
<1> QED BY <1>1, <1>2, <1>3

LEMMA CacheReturnKeeps ==
  ASSUME IndexInv, CacheReturn PROVE IndexInv'
<1>1. /\ Publish(batch) /\ batch' = NoEvents /\ UNCHANGED <<resident, index>>
  BY DEF CacheReturn, pool, router
<1>2. \A x \in Blocks \cap Touched(batch) :
        x \in Apply(Known(index, queue), batch) <=> x \in resident'
  BY <1>1 DEF IndexInv, IndexTypes, Touched, Apply
<1>3. batch = NoEvents => Apply(Known(index, queue), batch) = Known(index, queue)
  BY EmptyBatch
<1>4. /\ queue' \in Seq(Batches)
      /\ Difference(Known(index', queue'), resident') \subseteq stale'
  BY <1>1, <1>2, <1>3, PublishKeeps DEF IndexInv, IndexTypes
<1>5. Apply(Known(index', queue'), batch') = Known(index', queue')
  BY <1>1, EmptyBatch
<1> QED BY <1>1, <1>4, <1>5, EmptyBatch DEF IndexInv, IndexTypes

LEMMA ResetKeeps ==
  ASSUME IndexInv, ResetPrefixCache PROVE IndexInv'
<1> DEFINE b == IF resident = {} THEN NoEvents ELSE AllCleared
<1>1. /\ Publish(b) /\ resident' = {} /\ caller = NoRequest
      /\ UNCHANGED <<caller, batch, index>>
  BY DEF ResetPrefixCache, Clear, calling, router
<1>2. batch = NoEvents /\ Apply(Known(index, queue), batch) = Known(index, queue)
  BY <1>1, EmptyBatch DEF IndexInv
<1>3. b \in Batches /\ (b = NoEvents => resident = {})
  BY EmptyBatch
<1>4. Difference(Apply(Known(index, queue), b), resident') \subseteq stale \cup Touched(b)
      /\ \A x \in Blocks \cap Touched(b) : x \in Apply(Known(index, queue), b) <=> x \in resident'
  <2>1. CASE resident = {}
    BY <1>1, <1>2, <2>1, EmptyBatch DEF IndexInv
  <2>2. CASE resident # {}
    BY <1>1, <2>2, EmptyBatch DEF Difference
  <2> QED BY <2>1, <2>2
<1>5. b = NoEvents => Difference(Known(index, queue), resident') \subseteq stale
  BY <1>1, <1>2, <1>3 DEF IndexInv
<1> HIDE DEF b
<1>6. /\ queue' \in Seq(Batches)
      /\ Difference(Known(index', queue'), resident') \subseteq stale'
  BY <1>1, <1>3, <1>4, <1>5, PublishKeeps DEF IndexInv, IndexTypes
<1>7. Apply(Known(index', queue'), batch') = Known(index', queue')
  BY <1>1, <1>2, EmptyBatch
<1> QED BY <1>1, <1>2, <1>6, <1>7, EmptyBatch DEF IndexInv, IndexTypes

\* What is lost at the front of the queue is wrong only where the rest is silent.
LEMMA LostKeeps ==
  ASSUME IndexInv, UNCHANGED <<resident, index, caller, batch>>,
         NEW front \in Seq(Batches), Lost(front, queue'), queue' \in Seq(Batches),
         NEW known, Known(index, queue) = Known(known, queue'),
         \A x \in Blocks : (\A k \in 1..Len(front) : x \notin Touched(front[k]))
                             => (x \in known <=> x \in index)
  PROVE  IndexInv'
<1>1. Known(index, queue) \in SUBSET Blocks /\ Known(index, queue') \in SUBSET Blocks
  BY KnownWithin DEF IndexInv, IndexTypes
<1>2. ASSUME NEW x \in Blocks, x \notin stale'
      PROVE  x \in Known(index, queue) <=> x \in Known(index', queue')
  <2>1. DOMAIN front = 1..Len(front) /\ DOMAIN queue' = 1..Len(queue')
    OBVIOUS
  <2>2. \/ \E k \in 1..Len(queue') : x \in Touched(queue'[k])
        \/ \A k \in 1..Len(front) : x \notin Touched(front[k])
    BY <1>2, <2>1 DEF Lost
  <2>3. (x \in known <=> x \in index) \/ (\E k \in 1..Len(queue') : x \in Touched(queue'[k]))
    BY <2>2
  <2> QED BY <2>3, KnownOf
<1>3. stale \subseteq stale'
  BY DEF Lost
<1>4. ASSUME NEW x \in Difference(Apply(Known(index', queue'), batch'), resident')
      PROVE  x \in stale'
  <2> SUFFICES ASSUME x \notin stale' PROVE FALSE
    OBVIOUS
  <2>1. x \in Blocks
    BY <1>1, <1>4 DEF IndexInv, IndexTypes, Difference, Apply, Batches
  <2>2. x \in Known(index, queue) <=> x \in Known(index', queue')
    BY <1>2, <2>1
  <2>3. x \in Apply(Known(index, queue), batch) <=> x \in Apply(Known(index', queue'), batch)
    BY <2>1, <2>2, ApplyFacts DEF IndexInv, IndexTypes
  <2>4. x \in Difference(Apply(Known(index, queue), batch), resident)
    BY <1>4, <2>3 DEF Difference
  <2> QED BY <1>3, <2>4 DEF IndexInv
<1> QED BY <1>4 DEF IndexInv, IndexTypes

LEMMA PublisherKeeps ==
  ASSUME IndexInv, Publisher PROVE IndexInv'
<1>1. CASE SendDelivered
  <2>1. /\ queue # <<>> /\ index' = Apply(index, Head(queue)) /\ queue' = Tail(queue)
        /\ UNCHANGED <<resident, caller, batch, stale>>
    BY <1>1 DEF SendDelivered, Receives, pool, calling
  <2>2. Known(index', queue') = Known(index, queue)
    BY <2>1, KnownHead DEF IndexInv, IndexTypes
  <2>3. Head(queue) \in Batches /\ queue' \in Seq(Batches)
    BY <2>1 DEF IndexInv, IndexTypes
  <2>4. index' \subseteq Blocks
    BY <2>1, <2>3 DEF IndexInv, IndexTypes, Apply, Batches
  <2> QED BY <2>1, <2>2, <2>3, <2>4 DEF IndexInv, IndexTypes
<1>2. CASE SendLost \/ SendFails
  <2>1. /\ queue # <<>> /\ queue' = Tail(queue) /\ Lost(<<Head(queue)>>, queue')
        /\ UNCHANGED <<resident, caller, batch, index>>
    BY <1>2 DEF SendLost, SendFails, Receives, pool, calling, router
  <2> DEFINE h == Head(queue)
             known == Apply(index, h)
  <2>2. h \in Batches /\ queue' \in Seq(Batches) /\ <<h>> \in Seq(Batches)
    BY <2>1 DEF IndexInv, IndexTypes
  <2>3. Known(index, queue) = Known(known, queue')
    BY <2>1, KnownHead DEF IndexInv, IndexTypes
  <2>4. ASSUME NEW x \in Blocks, \A k \in 1..Len(<<h>>) : x \notin Touched(<<h>>[k])
        PROVE  x \in known <=> x \in index
    <3>1. x \notin Touched(h)
      BY <2>4
    <3> QED BY <2>2, <3>1, ApplyFacts
  <2> HIDE DEF h, known
  <2>5. Lost(<<h>>, queue')
    BY <2>1 DEF h
  <2> QED BY <2>1, <2>2, <2>3, <2>4, <2>5, LostKeeps
<1>3. CASE ExitCancelled
  <2>1. queue' = <<>> /\ Lost(queue, queue') /\ UNCHANGED <<resident, caller, batch, index>>
    BY <1>3 DEF ExitCancelled, pool, calling, router
  <2> DEFINE known == Known(index, queue)
  <2>2. Known(index, queue) = Known(known, queue')
    BY <2>1, KnownEmpty
  <2>3. ASSUME NEW x \in Blocks, \A k \in 1..Len(queue) : x \notin Touched(queue[k])
        PROVE  x \in known <=> x \in index
    BY <2>3, KnownOf DEF IndexInv, IndexTypes
  <2> HIDE DEF known
  <2>4. queue \in Seq(Batches) /\ queue' \in Seq(Batches)
    BY <2>1 DEF IndexInv, IndexTypes
  <2> QED BY <2>1, <2>2, <2>3, <2>4, LostKeeps
<1>4. CASE ExitClosed
  BY <1>4 DEF ExitClosed, pool, calling, router, IndexInv, IndexTypes
<1> QED BY <1>1, <1>2, <1>3, <1>4 DEF Publisher

LEMMA IndexInvNext == IndexInv /\ [KvNext]_all => IndexInv'
<1> SUFFICES ASSUME IndexInv, [KvNext]_all PROVE IndexInv'
  OBVIOUS
<1>1. ASSUME UNCHANGED <<resident, index, batch, queue, stale>>,
             caller' = caller \/ batch = NoEvents
      PROVE  IndexInv'
  BY <1>1 DEF IndexInv, IndexTypes
<1>2. CASE \E r \in Requests : CacheBegin(r) \/ Unpin(r)
  <2>1. /\ UNCHANGED <<resident, index, batch, queue, stale>>
        /\ caller = NoRequest
    BY <1>2 DEF CacheBegin, Unpin, Release, pool, calling, router
  <2> QED BY <1>1, <2>1 DEF IndexInv
<1>3. CASE Spawn \/ EngineLoopEnds \/ EngineDone \/ IoLoopEnds \/ Subscribe \/ UNCHANGED all
  BY <1>1, <1>3 DEF Spawn, EngineLoopEnds, EngineDone, IoLoopEnds, Subscribe, all, pool, calling,
                    router
<1> QED BY <1>2, <1>3, CacheBlockKeeps, CacheReturnKeeps, ResetKeeps, PublisherKeeps DEF KvNext

\* Once the queue is delivered, the router is wrong only about blocks whose own last
\* event was lost, however many batches were dropped, refused or lost before.
THEOREM IndexRepairsItself == KvSpec => []IndexWrongOnlyWhereLost
<1>1. IndexInv => IndexWrongOnlyWhereLost
  BY EmptyBatch DEF IndexInv, IndexWrongOnlyWhereLost, Known
<1> QED BY <1>1, IndexInvInit, IndexInvNext, PTL DEF KvSpec
=============================================================================
