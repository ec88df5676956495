--------------------------- MODULE RunLoopProofs ---------------------------
(* The generic engine loop, its IO loop and its supervisor, for every set of *)
(* requests and clients and every EngineCore that keeps EngineContract: no   *)
(* frame and no terminal output is lost or doubled between a frontend and    *)
(* the engine, and a graceful end is complete.                               *)
EXTENDS RunLoop, FiniteSetTheorems, SequenceTheorems, TLAPS

(***************************************************************************)
(* Batches: what one call of the engine hands to the IO loop               *)
(***************************************************************************)
Clients == Sockets \cup {ClientIndex[r] : r \in Requests}
Batch == [client : Clients, reqs : SUBSET Requests]

Holds(q, r) == \E i \in 1..Len(q) : r \in q[i].reqs
Once(q) == \A i, j \in 1..Len(q) : \A r \in q[i].reqs : r \in q[j].reqs => i = j

\* q answers each request of S in one of its batches, and no other request.
Lists(q, S) ==
  /\ q \in Seq(Batch) /\ Once(q)
  /\ \A r \in Requests : Holds(q, r) <=> r \in S

LEMMA ListsNothing == Lists(<< >>, {})
<1>1. << >> \in Seq(Batch) /\ Len(<< >>) = 0
  BY EmptySeq
<1>. QED
  BY <1>1 DEF Lists, Once, Holds

\* The answer of a utility call names no request.
LEMMA ListsUtility ==
  ASSUME NEW c \in Sockets
  PROVE  Lists(<<[client |-> c, reqs |-> {}]>>, {})
<1>. DEFINE b == [client |-> c, reqs |-> {}]
<1>1. b \in Batch
  BY DEF Batch, Clients
<1>2. <<b>> \in Seq(Batch) /\ Len(<<b>>) = 1 /\ <<b>>[1] = b
  BY <1>1
<1>3. b.reqs = {}
  OBVIOUS
<1>. HIDE DEF b
<1>4. Lists(<<b>>, {})
  BY <1>2, <1>3 DEF Lists, Once, Holds
<1>. QED
  BY <1>4 DEF b

\* Any order of the per-client batches answers each request of S once.
LEMMA ListsBatches ==
  ASSUME NEW S, S \subseteq Requests, IsFiniteSet(S), NEW q \in SetToSeqs(Batches(S))
  PROVE  Lists(q, S)
<1>. DEFINE B == Batches(S)
            n == Cardinality(B)
            Of(c) == [client |-> c, reqs |-> {r \in S : ClientIndex[r] = c}]
<1>1. \A b \in B : \E r \in S : b = Of(ClientIndex[r])
  BY DEF Batches
<1>2. IsFiniteSet(B)
  <2>. DEFINE f == [r \in S |-> Of(ClientIndex[r])]
  <2>1. \A r \in S : Of(ClientIndex[r]) \in B
    BY DEF Batches
  <2>. HIDE DEF B, Of
  <2>2. f \in Surjection(S, B)
    BY <1>1, <2>1 DEF Surjection
  <2>. QED
    BY <2>2, FS_Surjection
<1>3. B \subseteq Batch
  BY DEF Batches, Batch, Clients
<1>4. n \in Nat
  BY <1>2, FS_CardinalityType
<1>5. q \in [1..n -> B] /\ \A i, j \in 1..n : i # j => q[i] # q[j]
  BY DEF SetToSeqs
<1>6. q \in Surjection(1..n, B)
  <2>1. q \in Injection(1..n, B)
    BY <1>5 DEF Injection, IsInjective
  <2>. HIDE DEF n
  <2>2. IsFiniteSet(1..n) /\ Cardinality(1..n) = n
    BY <1>4, FS_Interval
  <2>. QED
    BY <1>2, <2>1, <2>2, FS_Injection DEF n
<1>7. \A b \in B : b = Of(b.client)
  BY DEF Batches
<1>8. \A r \in S : Of(ClientIndex[r]) \in B /\ r \in Of(ClientIndex[r]).reqs
  BY DEF Batches
<1>9. \A c : Of(c).reqs \subseteq S /\ \A r \in Of(c).reqs : ClientIndex[r] = c
  OBVIOUS
<1>. HIDE DEF B, n, Of
<1>10. q \in Seq(Batch) /\ Len(q) = n
  BY <1>3, <1>4, <1>5
<1>11. Once(q)
  <2>. SUFFICES ASSUME NEW i \in 1..n, NEW j \in 1..n, NEW r \in q[i].reqs, r \in q[j].reqs
                PROVE  i = j
    BY <1>10 DEF Once
  <2>1. q[i] = Of(q[i].client) /\ q[j] = Of(q[j].client)
    BY <1>5, <1>7
  <2>2. q[i].client = ClientIndex[r] /\ q[j].client = ClientIndex[r]
    BY <2>1, <1>9
  <2>. QED
    BY <2>1, <2>2, <1>5
<1>12. ASSUME NEW r \in Requests PROVE Holds(q, r) <=> r \in S
  <2>1. ASSUME Holds(q, r) PROVE r \in S
    BY <2>1, <1>5, <1>7, <1>9, <1>10 DEF Holds
  <2>2. ASSUME r \in S PROVE Holds(q, r)
    <3>1. PICK i \in 1..n : q[i] = Of(ClientIndex[r])
      BY <2>2, <1>6, <1>8 DEF Surjection
    <3>. QED
      BY <2>2, <3>1, <1>8, <1>10 DEF Holds
  <2>. QED
    BY <2>1, <2>2
<1>. QED
  BY <1>10, <1>11, <1>12 DEF Lists

\* Sending q behind the outputs already queued.
LEMMA QueueGrows ==
  ASSUME NEW p \in Seq(Batch), Once(p), NEW q, NEW S, Lists(q, S),
         \A r \in S : ~ Holds(p, r)
  PROVE  /\ p \o q \in Seq(Batch) /\ Once(p \o q)
         /\ \A r \in Requests : Holds(p \o q, r) <=> Holds(p, r) \/ r \in S
<1>1. q \in Seq(Batch) /\ Once(q) /\ \A r \in Requests : Holds(q, r) <=> r \in S
  BY DEF Lists
<1>2. Len(p) \in Nat /\ Len(q) \in Nat
  BY <1>1, LenProperties
<1>3. p \o q \in Seq(Batch) /\ Len(p \o q) = Len(p) + Len(q)
  BY <1>1, ConcatProperties
<1>4. /\ \A i \in 1..Len(p) : (p \o q)[i] = p[i]
      /\ \A i \in 1..Len(q) : (p \o q)[Len(p) + i] = q[i]
  BY <1>1, <1>2, ConcatProperties
<1>5. \A i \in 1..Len(p \o q) : i \in 1..Len(p) \/ i - Len(p) \in 1..Len(q)
  BY <1>2, <1>3
<1>6. ASSUME NEW r \in Requests PROVE Holds(p \o q, r) <=> Holds(p, r) \/ Holds(q, r)
  <2>1. ASSUME Holds(p \o q, r) PROVE Holds(p, r) \/ Holds(q, r)
    <3>1. PICK i \in 1..Len(p \o q) : r \in (p \o q)[i].reqs
      BY <2>1 DEF Holds
    <3>2. CASE i \in 1..Len(p)
      BY <3>1, <3>2, <1>4 DEF Holds
    <3>3. CASE i - Len(p) \in 1..Len(q)
      <4>1. (p \o q)[i] = q[i - Len(p)]
        BY <3>3, <1>2, <1>4
      <4>. QED
        BY <3>1, <3>3, <4>1 DEF Holds
    <3>. QED
      BY <3>2, <3>3, <1>5
  <2>2. ASSUME Holds(p, r) PROVE Holds(p \o q, r)
    BY <2>2, <1>2, <1>3, <1>4 DEF Holds
  <2>3. ASSUME Holds(q, r) PROVE Holds(p \o q, r)
    <3>1. PICK i \in 1..Len(q) : r \in q[i].reqs
      BY <2>3 DEF Holds
    <3>2. Len(p) + i \in 1..Len(p \o q) /\ (p \o q)[Len(p) + i] = q[i]
      BY <1>2, <1>3, <1>4
    <3>. QED
      BY <3>1, <3>2 DEF Holds
  <2>. QED
    BY <2>1, <2>2, <2>3
<1>7. \A b \in Batch : b.reqs \subseteq Requests
  BY DEF Batch
<1>8. \A i \in 1..Len(p) : p[i] \in Batch
  BY ElementOfSeq
<1>9. \A i \in 1..Len(p), j \in 1..Len(q) : \A r \in p[i].reqs : r \notin q[j].reqs
  BY <1>1, <1>7, <1>8 DEF Holds
<1>10. Once(p \o q)
  <2>. SUFFICES ASSUME NEW i \in 1..Len(p \o q), NEW j \in 1..Len(p \o q),
                       NEW r \in (p \o q)[i].reqs, r \in (p \o q)[j].reqs
                PROVE  i = j
    BY DEF Once
  <2>1. CASE i \in 1..Len(p) /\ j \in 1..Len(p)
    BY <2>1, <1>4 DEF Once
  <2>2. CASE i \in 1..Len(p) /\ j - Len(p) \in 1..Len(q)
    <3>1. (p \o q)[j] = q[j - Len(p)]
      BY <2>2, <1>2, <1>4
    <3>. QED
      BY <2>2, <3>1, <1>4, <1>9
  <2>3. CASE i - Len(p) \in 1..Len(q) /\ j \in 1..Len(p)
    <3>1. (p \o q)[i] = q[i - Len(p)]
      BY <2>3, <1>2, <1>4
    <3>. QED
      BY <2>3, <3>1, <1>4, <1>9
  <2>4. CASE i - Len(p) \in 1..Len(q) /\ j - Len(p) \in 1..Len(q)
    <3>1. (p \o q)[i] = q[i - Len(p)] /\ (p \o q)[j] = q[j - Len(p)]
      BY <2>4, <1>2, <1>4
    <3>2. i - Len(p) = j - Len(p)
      BY <2>4, <3>1, <1>1 DEF Once
    <3>. QED
      BY <3>2, <1>2
  <2>. QED
    BY <2>1, <2>2, <2>3, <2>4, <1>5
<1>. QED
  BY <1>1, <1>3, <1>6, <1>10

\* Taking the first batch off the queue.
LEMMA QueueShrinks ==
  ASSUME NEW p \in Seq(Batch), Once(p), p # << >>
  PROVE  /\ Head(p) \in Batch /\ Tail(p) \in Seq(Batch) /\ Once(Tail(p))
         /\ \A r : Holds(p, r) <=> r \in Head(p).reqs \/ Holds(Tail(p), r)
         /\ \A r \in Head(p).reqs : ~ Holds(Tail(p), r)
<1>1. Len(p) \in Nat \ {0}
  BY EmptySeq
<1>2. Tail(p) \in Seq(Batch) /\ Len(Tail(p)) = Len(p) - 1 /\ Head(p) \in Batch
  BY HeadTailProperties
<1>3. \A i \in 1..Len(Tail(p)) : i + 1 \in 1..Len(p) /\ Tail(p)[i] = p[i + 1]
  BY <1>1, <1>2, HeadTailProperties
<1>4. Head(p) = p[1] /\ 1 \in 1..Len(p)
  BY <1>1
<1>5. Once(Tail(p))
  BY <1>1, <1>2, <1>3 DEF Once
<1>6. ASSUME NEW r PROVE Holds(p, r) <=> r \in Head(p).reqs \/ Holds(Tail(p), r)
  <2>1. ASSUME Holds(p, r), r \notin Head(p).reqs PROVE Holds(Tail(p), r)
    <3>1. PICK i \in 1..Len(p) : r \in p[i].reqs
      BY <2>1 DEF Holds
    <3>2. i # 1
      BY <3>1, <2>1, <1>4
    <3>3. i - 1 \in 1..Len(Tail(p)) /\ Tail(p)[i - 1] = p[i]
      BY <3>2, <1>1, <1>2, <1>3
    <3>. QED
      BY <3>1, <3>3 DEF Holds
  <2>2. r \in Head(p).reqs => Holds(p, r)
    BY <1>4 DEF Holds
  <2>3. Holds(Tail(p), r) => Holds(p, r)
    BY <1>3 DEF Holds
  <2>. QED
    BY <2>1, <2>2, <2>3
<1>7. ASSUME NEW r \in Head(p).reqs PROVE ~ Holds(Tail(p), r)
  <2>. SUFFICES ASSUME NEW i \in 1..Len(Tail(p)), r \in Tail(p)[i].reqs PROVE FALSE
    BY DEF Holds
  <2>1. r \in p[1].reqs /\ r \in p[i + 1].reqs /\ i + 1 \in 1..Len(p)
    BY <1>3, <1>4
  <2>2. i + 1 = 1
    BY <2>1, <1>4 DEF Once
  <2>. QED
    BY <2>2, <1>1, <1>2
<1>. QED
  BY <1>2, <1>5, <1>6, <1>7

(***************************************************************************)
(* The answers: where every terminal output is                             *)
(***************************************************************************)
Known == unfinished \cup answered

Control ==
  /\ sup \in {"connect", "select", "flush", "exited"}
  /\ loop \in {"idle", "running", "draining", "done", "failed", "aborted"}
  /\ io \in {"idle", "running", "flushing", "done", "failed", "aborted"}
  /\ sup = "connect" => loop = "idle"
  /\ io = "idle" <=> loop = "idle"
  /\ io = "done" => Ended /\ output_rx = << >>

Tracked ==
  /\ unfinished \subseteq Requests /\ answered \subseteq Requests
  /\ unfinished \cap answered = {} /\ IsFiniteSet(unfinished)

\* A queued, a delivered and a dropped output are three different things, each is the
\* answer of a request, and until the IO loop gives up every answer is one of them.
Places ==
  /\ output_rx \in Seq(Batch) /\ Once(output_rx)
  /\ delivered \in [Requests -> {0, 1}] /\ undeliverable \subseteq answered
  /\ \A r \in Requests :
       Holds(output_rx, r) => r \in answered /\ delivered[r] = 0 /\ r \notin undeliverable
  /\ \A r \in Requests : delivered[r] = 1 => r \in answered /\ r \notin undeliverable
  /\ io \notin {"failed", "aborted"} =>
       \A r \in answered : Holds(output_rx, r) \/ delivered[r] = 1 \/ r \in undeliverable

AnswerInv == Control /\ Tracked /\ Places /\ SettledAtExit

LEMMA AnswerInit == Init => AnswerInv
<1>. SUFFICES ASSUME Init PROVE AnswerInv
  OBVIOUS
<1>1. unfinished = {} /\ answered = {}
  BY DEF Init, Contract!Init
<1>2. Control /\ SettledAtExit
  BY <1>1 DEF Init, Control, SettledAtExit
<1>3. Tracked
  BY <1>1, FS_EmptySet DEF Tracked
<1>4. output_rx \in Seq(Batch) /\ Once(output_rx) /\ \A r : ~ Holds(output_rx, r)
  <2>1. output_rx = << >> /\ Len(<< >>) = 0 /\ << >> \in Seq(Batch)
    BY EmptySeq DEF Init
  <2>. QED
    BY <2>1 DEF Once, Holds
<1>5. Places
  BY <1>1, <1>4 DEF Init, Places
<1>. QED
  BY <1>2, <1>3, <1>5 DEF AnswerInv

\* What a call of the engine and the sends behind it do: S are the requests it ends.
Ends(q, S, next) ==
  /\ Alive /\ Lists(q, S) /\ S \cap answered = {}
  /\ answered' = answered \cup S
  /\ SendOutputs(q, next)
  /\ UNCHANGED <<sup, io, delivered, undeliverable>>

LEMMA EndsPlaces ==
  ASSUME AnswerInv, NEW q, NEW S, S \subseteq Requests, NEW next, Ends(q, S, next)
  PROVE  Places'
<1>. USE DEF AnswerInv
<1>1. Lists(q, S) /\ S \cap answered = {} /\ answered' = answered \cup S
  BY DEF Ends
<1>2. UNCHANGED <<io, delivered, undeliverable>>
  BY DEF Ends
<1>3. IoAlive \/ io \in {"failed", "aborted"}
  BY DEF Ends, Control, Alive, Ended, IoAlive
<1>4. \A r \in S : ~ Holds(output_rx, r)
  BY <1>1 DEF Places
<1>5. CASE IoAlive
  <2>1. output_rx' = output_rx \o q
    BY <1>5 DEF Ends, SendOutputs
  <2>2. /\ output_rx \o q \in Seq(Batch) /\ Once(output_rx \o q)
        /\ \A r \in Requests : Holds(output_rx \o q, r) <=> Holds(output_rx, r) \/ r \in S
    BY <1>1, <1>4, QueueGrows DEF Places
  <2>. DEFINE p == output_rx'
  <2>3. /\ p \in Seq(Batch) /\ Once(p)
        /\ \A r \in Requests : Holds(p, r) <=> Holds(output_rx, r) \/ r \in S
    BY <2>1, <2>2
  <2>4. \A r \in S : delivered[r] = 0 /\ r \notin undeliverable
    BY <1>1 DEF Places
  <2>5. /\ undeliverable \subseteq answered'
        /\ \A r \in Requests :
             Holds(p, r) => r \in answered' /\ delivered[r] = 0 /\ r \notin undeliverable
    BY <1>1, <2>3, <2>4 DEF Places
  <2>6. \A r \in Requests : delivered[r] = 1 => r \in answered' /\ r \notin undeliverable
    BY <1>1 DEF Places
  <2>7. io \notin {"failed", "aborted"}
    BY <1>5 DEF IoAlive
  <2>8. \A r \in answered' : Holds(p, r) \/ delivered[r] = 1 \/ r \in undeliverable
    BY <1>1, <2>3, <2>7 DEF Places, Tracked
  <2>. QED
    BY <1>2, <2>3, <2>5, <2>6, <2>8 DEF Places
<1>6. CASE ~IoAlive
  <2>1. output_rx' = output_rx
    BY <1>6 DEF Ends, SendOutputs
  <2>. QED
    BY <1>1, <1>2, <1>3, <1>6, <2>1 DEF Places
<1>. QED
  BY <1>5, <1>6

LEMMA EndsKeeps ==
  ASSUME AnswerInv, NEW q, NEW S, S \subseteq Requests,
         NEW next \in {"running", "draining", "done", "failed"}, Ends(q, S, next),
         Tracked', next = "done" => unfinished' = {}
  PROVE  AnswerInv'
<1>1. Places'
  BY EndsPlaces
<1>2. loop' \in {next, "failed"} /\ io # "done" /\ io # "idle" /\ sup # "connect"
      /\ UNCHANGED <<sup, io>>
  BY DEF Ends, SendOutputs, AnswerInv, Control, Alive, Ended
<1>3. Control'
  BY <1>2 DEF AnswerInv, Control
<1>4. SettledAtExit'
  BY <1>2 DEF SettledAtExit
<1>. QED
  BY <1>1, <1>3, <1>4 DEF AnswerInv

\* The engine's side of a call, by EngineContract.
LEMMA AcceptTracked ==
  ASSUME Tracked, NEW r, Contract!Accept(r)
  PROVE  Tracked' /\ answered' = answered
<1>1. IsFiniteSet(unfinished \cup {r})
  BY FS_AddElement DEF Tracked
<1>. QED
  BY <1>1 DEF Contract!Accept, Tracked

LEMMA RefuseTracked ==
  ASSUME Tracked, NEW r, Contract!Refuse(r)
  PROVE  /\ Tracked' /\ answered' = answered \cup {r}
         /\ {r} \subseteq Requests /\ {r} \cap answered = {} /\ IsFiniteSet({r})
<1>1. IsFiniteSet({r})
  BY FS_Singleton
<1>2. r \in Requests \ (unfinished \cup answered) /\ answered' = answered \cup {r}
      /\ unfinished' = unfinished
  BY DEF Contract!Refuse
<1>. QED
  BY <1>1, <1>2 DEF Tracked

LEMMA FinishTracked ==
  ASSUME Tracked, NEW S, Contract!Finish(S)
  PROVE  /\ Tracked' /\ answered' = answered \cup S /\ unfinished' = unfinished \ S
         /\ S \subseteq Requests /\ S \cap answered = {} /\ IsFiniteSet(S)
<1>1. S \subseteq unfinished /\ answered' = answered \cup S /\ unfinished' = unfinished \ S
  BY DEF Contract!Finish
<1>2. IsFiniteSet(S) /\ IsFiniteSet(unfinished \ S)
  BY <1>1, FS_Subset DEF Tracked
<1>. QED
  BY <1>1, <1>2 DEF Tracked

\* Every call that ends the requests of S, its sends and the next state of the loop.
LEMMA FinishKeeps ==
  ASSUME AnswerInv, Alive, NEW S, Contract!Finish(S),
         NEW q \in SetToSeqs(Batches(S)),
         NEW next \in {"running", "draining", "done"}, SendOutputs(q, next),
         next = "done" => S = unfinished,
         UNCHANGED <<sup, io, delivered, undeliverable>>
  PROVE  AnswerInv'
<1>1. /\ Tracked' /\ answered' = answered \cup S /\ unfinished' = unfinished \ S
      /\ S \subseteq Requests /\ S \cap answered = {} /\ IsFiniteSet(S)
  BY FinishTracked DEF AnswerInv
<1>2. Lists(q, S)
  BY <1>1, ListsBatches
<1>3. Ends(q, S, next)
  BY <1>1, <1>2 DEF Ends
<1>. QED
  BY <1>1, <1>3, EndsKeeps

LEMMA RefuseKeeps ==
  ASSUME AnswerInv, Alive, NEW r, Contract!Refuse(r),
         NEW q \in SetToSeqs(Batches({r})), SendOutputs(q, loop),
         UNCHANGED <<sup, io, delivered, undeliverable>>
  PROVE  AnswerInv'
<1>1. /\ Tracked' /\ answered' = answered \cup {r}
      /\ {r} \subseteq Requests /\ {r} \cap answered = {} /\ IsFiniteSet({r})
  BY RefuseTracked DEF AnswerInv
<1>2. Lists(q, {r})
  BY <1>1, ListsBatches
<1>3. Ends(q, {r}, loop)
  BY <1>1, <1>2 DEF Ends
<1>. QED
  BY <1>1, <1>3, EndsKeeps DEF Alive

\* A call that answers nobody.
LEMMA SilentKeeps ==
  ASSUME AnswerInv, Alive, NEW q, Lists(q, {}), Tracked', answered' = answered,
         NEW next \in {"running", "draining", "done", "failed"}, SendOutputs(q, next),
         next = "done" => unfinished' = {},
         UNCHANGED <<sup, io, delivered, undeliverable>>
  PROVE  AnswerInv'
<1>1. Ends(q, {}, next)
  BY DEF Ends
<1>. QED
  BY <1>1, EndsKeeps

LEMMA AbortAllKeeps ==
  ASSUME AnswerInv, Alive, AbortAll, UNCHANGED <<sup, io, delivered, undeliverable>>
  PROVE  AnswerInv'
<1>1. PICK q \in SetToSeqs(Batches(unfinished)) : SendOutputs(q, "done")
  BY DEF AbortAll
<1>2. CASE Contract!Finish(unfinished)
  BY <1>1, <1>2, FinishKeeps
<1>3. CASE unfinished = {} /\ UNCHANGED <<unfinished, answered>>
  <2>1. Lists(q, {})
    BY <1>1, <1>3, FS_EmptySet, ListsBatches
  <2>2. Tracked'
    BY <1>3 DEF AnswerInv, Tracked
  <2>. QED
    BY <1>1, <1>3, <2>1, <2>2, SilentKeeps
<1>. QED
  BY <1>2, <1>3 DEF AbortAll

LEMMA FinishSomeKeeps ==
  ASSUME AnswerInv, Alive, FinishSome, UNCHANGED <<sup, io, delivered, undeliverable>>
  PROVE  AnswerInv'
<1>1. loop \in {"running", "draining"}
  BY DEF Alive
<1>2. CASE UNCHANGED <<unfinished, answered>> /\ SendOutputs(<< >>, loop)
  <2>1. Tracked'
    BY <1>2 DEF AnswerInv, Tracked
  <2>. QED
    BY <1>1, <1>2, <2>1, ListsNothing, SilentKeeps
<1>3. ASSUME NEW S \in SUBSET unfinished, Contract!Finish(S),
             NEW q \in SetToSeqs(Batches(S)), SendOutputs(q, loop)
      PROVE  AnswerInv'
  BY <1>1, <1>3, FinishKeeps
<1>. QED
  BY <1>2, <1>3 DEF FinishSome

LEMMA HandleKeeps ==
  ASSUME AnswerInv, Alive, NEW m \in Frames,
         \/ m.type = "add" /\ HandleAdd(m.req)
         \/ m.type = "abort" /\ HandleAbort(m.req)
         \/ HandleExtra(m),
         UNCHANGED <<sup, io, delivered, undeliverable>>
  PROVE  AnswerInv'
<1>1. loop \in {"running", "draining"}
  BY DEF Alive
<1>. DEFINE r == m.req
<1>2. CASE HandleAdd(r)
  <2>. HIDE DEF r
  <2>1. CASE Contract!Accept(r) /\ SendOutputs(<< >>, loop)
    <3>1. Tracked' /\ answered' = answered
      BY <2>1, AcceptTracked DEF AnswerInv
    <3>. QED
      BY <1>1, <2>1, <3>1, ListsNothing, SilentKeeps
  <2>2. ASSUME Contract!Refuse(r), NEW q \in SetToSeqs(Batches({r})), SendOutputs(q, loop)
        PROVE  AnswerInv'
    BY <2>2, RefuseKeeps
  <2>. QED
    BY <1>2, <2>1, <2>2 DEF HandleAdd
<1>3. CASE HandleAbort(r)
  <2>. HIDE DEF r
  <2>1. ASSUME Contract!Finish({r}), NEW q \in SetToSeqs(Batches({r})), SendOutputs(q, loop)
        PROVE  AnswerInv'
    BY <1>1, <2>1, FinishKeeps
  <2>2. CASE UNCHANGED <<unfinished, answered>> /\ SendOutputs(<< >>, loop)
    <3>1. Tracked'
      BY <2>2 DEF AnswerInv, Tracked
    <3>. QED
      BY <1>1, <2>2, <3>1, ListsNothing, SilentKeeps
  <2>. QED
    BY <1>3, <2>1, <2>2 DEF HandleAbort
<1>4. CASE HandleExtra(m)
  <2>1. UNCHANGED <<unfinished, answered>>
    BY <1>4 DEF HandleExtra
  <2>2. Tracked'
    BY <2>1 DEF AnswerInv, Tracked
  <2>3. CASE m.type = "utility" /\ SendOutputs(<<[client |-> m.via, reqs |-> {}]>>, loop)
    <3>1. m.via \in Sockets
      BY RunLoopConstants DEF Frames, Add, AbortOf
    <3>2. Lists(<<[client |-> m.via, reqs |-> {}]>>, {})
      BY <3>1, ListsUtility
    <3>. QED
      BY <1>1, <2>1, <2>2, <2>3, <3>2, SilentKeeps
  <2>4. CASE SendOutputs(<< >>, loop)
    BY <1>1, <2>1, <2>2, <2>4, ListsNothing, SilentKeeps
  <2>5. CASE SendOutputs(<< >>, "failed")
    BY <2>1, <2>2, <2>5, ListsNothing, SilentKeeps
  <2>. QED
    BY <1>4, <2>3, <2>4, <2>5 DEF HandleExtra
<1>. QED
  BY <1>2, <1>3, <1>4

(***************************************************************************)
(* The frames: the way from a dealer socket to the engine                  *)
(***************************************************************************)
PipeTypes ==
  /\ sent \subseteq Frames
  /\ dealers \in [Sockets -> Seq(Frames)]
  /\ input_rx \in Seq(Frames)
  /\ holding = {} \/ \E m \in Frames : holding = {m}

\* The send of a batch, to a socket that takes it or to nobody.
LEMMA IoSendKeeps ==
  ASSUME AnswerInv, IoSend
  PROVE  AnswerInv'
<1>. USE DEF AnswerInv
<1>. DEFINE b == Head(output_rx)
<1>1. /\ IoAlive /\ output_rx # << >> /\ output_rx' = Tail(output_rx)
      /\ UNCHANGED <<sup, loop, unfinished, answered>>
  BY DEF IoSend, IoFrame, engine
<1>2. /\ b \in Batch /\ Tail(output_rx) \in Seq(Batch) /\ Once(Tail(output_rx))
      /\ \A r : Holds(output_rx, r) <=> r \in b.reqs \/ Holds(Tail(output_rx), r)
      /\ \A r \in b.reqs : ~ Holds(Tail(output_rx), r)
  BY <1>1, QueueShrinks DEF Places
<1>3. b.reqs \subseteq Requests
  <2>1. \A x \in Batch : x.reqs \subseteq Requests
    BY DEF Batch
  <2>. QED
    BY <1>2, <2>1
<1>4. \/ undeliverable' = undeliverable \cup b.reqs /\ UNCHANGED <<io, delivered>>
      \/ /\ delivered' = [r \in Requests |-> delivered[r] + IF r \in b.reqs THEN 1 ELSE 0]
         /\ UNCHANGED <<io, undeliverable>>
      \/ io' = "failed" /\ UNCHANGED <<delivered, undeliverable>>
  BY DEF IoSend
<1>. HIDE DEF b
<1>5. Tracked' /\ SettledAtExit'
  BY <1>1 DEF Tracked, SettledAtExit
<1>6. Control'
  BY <1>1, <1>4 DEF Control, IoAlive
<1>. DEFINE p == Tail(output_rx)
<1>7. /\ p \in Seq(Batch) /\ Once(p)
      /\ \A r : Holds(output_rx, r) <=> r \in b.reqs \/ Holds(p, r)
      /\ \A r \in b.reqs : ~ Holds(p, r)
      /\ output_rx' = p
  BY <1>1, <1>2
<1>8. \A r \in b.reqs : r \in answered /\ delivered[r] = 0 /\ r \notin undeliverable
  BY <1>3, <1>7 DEF Places
<1>9. io \notin {"failed", "aborted"}
  BY <1>1 DEF IoAlive
<1>. HIDE DEF p
<1>10. CASE undeliverable' = undeliverable \cup b.reqs /\ UNCHANGED <<io, delivered>>
  <2>1. undeliverable' \subseteq answered
    BY <1>8, <1>10 DEF Places
  <2>2. \A r \in Requests :
          Holds(p, r) => r \in answered /\ delivered[r] = 0 /\ r \notin undeliverable'
    BY <1>7, <1>10 DEF Places
  <2>3. \A r \in Requests : delivered[r] = 1 => r \in answered /\ r \notin undeliverable'
    BY <1>8, <1>10 DEF Places
  <2>4. \A r \in answered : Holds(p, r) \/ delivered[r] = 1 \/ r \in undeliverable'
    BY <1>7, <1>9, <1>10 DEF Places
  <2>5. Places'
    BY <1>1, <1>7, <1>10, <2>1, <2>2, <2>3, <2>4 DEF Places
  <2>. QED
    BY <1>5, <1>6, <2>5
<1>11. CASE /\ delivered' = [r \in Requests |-> delivered[r] + IF r \in b.reqs THEN 1 ELSE 0]
            /\ UNCHANGED <<io, undeliverable>>
  <2>1. \A r \in Requests :
          delivered'[r] = IF r \in b.reqs THEN 1 ELSE delivered[r]
    BY <1>8, <1>11 DEF Places
  <2>2. delivered' \in [Requests -> {0, 1}]
    BY <1>8, <1>11 DEF Places
  <2>3. \A r \in Requests :
          Holds(p, r) => r \in answered /\ delivered'[r] = 0 /\ r \notin undeliverable
    BY <1>7, <2>1 DEF Places
  <2>4. \A r \in Requests : delivered'[r] = 1 => r \in answered /\ r \notin undeliverable
    BY <1>8, <2>1 DEF Places
  <2>5. \A r \in answered : Holds(p, r) \/ delivered'[r] = 1 \/ r \in undeliverable
    BY <1>7, <1>9, <2>1 DEF Places, Tracked
  <2>6. undeliverable \subseteq answered
    BY DEF Places
  <2>7. UNCHANGED <<answered, undeliverable>>
    BY <1>1, <1>11
  <2>8. Places'
    BY <1>7, <2>2, <2>3, <2>4, <2>5, <2>6, <2>7 DEF Places
  <2>. QED
    BY <1>5, <1>6, <2>8
<1>12. CASE io' = "failed" /\ UNCHANGED <<delivered, undeliverable>>
  BY <1>1, <1>3, <1>5, <1>6, <1>7, <1>12 DEF Places
<1>. QED
  BY <1>4, <1>10, <1>11, <1>12

LEMMA AnswerStep ==
  ASSUME AnswerInv, PipeTypes, [Next]_vars
  PROVE  AnswerInv'
<1>. USE DEF AnswerInv
<1>. DEFINE Answers == <<unfinished, answered, output_rx, delivered, undeliverable>>
<1>1. ASSUME UNCHANGED <<sup, loop, io, Answers>> PROVE AnswerInv'
  BY <1>1 DEF Control, Ended, Tracked, Places, SettledAtExit
\* The loops and the supervisor change and the answers do not.
<1>2. ASSUME UNCHANGED Answers, Control', SettledAtExit',
             io \in {"failed", "aborted"} => io' \in {"failed", "aborted"}
      PROVE  AnswerInv'
  BY <1>2 DEF Tracked, Places
<1>3. CASE Frontend \/ DrainExpires
  <2>1. UNCHANGED <<sup, loop, io, Answers>>
    BY <1>3 DEF Frontend, DrainExpires, FrontendSend, PeerFails, Signal, PostInternal, engine
  <2>. QED
    BY <1>1, <2>1
<1>4. CASE Loop
  <2>1. CASE LoopDrained
    <3>1. /\ loop = "draining" /\ loop' = "done" /\ unfinished = {}
          /\ UNCHANGED <<sup, io, Answers>>
      BY <2>1 DEF LoopDrained, DrainComplete, LoopFrame
    <3>2. Control' /\ SettledAtExit'
      BY <3>1 DEF Control, Ended, SettledAtExit
    <3>. QED
      BY <1>2, <3>1, <3>2
  <2>2. CASE LoopShutdown
    <3>1. loop = "running" /\ UNCHANGED <<sup, io, delivered, undeliverable>>
      BY <2>2 DEF LoopShutdown, ShutdownReady, LoopFrame
    <3>2. CASE AbortAll
      BY <3>1, <3>2, AbortAllKeeps DEF Alive
    <3>3. CASE loop' = "draining" /\ UNCHANGED <<unfinished, answered, output_rx>>
      <4>1. Control' /\ SettledAtExit'
        BY <3>1, <3>3 DEF Control, Ended, SettledAtExit
      <4>. QED
        BY <1>2, <3>1, <3>3, <4>1
    <3>. QED
      BY <2>2, <3>2, <3>3 DEF LoopShutdown
  <2>3. CASE LoopDeadline
    BY <2>3, AbortAllKeeps DEF LoopDeadline, DeadlineReady, LoopFrame, Alive
  <2>4. CASE LoopInput
    <3>. DEFINE m == Head(input_rx)
    <3>1. /\ Alive /\ UNCHANGED <<sup, io, delivered, undeliverable>>
          /\ \/ m.type = "add" /\ HandleAdd(m.req)
             \/ m.type = "abort" /\ HandleAbort(m.req)
             \/ HandleExtra(m)
      BY <2>4 DEF LoopInput, LoopFrame
    <3>2. m \in Frames
      BY <2>4, HeadTailProperties DEF LoopInput, InputReady, PipeTypes
    <3>. HIDE DEF m
    <3>. QED
      BY <3>1, <3>2, HandleKeeps
  <2>5. CASE LoopInternal
    BY <2>5, FinishSomeKeeps DEF LoopInternal, LoopFrame
  <2>6. CASE LoopStep
    BY <2>6, FinishSomeKeeps DEF LoopStep, LoopFrame
  <2>. QED
    BY <1>4, <2>1, <2>2, <2>3, <2>4, <2>5, <2>6 DEF Loop
<1>5. CASE Io
  <2>1. CASE IoClosed
    <3>1. IoAlive /\ Ended /\ output_rx = << >> /\ io' = "done" /\ UNCHANGED <<sup, loop, Answers>>
      BY <2>1 DEF IoClosed, IoFrame, engine
    <3>2. Control' /\ SettledAtExit'
      BY <3>1 DEF Control, Ended, SettledAtExit, IoAlive
    <3>. QED
      BY <1>2, <3>1, <3>2 DEF IoAlive
  <2>2. CASE IoForward
    <3>1. io = "running" /\ io' \in {"running", "flushing"} /\ UNCHANGED <<sup, loop, Answers>>
      BY <2>2 DEF IoForward, IoFrame, engine
    <3>2. Control' /\ SettledAtExit'
      BY <3>1 DEF Control, Ended, SettledAtExit
    <3>. QED
      BY <1>2, <3>1, <3>2
  <2>3. ASSUME NEW c \in Sockets, IoTake(c) \/ IoRecvFails(c) PROVE AnswerInv'
    <3>1. io = "running" /\ io' \in {"running", "failed"} /\ UNCHANGED <<sup, loop, Answers>>
      BY <2>3 DEF IoTake, IoRecvFails, IoFrame, engine
    <3>2. Control' /\ SettledAtExit'
      BY <3>1 DEF Control, Ended, SettledAtExit
    <3>. QED
      BY <1>2, <3>1, <3>2
  <2>. QED
    BY <1>5, <2>1, <2>2, <2>3, IoSendKeeps DEF Io
<1>6. CASE Supervisor \/ SupFlushTimeout
  <2>1. UNCHANGED Answers
    BY <1>6 DEF Supervisor, SupConnect, SupLoopEnded, SupFlushed, SupIoEnded, SupFlushTimeout,
                SupFrame, engine
  <2>2. Control' /\ SettledAtExit' /\ (io \in {"failed", "aborted"} => io' \in {"failed", "aborted"})
    <3>1. CASE SupConnect
      BY <2>1, <3>1 DEF SupConnect, Control, Ended, SettledAtExit
    <3>2. CASE SupLoopEnded \/ SupFlushed \/ SupIoEnded
      BY <2>1, <3>2 DEF SupLoopEnded, SupFlushed, SupIoEnded, Control, Ended, SettledAtExit
    <3>3. CASE SupFlushTimeout
      BY <2>1, <3>3 DEF SupFlushTimeout, Control, Ended, SettledAtExit, IoAlive
    <3>. QED
      BY <1>6, <3>1, <3>2, <3>3 DEF Supervisor
  <2>. QED
    BY <1>2, <2>1, <2>2
<1>7. CASE Exited \/ UNCHANGED vars
  BY <1>1, <1>7 DEF Exited, vars, engine
<1>. QED
  BY <1>3, <1>4, <1>5, <1>6, <1>7 DEF Next, Timers

In(m, s) == \E i \in 1..Len(s) : s[i] = m

\* Every a in s has a b behind it.
Follows(s, a, b) == \A i \in 1..Len(s) : s[i] = a => \E j \in (i + 1)..Len(s) : s[j] = b

LEMMA AppendIn ==
  ASSUME NEW T, NEW s \in Seq(T), NEW e \in T
  PROVE  \A m : In(m, Append(s, e)) <=> In(m, s) \/ m = e
<1>1. Len(s) \in Nat /\ Len(Append(s, e)) = Len(s) + 1
  BY AppendProperties, LenProperties
<1>2. \A i \in 1..Len(s) : Append(s, e)[i] = s[i]
  BY AppendProperties
<1>3. Append(s, e)[Len(s) + 1] = e
  BY AppendProperties
<1>. QED
  BY <1>1, <1>2, <1>3 DEF In

LEMMA AppendFollows ==
  ASSUME NEW T, NEW s \in Seq(T), NEW e \in T, NEW a, NEW b, a # b
  PROVE  /\ e = b => Follows(Append(s, e), a, b)
         /\ e # a /\ Follows(s, a, b) => Follows(Append(s, e), a, b)
<1>1. Len(s) \in Nat /\ Len(Append(s, e)) = Len(s) + 1
  BY AppendProperties, LenProperties
<1>2. \A i \in 1..Len(s) : Append(s, e)[i] = s[i]
  BY AppendProperties
<1>3. Append(s, e)[Len(s) + 1] = e
  BY AppendProperties
<1>4. ASSUME e = b, NEW i \in 1..(Len(s) + 1), Append(s, e)[i] = a
      PROVE  Len(s) + 1 \in (i + 1)..(Len(s) + 1)
  BY <1>1, <1>3, <1>4
<1>5. e = b => Follows(Append(s, e), a, b)
  BY <1>1, <1>3, <1>4 DEF Follows
<1>6. ASSUME e # a, Follows(s, a, b), NEW i \in 1..(Len(s) + 1), Append(s, e)[i] = a
      PROVE  \E j \in (i + 1)..(Len(s) + 1) : Append(s, e)[j] = b
  <2>1. i \in 1..Len(s) /\ s[i] = a
    BY <1>1, <1>2, <1>3, <1>6
  <2>2. PICK j \in (i + 1)..Len(s) : s[j] = b
    BY <2>1, <1>6 DEF Follows
  <2>3. j \in 1..Len(s) /\ j \in (i + 1)..(Len(s) + 1)
    BY <2>1, <1>1
  <2>. QED
    BY <2>2, <2>3, <1>2
<1>7. e # a /\ Follows(s, a, b) => Follows(Append(s, e), a, b)
  BY <1>1, <1>6 DEF Follows
<1>. QED
  BY <1>5, <1>7

LEMMA TailIn ==
  ASSUME NEW T, NEW s \in Seq(T), s # << >>
  PROVE  \A m : In(m, s) <=> m = Head(s) \/ In(m, Tail(s))
<1>1. Len(s) \in Nat \ {0}
  BY EmptySeq
<1>2. Len(Tail(s)) = Len(s) - 1 /\ \A i \in 1..Len(Tail(s)) : Tail(s)[i] = s[i + 1]
  BY HeadTailProperties
<1>3. Head(s) = s[1] /\ 1 \in 1..Len(s)
  BY <1>1
<1>4. ASSUME NEW m, In(m, s), m # Head(s) PROVE In(m, Tail(s))
  <2>1. PICK i \in 1..Len(s) : s[i] = m
    BY <1>4 DEF In
  <2>2. i - 1 \in 1..Len(Tail(s)) /\ Tail(s)[i - 1] = s[i]
    BY <2>1, <1>1, <1>2, <1>3, <1>4
  <2>. QED
    BY <2>1, <2>2 DEF In
<1>5. ASSUME NEW m, In(m, Tail(s)) PROVE In(m, s)
  <2>1. PICK i \in 1..Len(Tail(s)) : Tail(s)[i] = m
    BY <1>5 DEF In
  <2>2. i + 1 \in 1..Len(s) /\ s[i + 1] = m
    BY <2>1, <1>1, <1>2
  <2>. QED
    BY <2>2 DEF In
<1>. QED
  BY <1>3, <1>4, <1>5 DEF In

LEMMA TailFollows ==
  ASSUME NEW T, NEW s \in Seq(T), s # << >>, NEW a, NEW b, Follows(s, a, b)
  PROVE  Follows(Tail(s), a, b) /\ (Head(s) = a => In(b, Tail(s)))
<1>1. Len(s) \in Nat \ {0}
  BY EmptySeq
<1>2. Len(Tail(s)) = Len(s) - 1 /\ \A i \in 1..Len(Tail(s)) : Tail(s)[i] = s[i + 1]
  BY HeadTailProperties
<1>3. Head(s) = s[1] /\ 1 \in 1..Len(s)
  BY <1>1
<1>4. ASSUME NEW i \in 0..Len(Tail(s)), s[i + 1] = a
      PROVE  \E j \in (i + 1)..Len(Tail(s)) : Tail(s)[j] = b
  <2>1. i + 1 \in 1..Len(s)
    BY <1>1, <1>2
  <2>2. PICK k \in ((i + 1) + 1)..Len(s) : s[k] = b
    BY <2>1, <1>4 DEF Follows
  <2>3. k - 1 \in (i + 1)..Len(Tail(s)) /\ Tail(s)[k - 1] = s[k]
    BY <1>1, <1>2
  <2>. QED
    BY <2>2, <2>3
<1>5. Follows(Tail(s), a, b)
  BY <1>1, <1>2, <1>4 DEF Follows
<1>6. ASSUME Head(s) = a PROVE In(b, Tail(s))
  <2>1. s[0 + 1] = a /\ 0 \in 0..Len(Tail(s))
    BY <1>1, <1>2, <1>3, <1>6
  <2>2. \E j \in (0 + 1)..Len(Tail(s)) : Tail(s)[j] = b
    BY <2>1, <1>4
  <2>. QED
    BY <2>2 DEF In
<1>. QED
  BY <1>5, <1>6

\* The dealer of a client carries only that client's frames.
OwnDealer == \A c \in Sockets : \A m \in Frames : In(m, dealers[c]) => m.via = c

OnWay(m) == In(m, dealers[m.via]) \/ m \in holding \/ In(m, input_rx)

\* A request and its abort take the same way, and the abort stays behind.
Ordered(r) ==
  AbortOf(r) \in sent =>
    /\ Add(r) \in sent
    /\ Follows(dealers[Origin[r]], Add(r), AbortOf(r))
    /\ Add(r) \in holding => In(AbortOf(r), dealers[Origin[r]])
    /\ \/ Follows(input_rx, Add(r), AbortOf(r))
       \/ AbortOf(r) \in holding \/ In(AbortOf(r), dealers[Origin[r]])

Reaches(r) ==
  /\ Add(r) \in sent => OnWay(Add(r)) \/ r \in Known
  /\ AbortOf(r) \in sent => OnWay(AbortOf(r)) \/ r \notin unfinished

PipeInv ==
  /\ PipeTypes /\ OwnDealer
  /\ ~Ended => \A r \in Requests : Ordered(r) /\ Reaches(r)

\* Frames of different kinds and requests are different.
LEMMA FrameFacts ==
  /\ \A r \in Requests : /\ Add(r) \in Frames /\ AbortOf(r) \in Frames /\ Add(r) # AbortOf(r)
                         /\ Add(r).type = "add" /\ Add(r).req = r /\ Add(r).via = Origin[r]
                         /\ AbortOf(r).type = "abort" /\ AbortOf(r).req = r
                         /\ AbortOf(r).via = Origin[r] /\ Origin[r] \in Sockets
  /\ \A m \in Frames : /\ m.via \in Sockets
                       /\ m.type = "add" => m.req \in Requests /\ m = Add(m.req)
                       /\ m.type = "abort" => m.req \in Requests /\ m = AbortOf(m.req)
<1>1. ASSUME NEW r \in Requests
      PROVE  /\ Add(r) \in Frames /\ AbortOf(r) \in Frames
             /\ Add(r).type = "add" /\ Add(r).req = r /\ Add(r).via = Origin[r]
             /\ AbortOf(r).type = "abort" /\ AbortOf(r).req = r
             /\ AbortOf(r).via = Origin[r] /\ Origin[r] \in Sockets
  BY RunLoopConstants DEF Frames, Add, AbortOf
<1>2. ASSUME NEW m \in Frames
      PROVE  /\ m.via \in Sockets
             /\ m.type = "add" => m.req \in Requests /\ m = Add(m.req)
             /\ m.type = "abort" => m.req \in Requests /\ m = AbortOf(m.req)
  <2>1. CASE \E r \in Requests : m = Add(r) \/ m = AbortOf(r)
    <3>1. PICK r \in Requests : m = Add(r) \/ m = AbortOf(r)
      BY <2>1
    <3>2. CASE m = Add(r)
      BY <3>2, <1>1
    <3>3. CASE m = AbortOf(r)
      BY <3>3, <1>1
    <3>. QED
      BY <3>1, <3>2, <3>3
  <2>2. CASE m \in Extras
    <3>1. m \in [type : {"utility", "bad_utility", "wave", "junk"}, via : Sockets]
      BY <2>2, RunLoopConstants
    <3>2. m.type \in {"utility", "bad_utility", "wave", "junk"} /\ m.via \in Sockets
      BY <3>1
    <3>. QED
      BY <3>2
  <2>. QED
    BY <2>1, <2>2 DEF Frames
<1>3. \A r \in Requests : Add(r) # AbortOf(r)
  BY <1>1
<1>. QED
  BY <1>1, <1>2, <1>3

LEMMA PipeInit == Init => PipeInv
<1>. SUFFICES ASSUME Init PROVE PipeInv
  OBVIOUS
<1>1. << >> \in Seq(Frames) /\ Len(<< >>) = 0
  BY EmptySeq
<1>2. PipeTypes
  BY <1>1 DEF Init, PipeTypes
<1>3. OwnDealer
  BY <1>1 DEF Init, OwnDealer, In
<1>. QED
  BY <1>2, <1>3 DEF Init, PipeInv, Ordered, Reaches

\* While no frame moves, only an engine that takes up a request it was not handed, or
\* forgets one, could break the pipeline.
LEMMA PipeStill ==
  ASSUME PipeInv, UNCHANGED <<sent, dealers, holding, input_rx>>,
         Ended => Ended', unfinished' \subseteq unfinished, Known \subseteq Known'
  PROVE  PipeInv'
<1>1. PipeTypes' /\ OwnDealer'
  BY DEF PipeInv, PipeTypes, OwnDealer
<1>2. ASSUME ~Ended', NEW r \in Requests PROVE Ordered(r)' /\ Reaches(r)'
  <2>1. Ordered(r) /\ Reaches(r)
    BY <1>2 DEF PipeInv
  <2>. QED
    BY <2>1 DEF Ordered, Reaches, OnWay
<1>. QED
  BY <1>1, <1>2 DEF PipeInv

LEMMA SendKeepsPipe ==
  ASSUME PipeInv, NEW m \in Frames, FrontendSend(m)
  PROVE  PipeInv'
<1>. DEFINE c == m.via
            D == dealers[c]
<1>1. /\ m \notin sent /\ sent' = sent \cup {m}
      /\ m.type = "abort" => Add(m.req) \in sent
      /\ dealers' = [dealers EXCEPT ![c] = Append(D, m)]
      /\ UNCHANGED <<loop, unfinished, answered, holding, input_rx>>
  BY DEF FrontendSend, engine
<1>2. c \in Sockets /\ D \in Seq(Frames) /\ Append(D, m) \in Seq(Frames)
  BY FrameFacts, AppendProperties DEF PipeInv, PipeTypes
<1>3. /\ \A x \in Sockets : dealers'[x] = IF x = c THEN Append(D, m) ELSE dealers[x]
      /\ dealers' \in [Sockets -> Seq(Frames)]
  BY <1>1, <1>2 DEF PipeInv, PipeTypes
<1>4. PipeTypes'
  BY <1>1, <1>3 DEF PipeInv, PipeTypes
<1>5. \A x : In(x, Append(D, m)) <=> In(x, D) \/ x = m
  BY <1>2, AppendIn
<1>. HIDE DEF c, D
<1>6. \A x \in Sockets, y \in Frames : In(y, dealers'[x]) => In(y, dealers[x]) \/ (y = m /\ x = c)
  BY <1>3, <1>5 DEF D
<1>7. \A x \in Sockets, y \in Frames : In(y, dealers[x]) => In(y, dealers'[x])
  BY <1>3, <1>5 DEF D
<1>8. In(m, dealers'[c])
  BY <1>2, <1>3, <1>5
<1>9. OwnDealer'
  BY <1>6 DEF PipeInv, OwnDealer, c
<1>10. ASSUME ~Ended', NEW r \in Requests PROVE Ordered(r)' /\ Reaches(r)'
  <2>. DEFINE a == Add(r)
              b == AbortOf(r)
              o == Origin[r]
  <2>1. /\ a \in Frames /\ b \in Frames /\ a # b /\ o \in Sockets
        /\ a.via = o /\ b.via = o /\ b.type = "abort" /\ b.req = r
    BY FrameFacts
  <2>2. Ordered(r) /\ Reaches(r)
    BY <1>1, <1>10 DEF PipeInv, Ended
  <2>3. b \in sent => a \in sent
    BY <2>2 DEF Ordered
  <2>4. ASSUME b \in sent' PROVE a \in sent /\ m # a
    BY <1>1, <2>1, <2>3, <2>4
  <2>5. ASSUME b \in sent' PROVE Follows(dealers'[o], a, b)
    <3>1. m = b => c = o /\ dealers'[o] = Append(D, b)
      BY <1>3, <2>1 DEF c
    <3>2. m = b => Follows(dealers'[o], a, b)
      BY <3>1, <1>2, <2>1, AppendFollows
    <3>3. ASSUME m # b PROVE Follows(dealers'[o], a, b)
      <4>1. Follows(dealers[o], a, b)
        BY <1>1, <2>2, <2>5, <3>3 DEF Ordered
      <4>2. CASE o = c
        <5>1. Follows(D, a, b) /\ m # a /\ a # b
          BY <2>1, <2>4, <2>5, <4>1, <4>2 DEF D
        <5>2. dealers'[o] = Append(D, m)
          BY <1>3, <2>1, <4>2
        <5>. HIDE DEF a, b, o
        <5>. QED
          BY <1>2, <5>1, <5>2, AppendFollows
      <4>3. CASE o # c
        BY <1>3, <2>1, <4>1, <4>3
      <4>. QED
        BY <4>2, <4>3
    <3>. QED
      BY <3>2, <3>3
  <2>6. m = b => In(b, dealers'[o])
    BY <1>8, <2>1 DEF c
  <2>7. In(b, dealers[o]) => In(b, dealers'[o])
    BY <1>7, <2>1
  <2>8. In(a, dealers[o]) => In(a, dealers'[o])
    BY <1>7, <2>1
  <2>9. m = a => In(a, dealers'[o])
    BY <1>8, <2>1 DEF c
  <2>10. Ordered(r)'
    BY <1>1, <2>2, <2>4, <2>5, <2>6, <2>7 DEF Ordered
  <2>11. Reaches(r)'
    BY <1>1, <2>1, <2>2, <2>6, <2>7, <2>8, <2>9 DEF Reaches, OnWay, Known
  <2>. QED
    BY <2>10, <2>11
<1>. QED
  BY <1>4, <1>9, <1>10 DEF PipeInv

LEMMA TakeKeepsPipe ==
  ASSUME PipeInv, NEW c \in Sockets, IoTake(c)
  PROVE  PipeInv'
<1>. DEFINE D == dealers[c]
            e == Head(D)
<1>1. /\ holding = {} /\ D # << >> /\ dealers' = [dealers EXCEPT ![c] = Tail(D)]
      /\ holding' = IF e.type = "junk" THEN {} ELSE {e}
      /\ UNCHANGED <<loop, unfinished, answered, sent, input_rx>>
  BY DEF IoTake, IoFrame, engine, frontend
<1>2. D \in Seq(Frames) /\ e \in Frames /\ Tail(D) \in Seq(Frames)
  BY <1>1, HeadTailProperties DEF PipeInv, PipeTypes
<1>3. /\ \A x \in Sockets : dealers'[x] = IF x = c THEN Tail(D) ELSE dealers[x]
      /\ dealers' \in [Sockets -> Seq(Frames)]
  BY <1>1, <1>2 DEF PipeInv, PipeTypes
<1>4. \A y : In(y, D) <=> y = e \/ In(y, Tail(D))
  BY <1>1, <1>2, TailIn
<1>. HIDE DEF e
<1>5. PipeTypes'
  BY <1>1, <1>2, <1>3 DEF PipeInv, PipeTypes
<1>6. \A x \in Sockets, y \in Frames : In(y, dealers'[x]) => In(y, dealers[x])
  BY <1>3, <1>4
<1>7. OwnDealer'
  BY <1>6 DEF PipeInv, OwnDealer
<1>8. e.via = c
  BY <1>2, <1>4 DEF PipeInv, OwnDealer
<1>9. ASSUME ~Ended', NEW r \in Requests PROVE Ordered(r)' /\ Reaches(r)'
  <2>. DEFINE a == Add(r)
              b == AbortOf(r)
              o == Origin[r]
  <2>1. /\ a \in Frames /\ b \in Frames /\ a # b /\ o \in Sockets
        /\ a.via = o /\ b.via = o /\ b.type = "abort" /\ a.type = "add"
    BY FrameFacts
  <2>2. Ordered(r) /\ Reaches(r)
    BY <1>1, <1>9 DEF PipeInv, Ended
  <2>3. \A y \in {a, b} : In(y, dealers[o]) => In(y, dealers'[o]) \/ y \in holding'
    BY <1>1, <1>3, <1>4, <2>1
  <2>4. ASSUME b \in sent
        PROVE  Follows(dealers'[o], a, b) /\ (a \in holding' => In(b, dealers'[o]))
    <3>1. Follows(dealers[o], a, b)
      BY <2>2, <2>4 DEF Ordered
    <3>2. CASE o = c
      <4>1. dealers'[o] = Tail(D) /\ dealers[o] = D
        BY <1>3, <3>2
      <4>2. Follows(Tail(D), a, b) /\ (e = a => In(b, Tail(D)))
        <5>. HIDE DEF a, b, D
        <5>. QED
          BY <1>1, <1>2, <3>1, <4>1, TailFollows DEF e
      <4>. QED
        BY <1>1, <4>1, <4>2
    <3>3. CASE o # c
      BY <1>1, <1>3, <1>8, <2>1, <3>1, <3>3
    <3>. QED
      BY <3>2, <3>3
  <2>5. Ordered(r)'
    BY <1>1, <2>2, <2>3, <2>4 DEF Ordered
  <2>6. Reaches(r)'
    BY <1>1, <2>1, <2>2, <2>3 DEF Reaches, OnWay, Known
  <2>. QED
    BY <2>5, <2>6
<1>. QED
  BY <1>5, <1>7, <1>9 DEF PipeInv

\* The one frame the IO loop holds, as a sequence.
LEMMA HeldFrame ==
  ASSUME NEW m
  PROVE  SetToSeq({m}) = <<m>>
<1>1. Cardinality({m}) = 1
  BY FS_Singleton
<1>2. SetToSeq({m}) = CHOOSE f \in [1..1 -> {m}] : IsInjective(f)
  BY <1>1 DEF SetToSeq
<1>3. <<m>> \in [1..1 -> {m}] /\ IsInjective(<<m>>)
  BY DEF IsInjective
<1>4. \A f \in [1..1 -> {m}] : f = <<m>>
  OBVIOUS
<1>. QED
  BY <1>2, <1>3, <1>4

LEMMA ForwardKeepsPipe ==
  ASSUME PipeInv, IoForward
  PROVE  PipeInv'
<1>1. /\ holding # {} /\ holding' = {}
      /\ UNCHANGED <<loop, unfinished, answered, sent, dealers>>
      /\ \/ ~Ended /\ input_rx' = input_rx \o SetToSeq(holding)
         \/ Ended /\ UNCHANGED input_rx
  BY DEF IoForward, IoFrame, engine, frontend
<1>2. OwnDealer'
  BY <1>1 DEF PipeInv, OwnDealer
<1>3. CASE Ended /\ UNCHANGED input_rx
  BY <1>1, <1>2, <1>3 DEF PipeInv, PipeTypes, Ended
<1>4. CASE ~Ended /\ input_rx' = input_rx \o SetToSeq(holding)
  <2>1. PICK e \in Frames : holding = {e}
    BY <1>1 DEF PipeInv, PipeTypes
  <2>2. input_rx \in Seq(Frames)
    BY DEF PipeInv, PipeTypes
  <2>3. input_rx' = Append(input_rx, e)
    BY <1>4, <2>1, <2>2, HeldFrame, AppendIsConcat
  <2>4. input_rx' \in Seq(Frames) /\ \A y : In(y, input_rx') <=> In(y, input_rx) \/ y = e
    BY <2>2, <2>3, AppendIn, AppendProperties
  <2>5. PipeTypes'
    BY <1>1, <2>4 DEF PipeInv, PipeTypes
  <2>6. ASSUME NEW r \in Requests PROVE Ordered(r)' /\ Reaches(r)'
    <3>. DEFINE a == Add(r)
                b == AbortOf(r)
                o == Origin[r]
    <3>1. a \in Frames /\ b \in Frames /\ a # b /\ a.via = o /\ b.via = o
      BY FrameFacts
    <3>2. Ordered(r) /\ Reaches(r)
      BY <1>4 DEF PipeInv
    <3>3. ASSUME b \in sent PROVE Follows(input_rx', a, b) \/ In(b, dealers[o])
      <4>1. /\ \/ Follows(input_rx, a, b) \/ b \in holding \/ In(b, dealers[o])
            /\ a \in holding => In(b, dealers[o])
        BY <3>2, <3>3 DEF Ordered
      <4>2. e = a => In(b, dealers[o])
        BY <2>1, <4>1
      <4>. HIDE DEF a, b, o
      <4>3. e = b => Follows(input_rx', a, b)
        BY <2>2, <2>3, <3>1, AppendFollows
      <4>4. e # a /\ Follows(input_rx, a, b) => Follows(input_rx', a, b)
        BY <2>2, <2>3, <3>1, AppendFollows
      <4>. QED
        BY <2>1, <4>1, <4>2, <4>3, <4>4
    <3>4. Ordered(r)'
      BY <1>1, <3>2, <3>3 DEF Ordered
    <3>5. Reaches(r)'
      BY <1>1, <2>1, <2>4, <3>1, <3>2 DEF Reaches, OnWay, Known
    <3>. QED
      BY <3>4, <3>5
  <2>. QED
    BY <1>2, <2>5, <2>6 DEF PipeInv
<1>. QED
  BY <1>1, <1>3, <1>4

\* What the engine knows after a frame was handled.
LEMMA HandleEffect ==
  ASSUME NEW m \in Frames,
         \/ m.type = "add" /\ HandleAdd(m.req)
         \/ m.type = "abort" /\ HandleAbort(m.req)
         \/ HandleExtra(m)
  PROVE  /\ Known \subseteq Known'
         /\ \A r \in Requests : m = Add(r) => r \in Known'
         /\ \A r \in Requests : m = AbortOf(r) => r \notin unfinished'
         /\ \A r \in Requests : r \in unfinished' => r \in unfinished \/ m = Add(r)
<1>1. CASE m.type = "add" /\ HandleAdd(m.req)
  <2>1. m = Add(m.req) /\ \A r \in Requests : m # AbortOf(r) /\ (m = Add(r) => r = m.req)
    BY <1>1, FrameFacts
  <2>2. m.req \in Known' /\ Known \subseteq Known' /\ unfinished' \subseteq unfinished \cup {m.req}
    BY <1>1 DEF HandleAdd, Contract!Accept, Contract!Refuse, Known
  <2>. QED
    BY <2>1, <2>2
<1>2. CASE m.type = "abort" /\ HandleAbort(m.req)
  <2>1. \A r \in Requests : m # Add(r) /\ (m = AbortOf(r) => r = m.req)
    BY <1>2, FrameFacts
  <2>2. m.req \notin unfinished' /\ Known \subseteq Known' /\ unfinished' \subseteq unfinished
    BY <1>2 DEF HandleAbort, Contract!Finish, Known
  <2>. QED
    BY <2>1, <2>2
<1>3. CASE HandleExtra(m)
  <2>1. m.type \in {"utility", "wave", "bad_utility"} /\ UNCHANGED <<unfinished, answered>>
    BY <1>3 DEF HandleExtra
  <2>2. \A r \in Requests : m # Add(r) /\ m # AbortOf(r)
    BY <2>1, FrameFacts
  <2>. QED
    BY <2>1, <2>2 DEF Known
<1>. QED
  BY <1>1, <1>2, <1>3

LEMMA InputKeepsPipe ==
  ASSUME PipeInv, LoopInput
  PROVE  PipeInv'
<1>. DEFINE e == Head(input_rx)
<1>1. /\ ~Ended /\ input_rx # << >> /\ input_rx' = Tail(input_rx)
      /\ UNCHANGED <<sent, dealers, holding>>
      /\ \/ e.type = "add" /\ HandleAdd(e.req)
         \/ e.type = "abort" /\ HandleAbort(e.req)
         \/ HandleExtra(e)
  BY DEF LoopInput, LoopFrame, InputReady, Alive, Ended, frontend
<1>2. input_rx \in Seq(Frames) /\ e \in Frames /\ Tail(input_rx) \in Seq(Frames)
  BY <1>1, HeadTailProperties DEF PipeInv, PipeTypes
<1>3. \A y : In(y, input_rx) <=> y = e \/ In(y, input_rx')
  BY <1>1, <1>2, TailIn
<1>4. PipeTypes' /\ OwnDealer'
  BY <1>1, <1>2 DEF PipeInv, PipeTypes, OwnDealer
<1>5. \A a, b : Follows(input_rx, a, b) => Follows(input_rx', a, b) /\ (e = a => In(b, input_rx'))
  BY <1>1, <1>2, TailFollows
<1>. HIDE DEF e
<1>6. /\ Known \subseteq Known'
      /\ \A r \in Requests : e = Add(r) => r \in Known'
      /\ \A r \in Requests : e = AbortOf(r) => r \notin unfinished'
      /\ \A r \in Requests : r \in unfinished' => r \in unfinished \/ e = Add(r)
  BY <1>1, <1>2, HandleEffect
<1>7. ASSUME NEW r \in Requests PROVE Ordered(r)' /\ Reaches(r)'
  <2>. DEFINE a == Add(r)
              b == AbortOf(r)
              o == Origin[r]
  <2>1. a # b /\ a.via = o /\ b.via = o
    BY FrameFacts
  <2>2. Ordered(r) /\ Reaches(r)
    BY <1>1 DEF PipeInv
  <2>3. Ordered(r)'
    BY <1>1, <1>5, <2>2 DEF Ordered
  <2>4. a \in sent => OnWay(a)' \/ r \in Known'
    BY <1>1, <1>3, <1>6, <2>1, <2>2 DEF Reaches, OnWay
  <2>5. ASSUME b \in sent PROVE OnWay(b)' \/ r \notin unfinished'
    <3>1. CASE e = a
      BY <1>1, <1>5, <2>1, <2>2, <2>5, <3>1 DEF Ordered, OnWay
    <3>2. CASE e # a
      BY <1>1, <1>3, <1>6, <2>1, <2>2, <2>5, <3>2 DEF Reaches, OnWay
    <3>. QED
      BY <3>1, <3>2
  <2>. QED
    BY <1>1, <2>3, <2>4, <2>5 DEF Reaches
<1>. QED
  BY <1>4, <1>7 DEF PipeInv

LEMMA PipeStep ==
  ASSUME PipeInv, AnswerInv, [Next]_vars
  PROVE  PipeInv'
<1>. DEFINE Pipe == <<sent, dealers, holding, input_rx>>
<1>1. ASSUME UNCHANGED <<Pipe, unfinished, answered>>, Ended => Ended' PROVE PipeInv'
  BY <1>1, PipeStill DEF Known
<1>2. CASE Frontend \/ DrainExpires
  <2>1. ASSUME NEW c \in Fragile, PeerFails(c)
        PROVE  UNCHANGED <<Pipe, unfinished, answered, loop>>
    BY <2>1 DEF PeerFails, engine
  <2>2. Signal \/ PostInternal \/ DrainExpires => UNCHANGED <<Pipe, unfinished, answered, loop>>
    BY DEF Signal, PostInternal, DrainExpires, engine, frontend
  <2>. QED
    BY <1>1, <1>2, <2>1, <2>2, SendKeepsPipe DEF Frontend, Ended
<1>3. CASE Loop
  <2>1. CASE LoopInput
    BY <2>1, InputKeepsPipe
  <2>2. CASE LoopDrained \/ LoopShutdown \/ LoopDeadline \/ LoopInternal \/ LoopStep
    <3>1. UNCHANGED Pipe /\ ~Ended
      BY <2>2 DEF LoopDrained, LoopShutdown, LoopDeadline, LoopInternal, LoopStep, LoopFrame,
                  DrainComplete, ShutdownReady, DeadlineReady, Alive, Ended, frontend
    <3>2. \/ UNCHANGED <<unfinished, answered>>
          \/ \E S \in SUBSET unfinished : Contract!Finish(S)
      BY <2>2 DEF LoopDrained, LoopShutdown, LoopDeadline, LoopInternal, LoopStep, AbortAll,
                  FinishSome
    <3>3. unfinished' \subseteq unfinished /\ Known \subseteq Known'
      BY <3>2 DEF Contract!Finish, Known
    <3>. QED
      BY <3>1, <3>3, PipeStill
  <2>. QED
    BY <1>3, <2>1, <2>2 DEF Loop
<1>4. CASE Io
  <2>1. IoSend \/ IoClosed => UNCHANGED <<Pipe, unfinished, answered, loop>>
    BY DEF IoSend, IoClosed, IoFrame, engine, frontend
  <2>2. ASSUME NEW c \in Sockets, IoRecvFails(c)
        PROVE  UNCHANGED <<Pipe, unfinished, answered, loop>>
    BY <2>2 DEF IoRecvFails, IoFrame, engine, frontend
  <2>. QED
    BY <1>1, <1>4, <2>1, <2>2, TakeKeepsPipe, ForwardKeepsPipe DEF Io, Ended
<1>5. CASE Supervisor \/ SupFlushTimeout
  <2>1. UNCHANGED <<Pipe, unfinished, answered>>
    BY <1>5 DEF Supervisor, SupConnect, SupLoopEnded, SupFlushed, SupIoEnded, SupFlushTimeout,
                SupFrame, engine, frontend
  <2>2. Ended => Ended'
    BY <1>5 DEF Supervisor, SupConnect, SupLoopEnded, SupFlushed, SupIoEnded, SupFlushTimeout,
                Ended, AnswerInv, Control
  <2>. QED
    BY <1>1, <2>1, <2>2
<1>6. CASE Exited \/ UNCHANGED vars
  BY <1>1, <1>6 DEF Exited, vars, engine, frontend, Ended
<1>. QED
  BY <1>2, <1>3, <1>4, <1>5, <1>6 DEF Next, Timers

(***************************************************************************)
(* The theorems                                                            *)
(***************************************************************************)
LoopInv == AnswerInv /\ PipeInv

\* What the loops and the supervisor keep true of frames and answers.
THEOREM LoopInvariant == Spec => []LoopInv
<1>1. Init => LoopInv
  BY AnswerInit, PipeInit DEF LoopInv
<1>2. LoopInv /\ [Next]_vars => LoopInv'
  BY AnswerStep, PipeStep DEF LoopInv, PipeInv
<1>. QED
  BY <1>1, <1>2, PTL DEF Spec

\* How often an answer is queued, as a number.
LEMMA QueuedIs ==
  ASSUME Places, NEW r \in Requests
  PROVE  Queued(r) = IF Holds(output_rx, r) THEN 1 ELSE 0
<1>. DEFINE I == {i \in 1..Len(output_rx) : r \in output_rx[i].reqs}
<1>1. CASE Holds(output_rx, r)
  <2>1. PICK i \in 1..Len(output_rx) : r \in output_rx[i].reqs
    BY <1>1 DEF Holds
  <2>2. I = {i}
    BY <2>1 DEF Places, Once
  <2>3. Cardinality({i}) = 1
    BY FS_Singleton
  <2>. QED
    BY <1>1, <2>2, <2>3 DEF Queued
<1>2. CASE ~ Holds(output_rx, r)
  <2>1. I = {}
    BY <1>2 DEF Holds
  <2>. QED
    BY <1>2, <2>1, FS_EmptySet DEF Queued
<1>. QED
  BY <1>1, <1>2

LEMMA AnswersConserved == AnswerInv => OutputsConserved
<1>. SUFFICES ASSUME AnswerInv, NEW r \in Requests
              PROVE  LET n == Queued(r) + delivered[r] + IF r \in undeliverable THEN 1 ELSE 0 IN
                     /\ r \notin answered => n = 0
                     /\ r \in answered /\ IoAlive => n = 1
                     /\ n <= 1
  BY DEF OutputsConserved
<1>1. Queued(r) = IF Holds(output_rx, r) THEN 1 ELSE 0
  BY QueuedIs DEF AnswerInv
<1>2. delivered[r] \in {0, 1}
  BY DEF AnswerInv, Places
<1>. QED
  BY <1>1, <1>2 DEF AnswerInv, Places, IoAlive

(* Nothing is lost or told twice between a frontend and the engine, whatever the order of    *)
(* the select! arms, the drain, a send that fails or a frame in the IO loop's hands.         *)
THEOREM LoopsLoseNothing == Spec => []NothingLost
<1>1. LoopInv => FramesReachEngine
  <2>. SUFFICES ASSUME LoopInv, NEW r \in Requests, Alive
                PROVE  /\ Add(r) \in sent => InPipeline(Add(r)) \/ r \in unfinished \cup answered
                       /\ AbortOf(r) \in sent => InPipeline(AbortOf(r)) \/ r \notin unfinished
    BY DEF FramesReachEngine
  <2>1. Reaches(r)
    BY DEF LoopInv, PipeInv, Alive, Ended
  <2>2. ASSUME NEW m \in Frames, OnWay(m) PROVE InPipeline(m)
    <3>1. m.via \in Sockets /\ dealers[m.via] \in Seq(Frames) /\ input_rx \in Seq(Frames)
      BY FrameFacts DEF LoopInv, PipeInv, PipeTypes
    <3>2. DOMAIN dealers[m.via] = 1..Len(dealers[m.via]) /\ DOMAIN input_rx = 1..Len(input_rx)
      BY <3>1, LenProperties
    <3>. QED
      BY <2>2, <3>2 DEF OnWay, InPipeline, In, ToSet
  <2>. QED
    BY <2>1, <2>2, FrameFacts DEF Reaches, Known
<1>2. LoopInv => NothingLost
  BY <1>1, AnswersConserved DEF NothingLost, LoopInv
<1>. QED
  BY <1>2, LoopInvariant, PTL

(* run_loop returns Ok only when the engine owes nothing, and when the IO loop ended         *)
(* normally as well every request was told how it ended, if its client has a socket.         *)
THEOREM GracefulEndIsComplete == Spec => []GracefulEnd
<1>1. LoopInv => GracefulEnd
  <2>. SUFFICES ASSUME LoopInv PROVE GracefulEnd
    OBVIOUS
  <2>1. SettledAtExit
    BY DEF LoopInv, AnswerInv
  <2>2. ASSUME loop = "done", io = "done", NEW r \in unfinished \cup answered
        PROVE  r \in undeliverable \/ delivered[r] = 1
    <3>1. r \in answered
      BY <2>1, <2>2 DEF SettledAtExit
    <3>2. output_rx = << >> /\ Len(<< >>) = 0
      BY <2>2, EmptySeq DEF LoopInv, AnswerInv, Control
    <3>3. ~ Holds(output_rx, r)
      BY <3>2 DEF Holds
    <3>. QED
      BY <2>2, <3>1, <3>3 DEF LoopInv, AnswerInv, Places
  <2>. QED
    BY <2>1, <2>2 DEF GracefulEnd, GracefulEndDelivers
<1>. QED
  BY <1>1, LoopInvariant, PTL
=============================================================================
