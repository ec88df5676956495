---------------------------- MODULE TraceProofs ----------------------------
(* The life of a trace, proved for every value of the constants: what the    *)
(* tap forwards, observes and records (Tap), what its readers and writers    *)
(* leave of their input files, local or downloaded (RemoteInputs), which     *)
(* record a live request is served and how (Replay), and when a recorded     *)
(* request is sent again and what it shares (ArrivalReplay).                 *)
EXTENDS Tap, RemoteInputs, Replay, ArrivalReplay, SequenceTheorems, FiniteSetTheorems, WellFoundedInduction, TLAPS

(***************************************************************************)
(* Folds over sequences, by induction over their length                    *)
(***************************************************************************)
LEMMA NatInductive ==
  ASSUME NEW T, 0 \in T, \A n \in Nat : n \in T => n + 1 \in T
  PROVE  Nat \subseteq T
<1> DEFINE Less == {ss \in Nat \X Nat : ss[1] < ss[2]}
<1> SUFFICES ASSUME Nat \ T # {} PROVE FALSE
  OBVIOUS
<1>1. IsWellFoundedOn(Less, Nat)
  BY NatLessThanWellFounded DEF OpToRel
<1>2. PICK n \in Nat \ T : \A m \in Nat \ T : ~(<<m, n>> \in Less)
  BY <1>1, WFMin
<1>3. n # 0 /\ n - 1 \in Nat /\ n - 1 < n
  BY <1>2
<1>4. n - 1 \in T
  BY <1>2, <1>3
<1> QED BY <1>3, <1>4

LEMMA MaxOfSet ==
  ASSUME NEW n \in Nat, NEW s \in SUBSET (1..n), s # {}
  PROVE  Max(s) \in s /\ \A y \in s : Max(s) >= y
<1> DEFINE T == {k \in Nat : \A u \in SUBSET (1..k) : u # {} => \E x \in u : \A y \in u : x >= y}
<1>1. 0 \in T
  <2>1. SUBSET (1..0) = {{}}
    OBVIOUS
  <2> QED BY <2>1
<1>2. ASSUME NEW k \in Nat, k \in T PROVE k + 1 \in T
  <2> SUFFICES ASSUME NEW u \in SUBSET (1..(k+1)), u # {} PROVE \E x \in u : \A y \in u : x >= y
    OBVIOUS
  <2>1. CASE k + 1 \in u
    BY <2>1
  <2>2. CASE k + 1 \notin u
    <3>1. u \in SUBSET (1..k)
      BY <2>2
    <3> QED BY <1>2, <3>1
  <2> QED BY <2>1, <2>2
<1> HIDE DEF T
<1>3. Nat \subseteq T
  BY <1>1, <1>2, NatInductive
<1>4. n \in T
  BY <1>3
<1>5. \E x \in s : \A y \in s : x >= y
  BY <1>4 DEF T
<1> QED BY <1>5 DEF Max

LEMMA LeastOf ==
  ASSUME NEW s \in SUBSET Nat, s # {}
  PROVE  \E x \in s : \A y \in s : x <= y
<1> DEFINE T == {n \in Nat : \A m \in 0..n : m \notin s}
<1> SUFFICES ASSUME ~\E x \in s : \A y \in s : x <= y PROVE FALSE
  OBVIOUS
<1>1. 0 \in T
  <2>1. \A y \in s : 0 <= y
    OBVIOUS
  <2> QED BY <2>1
<1>2. ASSUME NEW n \in Nat, n \in T PROVE n + 1 \in T
  <2>1. \A m \in 0..(n+1) : m \in 0..n \/ m = n + 1
    OBVIOUS
  <2>2. \A y \in s : ~(y < n + 1)
    BY <1>2
  <2>3. n + 1 \notin s
    BY <2>2
  <2> QED BY <1>2, <2>1, <2>3
<1> HIDE DEF T
<1>3. Nat \subseteq T
  BY <1>1, <1>2, NatInductive
<1>4. PICK n \in s : TRUE
  OBVIOUS
<1>5. n \in T /\ n \in 0..n
  BY <1>3, <1>4
<1> QED BY <1>4, <1>5 DEF T

LEMMA MinOfSet ==
  ASSUME NEW s \in SUBSET Nat, s # {}
  PROVE  Min(s) \in s /\ \A y \in s : Min(s) <= y
BY LeastOf DEF Min

\* f holds what folding step over q from base has come to after each element.
Iterates(f, D, base, q, step) ==
  /\ f \in [0..Len(q) -> D] /\ f[0] = base
  /\ \A k \in 1..Len(q) : f[k] = step[<<f[k-1], q[k]>>]

\* Two such folds agree as long as their sequences do.
StartAlike(p, q, n) ==
  n \in Nat /\ Len(p) \in Nat /\ Len(q) \in Nat /\ n <= Len(p) /\ n <= Len(q) /\ \A k \in 1..n : p[k] = q[k]

LEMMA IteratesAgree ==
  ASSUME NEW D, NEW base, NEW step, NEW p, NEW q, NEW n, StartAlike(p, q, n),
         NEW f, Iterates(f, D, base, p, step), NEW g, Iterates(g, D, base, q, step)
  PROVE  \A k \in 0..n : f[k] = g[k]
<1>0. n \in Nat /\ Len(p) \in Nat /\ Len(q) \in Nat /\ n <= Len(p) /\ n <= Len(q) /\ \A k \in 1..n : p[k] = q[k]
  BY DEF StartAlike
<1> DEFINE T == {k \in Nat : k <= n => f[k] = g[k]}
<1>1. 0 \in T
  BY DEF Iterates
<1>2. ASSUME NEW k \in Nat, k \in T PROVE k + 1 \in T
  <2> SUFFICES ASSUME k + 1 <= n PROVE f[k+1] = g[k+1]
    OBVIOUS
  <2>1. k + 1 \in 1..n /\ k + 1 \in 1..Len(p) /\ k + 1 \in 1..Len(q) /\ (k + 1) - 1 = k /\ f[k] = g[k]
    BY <1>0, <1>2
  <2>2. f[k+1] = step[<<f[k], p[k+1]>>]
    BY <2>1 DEF Iterates
  <2>3. g[k+1] = step[<<g[k], q[k+1]>>]
    BY <2>1 DEF Iterates
  <2>4. p[k+1] = q[k+1]
    BY <1>0, <2>1
  <2> QED BY <2>1, <2>2, <2>3, <2>4
<1> HIDE DEF T
<1>3. Nat \subseteq T
  BY <1>1, <1>2, NatInductive
<1> QED BY <1>0, <1>3 DEF T

\* FoldLeft is defined by recursion over sets of positions, the last one first: g solves
\* such a recursion for the sets of the first n positions.
Solves(n, g, D, base, q, step) ==
  /\ g \in [SUBSET (1..n) -> D]
  /\ \A s \in SUBSET (1..n) :
       g[s] = IF s = {} THEN base ELSE step[<<g[s \ {Max(s)}], q[Max(s)]>>]

LEMMA SetRecursion ==
  ASSUME NEW D, NEW S, NEW step \in [D \X S -> D], NEW base \in D, NEW q \in Seq(S)
  PROVE  \E g : Solves(Len(q), g, D, base, q, step)
<1> DEFINE Solvable(n) == \E g : Solves(n, g, D, base, q, step)
           T == {n \in Nat : n <= Len(q) => Solvable(n)}
<1>1. 0 \in T
  <2> DEFINE g == [s \in SUBSET (1..0) |-> base]
  <2>1. SUBSET (1..0) = {{}}
    OBVIOUS
  <2>2. Solves(0, g, D, base, q, step)
    BY <2>1 DEF Solves
  <2> QED BY <2>2
<1>2. ASSUME NEW n \in Nat, n \in T PROVE n + 1 \in T
  <2> HIDE DEF Solvable
  <2> SUFFICES ASSUME n + 1 <= Len(q) PROVE Solvable(n+1)
    OBVIOUS
  <2>0. Solvable(n)
    BY <1>2
  <2> HIDE DEF T
  <2>1. PICK g : Solves(n, g, D, base, q, step)
    BY <2>0 DEF Solvable
  <2>g. /\ g \in [SUBSET (1..n) -> D]
        /\ \A s \in SUBSET (1..n) :
             g[s] = IF s = {} THEN base ELSE step[<<g[s \ {Max(s)}], q[Max(s)]>>]
    BY <2>1 DEF Solves
  <2>2. q[n+1] \in S
    OBVIOUS
  <2> DEFINE h == [s \in SUBSET (1..(n+1)) |->
                     IF n + 1 \in s THEN step[<<g[s \ {n+1}], q[n+1]>>] ELSE g[s]]
  <2>3. ASSUME NEW s \in SUBSET (1..(n+1))
        PROVE  h[s] \in D /\ h[s] = IF s = {} THEN base ELSE step[<<h[s \ {Max(s)}], q[Max(s)]>>]
    <3>1. CASE n + 1 \in s
      <4>0. n + 1 \in Nat /\ s # {}
        BY <3>1
      <4>1. Max(s) \in s /\ \A y \in s : Max(s) >= y
        BY <4>0, MaxOfSet
      <4>2. \A m \in 1..(n+1) : m >= n + 1 => m = n + 1
        OBVIOUS
      <4>3. Max(s) = n + 1
        BY <3>1, <4>1, <4>2
      <4>4. s \ {n+1} \in SUBSET (1..(n+1)) /\ n + 1 \notin s \ {n+1} /\ s \ {n+1} \in SUBSET (1..n)
        OBVIOUS
      <4>5. h[s] = step[<<g[s \ {n+1}], q[n+1]>>] /\ h[s \ {n+1}] = g[s \ {n+1}]
        BY <3>1, <4>4
      <4>6. g[s \ {n+1}] \in D
        BY <2>g, <4>4
      <4>7. <<g[s \ {n+1}], q[n+1]>> \in D \X S
        BY <2>2, <4>6
      <4> HIDE DEF h
      <4> QED BY <3>1, <4>3, <4>5, <4>7
    <3>2. CASE n + 1 \notin s
      <4>1. s \in SUBSET (1..n) /\ h[s] = g[s] /\ g[s] \in D
        BY <2>g, <3>2
      <4>2. CASE s = {}
        <5>1. g[s] = base
          BY <2>g, <4>1, <4>2
        <5> HIDE DEF h
        <5> QED BY <4>1, <4>2, <5>1
      <4>3. CASE s # {}
        <5>1. s \ {Max(s)} \in SUBSET (1..(n+1)) /\ n + 1 \notin s \ {Max(s)}
          BY <3>2
        <5>2. h[s \ {Max(s)}] = g[s \ {Max(s)}]
          BY <5>1
        <5>3. g[s] = step[<<g[s \ {Max(s)}], q[Max(s)]>>]
          BY <2>g, <4>1, <4>3
        <5> HIDE DEF h
        <5> QED BY <4>1, <4>3, <5>2, <5>3
      <4> QED BY <4>2, <4>3
    <3> QED BY <3>1, <3>2
  <2>4. h \in [SUBSET (1..(n+1)) -> D]
    <3>1. h = [s \in SUBSET (1..(n+1)) |-> h[s]]
      OBVIOUS
    <3>2. \A s \in SUBSET (1..(n+1)) : h[s] \in D
      BY <2>3
    <3> HIDE DEF h
    <3> QED BY <3>1, <3>2
  <2> HIDE DEF h
  <2>5. Solves(n+1, h, D, base, q, step)
    BY <2>3, <2>4 DEF Solves
  <2> QED BY <2>5 DEF Solvable
<1> HIDE DEF T
<1>3. Nat \subseteq T
  BY <1>1, <1>2, NatInductive
<1>4. Len(q) \in T /\ Len(q) <= Len(q)
  BY <1>3
<1> HIDE DEF Solvable
<1>5. Solvable(Len(q))
  BY <1>4 DEF T
<1> QED BY <1>5 DEF Solvable

\* What it holds for the first positions is what the fold has come to after them.
Unrolls(iter, D, base, q, step) ==
  /\ iter[{}] = base
  /\ \A s \in SUBSET (1..Len(q)) : s # {} /\ iter[s \ {Max(s)}] \in D =>
       iter[s] = step[<<iter[s \ {Max(s)}], q[Max(s)]>>]

FoldsOver(D, S, base, q, step) == step \in [D \X S -> D] /\ base \in D /\ q \in Seq(S)

LEMMA Unrolled ==
  ASSUME NEW D, NEW S, NEW step, NEW base, NEW q, FoldsOver(D, S, base, q, step), NEW iter,
         Unrolls(iter, D, base, q, step)
  PROVE  \E f : Iterates(f, D, base, q, step) /\ f[Len(q)] = iter[1..Len(q)]
<1>0. step \in [D \X S -> D] /\ base \in D /\ q \in Seq(S)
  BY DEF FoldsOver
<1> DEFINE f == [k \in 0..Len(q) |-> iter[1..k]]
           T == {k \in Nat : k <= Len(q) => f[k] \in D}
<1>1. f[0] = base
  <2>1. 1..0 = {}
    OBVIOUS
  <2>2. f[0] = iter[1..0]
    BY <1>0
  <2> QED BY <2>1, <2>2 DEF Unrolls
<1>2. ASSUME NEW k \in 1..Len(q), f[k-1] \in D
      PROVE  f[k] = step[<<f[k-1], q[k]>>] /\ f[k] \in D
  <2>1. f[k] = iter[1..k] /\ f[k-1] = iter[1..(k-1)]
    BY <1>0
  <2>2. 1..k \in SUBSET (1..Len(q)) /\ 1..k # {} /\ (1..k) \ {k} = 1..(k-1) /\ k \in Nat
    <3>1. k \in Nat /\ k \in 1..k /\ k <= Len(q)
      BY <1>0
    <3>2. (1..k) \ {k} = 1..(k-1)
      BY <3>1
    <3>3. 1..k \in SUBSET (1..Len(q))
      BY <1>0, <3>1
    <3> QED BY <3>1, <3>2, <3>3
  <2>3. Max(1..k) \in 1..k /\ \A y \in 1..k : Max(1..k) >= y
    <3>1. 1..k \in SUBSET (1..k)
      OBVIOUS
    <3> QED BY <2>2, <3>1, MaxOfSet
  <2>4. \A m \in 1..k : m >= k => m = k
    OBVIOUS
  <2>5. Max(1..k) = k
    BY <2>2, <2>3, <2>4
  <2>6. q[k] \in S
    BY <1>0
  <2> HIDE DEF f
  <2>7. iter[1..(k-1)] \in D
    BY <1>2, <2>1
  <2>8. f[k] = step[<<f[k-1], q[k]>>]
    BY <2>1, <2>2, <2>5, <2>7 DEF Unrolls
  <2>9. <<f[k-1], q[k]>> \in D \X S
    BY <1>0, <1>2, <2>6
  <2> QED BY <1>0, <2>8, <2>9
<1> HIDE DEF f
<1>3. 0 \in T
  BY <1>0, <1>1
<1>4. ASSUME NEW k \in Nat, k \in T PROVE k + 1 \in T
  <2> SUFFICES ASSUME k + 1 <= Len(q) PROVE f[k+1] \in D
    OBVIOUS
  <2>1. k + 1 \in 1..Len(q) /\ (k + 1) - 1 = k /\ f[k] \in D
    BY <1>0, <1>4
  <2> QED BY <1>2, <2>1
<1> HIDE DEF T
<1>5. Nat \subseteq T
  BY <1>3, <1>4, NatInductive
<1>6. \A k \in 0..Len(q) : f[k] \in D
  BY <1>0, <1>5 DEF T
<1>7. f \in [0..Len(q) -> D]
  <2>1. f = [k \in 0..Len(q) |-> f[k]]
    BY DEF f
  <2> QED BY <1>6, <2>1
<1>8. \A k \in 1..Len(q) : f[k] = step[<<f[k-1], q[k]>>]
  <2>1. \A k \in 1..Len(q) : k - 1 \in 0..Len(q)
    BY <1>0
  <2> QED BY <1>2, <1>6, <2>1
<1>9. Iterates(f, D, base, q, step)
  BY <1>1, <1>7, <1>8 DEF Iterates
<1>10. f[Len(q)] = iter[1..Len(q)]
  BY <1>0 DEF f
<1> QED BY <1>9, <1>10

LEMMA MappedSeq ==
  ASSUME NEW S, NEW n \in Nat, NEW f, f \in [1..n -> S]
  PROVE  f \in Seq(S) /\ Len(f) = n
<1>1. f \in Seq(S) /\ DOMAIN f = 1..n
  OBVIOUS
<1> QED BY <1>1, LenProperties

(***************************************************************************)
(* A channel: everything sent is what was forwarded, then what is queued   *)
(***************************************************************************)

Channel(sent, moved, queue) == sent = moved \o queue

\* A sender puts a frame behind the queue.
LEMMA ChannelSend ==
  ASSUME NEW S, NEW sent, NEW moved \in Seq(S), NEW queue \in Seq(S), NEW e \in S,
         Channel(sent, moved, queue)
  PROVE  Channel(Append(sent, e), moved, Append(queue, e))
<1>1. moved \o queue \in Seq(S)
  BY ConcatProperties
<1>2. Append(moved \o queue, e) = (moved \o queue) \o <<e>> /\ Append(queue, e) = queue \o <<e>>
  BY <1>1, AppendIsConcat
<1>3. <<e>> \in Seq(S)
  OBVIOUS
<1>4. (moved \o queue) \o <<e>> = moved \o (queue \o <<e>>)
  BY <1>3, ConcatAssociative
<1>. QED
  BY <1>2, <1>4 DEF Channel

\* The loop moves the queue's head behind what it has forwarded.
LEMMA ChannelForward ==
  ASSUME NEW S, NEW sent, NEW moved \in Seq(S), NEW queue \in Seq(S), queue # << >>,
         Channel(sent, moved, queue)
  PROVE  Channel(sent, Append(moved, Head(queue)), Tail(queue))
<1>1. Head(queue) \in S /\ Tail(queue) \in Seq(S)
  BY HeadTailProperties
<1>2. <<Head(queue)>> \in Seq(S)
  BY <1>1
<1>3. Append(moved, Head(queue)) = moved \o <<Head(queue)>>
  BY <1>1, AppendIsConcat
<1>4. (moved \o <<Head(queue)>>) \o Tail(queue) = moved \o (<<Head(queue)>> \o Tail(queue))
  BY <1>1, <1>2, ConcatAssociative
<1>5. <<Head(queue)>> \o Tail(queue) = queue
  <2>1. Len(queue) \in Nat \ {0}
    BY EmptySeq
  <2>2. <<Head(queue)>> \o Tail(queue) \in Seq(S)
    BY <1>1, <1>2, ConcatProperties
  <2>3. Len(<<Head(queue)>> \o Tail(queue)) = Len(queue)
    BY <1>1, <1>2, <2>1, ConcatProperties, HeadTailProperties
  <2>4. \A i \in 1..Len(queue) : (<<Head(queue)>> \o Tail(queue))[i] = queue[i]
    BY <1>1, <1>2, <2>1, ConcatProperties, HeadTailProperties
  <2>. QED
    BY <2>2, <2>3, <2>4, SeqEqual
<1>. QED
  BY <1>3, <1>4, <1>5 DEF Channel

(***************************************************************************)
(* What holds of the wires in every reachable state                        *)
(***************************************************************************)
AnyOutput == [req : Requests, tokens : Nat, fin : {"none", "stop", "abort"}]
AnyMessage == [outputs : Seq(AnyOutput), ok : BOOLEAN]

WireTypes ==
  /\ asked \in Seq(Frames) /\ req_rx \in Seq(Frames) /\ to_engine \in Seq(Frames)
  /\ said \in Seq(AnyMessage) /\ out_rx \in Seq(AnyMessage) /\ to_frontend \in Seq(AnyMessage)
  /\ taken \in Nat /\ taken <= Len(to_engine)
  /\ running \subseteq Requests

Forwarded(r, frames) == \E k \in 1..Len(frames) : frames[k] = Add(r)

\* The engine runs only what was forwarded to it.
RunsForwarded == \A r \in running : Forwarded(r, to_engine)

(* The loop forwards a request before it tracks it, and the engine may answer at once: an   *)
(* output on the wire, forwarded or not, still answers a request that was forwarded before. *)
AnswersForwarded ==
  \A i \in 1..Len(said) : \A j \in 1..Len(said[i].outputs) : Forwarded(said[i].outputs[j].req, to_engine)

WireInv == WireTypes /\ Verbatim /\ RunsForwarded /\ AnswersForwarded

LEMMA WireInit == Init => WireInv
<1>. SUFFICES ASSUME Init PROVE WireInv
  OBVIOUS
<1>1. WireTypes
  BY EmptySeq DEF Init, WireTypes
<1>2. << >> \o << >> = << >>
  BY ConcatEmptySeq, EmptySeq
<1>. QED
  BY <1>1, <1>2, EmptySeq DEF Init, WireInv, Verbatim, RunsForwarded, AnswersForwarded

\* Forwarding one more request forgets none.
LEMMA ForwardedGrows ==
  ASSUME to_engine \in Seq(Frames), NEW e \in Frames, to_engine' = Append(to_engine, e)
  PROVE  \A r : Forwarded(r, to_engine) => Forwarded(r, to_engine')
<1>1. Len(to_engine') = Len(to_engine) + 1 /\ Len(to_engine) \in Nat
  BY AppendProperties, LenProperties
<1>2. \A i \in 1..Len(to_engine) : to_engine'[i] = to_engine[i]
  BY AppendProperties
<1>. QED
  BY <1>1, <1>2 DEF Forwarded, Add

\* The engine says one more message: every answer in it is for a request it runs.
LEMMA SayStep ==
  ASSUME WireInv, NEW message \in AnyMessage,
         said' = Append(said, message), out_rx' = Append(out_rx, message),
         UNCHANGED <<asked, req_rx, to_engine, to_frontend>>,
         \A j \in 1..Len(message.outputs) : message.outputs[j].req \in running
  PROVE  /\ Verbatim' /\ AnswersForwarded'
         /\ said' \in Seq(AnyMessage) /\ out_rx' \in Seq(AnyMessage)
<1>. USE DEF WireInv, WireTypes
<1>0. Channel(asked, to_engine, req_rx) /\ Channel(said, to_frontend, out_rx)
  BY DEF Verbatim, Channel
<1>1. Channel(said', to_frontend, out_rx')
  BY <1>0, ChannelSend
<1>2. said' \in Seq(AnyMessage) /\ out_rx' \in Seq(AnyMessage)
  BY AppendProperties
<1>3. Len(said') = Len(said) + 1 /\ Len(said) \in Nat
  BY AppendProperties, LenProperties
<1>4. \A i \in 1..Len(said) : said'[i] = said[i]
  BY AppendProperties
<1>5. said'[Len(said) + 1] = message
  BY AppendProperties
<1>6. ASSUME NEW i \in 1..Len(said'), NEW j \in 1..Len(said'[i].outputs)
      PROVE  Forwarded(said'[i].outputs[j].req, to_engine)
  <2>1. CASE i \in 1..Len(said)
    <3>1. said'[i] = said[i]
      BY <2>1, <1>4
    <3>2. j \in 1..Len(said[i].outputs)
      BY <3>1
    <3>. QED
      BY <2>1, <3>1, <3>2 DEF AnswersForwarded
  <2>2. CASE i = Len(said) + 1
    <3>1. said'[i] = message
      BY <2>2, <1>5
    <3>2. j \in 1..Len(message.outputs)
      BY <3>1
    <3>. QED
      BY <3>1, <3>2 DEF RunsForwarded
  <2>3. i \in 1..Len(said) \/ i = Len(said) + 1
    <3>. HIDE DEF WireInv, WireTypes
    <3>. QED
      BY <1>3
  <2>. QED
    BY <2>1, <2>2, <2>3
<1>7. AnswersForwarded'
  BY <1>6 DEF AnswersForwarded
<1>. QED
  BY <1>0, <1>1, <1>2, <1>7 DEF Verbatim, Channel

LEMMA SendStep ==
  ASSUME WireInv, NEW frame \in Frames, FrontendSend(frame)
  PROVE  WireInv'
<1>. USE DEF WireInv, WireTypes
<1>1. /\ asked' = Append(asked, frame) /\ req_rx' = Append(req_rx, frame)
      /\ UNCHANGED <<to_engine, said, out_rx, to_frontend, taken, running>>
  BY DEF FrontendSend
<1>2. Channel(asked, to_engine, req_rx) /\ Channel(said, to_frontend, out_rx)
  BY DEF Verbatim, Channel
<1>3. Channel(asked', to_engine, req_rx')
  BY <1>1, <1>2, ChannelSend
<1>4. asked' \in Seq(Frames) /\ req_rx' \in Seq(Frames)
  BY <1>1, AppendProperties
<1>5. WireTypes'
  BY <1>1, <1>4
<1>6. Verbatim'
  BY <1>1, <1>2, <1>3 DEF Verbatim, Channel
<1>7. RunsForwarded' /\ AnswersForwarded'
  BY <1>1 DEF RunsForwarded, AnswersForwarded
<1>. QED
  BY <1>5, <1>6, <1>7

LEMMA TakeStep ==
  ASSUME WireInv, NEW answer \in BOOLEAN, EngineTake(answer)
  PROVE  WireInv'
<1>. USE DEF WireInv, WireTypes
<1>. DEFINE frame == to_engine[taken + 1]
            aborted == IF frame.type = "abort" THEN running \cap {frame.req} ELSE {}
            message == Message(<<Output(frame.req, 0, "abort")>>, TRUE)
<1>1. /\ taken < Len(to_engine) /\ taken' = taken + 1
      /\ running' = (running \ aborted) \cup (IF frame.type = "add" THEN {frame.req} ELSE {})
      /\ answer => aborted # {}
      /\ answer => said' = Append(said, message) /\ out_rx' = Append(out_rx, message)
      /\ ~answer => UNCHANGED <<said, out_rx>>
      /\ UNCHANGED <<asked, req_rx, to_engine, to_frontend>>
  BY DEF EngineTake
<1>2. Len(to_engine) \in Nat /\ taken + 1 \in 1..Len(to_engine)
  BY <1>1, LenProperties
<1>3. frame \in Frames
  BY <1>2, ElementOfSeq
<1>4. frame.type = "add" => frame.req \in Requests /\ frame = Add(frame.req)
  <2>1. CASE \E r \in Requests : frame = Add(r)
    BY <2>1 DEF Add
  <2>2. CASE \E r \in Fickle : frame = Abort(r)
    BY <2>2 DEF Abort
  <2>3. CASE frame = Other
    BY <2>3 DEF Other
  <2>. HIDE DEF frame
  <2>. QED
    BY <1>3, <2>1, <2>2, <2>3 DEF Frames
<1>5. aborted \subseteq running /\ (aborted # {} => frame.req \in running)
  OBVIOUS
<1>. HIDE DEF frame, aborted
<1>6. running' \subseteq Requests
  BY <1>1, <1>4, <1>5
<1>7. frame.type = "add" => Forwarded(frame.req, to_engine)
  BY <1>2, <1>4 DEF Forwarded, frame
<1>8. RunsForwarded'
  BY <1>1, <1>7 DEF RunsForwarded
<1>9. CASE answer
  <2>1. frame.req \in Requests /\ frame.req \in running
    BY <1>1, <1>5, <1>9
  <2>2. Output(frame.req, 0, "abort") \in AnyOutput
    BY <2>1 DEF Output, AnyOutput
  <2>3. <<Output(frame.req, 0, "abort")>> \in Seq(AnyOutput)
    BY <2>2
  <2>4. message \in AnyMessage
    BY <2>3 DEF Message, AnyMessage
  <2>5. message.outputs = <<Output(frame.req, 0, "abort")>>
    BY DEF Message
  <2>6. \A j \in 1..Len(message.outputs) : message.outputs[j].req \in running
    <3>1. Len(<<Output(frame.req, 0, "abort")>>) = 1
      OBVIOUS
    <3>2. <<Output(frame.req, 0, "abort")>>[1] = Output(frame.req, 0, "abort")
      OBVIOUS
    <3>3. Output(frame.req, 0, "abort").req = frame.req
      BY DEF Output
    <3>. HIDE DEF message
    <3>. QED
      BY <2>1, <2>5, <3>1, <3>2, <3>3
  <2>. HIDE DEF message
  <2>7. /\ Verbatim' /\ AnswersForwarded'
        /\ said' \in Seq(AnyMessage) /\ out_rx' \in Seq(AnyMessage)
    BY <1>1, <1>9, <2>4, <2>6, SayStep
  <2>. QED
    BY <1>1, <1>2, <1>6, <1>8, <2>7
<1>10. CASE ~answer
  <2>1. Verbatim' /\ AnswersForwarded'
    BY <1>1, <1>10 DEF Verbatim, AnswersForwarded
  <2>. QED
    BY <1>1, <1>2, <1>6, <1>8, <1>10, <2>1
<1>. QED
  BY <1>9, <1>10

LEMMA OutputsStep ==
  ASSUME WireInv, NEW outputs \in Steps, NEW ok \in BOOLEAN, EngineOutputs(outputs, ok)
  PROVE  WireInv'
<1>. USE DEF WireInv, WireTypes
<1>. DEFINE message == Message(outputs, ok)
<1>1. /\ said' = Append(said, message) /\ out_rx' = Append(out_rx, message)
      /\ \A i \in DOMAIN outputs : outputs[i].req \in running
      /\ running' \subseteq running
      /\ UNCHANGED <<asked, req_rx, to_engine, to_frontend, taken>>
  BY DEF EngineOutputs
<1>2. StepOutputs \subseteq AnyOutput
  BY TapConstants DEF StepOutputs, Output, AnyOutput
<1>3. PICK n \in 1..MaxMessage : outputs \in [1..n -> StepOutputs]
  BY DEF Steps
<1>4. n \in Nat
  BY TapConstants
<1>5. outputs \in [1..n -> AnyOutput]
  BY <1>2, <1>3
<1>6. outputs \in Seq(AnyOutput) /\ Len(outputs) = n
  BY <1>4, <1>5
<1>7. message \in AnyMessage /\ message.outputs = outputs
  BY <1>6 DEF Message, AnyMessage
<1>8. \A j \in 1..Len(message.outputs) : message.outputs[j].req \in running
  BY <1>1, <1>3, <1>6, <1>7
<1>. HIDE DEF message
<1>9. /\ Verbatim' /\ AnswersForwarded'
      /\ said' \in Seq(AnyMessage) /\ out_rx' \in Seq(AnyMessage)
  BY <1>1, <1>7, <1>8, SayStep
<1>10. RunsForwarded'
  BY <1>1 DEF RunsForwarded
<1>. QED
  BY <1>1, <1>9, <1>10

LEMMA ForwardRequestStep ==
  ASSUME WireInv, ForwardRequest
  PROVE  WireInv'
<1>. USE DEF WireInv, WireTypes
<1>1. UNCHANGED <<asked, said, out_rx, to_frontend, taken, running>> /\ req_rx # << >>
  BY DEF ForwardRequest
<1>2. CASE to_engine' = Append(to_engine, Head(req_rx)) /\ req_rx' = Tail(req_rx)
  <2>1. Channel(asked, to_engine, req_rx) /\ Channel(said, to_frontend, out_rx)
    BY DEF Verbatim, Channel
  <2>2. Channel(asked, to_engine', req_rx')
    BY <1>1, <1>2, <2>1, ChannelForward
  <2>3. Head(req_rx) \in Frames /\ req_rx' \in Seq(Frames)
    BY <1>1, <1>2, HeadTailProperties
  <2>4. to_engine' \in Seq(Frames) /\ Len(to_engine') = Len(to_engine) + 1 /\ Len(to_engine) \in Nat
    BY <1>2, <2>3, AppendProperties, LenProperties
  <2>5. \A r : Forwarded(r, to_engine) => Forwarded(r, to_engine')
    BY <1>2, <2>3, ForwardedGrows
  <2>6. RunsForwarded' /\ AnswersForwarded'
    BY <1>1, <2>5 DEF RunsForwarded, AnswersForwarded
  <2>7. Verbatim'
    BY <1>1, <2>1, <2>2 DEF Verbatim, Channel
  <2>. QED
    BY <1>1, <2>3, <2>4, <2>6, <2>7
<1>3. CASE UNCHANGED <<to_engine, req_rx>>
  BY <1>1, <1>3 DEF Verbatim, RunsForwarded, AnswersForwarded
<1>. QED
  BY <1>2, <1>3 DEF ForwardRequest

LEMMA ForwardOutputStep ==
  ASSUME WireInv, ForwardOutput
  PROVE  WireInv'
<1>. USE DEF WireInv, WireTypes
<1>1. UNCHANGED <<asked, req_rx, to_engine, said, taken, running>> /\ out_rx # << >>
  BY DEF ForwardOutput
<1>2. RunsForwarded' /\ AnswersForwarded'
  BY <1>1 DEF RunsForwarded, AnswersForwarded
<1>3. CASE to_frontend' = Append(to_frontend, Head(out_rx)) /\ out_rx' = Tail(out_rx)
  <2>1. Channel(asked, to_engine, req_rx) /\ Channel(said, to_frontend, out_rx)
    BY DEF Verbatim, Channel
  <2>2. Channel(said, to_frontend', out_rx')
    BY <1>1, <1>3, <2>1, ChannelForward
  <2>3. Head(out_rx) \in AnyMessage /\ out_rx' \in Seq(AnyMessage)
    BY <1>1, <1>3, HeadTailProperties
  <2>4. to_frontend' \in Seq(AnyMessage)
    BY <1>3, <2>3, AppendProperties
  <2>5. Verbatim'
    BY <1>1, <2>1, <2>2 DEF Verbatim, Channel
  <2>. QED
    BY <1>1, <1>2, <2>3, <2>4, <2>5
<1>4. CASE UNCHANGED <<to_frontend, out_rx>>
  BY <1>1, <1>2, <1>4 DEF Verbatim
<1>. QED
  BY <1>3, <1>4 DEF ForwardOutput

LEMMA WireStep ==
  ASSUME WireInv, [Next]_vars
  PROVE  WireInv'
<1>. DEFINE Still == UNCHANGED <<wires, taken, running>>
<1>1. ASSUME Still PROVE WireInv'
  BY <1>1 DEF wires, WireInv, WireTypes, Verbatim, RunsForwarded, AnswersForwarded
<1>2. CASE Environment
  <2>1. ASSUME NEW p \in connected, PeerGone(p) PROVE Still
    BY <2>1 DEF PeerGone
  <2>2. Signal => Still
    BY DEF Signal
  <2>. QED
    BY <1>1, <1>2, <2>1, <2>2, SendStep, TakeStep, OutputsStep DEF Environment
<1>3. CASE Connecting
  <2>1. Still
    BY <1>3 DEF Connecting, UpstreamHello, UpstreamReady, UpstreamRegister, DownstreamInit,
                DownstreamCoordinatorReady, ConnectFails, Untouched
  <2>. QED
    BY <1>1, <2>1
<1>4. CASE Proxy
  <2>1. ShutdownArm \/ RequestsClosed \/ OutputsClosed => Still
    BY DEF ShutdownArm, RequestsClosed, OutputsClosed, Untouched
  <2>2. ObserveRequestCopy \/ ObserveOutputCopy => Still
    BY DEF ObserveRequestCopy, ObserveOutputCopy
  <2>. QED
    BY <1>1, <1>4, <2>1, <2>2, ForwardRequestStep, ForwardOutputStep DEF Proxy
<1>5. CASE Finishing
  <2>1. Still
    BY <1>5 DEF Finishing, FinishTrace, FinishSteps, FinishFile
  <2>. QED
    BY <1>1, <2>1
<1>6. CASE Ended \/ UNCHANGED vars
  BY <1>1, <1>6 DEF Ended, vars
<1>. QED
  BY <1>2, <1>3, <1>4, <1>5, <1>6 DEF Next

(* Everything a peer sent is, in order, what the tap forwarded and then what it still holds: *)
(* proxy_loop forwards verbatim for every number of frames, across peers that go, failed     *)
(* sends and the signal.                                                                     *)
THEOREM ForwardsVerbatim == Spec => []Verbatim
<1>1. WireInv /\ [Next]_vars => WireInv'
  BY WireStep
<1>2. WireInv => Verbatim
  BY DEF WireInv
<1>. QED
  BY <1>1, <1>2, WireInit, PTL DEF Spec

(* The order of proxy_loop's body, forward and then observe, never shows the tap an output   *)
(* of a request it has not forwarded: every output an engine puts on the wire answers an Add *)
(* that left the tap before.                                                                 *)
THEOREM OutputsFollowRequests == Spec => []AnswersForwarded
<1>1. WireInv /\ [Next]_vars => WireInv'
  BY WireStep
<1>2. WireInv => AnswersForwarded
  BY DEF WireInv
<1>. QED
  BY <1>1, <1>2, WireInit, PTL DEF Spec

(***************************************************************************)
(* run_record's end                                                        *)
(***************************************************************************)
FileStates == {"absent", "open"} \cup Outcomes
Before == phase \notin {"finish_trace", "finish_steps", "ended"}

\* Until the trace is finished nothing is; the step statistics are touched only when the
\* trace was uploaded, and success is still to be reported only then.
FilesInv ==
  /\ files \in [{"trace", "steps"} -> FileStates]
  /\ result \in {"none", "ok", "error"}
  /\ Before => result = "none"
  /\ Before \/ phase = "finish_trace" => files.trace = "open" /\ files.steps \in {"absent", "open"}
  /\ phase = "finish_steps" => files.trace = "uploaded" /\ files.steps = "open"
  /\ EndsFinalized

LEMMA FilesInit == Init => FilesInv
<1>. SUFFICES ASSUME Init PROVE FilesInv
  OBVIOUS
<1>1. files \in [{"trace", "steps"} -> FileStates]
  BY DEF Init, FileStates
<1>. QED
  BY <1>1 DEF Init, FilesInv, Before, EndsFinalized

LEMMA FilesStep ==
  ASSUME FilesInv, [Next]_vars
  PROVE  FilesInv'
<1>. DEFINE Early == UNCHANGED <<result, files>> /\ Before /\ Before'
            Leaves == UNCHANGED files /\ Before /\ phase' = "finish_trace" /\ result' \in {"ok", "error"}
<1>1. ASSUME Early \/ Leaves PROVE FilesInv'
  BY <1>1 DEF FilesInv, Before, EndsFinalized
<1>2. ASSUME UNCHANGED <<phase, result, files>> PROVE FilesInv'
  BY <1>2 DEF FilesInv, Before, EndsFinalized
<1>3. CASE Environment
  <2>1. UNCHANGED <<phase, result, files>>
    BY <1>3 DEF Environment, FrontendSend, EngineTake, EngineOutputs, PeerGone, Signal
  <2>. QED
    BY <1>2, <2>1
<1>4. CASE Connecting
  <2>1. Early \/ Leaves
    BY <1>4 DEF Connecting, UpstreamHello, UpstreamReady, UpstreamRegister, DownstreamInit,
                DownstreamCoordinatorReady, ConnectFails, Untouched, Goto, Fail, Before
  <2>. QED
    BY <1>1, <2>1
<1>5. CASE Proxy
  <2>1. ShutdownArm \/ RequestsClosed \/ OutputsClosed => Early \/ Leaves
    BY DEF ShutdownArm, RequestsClosed, OutputsClosed, Untouched, Fail, Before
  <2>2. ForwardRequest \/ ForwardOutput => Early \/ Leaves
    BY DEF ForwardRequest, ForwardOutput, Goto, Fail, Before
  <2>3. ObserveRequestCopy \/ ObserveOutputCopy => Early \/ Leaves
    BY DEF ObserveRequestCopy, ObserveOutputCopy, Goto, Before
  <2>. QED
    BY <1>1, <1>5, <2>1, <2>2, <2>3 DEF Proxy
<1>6. CASE Finishing
  <2>. SUFFICES ASSUME NEW outcome \in Outcomes, FinishTrace(outcome) \/ FinishSteps(outcome)
                PROVE  FilesInv'
    BY <1>6 DEF Finishing
  <2>1. CASE FinishTrace(outcome)
    BY <2>1 DEF FinishTrace, FinishFile, FilesInv, Before, EndsFinalized, FileStates, Outcomes
  <2>2. CASE FinishSteps(outcome)
    BY <2>2 DEF FinishSteps, FinishFile, FilesInv, Before, EndsFinalized, FileStates, Outcomes
  <2>. QED
    BY <2>1, <2>2
<1>7. CASE Ended \/ UNCHANGED vars
  BY <1>2, <1>7 DEF Ended, vars
<1>. QED
  BY <1>3, <1>4, <1>5, <1>6, <1>7 DEF Next

(* run_record's "finalize and upload even on transport error", for every capture: however    *)
(* the handshake or the loop ended, no process ends with its trace unfinished, and it says   *)
(* success only when every file it opened was uploaded.                                      *)
THEOREM CaptureAlwaysFinalized == Spec => []EndsFinalized
<1>1. FilesInv /\ [Next]_vars => FilesInv'
  BY FilesStep
<1>2. FilesInv => EndsFinalized
  BY DEF FilesInv
<1>. QED
  BY <1>1, <1>2, FilesInit, PTL DEF Spec

(***************************************************************************)
(* What messages say of one request                                        *)
(***************************************************************************)
Tolds == [total : Nat, chunks : Seq(Nat)]

HearStep(r) == [p \in Tolds \X AnyOutput |-> Hear(r, p[1], p[2])]
TellStep(r) == [p \in Tolds \X AnyMessage |-> HearMessage(r, p[1], p[2])]

LEMMA HearType ==
  ASSUME NEW r, NEW told \in Tolds, NEW o \in AnyOutput
  PROVE  Hear(r, told, o) \in Tolds
<1>1. told.total \in Nat /\ told.chunks \in Seq(Nat) /\ o.tokens \in Nat
  BY DEF Tolds, AnyOutput
<1>2. told.total + o.tokens \in Nat /\ Append(told.chunks, o.tokens) \in Seq(Nat)
  BY <1>1, AppendProperties
<1> QED BY <1>2 DEF Hear, Tolds

LEMMA HearMessageIs ==
  ASSUME NEW r, NEW told \in Tolds, NEW m \in AnyMessage
  PROVE  \E f : /\ Iterates(f, Tolds, told, m.outputs, HearStep(r))
                /\ HearMessage(r, told, m) = f[Len(m.outputs)]
<1> DEFINE q == m.outputs
           Rec(g) == [s \in SUBSET (1..Len(q)) |->
                        IF s = {} THEN told ELSE Hear(r, g[s \ {Max(s)}], q[Max(s)])]
           iter == CHOOSE g : g = Rec(g)
<1>1. q \in Seq(AnyOutput) /\ DOMAIN q = 1..Len(q) /\ Len(q) \in Nat
  BY DEF AnyMessage
<1>2. HearStep(r) \in [Tolds \X AnyOutput -> Tolds]
  BY HearType DEF HearStep
<1>3. \A d \in Tolds, o \in AnyOutput : HearStep(r)[<<d, o>>] = Hear(r, d, o)
  BY DEF HearStep
<1>4. ASSUME NEW s \in SUBSET (1..Len(q)), s # {} PROVE q[Max(s)] \in AnyOutput
  <2>1. Max(s) \in s
    BY <1>1, <1>4, MaxOfSet
  <2>2. Max(s) \in 1..Len(q)
    BY <2>1
  <2> HIDE DEF q, iter
  <2> QED BY <1>1, <2>2
<1>5. HearMessage(r, told, m) = iter[1..Len(q)]
  BY <1>1 DEF HearMessage, FoldLeft, MapThenFoldSet
<1> HIDE DEF q
<1>6. PICK g : Solves(Len(q), g, Tolds, told, q, HearStep(r))
  BY <1>1, <1>2, SetRecursion
<1>7. g = Rec(g)
  <2>1. /\ g \in [SUBSET (1..Len(q)) -> Tolds]
        /\ \A s \in SUBSET (1..Len(q)) :
             g[s] = IF s = {} THEN told ELSE HearStep(r)[<<g[s \ {Max(s)}], q[Max(s)]>>]
    BY <1>6 DEF Solves
  <2>2. ASSUME NEW s \in SUBSET (1..Len(q))
        PROVE  g[s] = IF s = {} THEN told ELSE Hear(r, g[s \ {Max(s)}], q[Max(s)])
    <3>1. g[s \ {Max(s)}] \in Tolds
      BY <2>1
    <3> QED BY <1>3, <1>4, <2>1, <3>1
  <2> QED BY <2>1, <2>2
<1>8. iter = Rec(iter)
  BY <1>7
<1> HIDE DEF iter
<1>9. iter[{}] = told
  BY <1>8
<1>10. ASSUME NEW s \in SUBSET (1..Len(q)), s # {}, iter[s \ {Max(s)}] \in Tolds
       PROVE  iter[s] = HearStep(r)[<<iter[s \ {Max(s)}], q[Max(s)]>>]
  BY <1>3, <1>4, <1>8, <1>10
<1>11. Unrolls(iter, Tolds, told, q, HearStep(r))
  BY <1>9, <1>10 DEF Unrolls
<1>12. \E f : Iterates(f, Tolds, told, q, HearStep(r)) /\ f[Len(q)] = iter[1..Len(q)]
  <2>1. FoldsOver(Tolds, AnyOutput, told, q, HearStep(r))
    BY <1>1, <1>2 DEF FoldsOver
  <2> QED BY <1>11, <2>1, Unrolled
<1> QED BY <1>5, <1>12 DEF q

LEMMA HearMessageType ==
  ASSUME NEW r, NEW told \in Tolds, NEW m \in AnyMessage
  PROVE  HearMessage(r, told, m) \in Tolds
<1>1. PICK f : /\ Iterates(f, Tolds, told, m.outputs, HearStep(r))
               /\ HearMessage(r, told, m) = f[Len(m.outputs)]
  BY HearMessageIs
<1>2. Len(m.outputs) \in 0..Len(m.outputs)
  BY DEF AnyMessage
<1> QED BY <1>1, <1>2 DEF Iterates

\* A message that says nothing of a request adds nothing to it.
LEMMA HearMessageSilent ==
  ASSUME NEW r, NEW told \in Tolds, NEW m \in AnyMessage, ~Says(m, r)
  PROVE  HearMessage(r, told, m) = told
<1> DEFINE q == m.outputs
<1>1. PICK f : Iterates(f, Tolds, told, q, HearStep(r)) /\ HearMessage(r, told, m) = f[Len(q)]
  BY HearMessageIs
<1>2. q \in Seq(AnyOutput) /\ Len(q) \in Nat /\ \A j \in 1..Len(q) : q[j].req # r
  BY DEF AnyMessage, Says
<1> HIDE DEF q
<1> DEFINE T == {k \in Nat : k <= Len(q) => f[k] = told}
<1>3. 0 \in T
  BY <1>1 DEF Iterates
<1>4. ASSUME NEW k \in Nat, k \in T PROVE k + 1 \in T
  <2> SUFFICES ASSUME k + 1 <= Len(q) PROVE f[k+1] = told
    OBVIOUS
  <2>1. k + 1 \in 1..Len(q) /\ (k + 1) - 1 = k /\ f[k] = told
    BY <1>2, <1>4
  <2>2. f[k+1] = HearStep(r)[<<told, q[k+1]>>]
    BY <1>1, <2>1 DEF Iterates
  <2>3. q[k+1] \in AnyOutput /\ q[k+1].req # r
    BY <1>2, <2>1
  <2> QED BY <2>2, <2>3 DEF HearStep, Hear
<1> HIDE DEF T
<1>5. Nat \subseteq T
  BY <1>3, <1>4, NatInductive
<1> QED BY <1>1, <1>2, <1>5 DEF T

LEMMA ToldIs ==
  ASSUME NEW r, NEW q \in Seq(AnyMessage)
  PROVE  \E f : Iterates(f, Tolds, Unheard, q, TellStep(r)) /\ Told(r, q) = f[Len(q)]
<1> DEFINE Rec(g) == [s \in SUBSET (1..Len(q)) |->
                        IF s = {} THEN Unheard ELSE HearMessage(r, g[s \ {Max(s)}], q[Max(s)])]
           iter == CHOOSE g : g = Rec(g)
<1>1. DOMAIN q = 1..Len(q) /\ Len(q) \in Nat
  OBVIOUS
<1>2. TellStep(r) \in [Tolds \X AnyMessage -> Tolds]
  BY HearMessageType DEF TellStep
<1>3. \A d \in Tolds, m \in AnyMessage : TellStep(r)[<<d, m>>] = HearMessage(r, d, m)
  BY DEF TellStep
<1>4. ASSUME NEW s \in SUBSET (1..Len(q)), s # {} PROVE q[Max(s)] \in AnyMessage
  <2>1. Max(s) \in s
    BY <1>1, <1>4, MaxOfSet
  <2>2. Max(s) \in 1..Len(q)
    BY <2>1
  <2> HIDE DEF iter
  <2> QED BY <2>2
<1>5. Told(r, q) = iter[1..Len(q)]
  BY <1>1 DEF Told, FoldLeft, MapThenFoldSet
<1>6. Unheard \in Tolds
  BY DEF Unheard, Tolds
<1>7. PICK g : Solves(Len(q), g, Tolds, Unheard, q, TellStep(r))
  BY <1>2, <1>6, SetRecursion
<1>8. g = Rec(g)
  <2>1. /\ g \in [SUBSET (1..Len(q)) -> Tolds]
        /\ \A s \in SUBSET (1..Len(q)) :
             g[s] = IF s = {} THEN Unheard ELSE TellStep(r)[<<g[s \ {Max(s)}], q[Max(s)]>>]
    BY <1>7 DEF Solves
  <2>2. ASSUME NEW s \in SUBSET (1..Len(q))
        PROVE  g[s] = IF s = {} THEN Unheard ELSE HearMessage(r, g[s \ {Max(s)}], q[Max(s)])
    <3>1. g[s \ {Max(s)}] \in Tolds
      BY <2>1
    <3> QED BY <1>3, <1>4, <2>1, <3>1
  <2> QED BY <2>1, <2>2
<1>9. iter = Rec(iter)
  BY <1>8
<1> HIDE DEF iter
<1>10. iter[{}] = Unheard
  BY <1>9
<1>11. ASSUME NEW s \in SUBSET (1..Len(q)), s # {}, iter[s \ {Max(s)}] \in Tolds
       PROVE  iter[s] = TellStep(r)[<<iter[s \ {Max(s)}], q[Max(s)]>>]
  BY <1>3, <1>4, <1>9, <1>11
<1>12. Unrolls(iter, Tolds, Unheard, q, TellStep(r))
  BY <1>10, <1>11 DEF Unrolls
<1>13. \E f : Iterates(f, Tolds, Unheard, q, TellStep(r)) /\ f[Len(q)] = iter[1..Len(q)]
  <2>1. FoldsOver(Tolds, AnyMessage, Unheard, q, TellStep(r))
    BY <1>2, <1>6 DEF FoldsOver
  <2> QED BY <1>12, <2>1, Unrolled
<1> QED BY <1>5, <1>13

\* Messages are heard one by one.
LEMMA ToldAppend ==
  ASSUME NEW r, NEW q \in Seq(AnyMessage), NEW m \in AnyMessage
  PROVE  /\ Told(r, q) \in Tolds
         /\ Told(r, Append(q, m)) = HearMessage(r, Told(r, q), m)
<1> DEFINE n == Len(q)
           p == Append(q, m)
<1>1. p \in Seq(AnyMessage) /\ Len(p) = n + 1 /\ p[n+1] = m /\ (\A k \in 1..n : q[k] = p[k]) /\ n \in Nat
  BY AppendProperties
<1> HIDE DEF p
<1>2. PICK f : Iterates(f, Tolds, Unheard, q, TellStep(r)) /\ Told(r, q) = f[n]
  BY ToldIs
<1>3. PICK g : Iterates(g, Tolds, Unheard, p, TellStep(r)) /\ Told(r, p) = g[n+1]
  BY <1>1, ToldIs
<1>4. n \in 0..n /\ StartAlike(q, p, n)
  BY <1>1 DEF StartAlike
<1>5. \A k \in 0..n : f[k] = g[k]
  BY <1>2, <1>3, <1>4, IteratesAgree
<1>6. f[n] = g[n] /\ f[n] \in Tolds
  BY <1>2, <1>4, <1>5 DEF Iterates
<1>7. g[n+1] = TellStep(r)[<<g[(n+1)-1], p[n+1]>>]
  <2>1. n + 1 \in 1..Len(p)
    BY <1>1
  <2> HIDE DEF n
  <2> QED BY <1>3, <2>1 DEF Iterates
<1>8. (n + 1) - 1 = n
  BY <1>1
<1> QED BY <1>1, <1>2, <1>3, <1>6, <1>7, <1>8 DEF TellStep, p

LEMMA ToldNothing ==
  ASSUME NEW r
  PROVE  Told(r, << >>) = Unheard
<1>1. PICK f : Iterates(f, Tolds, Unheard, << >>, TellStep(r)) /\ Told(r, << >>) = f[Len(<< >>)]
  <2>1. << >> \in Seq(AnyMessage)
    OBVIOUS
  <2> QED BY <2>1, ToldIs
<1> QED BY <1>1 DEF Iterates

\* Once a request has ended, later messages add nothing to what was said of it.
LEMMA ToldPrefix ==
  ASSUME NEW r, NEW p \in Seq(AnyMessage), NEW q \in Seq(AnyMessage),
         \A i \in 1..Len(q) : ~Says(q[i], r)
  PROVE  Told(r, p \o q) = Told(r, p)
<1> DEFINE s == p \o q
           n == Len(p)
<1>1. /\ s \in Seq(AnyMessage) /\ Len(s) = n + Len(q) /\ n \in Nat /\ Len(q) \in Nat
      /\ (\A i \in 1..n : p[i] = s[i])
  BY ConcatProperties
<1>2. \A i \in (n+1)..Len(s) : s[i] = q[i - n] /\ i - n \in 1..Len(q)
  BY <1>1, ConcatProperties
<1> HIDE DEF s
<1>3. PICK f : Iterates(f, Tolds, Unheard, p, TellStep(r)) /\ Told(r, p) = f[n]
  BY ToldIs
<1>4. PICK g : Iterates(g, Tolds, Unheard, s, TellStep(r)) /\ Told(r, s) = g[Len(s)]
  BY <1>1, ToldIs
<1>5. f[n] = g[n]
  <2>1. n \in 0..n /\ StartAlike(p, s, n)
    BY <1>1 DEF StartAlike
  <2> QED BY <1>3, <1>4, <2>1, IteratesAgree
<1> DEFINE T == {k \in Nat : n + k <= Len(s) => g[n+k] = g[n]}
<1>6. 0 \in T
  BY <1>1
<1>7. ASSUME NEW k \in Nat, k \in T PROVE k + 1 \in T
  <2> SUFFICES ASSUME n + (k + 1) <= Len(s) PROVE g[n+(k+1)] = g[n]
    OBVIOUS
  <2>1. /\ n + (k + 1) \in (n+1)..Len(s) /\ n + (k + 1) \in 1..Len(s) /\ (n + (k + 1)) - 1 = n + k
        /\ n + k <= Len(s) /\ n + k \in 0..Len(s)
    BY <1>1
  <2>2. g[n+k] = g[n] /\ g[n+k] \in Tolds
    BY <1>4, <1>7, <2>1 DEF Iterates
  <2>3. g[n+(k+1)] = TellStep(r)[<<g[n+k], s[n+(k+1)]>>]
    BY <1>4, <2>1 DEF Iterates
  <2>4. s[n+(k+1)] \in AnyMessage /\ ~Says(s[n+(k+1)], r)
    BY <1>1, <1>2, <2>1
  <2>5. TellStep(r)[<<g[n+k], s[n+(k+1)]>>] = HearMessage(r, g[n+k], s[n+(k+1)])
    BY <2>2, <2>4 DEF TellStep
  <2> QED BY <2>2, <2>3, <2>4, <2>5, HearMessageSilent
<1> HIDE DEF T
<1>8. Nat \subseteq T
  BY <1>6, <1>7, NatInductive
<1>9. g[n + Len(q)] = g[n]
  BY <1>1, <1>8 DEF T
<1> QED BY <1>1, <1>3, <1>4, <1>5, <1>9 DEF s

(***************************************************************************)
(* What observing a message does to the table and the trace                *)
(***************************************************************************)
States == [output_tokens : Nat, awaiting_first : BOOLEAN, gaps : Seq(Nat)]
Tables == UNION {[R -> States] : R \in SUBSET Requests}
TraceRecords == [req : Requests, output_tokens : Nat, itl_tokens : Seq(Nat)]
Accounts == [requests : Tables, trace : Seq(TraceRecords)]

LEMMA TrackFacts ==
  ASSUME NEW t \in Tables, NEW r \in Requests, NEW state \in States
  PROVE  /\ Track(t, r, state) \in Tables /\ Untrack(t, r) \in Tables
         /\ DOMAIN t \subseteq Requests /\ \A x \in DOMAIN t : t[x] \in States
         /\ DOMAIN Track(t, r, state) = DOMAIN t \cup {r} /\ Track(t, r, state)[r] = state
         /\ DOMAIN Untrack(t, r) = DOMAIN t \ {r}
         /\ \A x \in DOMAIN t : x # r => Track(t, r, state)[x] = t[x] /\ Untrack(t, r)[x] = t[x]
<1>1. PICK R \in SUBSET Requests : t \in [R -> States]
  BY DEF Tables
<1>2. Track(t, r, state) \in [R \cup {r} -> States] /\ R \cup {r} \in SUBSET Requests
  BY <1>1 DEF Track
<1>3. Untrack(t, r) \in [R \ {r} -> States] /\ R \ {r} \in SUBSET Requests
  BY <1>1 DEF Untrack
<1>4. Track(t, r, state) \in Tables /\ Untrack(t, r) \in Tables
  BY <1>2, <1>3 DEF Tables
<1> QED BY <1>1, <1>4 DEF Track, Untrack

LEMMA RecordChunkType ==
  ASSUME NEW state \in States, NEW n \in Nat
  PROVE  RecordChunk(state, n) \in States
<1>1. state.output_tokens \in Nat /\ state.gaps \in Seq(Nat)
  BY DEF States
<1>2. state.output_tokens + n \in Nat /\ Append(state.gaps, n) \in Seq(Nat)
  BY <1>1, AppendProperties
<1> QED BY <1>1, <1>2 DEF RecordChunk, States

\* The state an output leaves of its request's.
Charged(state, o) == IF o.tokens > 0 THEN RecordChunk(state, o.tokens) ELSE state

LEMMA ObserveOneIs ==
  ASSUME NEW acc \in Accounts, NEW o \in AnyOutput
  PROVE  /\ ObserveOne(acc, o) \in Accounts
         /\ o.req \notin DOMAIN acc.requests => ObserveOne(acc, o) = acc
         /\ o.req \in DOMAIN acc.requests =>
              /\ o.fin = "none" =>
                   /\ ObserveOne(acc, o).requests = Track(acc.requests, o.req, Charged(acc.requests[o.req], o))
                   /\ ObserveOne(acc, o).trace = acc.trace
              /\ o.fin = "abort" =>
                   /\ ObserveOne(acc, o).requests = Untrack(acc.requests, o.req)
                   /\ ObserveOne(acc, o).trace = acc.trace
              /\ o.fin = "stop" =>
                   /\ ObserveOne(acc, o).requests = Untrack(acc.requests, o.req)
                   /\ ObserveOne(acc, o).trace =
                        Append(acc.trace, IntoRecord(o.req, Charged(acc.requests[o.req], o)))
              /\ Charged(acc.requests[o.req], o) \in States
              /\ IntoRecord(o.req, Charged(acc.requests[o.req], o)) \in TraceRecords
<1>1. /\ acc.requests \in Tables /\ acc.trace \in Seq(TraceRecords)
      /\ acc = [requests |-> acc.requests, trace |-> acc.trace]
      /\ o.req \in Requests /\ o.tokens \in Nat /\ o.fin \in {"none", "stop", "abort"}
  BY DEF Accounts, AnyOutput
<1>2. CASE o.req \notin DOMAIN acc.requests
  BY <1>2 DEF ObserveOne
<1>3. CASE o.req \in DOMAIN acc.requests
  <2> DEFINE state == Charged(acc.requests[o.req], o)
             record == IntoRecord(o.req, state)
  <2>1. acc.requests[o.req] \in States
    <3>1. PICK R \in SUBSET Requests : acc.requests \in [R -> States]
      BY <1>1 DEF Tables
    <3> QED BY <1>3, <3>1
  <2>2. state \in States
    BY <1>1, <2>1, RecordChunkType DEF Charged
  <2>3. record \in TraceRecords
    <3>1. state.output_tokens \in Nat /\ state.gaps \in Seq(Nat)
      BY <2>2 DEF States
    <3> HIDE DEF state
    <3> QED BY <1>1, <3>1 DEF IntoRecord, TraceRecords
  <2>4. Track(acc.requests, o.req, state) \in Tables /\ Untrack(acc.requests, o.req) \in Tables
    BY <1>1, <2>2, TrackFacts
  <2>5. Append(acc.trace, record) \in Seq(TraceRecords)
    BY <1>1, <2>3, AppendProperties
  <2>6. ObserveOne(acc, o) =
          CASE o.fin = "none" -> [requests |-> Track(acc.requests, o.req, state), trace |-> acc.trace]
            [] o.fin = "abort" -> [requests |-> Untrack(acc.requests, o.req), trace |-> acc.trace]
            [] OTHER -> [requests |-> Untrack(acc.requests, o.req), trace |-> Append(acc.trace, record)]
    <3>1. [acc EXCEPT !.requests = Track(acc.requests, o.req, state)]
            = [requests |-> Track(acc.requests, o.req, state), trace |-> acc.trace]
      BY <1>1
    <3>2. [acc EXCEPT !.requests = Untrack(acc.requests, o.req)]
            = [requests |-> Untrack(acc.requests, o.req), trace |-> acc.trace]
      BY <1>1
    <3> QED BY <1>1, <1>3, <3>1, <3>2 DEF ObserveOne, Charged
  <2> HIDE DEF state, record
  <2>7. ObserveOne(acc, o) \in Accounts
    BY <1>1, <2>4, <2>5, <2>6 DEF Accounts
  <2>8. o.fin = "none" =>
          /\ ObserveOne(acc, o).requests = Track(acc.requests, o.req, state)
          /\ ObserveOne(acc, o).trace = acc.trace
    BY <2>6
  <2>9. o.fin = "abort" =>
          /\ ObserveOne(acc, o).requests = Untrack(acc.requests, o.req)
          /\ ObserveOne(acc, o).trace = acc.trace
    BY <2>6
  <2>10. o.fin = "stop" =>
          /\ ObserveOne(acc, o).requests = Untrack(acc.requests, o.req)
          /\ ObserveOne(acc, o).trace = Append(acc.trace, record)
    BY <2>6
  <2> QED BY <1>3, <2>2, <2>3, <2>7, <2>8, <2>9, <2>10 DEF state, record
<1> QED BY <1>2, <1>3

ObserveStep == [p \in Accounts \X AnyOutput |-> ObserveOne(p[1], p[2])]

LEMMA ObservedIs ==
  ASSUME NEW acc \in Accounts, NEW q \in Seq(AnyOutput)
  PROVE  \E f : Iterates(f, Accounts, acc, q, ObserveStep) /\ FoldLeft(ObserveOne, acc, q) = f[Len(q)]
<1> DEFINE Rec(g) == [s \in SUBSET (1..Len(q)) |->
                        IF s = {} THEN acc ELSE ObserveOne(g[s \ {Max(s)}], q[Max(s)])]
           iter == CHOOSE g : g = Rec(g)
<1>1. DOMAIN q = 1..Len(q) /\ Len(q) \in Nat
  OBVIOUS
<1>2. ObserveStep \in [Accounts \X AnyOutput -> Accounts]
  BY ObserveOneIs DEF ObserveStep
<1>3. \A d \in Accounts, o \in AnyOutput : ObserveStep[<<d, o>>] = ObserveOne(d, o)
  BY DEF ObserveStep
<1>4. ASSUME NEW s \in SUBSET (1..Len(q)), s # {} PROVE q[Max(s)] \in AnyOutput
  <2>1. Max(s) \in s
    BY <1>1, <1>4, MaxOfSet
  <2>2. Max(s) \in 1..Len(q)
    BY <2>1
  <2> HIDE DEF iter
  <2> QED BY <2>2
<1>5. FoldLeft(ObserveOne, acc, q) = iter[1..Len(q)]
  BY <1>1 DEF FoldLeft, MapThenFoldSet
<1>6. PICK g : Solves(Len(q), g, Accounts, acc, q, ObserveStep)
  BY <1>2, SetRecursion
<1>7. g = Rec(g)
  <2>1. /\ g \in [SUBSET (1..Len(q)) -> Accounts]
        /\ \A s \in SUBSET (1..Len(q)) :
             g[s] = IF s = {} THEN acc ELSE ObserveStep[<<g[s \ {Max(s)}], q[Max(s)]>>]
    BY <1>6 DEF Solves
  <2>2. ASSUME NEW s \in SUBSET (1..Len(q))
        PROVE  g[s] = IF s = {} THEN acc ELSE ObserveOne(g[s \ {Max(s)}], q[Max(s)])
    <3>1. g[s \ {Max(s)}] \in Accounts
      BY <2>1
    <3> QED BY <1>3, <1>4, <2>1, <3>1
  <2> QED BY <2>1, <2>2
<1>8. iter = Rec(iter)
  BY <1>7
<1> HIDE DEF iter
<1>9. iter[{}] = acc
  BY <1>8
<1>10. ASSUME NEW s \in SUBSET (1..Len(q)), s # {}, iter[s \ {Max(s)}] \in Accounts
       PROVE  iter[s] = ObserveStep[<<iter[s \ {Max(s)}], q[Max(s)]>>]
  BY <1>3, <1>4, <1>8, <1>10
<1>11. Unrolls(iter, Accounts, acc, q, ObserveStep)
  BY <1>9, <1>10 DEF Unrolls
<1>12. \E f : Iterates(f, Accounts, acc, q, ObserveStep) /\ f[Len(q)] = iter[1..Len(q)]
  <2>1. FoldsOver(Accounts, AnyOutput, acc, q, ObserveStep)
    BY <1>2 DEF FoldsOver
  <2> QED BY <1>11, <2>1, Unrolled
<1> QED BY <1>5, <1>12

\* What the tap knows of a request of which it was told so much.
Known(told) ==
  [output_tokens |-> told.total, awaiting_first |-> told.chunks = << >>, gaps |-> Gaps(told.chunks)]

LEMMA ChargedKnows ==
  ASSUME NEW r, NEW told \in Tolds, NEW o \in AnyOutput, o.req = r
  PROVE  /\ Charged(Known(told), o) = Known(Hear(r, told, o))
         /\ IntoRecord(r, Known(told)) = ExactRecord(r, told)
<1>1. told.total \in Nat /\ told.chunks \in Seq(Nat) /\ o.tokens \in Nat
  BY DEF Tolds, AnyOutput
<1>2. CASE ~(o.tokens > 0)
  BY <1>2 DEF Charged, Hear, IntoRecord, ExactRecord, Known
<1>3. CASE o.tokens > 0
  <2>1. Hear(r, told, o) = [total |-> told.total + o.tokens, chunks |-> Append(told.chunks, o.tokens)]
    BY <1>3 DEF Hear
  <2>2. Append(told.chunks, o.tokens) # << >>
    <3> DEFINE chunks == told.chunks
               n == o.tokens
    <3>1. chunks \in Seq(Nat) /\ n \in Nat
      BY <1>1
    <3> HIDE DEF chunks, n
    <3>2. Len(Append(chunks, n)) = Len(chunks) + 1 /\ Len(chunks) \in Nat
      BY <3>1, AppendProperties
    <3>3. Append(chunks, n) # << >>
      <4>1. Len(<< >>) = 0
        OBVIOUS
      <4> QED BY <3>2, <4>1
    <3> QED BY <3>3 DEF chunks, n
  <2>3. Gaps(Append(told.chunks, o.tokens)) =
          IF told.chunks = << >> THEN Gaps(told.chunks) ELSE Append(Gaps(told.chunks), o.tokens)
    <3>1. CASE told.chunks = << >>
      <4>1. Tail(Append(<< >>, o.tokens)) = << >>
        BY <1>1
      <4> QED BY <2>2, <3>1, <4>1 DEF Gaps
    <3>2. CASE told.chunks # << >>
      <4>1. Tail(Append(told.chunks, o.tokens)) = Append(Tail(told.chunks), o.tokens)
        BY <1>1, <3>2, HeadTailAppend
      <4> QED BY <2>2, <3>2, <4>1 DEF Gaps
    <3> QED BY <3>1, <3>2
  <2> DEFINE later == Append(told.chunks, o.tokens)
  <2>4. Known(Hear(r, told, o)) =
          [output_tokens |-> told.total + o.tokens, awaiting_first |-> FALSE, gaps |-> Gaps(later)]
    <3>1. Hear(r, told, o).total = told.total + o.tokens /\ Hear(r, told, o).chunks = later
      BY <2>1
    <3>2. (Hear(r, told, o).chunks = << >>) = FALSE
      BY <2>2, <3>1
    <3> HIDE DEF later
    <3> QED BY <3>1, <3>2 DEF Known
  <2>5. RecordChunk(Known(told), o.tokens) =
          [output_tokens |-> told.total + o.tokens, awaiting_first |-> FALSE, gaps |-> Gaps(later)]
    <3> HIDE DEF later
    <3>1. CASE told.chunks = << >>
      <4>1. (told.chunks = << >>) = TRUE
        BY <3>1
      <4>2. Known(told) = [output_tokens |-> told.total, awaiting_first |-> TRUE, gaps |-> Gaps(told.chunks)]
        BY <4>1 DEF Known
      <4> QED BY <2>3, <3>1, <4>2 DEF RecordChunk, later
    <3>2. CASE told.chunks # << >>
      <4>1. (told.chunks = << >>) = FALSE
        BY <3>2
      <4>2. Known(told) = [output_tokens |-> told.total, awaiting_first |-> FALSE, gaps |-> Gaps(told.chunks)]
        BY <4>1 DEF Known
      <4> QED BY <2>3, <3>2, <4>2 DEF RecordChunk, later
    <3> QED BY <3>1, <3>2
  <2> HIDE DEF later
  <2> QED BY <1>3, <2>4, <2>5 DEF Charged, IntoRecord, ExactRecord, Known
<1> QED BY <1>2, <1>3

OnlyRecord(records, r, record) ==
  \E i \in DOMAIN records :
    records[i] = record /\ \A j \in DOMAIN records : records[j].req = r => j = i
NoRecord(records, r) == \A i \in DOMAIN records : records[i].req # r

LEMMA RecordAppend ==
  ASSUME NEW records \in Seq(TraceRecords), NEW record \in TraceRecords, NEW r
  PROVE  /\ record.req # r /\ NoRecord(records, r) => NoRecord(Append(records, record), r)
         /\ record.req # r => \A x : OnlyRecord(records, r, x) => OnlyRecord(Append(records, record), r, x)
         /\ record.req = r /\ NoRecord(records, r) => OnlyRecord(Append(records, record), r, record)
<1> DEFINE n == Len(records)
           more == Append(records, record)
<1>1. /\ DOMAIN records = 1..n /\ DOMAIN more = 1..(n+1) /\ n \in Nat
      /\ more[n+1] = record /\ \A i \in 1..n : more[i] = records[i]
  BY AppendProperties
<1>2. \A i \in 1..(n+1) : i \in 1..n \/ i = n + 1
  BY <1>1
<1>3. n + 1 \in 1..(n+1) /\ 1..n \subseteq 1..(n+1)
  BY <1>1
<1> HIDE DEF more, n
<1>4. record.req # r /\ NoRecord(records, r) => NoRecord(more, r)
  BY <1>1, <1>2 DEF NoRecord
<1>5. ASSUME record.req # r, NEW x, OnlyRecord(records, r, x) PROVE OnlyRecord(more, r, x)
  <2>1. PICK i \in 1..n : records[i] = x /\ \A j \in 1..n : records[j].req = r => j = i
    BY <1>1, <1>5 DEF OnlyRecord
  <2>2. i \in DOMAIN more /\ more[i] = x
    BY <1>1, <1>3, <2>1
  <2>3. ASSUME NEW j \in DOMAIN more, more[j].req = r PROVE j = i
    BY <1>1, <1>2, <1>5, <2>1, <2>3
  <2> QED BY <2>2, <2>3 DEF OnlyRecord
<1>6. ASSUME record.req = r, NoRecord(records, r) PROVE OnlyRecord(more, r, record)
  <2>1. n + 1 \in DOMAIN more /\ more[n+1] = record
    BY <1>1, <1>3
  <2>2. ASSUME NEW j \in DOMAIN more, more[j].req = r PROVE j = n + 1
    BY <1>1, <1>2, <1>6, <2>2 DEF NoRecord
  <2> QED BY <2>1, <2>2 DEF OnlyRecord
<1> QED BY <1>4, <1>5, <1>6 DEF more

\* One output, seen from one request: acc becomes new, and told becomes heard.
SeenFrom(r, o, acc, new, told, heard) ==
  LET tracked == r \in DOMAIN acc.requests
      ended == o.req = r /\ o.fin # "none"
      stopped == o.req = r /\ o.fin = "stop"
  IN  /\ r \in DOMAIN new.requests <=> tracked /\ ~ended
      /\ r \in DOMAIN new.requests => new.requests[r] = Known(heard)
      /\ NoRecord(acc.trace, r) /\ ~(tracked /\ stopped) => NoRecord(new.trace, r)
      /\ NoRecord(acc.trace, r) /\ tracked /\ stopped => OnlyRecord(new.trace, r, ExactRecord(r, heard))
      /\ \A x : OnlyRecord(acc.trace, r, x) /\ o.req # r => OnlyRecord(new.trace, r, x)
      /\ o.req # r => heard = told

LEMMA ObserveOneOf ==
  ASSUME NEW acc \in Accounts, NEW o \in AnyOutput, NEW r \in Requests, NEW told \in Tolds,
         r \in DOMAIN acc.requests => acc.requests[r] = Known(told)
  PROVE  SeenFrom(r, o, acc, ObserveOne(acc, o), told, Hear(r, told, o))
<1> DEFINE new == ObserveOne(acc, o)
           state == Charged(acc.requests[o.req], o)
<1>1. /\ acc.requests \in Tables /\ acc.trace \in Seq(TraceRecords)
      /\ o.req \in Requests /\ o.fin \in {"none", "stop", "abort"}
  BY DEF Accounts, AnyOutput
<1>2. o.req # r => Hear(r, told, o) = told
  BY DEF Hear
<1>3. CASE o.req \notin DOMAIN acc.requests
  <2>1. new = acc
    BY <1>3, ObserveOneIs
  <2>2. o.req = r => r \notin DOMAIN acc.requests
    BY <1>3
  <2> HIDE DEF new
  <2>3. r \in DOMAIN acc.requests => o.req # r
    BY <2>2
  <2>4. SeenFrom(r, o, acc, new, told, Hear(r, told, o))
    BY <1>2, <2>1, <2>3 DEF SeenFrom
  <2> QED BY <2>4 DEF new
<1>4. CASE o.req \in DOMAIN acc.requests
  <2>1. /\ o.fin = "none" =>
             new.requests = Track(acc.requests, o.req, state) /\ new.trace = acc.trace
        /\ o.fin = "abort" =>
             new.requests = Untrack(acc.requests, o.req) /\ new.trace = acc.trace
        /\ o.fin = "stop" =>
             /\ new.requests = Untrack(acc.requests, o.req)
             /\ new.trace = Append(acc.trace, IntoRecord(o.req, state))
        /\ state \in States /\ IntoRecord(o.req, state) \in TraceRecords
    BY <1>4, ObserveOneIs
  <2>2. IntoRecord(o.req, state).req = o.req
    BY DEF IntoRecord
  <2>3. o.req = r => /\ acc.requests[o.req] = Known(told)
                     /\ state = Known(Hear(r, told, o))
                     /\ IntoRecord(o.req, state) = ExactRecord(r, Hear(r, told, o))
    <3>1. Hear(r, told, o) \in Tolds
      BY HearType
    <3> QED BY <1>4, <3>1, ChargedKnows
  <2>a. state \in States /\ IntoRecord(o.req, state) \in TraceRecords
    BY <2>1
  <2> HIDE DEF new, state
  <2>4. /\ DOMAIN Track(acc.requests, o.req, state) = DOMAIN acc.requests \cup {o.req}
        /\ Track(acc.requests, o.req, state)[o.req] = state
        /\ DOMAIN Untrack(acc.requests, o.req) = DOMAIN acc.requests \ {o.req}
        /\ \A x \in DOMAIN acc.requests : x # o.req =>
             /\ Track(acc.requests, o.req, state)[x] = acc.requests[x]
             /\ Untrack(acc.requests, o.req)[x] = acc.requests[x]
    BY <1>4 DEF Track, Untrack
  <2>5. r \in DOMAIN new.requests <=> r \in DOMAIN acc.requests /\ ~(o.req = r /\ o.fin # "none")
    BY <1>1, <1>4, <2>1, <2>4
  <2>6. r \in DOMAIN new.requests => new.requests[r] = Known(Hear(r, told, o))
    <3>1. CASE o.req = r
      BY <1>1, <2>1, <2>3, <2>4, <2>5, <3>1
    <3>2. CASE o.req # r
      BY <1>1, <1>2, <2>1, <2>4, <2>5, <3>2
    <3> QED BY <3>1, <3>2
  <2>7. /\ o.req # r /\ NoRecord(acc.trace, r) => NoRecord(new.trace, r)
        /\ o.req # r => \A x : OnlyRecord(acc.trace, r, x) => OnlyRecord(new.trace, r, x)
        /\ o.fin # "stop" /\ NoRecord(acc.trace, r) => NoRecord(new.trace, r)
        /\ o.req = r /\ NoRecord(acc.trace, r) /\ o.fin = "stop" =>
             OnlyRecord(new.trace, r, ExactRecord(r, Hear(r, told, o)))
    <3> DEFINE record == IntoRecord(o.req, state)
    <3>1. /\ record.req # r /\ NoRecord(acc.trace, r) => NoRecord(Append(acc.trace, record), r)
          /\ record.req # r => \A x : OnlyRecord(acc.trace, r, x) => OnlyRecord(Append(acc.trace, record), r, x)
          /\ record.req = r /\ NoRecord(acc.trace, r) => OnlyRecord(Append(acc.trace, record), r, record)
      BY <1>1, <2>a, RecordAppend
    <3>2. new.trace = acc.trace \/ (o.fin = "stop" /\ new.trace = Append(acc.trace, record))
      BY <1>1, <2>1
    <3>3. o.fin = "stop" => new.trace = Append(acc.trace, record)
      BY <2>1
    <3> HIDE DEF record
    <3>4. record.req = o.req
      BY <2>2 DEF record
    <3>5. o.req = r => record = ExactRecord(r, Hear(r, told, o))
      BY <2>3 DEF record
    <3> QED BY <3>1, <3>2, <3>3, <3>4, <3>5
  <2>8. SeenFrom(r, o, acc, new, told, Hear(r, told, o))
    BY <1>2, <1>4, <2>5, <2>6, <2>7 DEF SeenFrom
  <2> QED BY <2>8 DEF new
<1> QED BY <1>3, <1>4

SaysEnd(message, r) ==
  \E j \in 1..Len(message.outputs) : message.outputs[j].req = r /\ message.outputs[j].fin # "none"
SaysStop(message, r) ==
  \E j \in 1..Len(message.outputs) : message.outputs[j].req = r /\ message.outputs[j].fin = "stop"

\* In a message, nothing of a request follows its end.
EndsLastIn(message, r) ==
  \A j \in 1..Len(message.outputs) :
    message.outputs[j].req = r /\ message.outputs[j].fin # "none" =>
      \A k \in (j+1)..Len(message.outputs) : message.outputs[k].req # r

\* A whole message, seen from one request.
LEMMA ObservedOf ==
  ASSUME NEW acc \in Accounts, NEW m \in AnyMessage, NEW r \in Requests, NEW told \in Tolds,
         r \in DOMAIN acc.requests => acc.requests[r] = Known(told), EndsLastIn(m, r)
  PROVE  LET new == FoldLeft(ObserveOne, acc, m.outputs)
             heard == HearMessage(r, told, m)
         IN  /\ new \in Accounts
             /\ r \in DOMAIN new.requests <=> r \in DOMAIN acc.requests /\ ~SaysEnd(m, r)
             /\ r \in DOMAIN new.requests => new.requests[r] = Known(heard)
             /\ r \in DOMAIN acc.requests /\ NoRecord(acc.trace, r) =>
                  IF SaysStop(m, r) THEN OnlyRecord(new.trace, r, ExactRecord(r, heard))
                  ELSE NoRecord(new.trace, r)
             /\ ~Says(m, r) => /\ NoRecord(acc.trace, r) => NoRecord(new.trace, r)
                               /\ \A x : OnlyRecord(acc.trace, r, x) => OnlyRecord(new.trace, r, x)
<1> DEFINE q == m.outputs
           new == FoldLeft(ObserveOne, acc, q)
           heard == HearMessage(r, told, m)
           in == r \in DOMAIN acc.requests
<1>1. q \in Seq(AnyOutput) /\ Len(q) \in Nat /\ DOMAIN q = 1..Len(q)
  BY DEF AnyMessage
<1>2. PICK f : Iterates(f, Accounts, acc, q, ObserveStep) /\ new = f[Len(q)]
  BY <1>1, ObservedIs
<1>3. PICK t : Iterates(t, Tolds, told, q, HearStep(r)) /\ heard = t[Len(q)]
  BY HearMessageIs
<1> HIDE DEF q, new, heard
<1> DEFINE EndBy(k) == \E j \in 1..k : q[j].req = r /\ q[j].fin # "none"
           StopBy(k) == \E j \in 1..k : q[j].req = r /\ q[j].fin = "stop"
           SilentTo(k) == \A j \in 1..k : q[j].req # r
           P(k) == /\ r \in DOMAIN f[k].requests <=> in /\ ~EndBy(k)
                   /\ r \in DOMAIN f[k].requests => f[k].requests[r] = Known(t[k])
                   /\ in /\ NoRecord(acc.trace, r) =>
                        IF StopBy(k) THEN OnlyRecord(f[k].trace, r, ExactRecord(r, t[k]))
                        ELSE NoRecord(f[k].trace, r)
                   /\ SilentTo(k) =>
                        /\ NoRecord(acc.trace, r) => NoRecord(f[k].trace, r)
                        /\ \A x : OnlyRecord(acc.trace, r, x) => OnlyRecord(f[k].trace, r, x)
           T == {k \in Nat : k <= Len(q) => P(k)}
<1>4. 0 \in T
  <2>1. f[0] = acc /\ t[0] = told
    BY <1>2, <1>3 DEF Iterates
  <2>2. ~EndBy(0) /\ ~StopBy(0)
    OBVIOUS
  <2> HIDE DEF EndBy, StopBy, SilentTo
  <2>3. P(0)
    BY <2>1, <2>2
  <2> QED BY <2>3
<1>5. ASSUME NEW k \in Nat, k \in T PROVE k + 1 \in T
  <2> HIDE DEF P
  <2> SUFFICES ASSUME k + 1 <= Len(q) PROVE P(k+1)
    OBVIOUS
  <2>1. P(k) /\ k + 1 \in 1..Len(q) /\ (k + 1) - 1 = k /\ k \in 0..Len(q) /\ k + 1 \in 1..(k+1)
    BY <1>1, <1>5
  <2> HIDE DEF T
  <2>2. f[k] \in Accounts /\ t[k] \in Tolds /\ q[k+1] \in AnyOutput
    BY <1>1, <1>2, <1>3, <2>1 DEF Iterates
  <2>3. f[k+1] = ObserveOne(f[k], q[k+1]) /\ t[k+1] = Hear(r, t[k], q[k+1])
    <3>1. f[k+1] = ObserveStep[<<f[k], q[k+1]>>] /\ t[k+1] = HearStep(r)[<<t[k], q[k+1]>>]
      BY <1>2, <1>3, <2>1 DEF Iterates
    <3> QED BY <2>2, <3>1 DEF ObserveStep, HearStep
  <2> DEFINE o == q[k+1]
             was == r \in DOMAIN f[k].requests
             is == r \in DOMAIN f[k+1].requests
             mine == o.req = r
  <2>4. /\ is <=> was /\ ~(mine /\ o.fin # "none")
        /\ is => f[k+1].requests[r] = Known(t[k+1])
        /\ NoRecord(f[k].trace, r) /\ ~(was /\ mine /\ o.fin = "stop") => NoRecord(f[k+1].trace, r)
        /\ NoRecord(f[k].trace, r) /\ was /\ mine /\ o.fin = "stop" =>
             OnlyRecord(f[k+1].trace, r, ExactRecord(r, t[k+1]))
        /\ \A x : OnlyRecord(f[k].trace, r, x) /\ ~mine => OnlyRecord(f[k+1].trace, r, x)
        /\ ~mine => t[k+1] = t[k]
    <3>1. was => f[k].requests[r] = Known(t[k])
      BY <2>1 DEF P
    <3>2. SeenFrom(r, o, f[k], ObserveOne(f[k], o), t[k], Hear(r, t[k], o))
      BY <2>2, <3>1, ObserveOneOf
    <3>3. SeenFrom(r, o, f[k], f[k+1], t[k], t[k+1])
      BY <2>3, <3>2
    <3> HIDE DEF o
    <3> QED BY <3>3 DEF SeenFrom
  <2>5. \A j \in 1..(k+1) : j \in 1..k \/ j = k + 1
    OBVIOUS
  <2>6. \A j \in 1..k : j \in 1..(k+1) /\ k + 1 \in (j+1)..Len(q) /\ j \in 1..Len(q)
    BY <1>1, <2>1
  <2>7. EndBy(k+1) <=> EndBy(k) \/ (mine /\ o.fin # "none")
    BY <2>1, <2>5, <2>6
  <2>8. StopBy(k+1) <=> StopBy(k) \/ (mine /\ o.fin = "stop")
    BY <2>1, <2>5, <2>6
  <2>9. SilentTo(k+1) => SilentTo(k) /\ ~mine
    BY <2>1, <2>6
  <2>10. StopBy(k) => EndBy(k)
    OBVIOUS
  <2>11. EndBy(k) => ~mine
    BY <2>6 DEF EndsLastIn, q
  <2>12. o.fin = "stop" => o.fin # "none"
    OBVIOUS
  <2> HIDE DEF EndBy, StopBy, SilentTo, mine, o, was, is, in
  <2>13. was <=> in /\ ~EndBy(k)
    BY <2>1 DEF P, was, in
  <2>14. is <=> in /\ ~EndBy(k+1)
    BY <2>4, <2>7, <2>13
  <2>15. in /\ NoRecord(acc.trace, r) =>
           IF StopBy(k) THEN OnlyRecord(f[k].trace, r, ExactRecord(r, t[k]))
           ELSE NoRecord(f[k].trace, r)
    BY <2>1 DEF P, in
  <2>16. ASSUME in, NoRecord(acc.trace, r)
         PROVE  IF StopBy(k+1) THEN OnlyRecord(f[k+1].trace, r, ExactRecord(r, t[k+1]))
                ELSE NoRecord(f[k+1].trace, r)
    <3>1. CASE StopBy(k)
      <4>1. OnlyRecord(f[k].trace, r, ExactRecord(r, t[k])) /\ ~mine /\ t[k+1] = t[k]
        BY <2>4, <2>10, <2>11, <2>15, <2>16, <3>1
      <4>2. OnlyRecord(f[k+1].trace, r, ExactRecord(r, t[k+1]))
        BY <2>4, <4>1
      <4> QED BY <2>8, <3>1, <4>2
    <3>2. CASE ~StopBy(k)
      <4>1. NoRecord(f[k].trace, r)
        BY <2>15, <2>16, <3>2
      <4>2. mine => was
        BY <2>11, <2>13, <2>16
      <4>3. CASE mine /\ o.fin = "stop"
        <5>1. OnlyRecord(f[k+1].trace, r, ExactRecord(r, t[k+1])) /\ StopBy(k+1)
          BY <2>4, <2>8, <4>1, <4>2, <4>3
        <5> QED BY <5>1
      <4>4. CASE ~(mine /\ o.fin = "stop")
        <5>1. NoRecord(f[k+1].trace, r) /\ ~StopBy(k+1)
          BY <2>4, <2>8, <3>2, <4>1, <4>4
        <5> QED BY <5>1
      <4> QED BY <4>3, <4>4
    <3> QED BY <3>1, <3>2
  <2>17. ASSUME SilentTo(k+1)
         PROVE  /\ NoRecord(acc.trace, r) => NoRecord(f[k+1].trace, r)
                /\ \A x : OnlyRecord(acc.trace, r, x) => OnlyRecord(f[k+1].trace, r, x)
    <3>1. SilentTo(k) /\ ~mine
      BY <2>9, <2>17
    <3>2. /\ NoRecord(acc.trace, r) => NoRecord(f[k].trace, r)
          /\ \A x : OnlyRecord(acc.trace, r, x) => OnlyRecord(f[k].trace, r, x)
      BY <2>1, <3>1 DEF P
    <3> QED BY <2>4, <3>1, <3>2
  <2>18. is => f[k+1].requests[r] = Known(t[k+1])
    BY <2>4
  <2> QED BY <2>14, <2>16, <2>17, <2>18 DEF P, is, in
<1> HIDE DEF T, P
<1>6. Nat \subseteq T
  BY <1>4, <1>5, NatInductive
<1>7. P(Len(q))
  <2>1. Len(q) \in T /\ Len(q) <= Len(q)
    BY <1>1, <1>6
  <2> QED BY <2>1 DEF T
<1>8. new \in Accounts
  <2>1. Len(q) \in 0..Len(q)
    BY <1>1
  <2> QED BY <1>2, <2>1 DEF Iterates
<1>9. /\ EndBy(Len(q)) <=> SaysEnd(m, r)
      /\ StopBy(Len(q)) <=> SaysStop(m, r)
      /\ ~Says(m, r) => SilentTo(Len(q))
  BY <1>1 DEF SaysEnd, SaysStop, Says, q
<1> HIDE DEF EndBy, StopBy, SilentTo, in
<1>10. /\ r \in DOMAIN new.requests <=> in /\ ~SaysEnd(m, r)
       /\ r \in DOMAIN new.requests => new.requests[r] = Known(heard)
  BY <1>2, <1>3, <1>7, <1>9 DEF P
<1>11. in /\ NoRecord(acc.trace, r) =>
         IF SaysStop(m, r) THEN OnlyRecord(new.trace, r, ExactRecord(r, heard)) ELSE NoRecord(new.trace, r)
  BY <1>2, <1>3, <1>7, <1>9 DEF P
<1>12. ~Says(m, r) => /\ NoRecord(acc.trace, r) => NoRecord(new.trace, r)
                      /\ \A x : OnlyRecord(acc.trace, r, x) => OnlyRecord(new.trace, r, x)
  BY <1>2, <1>7, <1>9 DEF P
<1> QED BY <1>8, <1>10, <1>11, <1>12 DEF new, heard, q, in

(***************************************************************************)
(* What the engine has said of each request                                *)
(***************************************************************************)

\* No frame is sent twice, and an abort follows its request.
AskedOnce ==
  /\ \A i, j \in 1..Len(asked) : asked[i] = asked[j] => i = j
  /\ \A i \in 1..Len(asked) :
       asked[i].type = "abort" => \E k \in 1..(i-1) : asked[k] = Add(asked[i].req)

Taken(r) == \E k \in 1..taken : to_engine[k] = Add(r)
AbortTaken(r) == \E k \in 1..taken : to_engine[k] = Abort(r)
SaidOf(r) == \E i \in 1..Len(said) : Says(said[i], r)
EndSaid(r) == \E i \in 1..Len(said) : SaysEnd(said[i], r)

\* The engine speaks only of requests it took, and runs those that have neither been
\* aborted nor ended.
RunsUnended ==
  \A r \in Requests :
    /\ SaidOf(r) => Taken(r)
    /\ r \in running <=> Taken(r) /\ ~AbortTaken(r) /\ ~EndSaid(r)

\* Nothing of a request follows its end.
EndsLast ==
  \A r \in Requests : \A i \in 1..Len(said) :
    /\ EndsLastIn(said[i], r)
    /\ SaysEnd(said[i], r) => \A k \in (i+1)..Len(said) : ~Says(said[k], r)

EngineInv == AskedOnce /\ RunsUnended /\ EndsLast

LEMMA FrameKinds ==
  ASSUME NEW frame \in Frames
  PROVE  /\ frame.type \in {"add", "abort", "other"}
         /\ frame.type = "add" => frame.req \in Requests /\ frame = Add(frame.req)
         /\ frame.type = "abort" => frame.req \in Requests /\ frame = Abort(frame.req)
         /\ \A r : Add(r).type = "add" /\ Add(r).req = r /\ Abort(r).type = "abort" /\ Abort(r).req = r
<1>1. \A r : Add(r).type = "add" /\ Add(r).req = r /\ Abort(r).type = "abort" /\ Abort(r).req = r
  BY DEF Add, Abort
<1>2. CASE \E r \in Requests : frame = Add(r)
  BY <1>1, <1>2
<1>3. CASE \E r \in Fickle : frame = Abort(r)
  BY <1>1, <1>3, TapConstants
<1>4. CASE frame = Other
  BY <1>1, <1>4 DEF Other
<1> QED BY <1>2, <1>3, <1>4 DEF Frames

\* What was forwarded is what was sent first.
LEMMA ForwardedFirst ==
  ASSUME WireInv
  PROVE  /\ Len(to_engine) \in Nat /\ Len(asked) \in Nat /\ Len(to_engine) <= Len(asked)
         /\ \A k \in 1..Len(to_engine) : to_engine[k] = asked[k] /\ to_engine[k] \in Frames
         /\ Len(to_frontend) \in Nat /\ Len(said) \in Nat /\ Len(to_frontend) <= Len(said)
         /\ \A i \in 1..Len(to_frontend) : to_frontend[i] = said[i]
         /\ \A i \in 1..Len(said) : said[i] \in AnyMessage
<1>1. /\ to_engine \in Seq(Frames) /\ req_rx \in Seq(Frames) /\ asked = to_engine \o req_rx
      /\ to_frontend \in Seq(AnyMessage) /\ out_rx \in Seq(AnyMessage) /\ said = to_frontend \o out_rx
      /\ said \in Seq(AnyMessage)
  BY DEF WireInv, WireTypes, Verbatim
<1>2. Len(asked) = Len(to_engine) + Len(req_rx) /\ \A k \in 1..Len(to_engine) : asked[k] = to_engine[k]
  BY <1>1, ConcatProperties
<1>3. Len(said) = Len(to_frontend) + Len(out_rx) /\ \A k \in 1..Len(to_frontend) : said[k] = to_frontend[k]
  BY <1>1, ConcatProperties
<1>4. \A k \in 1..Len(to_engine) : to_engine[k] \in Frames
  BY <1>1
<1>5. \A i \in 1..Len(said) : said[i] \in AnyMessage
  BY <1>1
<1>6. Len(to_engine) \in Nat /\ Len(req_rx) \in Nat /\ Len(to_frontend) \in Nat /\ Len(out_rx) \in Nat
  BY <1>1
<1> QED BY <1>2, <1>3, <1>4, <1>5, <1>6

LEMMA AskedSend ==
  ASSUME WireInv, AskedOnce, NEW frame \in Frames, FrontendSend(frame)
  PROVE  AskedOnce'
<1> DEFINE n == Len(asked)
<1>1. /\ asked' = Append(asked, frame) /\ asked \in Seq(Frames) /\ n \in Nat
      /\ frame \notin Range(asked) /\ (frame.type = "abort" => Add(frame.req) \in Range(asked))
  BY DEF FrontendSend, WireInv, WireTypes
<1>2. Len(asked') = n + 1 /\ asked'[n+1] = frame /\ \A i \in 1..n : asked'[i] = asked[i]
  BY <1>1, AppendProperties
<1>3. \A x : x \in Range(asked) <=> \E k \in 1..n : asked[k] = x
  BY <1>1 DEF Range
<1>4. \A i \in 1..(n+1) : i \in 1..n \/ i = n + 1
  BY <1>1
<1>5. \A i, j \in 1..(n+1) : asked'[i] = asked'[j] => i = j
  BY <1>1, <1>2, <1>3, <1>4 DEF AskedOnce
<1>6. ASSUME NEW i \in 1..(n+1), asked'[i].type = "abort"
      PROVE  \E k \in 1..(i-1) : asked'[k] = Add(asked'[i].req)
  <2>1. CASE i \in 1..n
    <3>1. PICK k \in 1..(i-1) : asked[k] = Add(asked[i].req)
      BY <1>2, <1>6, <2>1 DEF AskedOnce
    <3>2. k \in 1..n
      BY <1>1, <2>1
    <3> QED BY <1>2, <2>1, <3>1, <3>2
  <2>2. CASE i = n + 1
    <3>1. PICK k \in 1..n : asked[k] = Add(frame.req)
      BY <1>1, <1>2, <1>3, <1>6, <2>2
    <3>2. i - 1 = n
      BY <1>1, <2>2
    <3> QED BY <1>2, <2>2, <3>1, <3>2
  <2> QED BY <1>4, <2>1, <2>2
<1> QED BY <1>2, <1>5, <1>6 DEF AskedOnce

\* The engine says one more message.
LEMMA SaidGrows ==
  ASSUME said \in Seq(AnyMessage), EndsLast, NEW m \in AnyMessage, said' = Append(said, m),
         \A r \in Requests : EndsLastIn(m, r) /\ (Says(m, r) => ~EndSaid(r))
  PROVE  /\ EndsLast'
         /\ \A r : SaidOf(r)' <=> SaidOf(r) \/ Says(m, r)
         /\ \A r : EndSaid(r)' <=> EndSaid(r) \/ SaysEnd(m, r)
<1> DEFINE n == Len(said)
<1>1. /\ n \in Nat /\ Len(said') = n + 1 /\ said'[n+1] = m /\ \A i \in 1..n : said'[i] = said[i]
  BY AppendProperties, LenProperties
<1>2. (\A i \in 1..(n+1) : i \in 1..n \/ i = n + 1) /\ n + 1 \in 1..(n+1) /\ \A i \in 1..n : i \in 1..(n+1)
  BY <1>1
<1>3. \A r : SaidOf(r)' <=> SaidOf(r) \/ Says(m, r)
  BY <1>1, <1>2 DEF SaidOf, Says
<1>4. \A r : EndSaid(r)' <=> EndSaid(r) \/ SaysEnd(m, r)
  <2> SUFFICES ASSUME NEW r PROVE EndSaid(r)' <=> EndSaid(r) \/ SaysEnd(m, r)
    OBVIOUS
  <2>1. EndSaid(r)' <=> \E i \in 1..(n+1) : SaysEnd(said'[i], r)
    BY <1>1 DEF EndSaid, SaysEnd
  <2>2. EndSaid(r) <=> \E i \in 1..n : SaysEnd(said[i], r)
    BY DEF EndSaid
  <2>3. SaysEnd(said'[n+1], r) <=> SaysEnd(m, r)
    BY <1>1
  <2>4. \A i \in 1..n : SaysEnd(said'[i], r) <=> SaysEnd(said[i], r)
    BY <1>1
  <2> HIDE DEF n
  <2> QED BY <1>2, <2>1, <2>2, <2>3, <2>4
<1>5. ASSUME NEW r \in Requests, NEW i \in 1..(n+1)
      PROVE  /\ EndsLastIn(said'[i], r)
             /\ SaysEnd(said'[i], r) => \A k \in (i+1)..(n+1) : ~Says(said'[k], r)
  <2>1. CASE i \in 1..n
    <3>1. said'[i] = said[i]
      BY <1>1, <2>1
    <3>2. EndsLastIn(said[i], r) /\ (SaysEnd(said[i], r) => \A k \in (i+1)..n : ~Says(said[k], r))
      BY <2>1 DEF EndsLast
    <3>3. ASSUME SaysEnd(said[i], r), NEW k \in (i+1)..(n+1) PROVE ~Says(said'[k], r)
      <4>1. CASE k \in (i+1)..n
        <5>1. k \in 1..n
          BY <1>1, <2>1, <4>1
        <5> QED BY <1>1, <3>2, <3>3, <4>1, <5>1
      <4>2. CASE k = n + 1
        <5>1. EndSaid(r)
          BY <2>1, <3>3 DEF EndSaid
        <5> QED BY <1>1, <4>2, <5>1
      <4>3. k \in (i+1)..n \/ k = n + 1
        BY <1>1, <2>1
      <4> QED BY <4>1, <4>2, <4>3
    <3> QED BY <3>1, <3>2, <3>3
  <2>2. CASE i = n + 1
    <3>1. said'[i] = m
      BY <1>1, <2>2
    <3>2. \A k \in (i+1)..(n+1) : FALSE
      BY <1>1, <2>2
    <3> QED BY <3>1, <3>2
  <2> QED BY <1>2, <2>1, <2>2
<1>6. EndsLast'
  BY <1>1, <1>5 DEF EndsLast
<1> QED BY <1>3, <1>4, <1>6

LEMMA EngineSend ==
  ASSUME WireInv, EngineInv, NEW frame \in Frames, FrontendSend(frame)
  PROVE  EngineInv'
<1>1. AskedOnce'
  BY AskedSend DEF EngineInv
<1>2. UNCHANGED <<to_engine, said, taken, running>>
  BY DEF FrontendSend
<1>3. RunsUnended' /\ EndsLast'
  BY <1>2 DEF EngineInv, RunsUnended, EndsLast, Taken, AbortTaken, SaidOf, EndSaid
<1> QED BY <1>1, <1>3 DEF EngineInv

LEMMA EngineTakes ==
  ASSUME WireInv, EngineInv, NEW answer \in BOOLEAN, EngineTake(answer)
  PROVE  EngineInv'
<1> DEFINE frame == to_engine[taken + 1]
           aborted == IF frame.type = "abort" THEN running \cap {frame.req} ELSE {}
           message == Message(<<Output(frame.req, 0, "abort")>>, TRUE)
<1>1. /\ taken < Len(to_engine) /\ taken' = taken + 1 /\ taken \in Nat
      /\ running' = (running \ aborted) \cup (IF frame.type = "add" THEN {frame.req} ELSE {})
      /\ answer => aborted # {}
      /\ answer => said' = Append(said, message)
      /\ ~answer => said' = said
      /\ UNCHANGED <<asked, to_engine>>
      /\ running \subseteq Requests
  BY DEF EngineTake, WireInv, WireTypes
<1>2. taken + 1 \in 1..Len(to_engine) /\ \A k \in 1..taken : k \in 1..Len(to_engine) /\ k # taken + 1
  BY <1>1, ForwardedFirst
<1>3. frame \in Frames /\ frame = asked[taken + 1] /\ \A k \in 1..taken : to_engine[k] = asked[k]
  BY <1>2, ForwardedFirst
<1>4. /\ frame.type \in {"add", "abort", "other"}
      /\ frame.type = "add" => frame.req \in Requests /\ frame = Add(frame.req)
      /\ frame.type = "abort" => frame.req \in Requests /\ frame = Abort(frame.req)
      /\ \A r : Add(r).type = "add" /\ Add(r).req = r /\ Abort(r).type = "abort" /\ Abort(r).req = r
  BY <1>3, FrameKinds
<1>5. \A i, j \in 1..Len(to_engine) : asked[i] = asked[j] => i = j
  BY ForwardedFirst DEF EngineInv, AskedOnce
<1> HIDE DEF frame
<1>6. \A k \in 1..taken' : k \in 1..taken \/ k = taken + 1
  BY <1>1
<1>7. \A r : /\ Taken(r)' <=> Taken(r) \/ frame = Add(r)
             /\ AbortTaken(r)' <=> AbortTaken(r) \/ frame = Abort(r)
  <2>1. taken + 1 \in 1..taken' /\ 1..taken \subseteq 1..taken'
    BY <1>1
  <2> QED BY <1>1, <1>6, <2>1 DEF Taken, AbortTaken, frame
<1>8. ASSUME NEW r, frame = Add(r) PROVE ~Taken(r) /\ ~AbortTaken(r)
  <2>1. ~Taken(r)
    BY <1>2, <1>3, <1>5, <1>8 DEF Taken
  <2>2. ASSUME NEW k \in 1..taken, to_engine[k] = Abort(r) PROVE FALSE
    <3>1. asked[k].type = "abort" /\ asked[k].req = r /\ k \in 1..Len(asked)
      BY <1>2, <1>3, <1>4, <2>2, ForwardedFirst
    <3>2. PICK j \in 1..(k-1) : asked[j] = Add(r)
      BY <3>1 DEF EngineInv, AskedOnce
    <3>3. j \in 1..taken
      BY <1>1
    <3> QED BY <1>2, <1>3, <1>5, <1>8, <3>2, <3>3
  <2> QED BY <2>1, <2>2 DEF AbortTaken
<1>9. AskedOnce'
  BY <1>1 DEF EngineInv, AskedOnce
<1>10. CASE frame.type = "add"
  <2>1. aborted = {} /\ said' = said
    BY <1>1, <1>10
  <2>2. \A r : (SaidOf(r)' <=> SaidOf(r)) /\ (EndSaid(r)' <=> EndSaid(r))
    BY <2>1 DEF SaidOf, EndSaid
  <2>3. EndsLast'
    BY <2>1 DEF EngineInv, EndsLast
  <2>4. running' = running \cup {frame.req} /\ frame = Add(frame.req)
    BY <1>1, <1>4, <1>10, <2>1
  <2>5. \A r : EndSaid(r) => SaidOf(r)
    BY ForwardedFirst DEF EndSaid, SaidOf, SaysEnd, Says, AnyMessage
  <2>6. ~Taken(frame.req) /\ ~AbortTaken(frame.req)
    BY <1>8, <2>4
  <2>7. ~EndSaid(frame.req)
    BY <1>4, <1>10, <2>5, <2>6 DEF EngineInv, RunsUnended
  <2>8. \A r : r # frame.req => frame # Add(r) /\ frame # Abort(r)
    BY <1>4, <2>4
  <2>9. \A r : frame # Abort(r)
    BY <1>4, <1>10
  <2>10. RunsUnended'
    <3> SUFFICES ASSUME NEW r \in Requests
                 PROVE  /\ SaidOf(r)' => Taken(r)'
                        /\ r \in running' <=> Taken(r)' /\ ~AbortTaken(r)' /\ ~EndSaid(r)'
      BY DEF RunsUnended
    <3>1. /\ SaidOf(r) => Taken(r)
          /\ r \in running <=> Taken(r) /\ ~AbortTaken(r) /\ ~EndSaid(r)
      BY DEF EngineInv, RunsUnended
    <3>2. CASE r = frame.req
      BY <1>7, <2>2, <2>4, <2>6, <2>7, <2>9, <3>1, <3>2
    <3>3. CASE r # frame.req
      BY <1>7, <2>2, <2>4, <2>8, <3>1, <3>3
    <3> QED BY <3>2, <3>3
  <2> QED BY <1>9, <2>3, <2>10 DEF EngineInv
<1>11. CASE frame.type # "add"
  <2>1. running' = running \ aborted /\ \A r : frame # Add(r)
    BY <1>1, <1>4, <1>11
  <2>2. aborted # {} => frame.req \in running /\ aborted = {frame.req} /\ frame = Abort(frame.req)
    BY <1>4
  <2>3. \A r : frame = Abort(r) => r = frame.req /\ frame.type = "abort"
    BY <1>4
  <2>4. /\ EndsLast'
        /\ \A r : SaidOf(r)' => SaidOf(r) \/ r \in aborted
        /\ \A r : EndSaid(r)' <=> EndSaid(r) \/ (answer /\ r \in aborted)
    <3>1. CASE ~answer
      BY <1>1, <3>1 DEF EngineInv, EndsLast, SaidOf, EndSaid
    <3>2. CASE answer
      <4>1. frame.req \in running /\ aborted = {frame.req} /\ frame.req \in Requests
        BY <1>1, <2>2, <3>2
      <4> HIDE DEF aborted
      <4>2. Output(frame.req, 0, "abort") \in AnyOutput
        BY <4>1 DEF Output, AnyOutput
      <4> DEFINE q == <<Output(frame.req, 0, "abort")>>
      <4>3. q \in Seq(AnyOutput) /\ Len(q) = 1 /\ q[1].req = frame.req /\ q[1].fin = "abort" /\ DOMAIN q = 1..1
        BY <4>2 DEF Output
      <4>4. message.outputs = q /\ message \in AnyMessage
        BY <4>3 DEF Message, AnyMessage
      <4> HIDE DEF q, message
      <4>5. \A r : (Says(message, r) <=> r = frame.req) /\ (SaysEnd(message, r) <=> r = frame.req)
        <5>1. DOMAIN message.outputs = 1..1 /\ Len(message.outputs) = 1 /\ message.outputs[1].req = frame.req
              /\ message.outputs[1].fin # "none"
          BY <4>3, <4>4
        <5>2. 1 \in 1..1 /\ \A j \in 1..1 : j = 1
          OBVIOUS
        <5> QED BY <5>1, <5>2 DEF Says, SaysEnd
      <4>6. \A r : EndsLastIn(message, r)
        <5>1. \A j \in 1..1 : \A k \in (j+1)..1 : FALSE
          OBVIOUS
        <5> QED BY <4>3, <4>4, <5>1 DEF EndsLastIn
      <4>7. ~EndSaid(frame.req)
        BY <4>1 DEF EngineInv, RunsUnended
      <4>8. said \in Seq(AnyMessage) /\ EndsLast /\ said' = Append(said, message)
        BY <1>1, <3>2 DEF WireInv, WireTypes, EngineInv
      <4>9. /\ EndsLast'
            /\ \A r : SaidOf(r)' <=> SaidOf(r) \/ Says(message, r)
            /\ \A r : EndSaid(r)' <=> EndSaid(r) \/ SaysEnd(message, r)
        BY <4>4, <4>5, <4>6, <4>7, <4>8, SaidGrows
      <4> QED BY <3>2, <4>1, <4>5, <4>9
    <3> QED BY <3>1, <3>2
  <2>5. \A r : r \in aborted => r = frame.req /\ frame = Abort(r)
    BY <2>2
  <2>6. frame.type = "abort" => frame = Abort(frame.req) /\ (frame.req \in running => frame.req \in aborted)
    BY <1>4
  <2> HIDE DEF aborted
  <2>7. RunsUnended'
    <3> SUFFICES ASSUME NEW r \in Requests
                 PROVE  /\ SaidOf(r)' => Taken(r)'
                        /\ r \in running' <=> Taken(r)' /\ ~AbortTaken(r)' /\ ~EndSaid(r)'
      BY DEF RunsUnended
    <3>1. /\ SaidOf(r) => Taken(r)
          /\ r \in running <=> Taken(r) /\ ~AbortTaken(r) /\ ~EndSaid(r)
      BY DEF EngineInv, RunsUnended
    <3>2. CASE frame = Abort(r)
      <4>1. r \notin running' /\ AbortTaken(r)'
        BY <1>7, <2>1, <2>3, <2>6, <3>2
      <4>2. r \in aborted => r \in running
        BY <2>2, <2>5
      <4> QED BY <1>7, <2>4, <3>1, <4>1, <4>2
    <3>3. CASE frame # Abort(r)
      BY <1>7, <2>1, <2>4, <2>5, <3>1, <3>3
    <3> QED BY <3>2, <3>3
  <2> QED BY <1>9, <2>4, <2>7 DEF EngineInv
<1> QED BY <1>10, <1>11

LEMMA EngineSpeaks ==
  ASSUME WireInv, EngineInv, NEW outputs \in Steps, NEW ok \in BOOLEAN, EngineOutputs(outputs, ok)
  PROVE  EngineInv'
<1> DEFINE message == Message(outputs, ok)
<1>1. /\ said' = Append(said, message) /\ said \in Seq(AnyMessage)
      /\ \A i \in DOMAIN outputs :
           /\ outputs[i].req \in running
           /\ \A j \in 1..(i-1) : outputs[j].req = outputs[i].req => outputs[j].fin = "none"
      /\ running' = running \ {o.req : o \in {o \in Range(outputs) : o.fin # "none"}}
      /\ running \subseteq Requests
      /\ UNCHANGED <<asked, to_engine, taken>>
  BY DEF EngineOutputs, WireInv, WireTypes
<1>2. outputs \in Seq(AnyOutput)
  <2>1. StepOutputs \subseteq AnyOutput
    BY <1>1, TapConstants DEF StepOutputs, Output, AnyOutput
  <2>2. PICK n \in 1..MaxMessage : outputs \in [1..n -> StepOutputs]
    BY DEF Steps
  <2>3. n \in Nat /\ outputs \in [1..n -> AnyOutput]
    BY <2>1, <2>2, TapConstants
  <2> QED BY <2>3
<1>3. message \in AnyMessage /\ message.outputs = outputs /\ DOMAIN outputs = 1..Len(outputs) /\ Len(outputs) \in Nat
  BY <1>2 DEF Message, AnyMessage
<1> HIDE DEF message
<1>4. \A r : /\ Says(message, r) <=> \E j \in 1..Len(outputs) : outputs[j].req = r
             /\ SaysEnd(message, r) <=> \E j \in 1..Len(outputs) : outputs[j].req = r /\ outputs[j].fin # "none"
  BY <1>3 DEF Says, SaysEnd
<1>5. \A r : r \in running' <=> r \in running /\ ~SaysEnd(message, r)
  BY <1>1, <1>3, <1>4 DEF Range
<1>6. \A r : Says(message, r) => r \in running
  BY <1>1, <1>3, <1>4
<1>7. ASSUME NEW r PROVE EndsLastIn(message, r)
  <2> SUFFICES ASSUME NEW j \in 1..Len(outputs), outputs[j].req = r, outputs[j].fin # "none",
                      NEW k \in (j+1)..Len(outputs), outputs[k].req = r
               PROVE  FALSE
    BY <1>3 DEF EndsLastIn
  <2>1. k \in DOMAIN outputs /\ j \in 1..(k-1)
    BY <1>3
  <2> QED BY <1>1, <2>1
<1>8. \A r \in Requests : r \in running => ~EndSaid(r) /\ Taken(r) /\ ~AbortTaken(r)
  BY DEF EngineInv, RunsUnended
<1>9. /\ EndsLast'
      /\ \A r : SaidOf(r)' <=> SaidOf(r) \/ Says(message, r)
      /\ \A r : EndSaid(r)' <=> EndSaid(r) \/ SaysEnd(message, r)
  <2>1. EndsLast
    BY DEF EngineInv
  <2> QED BY <1>1, <1>3, <1>6, <1>7, <1>8, <2>1, SaidGrows
<1>10. \A r : (Taken(r)' <=> Taken(r)) /\ (AbortTaken(r)' <=> AbortTaken(r))
  BY <1>1 DEF Taken, AbortTaken
<1>11. RunsUnended'
  BY <1>1, <1>5, <1>6, <1>8, <1>9, <1>10 DEF EngineInv, RunsUnended
<1>12. AskedOnce'
  BY <1>1 DEF EngineInv, AskedOnce
<1> QED BY <1>9, <1>11, <1>12 DEF EngineInv

LEMMA EngineInit == Init => EngineInv
<1> SUFFICES ASSUME Init PROVE EngineInv
  OBVIOUS
<1>1. asked = << >> /\ said = << >> /\ taken = 0 /\ running = {} /\ Len(<< >>) = 0
  BY DEF Init
<1> QED BY <1>1 DEF EngineInv, AskedOnce, RunsUnended, EndsLast, Taken, SaidOf

LEMMA EngineForwards ==
  ASSUME WireInv, EngineInv, ForwardRequest
  PROVE  EngineInv'
<1>1. UNCHANGED <<asked, said, taken, running>>
  BY DEF ForwardRequest
<1>2. /\ taken \in Nat /\ taken <= Len(to_engine) /\ to_engine \in Seq(Frames) /\ Len(to_engine) \in Nat
  BY DEF WireInv, WireTypes
<1>3. \A k \in 1..taken : to_engine'[k] = to_engine[k]
  <2>1. CASE to_engine' = Append(to_engine, Head(req_rx))
    <3>1. req_rx # << >> /\ req_rx \in Seq(Frames)
      BY DEF ForwardRequest, WireInv, WireTypes
    <3>2. Head(req_rx) \in Frames
      BY <3>1, HeadTailProperties
    <3>3. \A k \in 1..Len(to_engine) : to_engine'[k] = to_engine[k]
      BY <1>2, <2>1, <3>2, AppendProperties
    <3> QED BY <1>2, <3>3
  <2>2. CASE to_engine' = to_engine
    BY <2>2
  <2> QED BY <2>1, <2>2 DEF ForwardRequest
<1>4. \A r : (Taken(r)' <=> Taken(r)) /\ (AbortTaken(r)' <=> AbortTaken(r))
  BY <1>1, <1>3 DEF Taken, AbortTaken
<1>5. \A r : (SaidOf(r)' <=> SaidOf(r)) /\ (EndSaid(r)' <=> EndSaid(r))
  BY <1>1 DEF SaidOf, EndSaid
<1>6. RunsUnended'
  BY <1>1, <1>4, <1>5 DEF EngineInv, RunsUnended
<1>7. AskedOnce' /\ EndsLast'
  BY <1>1 DEF EngineInv, AskedOnce, EndsLast
<1> QED BY <1>6, <1>7 DEF EngineInv

(***************************************************************************)
(* What the tap has made of it                                             *)
(***************************************************************************)

\* Frames forwarded and observed.
Seen == IF phase = "observe_request" THEN Len(to_engine) - 1 ELSE Len(to_engine)
AddSeen(r) == \E k \in 1..Seen : to_engine[k] = Add(r)
AbortSeen(r) == \E k \in 1..Seen : to_engine[k] = Abort(r)
EndHandled(r) == \E i \in 1..Handled : SaysEnd(to_frontend[i], r)
ToldHandled(r) == Told(r, SubSeq(to_frontend, 1, Handled))

\* The copy is of the frame forwarded last, and no output was forwarded whose request is
\* still to be observed.
CopyInv ==
  /\ phase = "observe_request" => to_engine # << >> /\ copy = to_engine[Len(to_engine)]
  /\ phase = "observe_output" => to_frontend # << >> /\ copy = to_frontend[Len(to_frontend)]
  /\ \A r \in Requests : \A i \in 1..Len(to_frontend) : Says(to_frontend[i], r) => AddSeen(r)

\* The table holds the requests seen and neither aborted nor ended, each with what was said of it.
RowOK(r) ==
  /\ r \in DOMAIN requests <=> AddSeen(r) /\ ~AbortSeen(r) /\ ~EndHandled(r)
  /\ r \in DOMAIN requests => requests[r] = Known(ToldHandled(r))

RecordOK(r) ==
  IF Stopped(r) THEN OnlyRecord(trace, r, ExactRecord(r, ToldHandled(r))) ELSE NoRecord(trace, r)

Aborted(r) == Abort(r) \in Range(to_engine)

ObservedInv ==
  /\ requests \in Tables /\ trace \in Seq(TraceRecords)
  /\ CopyInv
  /\ \A r \in Requests \ Undecoded : RowOK(r) /\ (~Aborted(r) => RecordOK(r))

LEMMA ObservedInit == Init => ObservedInv
<1> SUFFICES ASSUME Init PROVE ObservedInv
  OBVIOUS
<1>1. /\ requests = << >> /\ trace = << >> /\ phase = "hello" /\ to_engine = << >> /\ to_frontend = << >>
      /\ DOMAIN << >> = {} /\ Len(<< >>) = 0
  BY DEF Init, Untracked
<1>2. requests \in Tables
  <2>1. << >> \in [{} -> States] /\ {} \in SUBSET Requests
    OBVIOUS
  <2> QED BY <1>1, <2>1 DEF Tables
<1>3. trace \in Seq(TraceRecords)
  BY <1>1
<1>4. \A r : ~AddSeen(r) /\ ~Stopped(r) /\ NoRecord(trace, r)
  BY <1>1 DEF AddSeen, Seen, Stopped, Handled, NoRecord
<1> QED BY <1>1, <1>2, <1>3, <1>4 DEF ObservedInv, CopyInv, RowOK, RecordOK

\* Undecodable messages are only ever added.
LEMMA UndecodedGrows ==
  ASSUME WireInv, WireInv', said' = said \/ (\E m \in AnyMessage : said' = Append(said, m))
  PROVE  Undecoded \subseteq Undecoded'
<1>1. /\ DOMAIN said = 1..Len(said) /\ DOMAIN said' = 1..Len(said') /\ said \in Seq(AnyMessage)
      /\ Len(said) \in Nat
  BY DEF WireInv, WireTypes
<1>2. CASE said' = said
  BY <1>2 DEF Undecoded
<1>3. CASE \E m \in AnyMessage : said' = Append(said, m)
  <2>1. PICK m \in AnyMessage : said' = Append(said, m)
    BY <1>3
  <2>2. Len(said') = Len(said) + 1 /\ \A i \in 1..Len(said) : said'[i] = said[i]
    <3>1. said \in Seq(AnyMessage)
      BY <1>1
    <3> QED BY <2>1, <3>1, AppendProperties
  <2>3. 1..Len(said) \subseteq 1..Len(said')
    BY <1>1, <2>2
  <2> QED BY <1>1, <2>2, <2>3 DEF Undecoded
<1> QED BY <1>2, <1>3

\* A step that neither forwards nor observes.
LEMMA ObservedStill ==
  ASSUME ObservedInv, Undecoded \subseteq Undecoded',
         UNCHANGED <<to_engine, to_frontend, requests, trace>>,
         UNCHANGED <<phase, copy>> \/ (phase \notin {"observe_request", "observe_output"}
                                       /\ phase' \notin {"observe_request", "observe_output"})
  PROVE  ObservedInv'
<1>1. Seen' = Seen /\ Handled' = Handled
  BY DEF Seen, Handled
<1>2. \A r : /\ AddSeen(r)' <=> AddSeen(r)
             /\ AbortSeen(r)' <=> AbortSeen(r)
             /\ EndHandled(r)' <=> EndHandled(r)
             /\ ToldHandled(r)' = ToldHandled(r)
             /\ Stopped(r)' <=> Stopped(r)
             /\ Aborted(r)' <=> Aborted(r)
  BY <1>1 DEF AddSeen, AbortSeen, EndHandled, ToldHandled, Stopped, Aborted
<1>3. CopyInv'
  BY <1>2 DEF ObservedInv, CopyInv
<1>4. \A r : (RowOK(r)' <=> RowOK(r)) /\ (RecordOK(r)' <=> RecordOK(r))
  BY <1>2 DEF RowOK, RecordOK
<1> QED BY <1>2, <1>3, <1>4 DEF ObservedInv

LEMMA ObservedForwardRequest ==
  ASSUME WireInv, ObservedInv, ForwardRequest
  PROVE  ObservedInv'
<1>1. /\ phase = "proxy" /\ UNCHANGED <<said, to_frontend, requests, trace>> /\ req_rx # << >>
  BY DEF ForwardRequest
<1>2. CASE /\ to_engine' = Append(to_engine, Head(req_rx)) /\ copy' = Head(req_rx)
           /\ phase' = "observe_request"
  <2> DEFINE n == Len(to_engine)
  <2>1. Head(req_rx) \in Frames /\ to_engine \in Seq(Frames) /\ n \in Nat
    BY <1>1, HeadTailProperties DEF WireInv, WireTypes
  <2>2. /\ Len(to_engine') = n + 1 /\ to_engine'[n+1] = Head(req_rx) /\ to_engine' # << >>
        /\ \A k \in 1..n : to_engine'[k] = to_engine[k]
    BY <1>2, <2>1, AppendProperties, EmptySeq
  <2>3. Seen = n /\ Seen' = n /\ Handled' = Handled /\ (n + 1) - 1 = n
    BY <1>1, <1>2, <2>1, <2>2 DEF Seen, Handled
  <2>4. \A r : /\ AddSeen(r)' <=> AddSeen(r)
               /\ AbortSeen(r)' <=> AbortSeen(r)
    BY <2>2, <2>3 DEF AddSeen, AbortSeen
  <2>5. \A r : /\ EndHandled(r)' <=> EndHandled(r)
               /\ ToldHandled(r)' = ToldHandled(r)
               /\ Stopped(r)' <=> Stopped(r)
    BY <1>1, <2>3 DEF EndHandled, ToldHandled, Stopped
  <2>6. \A r : Aborted(r) => Aborted(r)'
    <3>1. DOMAIN to_engine = 1..n /\ DOMAIN to_engine' = 1..(n+1)
      BY <1>2, <2>1
    <3>2. 1..n \subseteq 1..(n+1)
      BY <2>1
    <3> QED BY <2>2, <3>1, <3>2 DEF Aborted, Range
  <2>7. Undecoded' = Undecoded
    BY <1>1 DEF Undecoded
  <2>8. CopyInv'
    BY <1>1, <1>2, <2>2, <2>4 DEF ObservedInv, CopyInv
  <2>9. \A r : (RowOK(r)' <=> RowOK(r)) /\ (RecordOK(r)' <=> RecordOK(r))
    BY <1>1, <2>4, <2>5 DEF RowOK, RecordOK
  <2> QED BY <1>1, <2>6, <2>7, <2>8, <2>9 DEF ObservedInv
<1>3. CASE UNCHANGED <<to_engine, req_rx, copy>> /\ Fail
  <2>1. phase' = "finish_trace" /\ Undecoded' = Undecoded
    BY <1>1, <1>3 DEF Fail, Undecoded
  <2> QED BY <1>1, <1>3, <2>1, ObservedStill
<1> QED BY <1>2, <1>3 DEF ForwardRequest, Goto

LEMMA ObservedForwardOutput ==
  ASSUME WireInv, EngineInv, ObservedInv, ForwardOutput
  PROVE  ObservedInv'
<1>1. /\ phase = "proxy" /\ UNCHANGED <<said, to_engine, requests, trace>> /\ out_rx # << >>
  BY DEF ForwardOutput
<1>2. CASE /\ to_frontend' = Append(to_frontend, Head(out_rx)) /\ copy' = Head(out_rx)
           /\ phase' = "observe_output"
  <2> DEFINE n == Len(to_frontend)
  <2>1. /\ Head(out_rx) \in AnyMessage /\ to_frontend \in Seq(AnyMessage) /\ n \in Nat
        /\ out_rx \in Seq(AnyMessage)
    BY <1>1, HeadTailProperties DEF WireInv, WireTypes
  <2>2. /\ Len(to_frontend') = n + 1 /\ to_frontend'[n+1] = Head(out_rx) /\ to_frontend' # << >>
        /\ \A k \in 1..n : to_frontend'[k] = to_frontend[k]
    BY <1>2, <2>1, AppendProperties, EmptySeq
  <2>3. Handled = n /\ Handled' = n /\ Seen' = Seen /\ (n + 1) - 1 = n
    BY <1>1, <1>2, <2>1, <2>2 DEF Seen, Handled
  <2>4. \A r : /\ AddSeen(r)' <=> AddSeen(r)
               /\ AbortSeen(r)' <=> AbortSeen(r)
               /\ Aborted(r)' <=> Aborted(r)
    BY <1>1, <2>3 DEF AddSeen, AbortSeen, Aborted
  <2>5. SubSeq(to_frontend', 1, n) = SubSeq(to_frontend, 1, n)
    BY <1>2, <2>1
  <2>6. \A r : /\ EndHandled(r)' <=> EndHandled(r)
               /\ ToldHandled(r)' = ToldHandled(r)
               /\ Stopped(r)' <=> Stopped(r)
    <3>1. \A r : ToldHandled(r)' = ToldHandled(r)
      BY <2>3, <2>5 DEF ToldHandled
    <3>2. \A i \in 1..n : to_frontend'[i] = to_frontend[i]
      BY <2>2
    <3>3. \A r : EndHandled(r)' <=> EndHandled(r)
      BY <2>3, <3>2 DEF EndHandled
    <3>4. \A r : Stopped(r)' <=> Stopped(r)
      BY <2>3, <3>2 DEF Stopped
    <3> QED BY <3>1, <3>3, <3>4
  <2>7. Undecoded' = Undecoded
    BY <1>1 DEF Undecoded
  <2>8. ASSUME NEW r \in Requests, Says(Head(out_rx), r) PROVE AddSeen(r)
    <3>1. said[n+1] = Head(out_rx) /\ n + 1 \in 1..Len(said)
      <4>1. said = to_frontend \o out_rx
        BY DEF WireInv, Verbatim
      <4> QED BY <1>1, <2>1, <4>1
    <3>2. SaidOf(r)
      BY <2>8, <3>1 DEF SaidOf
    <3>3. Taken(r)
      BY <3>2 DEF EngineInv, RunsUnended
    <3>4. Seen = Len(to_engine) /\ taken <= Len(to_engine) /\ taken \in Nat /\ Len(to_engine) \in Nat
      BY <1>1 DEF Seen, WireInv, WireTypes
    <3>5. 1..taken \subseteq 1..Seen
      BY <3>4
    <3> QED BY <3>3, <3>5 DEF Taken, AddSeen
  <2>9. CopyInv'
    <3>1. \A i \in 1..(n+1) : i \in 1..n \/ i = n + 1
      BY <2>1
    <3>2. \A r \in Requests : \A i \in 1..(n+1) : Says(to_frontend'[i], r) => AddSeen(r)
      BY <2>2, <2>8, <3>1 DEF ObservedInv, CopyInv
    <3> QED BY <1>1, <1>2, <2>2, <2>4, <3>2 DEF CopyInv
  <2>10. \A r : (RowOK(r)' <=> RowOK(r)) /\ (RecordOK(r)' <=> RecordOK(r))
    BY <1>1, <2>4, <2>6 DEF RowOK, RecordOK
  <2> QED BY <1>1, <2>4, <2>7, <2>9, <2>10 DEF ObservedInv
<1>3. CASE UNCHANGED <<to_frontend, out_rx, copy>> /\ Fail
  <2>1. phase' = "finish_trace" /\ Undecoded' = Undecoded
    BY <1>1, <1>3 DEF Fail, Undecoded
  <2> QED BY <1>1, <1>3, <2>1, ObservedStill
<1> QED BY <1>2, <1>3 DEF ForwardOutput, Goto

LEMMA ToldSilent ==
  ASSUME NEW r, NEW q \in Seq(AnyMessage), \A i \in 1..Len(q) : ~Says(q[i], r)
  PROVE  Told(r, q) = Unheard
<1>1. << >> \in Seq(AnyMessage) /\ << >> \o q = q
  OBVIOUS
<1>2. Told(r, << >> \o q) = Told(r, << >>)
  BY <1>1, ToldPrefix
<1> QED BY <1>1, <1>2, ToldNothing

LEMMA ObservedRequest ==
  ASSUME WireInv, EngineInv, ObservedInv, ObserveRequestCopy
  PROVE  ObservedInv'
<1> DEFINE n == Len(to_engine)
<1>1. /\ phase = "observe_request" /\ phase' = "proxy"
      /\ UNCHANGED <<said, to_engine, to_frontend, trace>>
      /\ requests' = ObserveRequest(copy, requests)
  BY DEF ObserveRequestCopy, wires, Goto
<1>2. copy = to_engine[n] /\ to_engine # << >> /\ to_engine \in Seq(Frames)
  BY <1>1 DEF ObservedInv, CopyInv, WireInv, WireTypes
<1>3. n \in Nat \ {0} /\ n \in 1..n /\ copy \in Frames
  BY <1>2, EmptySeq
<1>4. Seen = n - 1 /\ Seen' = n /\ Handled' = Handled /\ Handled = Len(to_frontend)
  BY <1>1 DEF Seen, Handled
<1>5. \A r : /\ AddSeen(r)' <=> AddSeen(r) \/ copy = Add(r)
             /\ AbortSeen(r)' <=> AbortSeen(r) \/ copy = Abort(r)
  <2>1. (\A k \in 1..n : k \in 1..(n-1) \/ k = n) /\ 1..(n-1) \subseteq 1..n
    BY <1>3
  <2> QED BY <1>1, <1>2, <1>3, <1>4, <2>1 DEF AddSeen, AbortSeen
<1>6. \A r : /\ EndHandled(r)' <=> EndHandled(r)
             /\ ToldHandled(r)' = ToldHandled(r)
             /\ Stopped(r)' <=> Stopped(r)
             /\ Aborted(r)' <=> Aborted(r)
             /\ RecordOK(r)' <=> RecordOK(r)
  BY <1>1, <1>4 DEF EndHandled, ToldHandled, Stopped, Aborted, RecordOK
<1>7. Undecoded' = Undecoded
  BY <1>1 DEF Undecoded
<1>8. CopyInv'
  BY <1>1, <1>5 DEF ObservedInv, CopyInv
<1>9. /\ copy.type \in {"add", "abort", "other"}
      /\ copy.type = "add" => copy.req \in Requests /\ copy = Add(copy.req)
      /\ copy.type = "abort" => copy.req \in Requests /\ copy = Abort(copy.req)
      /\ \A r : Add(r).type = "add" /\ Add(r).req = r /\ Abort(r).type = "abort" /\ Abort(r).req = r
  BY <1>3, FrameKinds
<1>10. requests \in Tables /\ NewState \in States
  BY DEF ObservedInv, NewState, States
<1>11. ASSUME NEW r, copy = Add(r), r \in Requests
       PROVE  ~AddSeen(r) /\ ~AbortSeen(r)
  <2>1. /\ n <= Len(asked) /\ Len(asked) \in Nat /\ \A k \in 1..n : to_engine[k] = asked[k]
    BY ForwardedFirst
  <2>2. 1..n \subseteq 1..Len(asked)
    BY <1>3, <2>1
  <2>3. \A i, j \in 1..n : to_engine[i] = to_engine[j] => i = j
    BY <2>1, <2>2 DEF EngineInv, AskedOnce
  <2>4. \A k \in 1..(n-1) : k \in 1..n /\ k # n
    BY <1>3
  <2>5. ~AddSeen(r)
    BY <1>2, <1>3, <1>4, <1>11, <2>3, <2>4 DEF AddSeen
  <2>6. ASSUME NEW k \in 1..(n-1), to_engine[k] = Abort(r) PROVE FALSE
    <3>1. k \in 1..Len(asked) /\ asked[k].type = "abort" /\ asked[k].req = r
      BY <1>9, <2>1, <2>2, <2>4, <2>6
    <3>2. PICK j \in 1..(k-1) : asked[j] = Add(r)
      BY <3>1 DEF EngineInv, AskedOnce
    <3>3. j \in 1..(n-1)
      BY <1>3
    <3>4. to_engine[j] = Add(r)
      BY <2>1, <2>4, <3>2, <3>3
    <3> QED BY <1>2, <1>3, <1>11, <2>3, <2>4, <3>3, <3>4
  <2> QED BY <1>4, <2>5, <2>6 DEF AbortSeen
<1>12. ASSUME NEW r \in Requests, ~AddSeen(r)
       PROVE  ~EndHandled(r) /\ ToldHandled(r) = Unheard
  <2>1. \A i \in 1..Len(to_frontend) : ~Says(to_frontend[i], r)
    BY <1>12 DEF ObservedInv, CopyInv
  <2>2. to_frontend \in Seq(AnyMessage) /\ Len(to_frontend) \in Nat
    BY DEF WireInv, WireTypes
  <2>3. \A i \in 1..Len(to_frontend) : SaysEnd(to_frontend[i], r) => Says(to_frontend[i], r)
    BY <2>2 DEF SaysEnd, Says, AnyMessage
  <2>4. SubSeq(to_frontend, 1, Handled) = to_frontend
    BY <1>4, <2>2
  <2> QED BY <1>4, <2>1, <2>2, <2>3, <2>4, ToldSilent DEF EndHandled, ToldHandled
<1>13. requests' \in Tables
  <2>1. CASE copy.type = "add"
    BY <1>1, <1>9, <1>10, <2>1, TrackFacts DEF ObserveRequest
  <2>2. CASE copy.type = "abort"
    BY <1>1, <1>9, <1>10, <2>2, TrackFacts DEF ObserveRequest
  <2>3. CASE copy.type = "other"
    BY <1>1, <1>10, <2>3 DEF ObserveRequest
  <2> QED BY <1>9, <2>1, <2>2, <2>3
<1>14. ASSUME NEW r \in Requests, RowOK(r) PROVE RowOK(r)'
  <2>0. /\ r \in DOMAIN requests <=> AddSeen(r) /\ ~AbortSeen(r) /\ ~EndHandled(r)
        /\ r \in DOMAIN requests => requests[r] = Known(ToldHandled(r))
    BY <1>14 DEF RowOK
  <2>1. CASE copy = Add(r)
    <3>1. requests' = Track(requests, r, NewState)
      BY <1>1, <1>9, <2>1 DEF ObserveRequest
    <3>2. r \in DOMAIN requests' /\ requests'[r] = NewState
      BY <3>1 DEF Track
    <3>3. copy # Abort(r)
      BY <1>9, <2>1
    <3>4. ~AbortSeen(r) /\ ~EndHandled(r) /\ ToldHandled(r) = Unheard
      BY <1>11, <1>12, <2>1
    <3>5. NewState = Known(Unheard)
      <4>1. (<< >> = << >>) = TRUE
        OBVIOUS
      <4> QED BY <4>1 DEF NewState, Known, Unheard, Gaps
    <3> QED BY <1>5, <1>6, <2>1, <3>2, <3>3, <3>4, <3>5 DEF RowOK
  <2>2. CASE copy = Abort(r)
    <3>1. requests' = Untrack(requests, r)
      BY <1>1, <1>9, <2>2 DEF ObserveRequest
    <3>2. r \notin DOMAIN requests'
      BY <3>1 DEF Untrack
    <3> QED BY <1>5, <2>2, <3>2 DEF RowOK
  <2>3. CASE copy # Add(r) /\ copy # Abort(r)
    <3>1. (r \in DOMAIN requests' <=> r \in DOMAIN requests) /\ (r \in DOMAIN requests => requests'[r] = requests[r])
      <4>1. CASE copy.type = "add"
        <5>1. requests' = Track(requests, copy.req, NewState) /\ copy.req # r
          BY <1>1, <1>9, <2>3, <4>1 DEF ObserveRequest
        <5> QED BY <5>1 DEF Track
      <4>2. CASE copy.type = "abort"
        <5>1. requests' = Untrack(requests, copy.req) /\ copy.req # r
          BY <1>1, <1>9, <2>3, <4>2 DEF ObserveRequest
        <5> QED BY <5>1 DEF Untrack
      <4>3. CASE copy.type = "other"
        BY <1>1, <4>3 DEF ObserveRequest
      <4> QED BY <1>9, <4>1, <4>2, <4>3
    <3> QED BY <1>5, <1>6, <2>0, <2>3, <3>1 DEF RowOK
  <2> QED BY <2>1, <2>2, <2>3
<1> QED BY <1>1, <1>6, <1>7, <1>8, <1>13, <1>14 DEF ObservedInv

\* A prefix that takes one element more; a sequence cut in two.
LEMMA PrefixGrows ==
  ASSUME NEW S, NEW s \in Seq(S), NEW n \in Nat, n < Len(s)
  PROVE  /\ SubSeq(s, 1, n) \in Seq(S)
         /\ SubSeq(s, 1, n + 1) = Append(SubSeq(s, 1, n), s[n+1])
<1> DEFINE p == SubSeq(s, 1, n)
           a == SubSeq(s, 1, n + 1)
<1>0. Len(s) \in Nat /\ \A i \in 1..Len(s) : s[i] \in S
  OBVIOUS
<1>1. p \in Seq(S) /\ Len(p) = n /\ \A i \in 1..n : p[i] = s[i]
  BY <1>0, SubSeqProperties
<1>2. a \in Seq(S) /\ Len(a) = n + 1 /\ \A i \in 1..(n+1) : a[i] = s[i]
  BY <1>0, SubSeqProperties
<1>3. s[n+1] \in S
  BY <1>0
<1> HIDE DEF p, a
<1>4. /\ Append(p, s[n+1]) \in Seq(S) /\ Len(Append(p, s[n+1])) = n + 1
      /\ \A i \in 1..n : Append(p, s[n+1])[i] = p[i]
      /\ Append(p, s[n+1])[n+1] = s[n+1]
  BY <1>1, <1>3, AppendProperties
<1>5. \A i \in 1..(n+1) : a[i] = Append(p, s[n+1])[i]
  BY <1>1, <1>2, <1>4
<1>6. a = Append(p, s[n+1])
  BY <1>2, <1>4, <1>5, SeqEqual
<1> QED BY <1>1, <1>6 DEF p, a

LEMMA CutInTwo ==
  ASSUME NEW S, NEW s \in Seq(S), NEW n \in Nat, n <= Len(s)
  PROVE  /\ SubSeq(s, 1, n) \in Seq(S) /\ SubSeq(s, n + 1, Len(s)) \in Seq(S)
         /\ Len(SubSeq(s, n + 1, Len(s))) = Len(s) - n
         /\ \A k \in 1..(Len(s) - n) : SubSeq(s, n + 1, Len(s))[k] = s[n+k]
         /\ s = SubSeq(s, 1, n) \o SubSeq(s, n + 1, Len(s))
<1> DEFINE p == SubSeq(s, 1, n)
           q == SubSeq(s, n + 1, Len(s))
<1>0. Len(s) \in Nat /\ \A i \in 1..Len(s) : s[i] \in S
  OBVIOUS
<1>1. p \in Seq(S) /\ Len(p) = n /\ \A i \in 1..n : p[i] = s[i]
  BY <1>0, SubSeqProperties
<1>2. q \in Seq(S) /\ Len(q) = Len(s) - n /\ \A k \in 1..(Len(s) - n) : q[k] = s[n+k]
  BY <1>0, SubSeqProperties
<1> HIDE DEF p, q
<1>3. p \o q \in Seq(S) /\ Len(p \o q) = Len(s)
  BY <1>0, <1>1, <1>2, ConcatProperties
<1>4. \A i \in 1..Len(s) : (p \o q)[i] = s[i]
  <2> SUFFICES ASSUME NEW i \in 1..Len(s) PROVE (p \o q)[i] = s[i]
    OBVIOUS
  <2>1. (p \o q)[i] = IF i <= Len(p) THEN p[i] ELSE q[i - Len(p)]
    BY <1>0, <1>1, <1>2, ConcatProperties
  <2>2. CASE i <= n
    BY <1>1, <2>1, <2>2
  <2>3. CASE ~(i <= n)
    <3>1. i - n \in 1..(Len(s) - n) /\ n + (i - n) = i
      BY <1>0, <2>3
    <3> QED BY <1>1, <1>2, <2>1, <2>3, <3>1
  <2> QED BY <2>2, <2>3
<1>5. s = p \o q
  BY <1>3, <1>4, SeqEqual
<1> QED BY <1>1, <1>2, <1>5 DEF p, q

LEMMA ObservedOutput ==
  ASSUME WireInv, EngineInv, ObservedInv, ObserveOutputCopy
  PROVE  ObservedInv'
<1> DEFINE h == Len(to_frontend) - 1
           m == to_frontend[h + 1]
           acc == [requests |-> requests, trace |-> trace]
           new == IF m.ok THEN FoldLeft(ObserveOne, acc, m.outputs) ELSE acc
<1>1. /\ phase = "observe_output" /\ phase' = "proxy"
      /\ UNCHANGED <<said, to_engine, to_frontend>>
      /\ requests' = Observed(copy).requests /\ trace' = Observed(copy).trace
  BY DEF ObserveOutputCopy, wires, Goto
<1>2. /\ to_frontend # << >> /\ copy = to_frontend[Len(to_frontend)] /\ to_frontend \in Seq(AnyMessage)
      /\ Len(to_frontend) \in Nat
  BY <1>1 DEF ObservedInv, CopyInv, WireInv, WireTypes
<1>3. /\ h \in Nat /\ h + 1 = Len(to_frontend) /\ h + 1 \in 1..Len(to_frontend)
      /\ (\A i \in 1..(h+1) : i \in 1..h \/ i = h + 1) /\ 1..h \subseteq 1..(h+1)
  BY <1>2, EmptySeq
<1>4. /\ m = copy /\ m \in AnyMessage /\ m = said[h+1] /\ h + 1 \in 1..Len(said) /\ Len(said) \in Nat
      /\ h + 1 <= Len(said) /\ \A i \in 1..h : to_frontend[i] = said[i]
  <2>1. m = copy /\ m \in AnyMessage
    <3> HIDE DEF h
    <3> QED BY <1>2, <1>3
  <2>2. m = said[h+1] /\ \A i \in 1..h : to_frontend[i] = said[i]
    BY <1>3, ForwardedFirst
  <2>3. h + 1 <= Len(said) /\ Len(said) \in Nat
    BY <1>3, ForwardedFirst
  <2> HIDE DEF m, h
  <2> QED BY <1>3, <2>1, <2>2, <2>3
<1>5. acc \in Accounts /\ requests' = new.requests /\ trace' = new.trace
  BY <1>1, <1>4 DEF Observed, ObservedInv, Accounts
<1>6. Handled = h /\ Handled' = h + 1 /\ Seen' = Seen
  BY <1>1, <1>3 DEF Handled, Seen
<1>7. SubSeq(to_frontend, 1, h + 1) = Append(SubSeq(to_frontend, 1, h), m) /\ SubSeq(to_frontend, 1, h) \in Seq(AnyMessage)
  <2>1. h < Len(to_frontend)
    BY <1>2
  <2> HIDE DEF h
  <2> QED BY <1>2, <1>3, <2>1, PrefixGrows
<1> HIDE DEF m, h
<1>8. \A r : /\ AddSeen(r)' <=> AddSeen(r)
             /\ AbortSeen(r)' <=> AbortSeen(r)
             /\ Aborted(r)' <=> Aborted(r)
  BY <1>1, <1>6 DEF AddSeen, AbortSeen, Aborted
<1>9. \A r : /\ EndHandled(r)' <=> EndHandled(r) \/ SaysEnd(m, r)
             /\ Stopped(r)' <=> Stopped(r) \/ SaysStop(m, r)
  <2>1. \A i \in 1..(h+1) : DOMAIN to_frontend[i].outputs = 1..Len(to_frontend[i].outputs)
    BY <1>2, <1>3 DEF AnyMessage
  <2>2. \A r : EndHandled(r)' <=> EndHandled(r) \/ SaysEnd(m, r)
    BY <1>1, <1>3, <1>6 DEF EndHandled, m
  <2>3. \A r : Stopped(r) <=> \E i \in 1..h : SaysStop(to_frontend[i], r)
    BY <1>3, <1>6, <2>1 DEF Stopped, SaysStop
  <2>4. \A r : Stopped(r)' <=> \E i \in 1..(h+1) : SaysStop(to_frontend[i], r)
    BY <1>1, <1>3, <1>6, <2>1 DEF Stopped, SaysStop
  <2>5. \A r : Stopped(r)' <=> Stopped(r) \/ SaysStop(m, r)
    BY <1>3, <2>3, <2>4 DEF m
  <2> QED BY <2>2, <2>5
<1>10. \A r : ToldHandled(r) \in Tolds /\ ToldHandled(r)' = HearMessage(r, ToldHandled(r), m)
  <2>1. \A r : ToldHandled(r) = Told(r, SubSeq(to_frontend, 1, h))
    BY <1>6 DEF ToldHandled
  <2>2. \A r : ToldHandled(r)' = Told(r, Append(SubSeq(to_frontend, 1, h), m))
    <3>1. to_frontend' = to_frontend
      BY <1>1
    <3> QED BY <1>6, <1>7, <3>1 DEF ToldHandled
  <2>3. m \in AnyMessage
    BY <1>4
  <2> QED BY <1>7, <2>1, <2>2, <2>3, ToldAppend
<1>11. Undecoded' = Undecoded
  BY <1>1 DEF Undecoded
<1>12. \A r : SaysEnd(m, r) \/ SaysStop(m, r) => Says(m, r)
  BY <1>4 DEF SaysEnd, SaysStop, Says, AnyMessage
<1>13. \A r : Stopped(r) => EndHandled(r)
  <2>1. \A i \in 1..h : DOMAIN to_frontend[i].outputs = 1..Len(to_frontend[i].outputs)
    BY <1>2, <1>3 DEF AnyMessage
  <2> QED BY <1>6, <2>1 DEF Stopped, EndHandled, SaysEnd
<1>14. CopyInv'
  BY <1>1, <1>8 DEF ObservedInv, CopyInv
<1>15. new \in Accounts
  <2>1. CASE m.ok
    <3>1. m.outputs \in Seq(AnyOutput)
      BY <1>4 DEF AnyMessage
    <3>2. PICK f : Iterates(f, Accounts, acc, m.outputs, ObserveStep) /\ FoldLeft(ObserveOne, acc, m.outputs) = f[Len(m.outputs)]
      BY <1>5, <3>1, ObservedIs
    <3>3. Len(m.outputs) \in 0..Len(m.outputs)
      BY <3>1
    <3>4. FoldLeft(ObserveOne, acc, m.outputs) \in Accounts
      BY <3>2, <3>3 DEF Iterates
    <3> QED BY <2>1, <3>4
  <2>2. CASE ~m.ok
    BY <1>5, <2>2
  <2> QED BY <2>1, <2>2
<1>16. requests' \in Tables /\ trace' \in Seq(TraceRecords)
  BY <1>5, <1>15 DEF Accounts
<1>17. ASSUME NEW r \in Requests \ Undecoded, RowOK(r)
       PROVE  /\ r \in DOMAIN new.requests <=> r \in DOMAIN requests /\ ~SaysEnd(m, r)
              /\ r \in DOMAIN new.requests => new.requests[r] = Known(ToldHandled(r)')
              /\ r \in DOMAIN requests /\ NoRecord(trace, r) =>
                   IF SaysStop(m, r) THEN OnlyRecord(new.trace, r, ExactRecord(r, ToldHandled(r)'))
                   ELSE NoRecord(new.trace, r)
              /\ ~Says(m, r) => /\ NoRecord(trace, r) => NoRecord(new.trace, r)
                                /\ \A x : OnlyRecord(trace, r, x) => OnlyRecord(new.trace, r, x)
                                /\ ToldHandled(r)' = ToldHandled(r)
  <2>1. acc.requests = requests /\ acc.trace = trace
    OBVIOUS
  <2>2. r \in DOMAIN requests => requests[r] = Known(ToldHandled(r))
    BY <1>17 DEF RowOK
  <2>3. ~Says(m, r) => ToldHandled(r)' = ToldHandled(r)
    BY <1>4, <1>10, HearMessageSilent
  <2> HIDE DEF acc
  <2>4. CASE m.ok
    <3>1. EndsLastIn(m, r)
      BY <1>4 DEF EngineInv, EndsLast
    <3>2. LET heard == HearMessage(r, ToldHandled(r), m)
              then == FoldLeft(ObserveOne, acc, m.outputs)
          IN  /\ r \in DOMAIN then.requests <=> r \in DOMAIN acc.requests /\ ~SaysEnd(m, r)
              /\ r \in DOMAIN then.requests => then.requests[r] = Known(heard)
              /\ r \in DOMAIN acc.requests /\ NoRecord(acc.trace, r) =>
                   IF SaysStop(m, r) THEN OnlyRecord(then.trace, r, ExactRecord(r, heard))
                   ELSE NoRecord(then.trace, r)
              /\ ~Says(m, r) => /\ NoRecord(acc.trace, r) => NoRecord(then.trace, r)
                                /\ \A x : OnlyRecord(acc.trace, r, x) => OnlyRecord(then.trace, r, x)
      <4>1. acc \in Accounts /\ m \in AnyMessage /\ r \in Requests /\ ToldHandled(r) \in Tolds
        BY <1>4, <1>5, <1>10
      <4>2. r \in DOMAIN acc.requests => acc.requests[r] = Known(ToldHandled(r))
        BY <2>1, <2>2
      <4> QED BY <3>1, <4>1, <4>2, ObservedOf, SMTT(30)
    <3>3. new = FoldLeft(ObserveOne, acc, m.outputs)
      BY <2>4
    <3> HIDE DEF new
    <3> QED BY <1>10, <2>1, <2>3, <3>2, <3>3
  <2>5. CASE ~m.ok
    <3>1. ~Says(m, r)
      <4>1. DOMAIN said = 1..Len(said)
        BY DEF WireInv, WireTypes
      <4> QED BY <1>4, <2>5, <4>1 DEF Undecoded
    <3>2. new = acc /\ ~SaysEnd(m, r) /\ ~SaysStop(m, r)
      BY <1>12, <2>5, <3>1
    <3> HIDE DEF new
    <3> QED BY <2>1, <2>2, <2>3, <3>1, <3>2
  <2> QED BY <2>4, <2>5
<1> HIDE DEF new, acc
<1>18. ASSUME NEW r \in Requests \ Undecoded, RowOK(r), ~Aborted(r) => RecordOK(r)
       PROVE  RowOK(r)' /\ (~Aborted(r)' => RecordOK(r)')
  <2>1. r \in DOMAIN requests <=> AddSeen(r) /\ ~AbortSeen(r) /\ ~EndHandled(r)
    BY <1>18 DEF RowOK
  <2>2. RowOK(r)'
    BY <1>5, <1>8, <1>9, <1>17, <1>18, <2>1 DEF RowOK
  <2>3. ASSUME ~Aborted(r) PROVE RecordOK(r)'
    <3>1. IF Stopped(r) THEN OnlyRecord(trace, r, ExactRecord(r, ToldHandled(r))) ELSE NoRecord(trace, r)
      BY <1>18, <2>3 DEF RecordOK
    <3>2. CASE r \in DOMAIN requests
      <4>1. ~Stopped(r) /\ NoRecord(trace, r)
        BY <1>13, <2>1, <3>1, <3>2
      <4>2. IF SaysStop(m, r) THEN OnlyRecord(trace', r, ExactRecord(r, ToldHandled(r)'))
            ELSE NoRecord(trace', r)
        BY <1>5, <1>17, <1>18, <3>2, <4>1
      <4>3. Stopped(r)' <=> SaysStop(m, r)
        BY <1>9, <4>1
      <4> QED BY <4>2, <4>3 DEF RecordOK
    <3>3. CASE r \notin DOMAIN requests
      <4>1. ~AbortSeen(r)
        <5>1. /\ Seen \in Int /\ Seen <= Len(to_engine) /\ Len(to_engine) \in Nat /\ DOMAIN to_engine = 1..Len(to_engine)
          BY DEF Seen, WireInv, WireTypes
        <5>2. 1..Seen \subseteq DOMAIN to_engine
          BY <5>1
        <5> QED BY <2>3, <5>2 DEF AbortSeen, Aborted, Range
      <4>2. ~AddSeen(r) \/ EndHandled(r)
        BY <2>1, <3>3, <4>1
      <4>3. ~Says(m, r)
        <5>1. CASE ~AddSeen(r)
          BY <1>3, <5>1 DEF ObservedInv, CopyInv, m
        <5>2. CASE EndHandled(r)
          <6>1. PICK i \in 1..h : SaysEnd(said[i], r)
            BY <1>4, <1>6, <5>2 DEF EndHandled
          <6>2. i \in 1..Len(said) /\ h + 1 \in (i+1)..Len(said)
            BY <1>3, <1>4
          <6> QED BY <1>4, <6>1, <6>2 DEF EngineInv, EndsLast
        <5> QED BY <4>2, <5>1, <5>2
      <4>4. Stopped(r)' <=> Stopped(r)
        BY <1>9, <1>12, <4>3
      <4>5. /\ NoRecord(trace, r) => NoRecord(trace', r)
            /\ \A x : OnlyRecord(trace, r, x) => OnlyRecord(trace', r, x)
            /\ ToldHandled(r)' = ToldHandled(r)
        BY <1>5, <1>17, <1>18, <4>3
      <4> QED BY <3>1, <4>4, <4>5 DEF RecordOK
    <3> QED BY <3>2, <3>3
  <2> QED BY <1>8, <2>2, <2>3
<1> QED BY <1>11, <1>14, <1>16, <1>18 DEF ObservedInv

Watched == WireInv /\ EngineInv /\ ObservedInv

LEMMA WatchedStep ==
  ASSUME Watched, [Next]_vars
  PROVE  Watched'
<1>1. WireInv /\ WireInv'
  BY WireStep DEF Watched
<1> SUFFICES EngineInv' /\ ObservedInv'
  BY <1>1 DEF Watched
<1>2. EngineInv /\ ObservedInv
  BY DEF Watched
<1> DEFINE Quiet == /\ UNCHANGED <<to_engine, to_frontend, requests, trace>>
                    /\ UNCHANGED <<phase, copy>> \/ (phase \notin {"observe_request", "observe_output"}
                                                     /\ phase' \notin {"observe_request", "observe_output"})
           Silent == UNCHANGED <<asked, to_engine, said, taken, running>>
<1>3. ASSUME Silent PROVE EngineInv'
  BY <1>2, <1>3 DEF EngineInv, AskedOnce, RunsUnended, EndsLast, Taken, AbortTaken, SaidOf, EndSaid
<1>4. ASSUME Quiet, said' = said \/ (\E m \in AnyMessage : said' = Append(said, m)) PROVE ObservedInv'
  BY <1>1, <1>2, <1>4, UndecodedGrows, ObservedStill
<1>5. ASSUME Quiet, Silent PROVE EngineInv' /\ ObservedInv'
  BY <1>3, <1>4, <1>5
<1>6. CASE Environment
  <2>1. ASSUME NEW frame \in Frames, FrontendSend(frame) PROVE EngineInv' /\ ObservedInv'
    BY <1>1, <1>2, <1>4, <2>1, EngineSend DEF FrontendSend
  <2>2. ASSUME NEW answer \in BOOLEAN, EngineTake(answer) PROVE EngineInv' /\ ObservedInv'
    <3>1. Quiet
      BY <2>2 DEF EngineTake
    <3>2. said' = said \/ \E m \in AnyMessage : said' = Append(said, m)
      <4>1. CASE said' = said
        BY <4>1
      <4>2. CASE said' # said
        <5> DEFINE m == Message(<<Output(to_engine[taken + 1].req, 0, "abort")>>, TRUE)
        <5>1. said' = Append(said, m)
          BY <2>2, <4>2 DEF EngineTake
        <5> HIDE DEF m
        <5>2. Len(said') = Len(said) + 1 /\ said'[Len(said) + 1] = m /\ Len(said) \in Nat
          BY <1>1, <5>1 DEF WireInv, WireTypes
        <5>3. said' \in Seq(AnyMessage)
          BY <1>1 DEF WireInv, WireTypes
        <5>4. m \in AnyMessage
          BY <5>2, <5>3
        <5> QED BY <5>1, <5>4
      <4> QED BY <4>1, <4>2
    <3> QED BY <1>1, <1>2, <1>4, <2>2, <3>1, <3>2, EngineTakes
  <2>3. ASSUME NEW outputs \in Steps, NEW ok \in BOOLEAN, EngineOutputs(outputs, ok)
        PROVE  EngineInv' /\ ObservedInv'
    <3>1. Quiet
      BY <2>3 DEF EngineOutputs
    <3> DEFINE m == Message(outputs, ok)
    <3>2. said' = Append(said, m)
      BY <2>3 DEF EngineOutputs
    <3> HIDE DEF m
    <3>3. Len(said') = Len(said) + 1 /\ said'[Len(said) + 1] = m /\ Len(said) \in Nat
      BY <1>1, <3>2 DEF WireInv, WireTypes
    <3>4. said' \in Seq(AnyMessage)
      BY <1>1 DEF WireInv, WireTypes
    <3>5. m \in AnyMessage
      BY <3>3, <3>4
    <3> QED BY <1>1, <1>2, <1>4, <2>3, <3>1, <3>2, <3>5, EngineSpeaks
  <2>4. ASSUME NEW p \in connected, PeerGone(p) PROVE Quiet /\ Silent
    BY <2>4 DEF PeerGone, wires
  <2>5. ASSUME Signal PROVE Quiet /\ Silent
    BY <2>5 DEF Signal, wires
  <2> QED BY <1>5, <1>6, <2>1, <2>2, <2>3, <2>4, <2>5 DEF Environment
<1>7. CASE Connecting
  <2>1. Quiet /\ Silent
    BY <1>7 DEF Connecting, UpstreamHello, UpstreamReady, UpstreamRegister, DownstreamInit,
                DownstreamCoordinatorReady, ConnectFails, Untouched, wires, Goto, Fail
  <2> QED BY <1>5, <2>1
<1>8. CASE Proxy
  <2>1. ASSUME ShutdownArm \/ RequestsClosed \/ OutputsClosed PROVE Quiet /\ Silent
    BY <2>1 DEF ShutdownArm, RequestsClosed, OutputsClosed, Untouched, wires, Fail
  <2>2. ASSUME ForwardRequest PROVE EngineInv' /\ ObservedInv'
    BY <1>1, <1>2, <2>2, EngineForwards, ObservedForwardRequest
  <2>3. ASSUME ForwardOutput PROVE EngineInv' /\ ObservedInv'
    <3>1. Silent
      BY <2>3 DEF ForwardOutput
    <3> QED BY <1>1, <1>2, <1>3, <2>3, <3>1, ObservedForwardOutput
  <2>4. ASSUME ObserveRequestCopy PROVE EngineInv' /\ ObservedInv'
    <3>1. Silent
      BY <2>4 DEF ObserveRequestCopy, wires
    <3> QED BY <1>1, <1>2, <1>3, <2>4, <3>1, ObservedRequest
  <2>5. ASSUME ObserveOutputCopy PROVE EngineInv' /\ ObservedInv'
    <3>1. Silent
      BY <2>5 DEF ObserveOutputCopy, wires
    <3> QED BY <1>1, <1>2, <1>3, <2>5, <3>1, ObservedOutput
  <2> QED BY <1>5, <1>8, <2>1, <2>2, <2>3, <2>4, <2>5 DEF Proxy
<1>9. CASE Finishing
  <2>1. Quiet /\ Silent
    BY <1>9 DEF Finishing, FinishTrace, FinishSteps, FinishFile, wires
  <2> QED BY <1>5, <2>1
<1>10. CASE Ended \/ UNCHANGED vars
  <2>1. Quiet /\ Silent
    BY <1>10 DEF Ended, vars, wires
  <2> QED BY <1>5, <2>1
<1> QED BY <1>6, <1>7, <1>8, <1>9, <1>10 DEF Next

\* What was handled of a stopped request is all that was said of it.
LEMMA WatchedTrace ==
  ASSUME Watched
  PROVE  TraceExact
<1> SUFFICES ASSUME NEW r \in Requests \ Undecoded, Abort(r) \notin Range(to_engine)
             PROVE  IF Stopped(r)
                      THEN \E i \in DOMAIN trace :
                             /\ trace[i] = ExactRecord(r, Told(r, said))
                             /\ \A j \in DOMAIN trace : trace[j].req = r => j = i
                      ELSE \A i \in DOMAIN trace : trace[i].req # r
  BY DEF TraceExact
<1>1. RecordOK(r)
  BY DEF Watched, ObservedInv, Aborted
<1>2. CASE Stopped(r)
  <2> DEFINE p == SubSeq(said, 1, Handled)
             q == SubSeq(said, Handled + 1, Len(said))
  <2>1. /\ Len(to_frontend) \in Nat /\ Len(said) \in Nat /\ Len(to_frontend) <= Len(said)
        /\ \A i \in 1..Len(to_frontend) : to_frontend[i] = said[i]
        /\ \A i \in 1..Len(said) : said[i] \in AnyMessage
    BY ForwardedFirst DEF Watched
  <2>2. PICK i \in 1..Handled : \E j \in DOMAIN to_frontend[i].outputs :
          to_frontend[i].outputs[j].req = r /\ to_frontend[i].outputs[j].fin = "stop"
    BY <1>2 DEF Stopped
  <2>3. Handled \in Nat /\ Handled <= Len(to_frontend) /\ i \in 1..Len(to_frontend) /\ i \in 1..Len(said)
    BY <2>1, <2>2 DEF Handled
  <2>4. SaysEnd(said[i], r)
    <3>1. to_frontend[i] = said[i] /\ DOMAIN said[i].outputs = 1..Len(said[i].outputs)
      BY <2>1, <2>3 DEF AnyMessage
    <3> QED BY <2>2, <3>1 DEF SaysEnd
  <2>5. said \in Seq(AnyMessage) /\ to_frontend \in Seq(AnyMessage)
    BY DEF Watched, WireInv, WireTypes
  <2>6. /\ p \in Seq(AnyMessage) /\ q \in Seq(AnyMessage)
        /\ Len(q) = Len(said) - Handled /\ \A k \in 1..Len(q) : q[k] = said[Handled + k]
    BY <2>1, <2>3, <2>5, CutInTwo
  <2>7. \A k \in 1..Len(q) : ~Says(q[k], r)
    <3>1. \A k \in 1..Len(q) : Handled + k \in (i+1)..Len(said)
      BY <2>1, <2>2, <2>3, <2>6
    <3>2. \A k \in (i+1)..Len(said) : ~Says(said[k], r)
      BY <2>3, <2>4 DEF Watched, EngineInv, EndsLast
    <3> QED BY <2>6, <3>1, <3>2
  <2>8. said = p \o q
    <3>1. Handled <= Len(said)
      BY <2>1, <2>3
    <3>2. said = SubSeq(said, 1, Handled) \o SubSeq(said, Handled + 1, Len(said))
      BY <2>3, <2>5, <3>1, CutInTwo, Zenon
    <3> QED BY <3>2
  <2>9. p = SubSeq(to_frontend, 1, Handled)
    BY <2>1, <2>3, <2>5
  <2> HIDE DEF p, q
  <2>10. Told(r, said) = ToldHandled(r)
    BY <2>6, <2>7, <2>8, <2>9, ToldPrefix DEF ToldHandled
  <2> QED BY <1>1, <1>2, <2>10 DEF RecordOK, OnlyRecord
<1>3. CASE ~Stopped(r)
  BY <1>1, <1>3 DEF RecordOK, NoRecord
<1> QED BY <1>2, <1>3

LEMMA WatchedTable ==
  ASSUME Watched
  PROVE  TableMatchesEngine
<1> SUFFICES ASSUME phase = "proxy", out_rx = << >>, taken = Len(to_engine)
             PROVE  DOMAIN requests \ Undecoded = running \ Undecoded
  BY DEF TableMatchesEngine
<1>1. Seen = taken /\ Handled = Len(to_frontend)
  BY DEF Seen, Handled
<1>2. said = to_frontend
  BY DEF Watched, WireInv, WireTypes, Verbatim
<1>3. running \subseteq Requests /\ DOMAIN requests \subseteq Requests
  <2>1. requests \in Tables
    BY DEF Watched, ObservedInv
  <2> QED BY <2>1 DEF Watched, WireInv, WireTypes, Tables
<1>4. ASSUME NEW r \in Requests \ Undecoded
      PROVE  r \in DOMAIN requests <=> r \in running
  <2>1. r \in DOMAIN requests <=> AddSeen(r) /\ ~AbortSeen(r) /\ ~EndHandled(r)
    BY DEF Watched, ObservedInv, RowOK
  <2>2. r \in running <=> Taken(r) /\ ~AbortTaken(r) /\ ~EndSaid(r)
    BY DEF Watched, EngineInv, RunsUnended
  <2>3. (AddSeen(r) <=> Taken(r)) /\ (AbortSeen(r) <=> AbortTaken(r)) /\ (EndHandled(r) <=> EndSaid(r))
    BY <1>1, <1>2 DEF AddSeen, Taken, AbortSeen, AbortTaken, EndHandled, EndSaid
  <2> QED BY <2>1, <2>2, <2>3
<1> QED BY <1>3, <1>4

(* What the tap observes is what happened, for every number of requests, frames, outputs and *)
(* messages and every order of both directions: each finished request that was not aborted   *)
(* and whose frames decode has exactly one record, with the chunks the engine sent for it,   *)
(* and when both directions are quiet the table holds the requests the engine runs.          *)
THEOREM RecordsWhatHappened == Spec => []ObservedExactly
<1>1. Init => Watched
  BY WireInit, EngineInit, ObservedInit DEF Watched
<1>2. Watched /\ [Next]_vars => Watched'
  BY WatchedStep
<1>3. Watched => ObservedExactly
  BY WatchedTrace, WatchedTable DEF ObservedExactly
<1>. QED
  BY <1>1, <1>2, <1>3, PTL DEF Spec

(***************************************************************************)
(* What a player reads                                                     *)
(***************************************************************************)
OnlyStep(S, set) == [p \in Seq(S) \X S |-> IF p[2] \in set THEN Append(p[1], p[2]) ELSE p[1]]

LEMMA OnlyIs ==
  ASSUME NEW S, NEW q \in Seq(S), NEW set
  PROVE  \E f : Iterates(f, Seq(S), << >>, q, OnlyStep(S, set)) /\ Only(q, set) = f[Len(q)]
<1> DEFINE Keeps(t, x) == IF x \in set THEN Append(t, x) ELSE t
           Rec(g) == [s \in SUBSET (1..Len(q)) |->
                        IF s = {} THEN << >> ELSE Keeps(g[s \ {Max(s)}], q[Max(s)])]
           iter == CHOOSE g : g = Rec(g)
<1>1. DOMAIN q = 1..Len(q) /\ Len(q) \in Nat /\ \A i \in 1..Len(q) : q[i] \in S
  OBVIOUS
<1>2. OnlyStep(S, set) \in [Seq(S) \X S -> Seq(S)]
  BY DEF OnlyStep
<1>3. \A t \in Seq(S), x \in S : OnlyStep(S, set)[<<t, x>>] = Keeps(t, x)
  BY DEF OnlyStep
<1>4. ASSUME NEW s \in SUBSET (1..Len(q)), s # {} PROVE q[Max(s)] \in S
  <2>1. Max(s) \in 1..Len(q)
    BY <1>1, <1>4, MaxOfSet
  <2> HIDE DEF iter
  <2> QED BY <1>1, <2>1
<1>5. Only(q, set) = iter[1..Len(q)]
  BY <1>1 DEF Only, FoldLeft, MapThenFoldSet
<1> HIDE DEF Keeps
<1>6. << >> \in Seq(S)
  OBVIOUS
<1>7. PICK g : Solves(Len(q), g, Seq(S), << >>, q, OnlyStep(S, set))
  BY <1>2, <1>6, SetRecursion
<1>8. g = Rec(g)
  <2>1. /\ g \in [SUBSET (1..Len(q)) -> Seq(S)]
        /\ \A s \in SUBSET (1..Len(q)) :
             g[s] = IF s = {} THEN << >> ELSE OnlyStep(S, set)[<<g[s \ {Max(s)}], q[Max(s)]>>]
    BY <1>7 DEF Solves
  <2>2. ASSUME NEW s \in SUBSET (1..Len(q))
        PROVE  g[s] = IF s = {} THEN << >> ELSE Keeps(g[s \ {Max(s)}], q[Max(s)])
    <3>1. g[s \ {Max(s)}] \in Seq(S)
      BY <2>1
    <3> HIDE DEF iter
    <3> QED BY <1>3, <1>4, <2>1, <3>1
  <2> HIDE DEF iter
  <2> QED BY <2>1, <2>2
<1>9. iter = Rec(iter)
  BY <1>8
<1> HIDE DEF iter
<1>10. iter[{}] = << >>
  BY <1>9
<1>11. ASSUME NEW s \in SUBSET (1..Len(q)), s # {}, iter[s \ {Max(s)}] \in Seq(S)
       PROVE  iter[s] = OnlyStep(S, set)[<<iter[s \ {Max(s)}], q[Max(s)]>>]
  BY <1>3, <1>4, <1>9, <1>11
<1>12. Unrolls(iter, Seq(S), << >>, q, OnlyStep(S, set))
  BY <1>10, <1>11 DEF Unrolls
<1>13. FoldsOver(Seq(S), S, << >>, q, OnlyStep(S, set))
  BY <1>2, <1>6 DEF FoldsOver
<1>14. \E f : Iterates(f, Seq(S), << >>, q, OnlyStep(S, set)) /\ f[Len(q)] = iter[1..Len(q)]
  BY <1>12, <1>13, Unrolled
<1> QED BY <1>5, <1>14

\* The elements kept are those in the set.
LEMMA OnlyFacts ==
  ASSUME NEW S, NEW q \in Seq(S), NEW set
  PROVE  /\ Only(q, set) \in Seq(S)
         /\ \A j \in 1..Len(Only(q, set)) : /\ Only(q, set)[j] \in set
                                            /\ \E i \in 1..Len(q) : q[i] = Only(q, set)[j]
         /\ \A i \in 1..Len(q) : q[i] \in set => \E j \in 1..Len(Only(q, set)) : Only(q, set)[j] = q[i]
<1>1. PICK f : Iterates(f, Seq(S), << >>, q, OnlyStep(S, set)) /\ Only(q, set) = f[Len(q)]
  BY OnlyIs
<1> DEFINE Right(k) ==
      /\ f[k] \in Seq(S)
      /\ \A j \in 1..Len(f[k]) : f[k][j] \in set /\ \E i \in 1..Len(q) : q[i] = f[k][j]
      /\ \A i \in 1..k : q[i] \in set => \E j \in 1..Len(f[k]) : f[k][j] = q[i]
           T == {k \in Nat : k <= Len(q) => Right(k)}
<1>2. f[0] = << >> /\ \A k \in 0..Len(q) : f[k] \in Seq(S)
  BY <1>1 DEF Iterates
<1>3. 0 \in T
  <2>1. Right(0)
    BY <1>2
  <2> QED BY <2>1
<1>4. ASSUME NEW k \in Nat, k \in T PROVE k + 1 \in T
  <2> HIDE DEF Right
  <2> SUFFICES ASSUME k + 1 <= Len(q) PROVE Right(k+1)
    OBVIOUS
  <2> USE DEF Right
  <2>1. k + 1 \in 1..Len(q) /\ (k + 1) - 1 = k /\ Right(k) /\ f[k] \in Seq(S) /\ q[k+1] \in S
    <3>1. k <= Len(q) /\ k + 1 \in 1..Len(q) /\ (k + 1) - 1 = k
      OBVIOUS
    <3> HIDE DEF Right
    <3>2. Right(k)
      BY <1>4, <3>1
    <3>3. f[k] \in Seq(S)
      BY <3>2 DEF Right
    <3> QED BY <3>1, <3>2, <3>3
  <2>2. f[k+1] = IF q[k+1] \in set THEN Append(f[k], q[k+1]) ELSE f[k]
    <3>1. f[k+1] = OnlyStep(S, set)[<<f[k], q[k+1]>>]
      BY <1>1, <2>1 DEF Iterates
    <3> QED BY <2>1, <3>1 DEF OnlyStep
  <2>3. \A i \in 1..(k+1) : i \in 1..k \/ i = k + 1
    OBVIOUS
  <2>4. CASE q[k+1] \in set
    <3> DEFINE t == f[k]
               u == Append(t, q[k+1])
    <3>1. t \in Seq(S) /\ q[k+1] \in S /\ f[k+1] = u
      BY <2>1, <2>2, <2>4
    <3>2. /\ \A j \in 1..Len(t) : t[j] \in set /\ \E i \in 1..Len(q) : q[i] = t[j]
          /\ \A i \in 1..k : q[i] \in set => \E j \in 1..Len(t) : t[j] = q[i]
      BY <2>1
    <3> HIDE DEF t
    <3>3. /\ u \in Seq(S) /\ Len(u) = Len(t) + 1 /\ u[Len(t)+1] = q[k+1] /\ Len(t) \in Nat
          /\ \A j \in 1..Len(t) : u[j] = t[j]
      BY <3>1, AppendProperties
    <3> HIDE DEF u
    <3>4. \A j \in 1..Len(u) : u[j] \in set /\ \E i \in 1..Len(q) : q[i] = u[j]
      <4>1. \A j \in 1..Len(u) : j \in 1..Len(t) \/ j = Len(t) + 1
        BY <3>3
      <4>2. \A j \in 1..Len(t) : u[j] \in set /\ \E i \in 1..Len(q) : q[i] = u[j]
        BY <3>2, <3>3
      <4>3. u[Len(t)+1] \in set /\ \E i \in 1..Len(q) : q[i] = u[Len(t)+1]
        BY <2>1, <2>4, <3>3
      <4> QED BY <4>1, <4>2, <4>3
    <3>5. \A i \in 1..(k+1) : q[i] \in set => \E j \in 1..Len(u) : u[j] = q[i]
      <4>1. Len(t) + 1 \in 1..Len(u) /\ \A j \in 1..Len(t) : j \in 1..Len(u)
        BY <3>3
      <4> QED BY <2>3, <3>2, <3>3, <4>1
    <3> QED BY <3>1, <3>3, <3>4, <3>5
  <2>5. CASE q[k+1] \notin set
    <3>1. f[k+1] = f[k]
      BY <2>2, <2>5
    <3> QED BY <2>1, <2>3, <2>5, <3>1
  <2> QED BY <2>4, <2>5
<1> HIDE DEF T
<1>5. Nat \subseteq T
  BY <1>3, <1>4, NatInductive
<1>6. Len(q) \in T /\ Len(q) <= Len(q)
  BY <1>5
<1> HIDE DEF Right
<1>7. Right(Len(q))
  BY <1>6 DEF T
<1> QED BY <1>1, <1>7 DEF Right


UriAt(p, i) == Inputs[p][InputsOf(p)[i]]
UrisOf(p) == {UriAt(p, i) : i \in 1..Len(InputsOf(p))}

LEMMA InputsFacts ==
  ASSUME NEW p \in Players
  PROVE  /\ InputsOf(p) \in Seq(Range(Fields)) /\ Len(InputsOf(p)) \in Nat \ {0}
         /\ \A i \in 1..Len(InputsOf(p)) : InputsOf(p)[i] \in DOMAIN Inputs[p]
         /\ UrisOf(p) \subseteq Uris
<1> DEFINE S == Range(Fields)
<1>1. Fields \in Seq(S) /\ \A f \in S : \E i \in 1..Len(Fields) : Fields[i] = f
  BY DEF Fields, Range
<1>2. PICK f \in DOMAIN Inputs[p] : f \in S
  BY RemoteAssumption
<1> HIDE DEF S
<1>3. /\ InputsOf(p) \in Seq(S)
      /\ \A j \in 1..Len(InputsOf(p)) : InputsOf(p)[j] \in DOMAIN Inputs[p]
      /\ \A i \in 1..Len(Fields) : Fields[i] \in DOMAIN Inputs[p] =>
           \E j \in 1..Len(InputsOf(p)) : InputsOf(p)[j] = Fields[i]
  BY <1>1, OnlyFacts DEF InputsOf
<1>4. \E j \in 1..Len(InputsOf(p)) : InputsOf(p)[j] = f
  BY <1>1, <1>2, <1>3
<1>5. Len(InputsOf(p)) \in Nat \ {0}
  BY <1>3, <1>4
<1>6. UrisOf(p) \subseteq Uris
  BY <1>3, RemoteAssumption DEF UrisOf, UriAt
<1> QED BY <1>3, <1>5, <1>6 DEF S

\* A list of fields, each one of the player's.
Listed(p, fields) ==
  /\ fields \in Seq(Range(Fields))
  /\ \A j \in 1..Len(fields) : \E i \in 1..Len(InputsOf(p)) : InputsOf(p)[i] = fields[j]

ReadOf(p) ==
  [part : {"records", "header"},
   field : {InputsOf(p)[i] : i \in 1..Len(InputsOf(p))}]

LEMMA ReadLists ==
  ASSUME NEW p \in Players, NEW fields, Listed(p, fields)
  PROVE  /\ Records(fields) \in Seq(ReadOf(p)) /\ Len(Records(fields)) = Len(fields)
         /\ Headers(fields) \in Seq(ReadOf(p)) /\ Len(Headers(fields)) = Len(fields)
         /\ \A j \in 1..Len(fields) : Headers(fields)[j] = [part |-> "header", field |-> fields[j]]
<1>1. DOMAIN fields = 1..Len(fields) /\ Len(fields) \in Nat
  BY DEF Listed
<1>2. \A j \in 1..Len(fields) : fields[j] \in {InputsOf(p)[i] : i \in 1..Len(InputsOf(p))}
  BY DEF Listed
<1>3. Records(fields) = [i \in 1..Len(fields) |-> [part |-> "records", field |-> fields[i]]]
  BY <1>1 DEF Records
<1>4. Headers(fields) = [i \in 1..Len(fields) |-> [part |-> "header", field |-> fields[i]]]
  BY <1>1 DEF Headers
<1>5. \A j \in 1..Len(fields) : /\ [part |-> "records", field |-> fields[j]] \in ReadOf(p)
                               /\ [part |-> "header", field |-> fields[j]] \in ReadOf(p)
  BY <1>2 DEF ReadOf
<1>6. Records(fields) \in [1..Len(fields) -> ReadOf(p)] /\ Headers(fields) \in [1..Len(fields) -> ReadOf(p)]
  BY <1>3, <1>4, <1>5
<1>7. /\ Records(fields) \in Seq(ReadOf(p)) /\ Len(Records(fields)) = Len(fields)
      /\ Headers(fields) \in Seq(ReadOf(p)) /\ Len(Headers(fields)) = Len(fields)
  BY <1>1, <1>6, MappedSeq
<1> QED BY <1>4, <1>7

LEMMA ListedOnly ==
  ASSUME NEW p \in Players, NEW set
  PROVE  Listed(p, Only(InputsOf(p), set))
<1>1. InputsOf(p) \in Seq(Range(Fields))
  BY InputsFacts
<1> QED BY <1>1, OnlyFacts DEF Listed

LEMMA ListedBoth ==
  ASSUME NEW p \in Players, NEW a, NEW b, Listed(p, a), Listed(p, b)
  PROVE  Listed(p, a \o b) /\ Len(a \o b) = Len(a) + Len(b)
<1>1. a \in Seq(Range(Fields)) /\ b \in Seq(Range(Fields)) /\ Len(a) \in Nat /\ Len(b) \in Nat
  BY DEF Listed
<1>2. a \o b \in Seq(Range(Fields)) /\ Len(a \o b) = Len(a) + Len(b)
  BY <1>1, ConcatProperties
<1>3. \A j \in 1..Len(a \o b) : (a \o b)[j] = IF j <= Len(a) THEN a[j] ELSE b[j - Len(a)]
  BY <1>1, ConcatProperties
<1>4. \A j \in 1..Len(a \o b) : IF j <= Len(a) THEN j \in 1..Len(a) ELSE j - Len(a) \in 1..Len(b)
  BY <1>1, <1>2
<1> QED BY <1>2, <1>3, <1>4 DEF Listed

\* The checks come first, and check the header of each object once if a hash is expected.
LEMMA ChecksFacts ==
  ASSUME NEW p \in Players
  PROVE  /\ Checks(p) \in Seq(ReadOf(p))
         /\ Expect[p] # NoHash => \A u \in UrisOf(p) : \E k \in 1..Len(Checks(p)) :
              Checks(p)[k].part = "header" /\ Inputs[p][Checks(p)[k].field] = u
<1> DEFINE a == Records(Latency(p))
           h == Headers(Verified(p))
           firsts == {InputsOf(p)[i] : i \in {i \in DOMAIN InputsOf(p) :
                                                \A j \in 1..(i - 1) : UriAt(p, j) # UriAt(p, i)}}
<1>1. Listed(p, Latency(p)) /\ Listed(p, Verified(p)) /\ Verified(p) = Only(InputsOf(p), firsts)
  BY ListedOnly DEF Latency, Verified, UriAt
<1>2. /\ a \in Seq(ReadOf(p)) /\ h \in Seq(ReadOf(p)) /\ Len(h) = Len(Verified(p))
      /\ \A j \in 1..Len(Verified(p)) : h[j] = [part |-> "header", field |-> Verified(p)[j]]
  <2>1. a \in Seq(ReadOf(p))
    BY <1>1, ReadLists
  <2>2. /\ h \in Seq(ReadOf(p)) /\ Len(h) = Len(Verified(p))
        /\ \A j \in 1..Len(Verified(p)) : h[j] = [part |-> "header", field |-> Verified(p)[j]]
    BY <1>1, ReadLists
  <2> QED BY <2>1, <2>2
<1>3. Checks(p) = a \o (IF Expect[p] = NoHash THEN << >> ELSE h)
  BY DEF Checks
<1>4. ASSUME NEW u \in UrisOf(p)
      PROVE  \E j \in 1..Len(Verified(p)) : Inputs[p][Verified(p)[j]] = u
  <2> DEFINE at == {i \in 1..Len(InputsOf(p)) : UriAt(p, i) = u}
  <2>0. InputsOf(p) \in Seq(Range(Fields)) /\ Len(InputsOf(p)) \in Nat /\ DOMAIN InputsOf(p) = 1..Len(InputsOf(p))
    BY InputsFacts
  <2>1. at # {} /\ at \subseteq Nat
    BY <1>4, <2>0 DEF UrisOf
  <2>2. \E i \in at : \A j \in at : i <= j
    BY <2>1, LeastOf
  <2>3. PICK i \in at : \A j \in at : i <= j
    BY <2>2
  <2>4. \A j \in 1..(i-1) : UriAt(p, j) # UriAt(p, i)
    BY <2>0, <2>3
  <2>5. InputsOf(p)[i] \in firsts /\ i \in 1..Len(InputsOf(p)) /\ UriAt(p, i) = u
    BY <2>0, <2>3, <2>4
  <2> HIDE DEF firsts
  <2>6. PICK j \in 1..Len(Verified(p)) : Verified(p)[j] = InputsOf(p)[i]
    BY <1>1, <2>0, <2>5, OnlyFacts
  <2> QED BY <2>5, <2>6 DEF UriAt
<1> HIDE DEF a, h, firsts
<1>5. CASE Expect[p] = NoHash
  <2>1. << >> \in Seq(ReadOf(p))
    OBVIOUS
  <2> QED BY <1>2, <1>3, <1>5, <2>1, ConcatProperties
<1>6. CASE Expect[p] # NoHash
  <2>1. Checks(p) = a \o h
    BY <1>3, <1>6
  <2>2. a \o h \in Seq(ReadOf(p)) /\ Len(a \o h) = Len(a) + Len(h) /\ Len(a) \in Nat /\ Len(h) \in Nat
    BY <1>2, ConcatProperties, LenProperties
  <2>3. \A j \in 1..Len(h) : Len(a) + j \in 1..Len(a \o h) /\ (a \o h)[Len(a) + j] = h[j]
    <3> SUFFICES ASSUME NEW j \in 1..Len(h)
                 PROVE  Len(a) + j \in 1..Len(a \o h) /\ (a \o h)[Len(a) + j] = h[j]
      OBVIOUS
    <3>1. Len(a) + j \in 1..Len(a \o h) /\ ~(Len(a) + j <= Len(a)) /\ (Len(a) + j) - Len(a) = j
      BY <2>2
    <3>2. (a \o h)[Len(a) + j] = IF Len(a) + j <= Len(a) THEN a[Len(a) + j] ELSE h[(Len(a) + j) - Len(a)]
      BY <1>2, <2>2, <3>1, ConcatProperties
    <3> QED BY <3>1, <3>2
  <2>4. ASSUME NEW u \in UrisOf(p)
        PROVE  \E k \in 1..Len(Checks(p)) : Checks(p)[k].part = "header" /\ Inputs[p][Checks(p)[k].field] = u
    <3>1. PICK j \in 1..Len(Verified(p)) : Inputs[p][Verified(p)[j]] = u
      BY <1>4
    <3>2. h[j] = [part |-> "header", field |-> Verified(p)[j]] /\ j \in 1..Len(h)
      BY <1>2, <3>1
    <3> DEFINE k == Len(a) + j
    <3>3. k \in 1..Len(a \o h) /\ (a \o h)[k] = h[j]
      BY <2>3, <3>2
    <3> HIDE DEF k
    <3>4. Checks(p)[k].part = "header" /\ Checks(p)[k].field = Verified(p)[j] /\ k \in 1..Len(Checks(p))
      BY <2>1, <3>2, <3>3
    <3> QED BY <3>1, <3>4
  <2> QED BY <2>1, <2>2, <2>4
<1> QED BY <1>5, <1>6

LEMMA EngineReadsFacts ==
  ASSUME NEW p \in Players
  PROVE  EngineReads(p) \in Seq(ReadOf(p)) /\ Len(EngineReads(p)) \in Nat \ {0}
<1> DEFINE a == Latency(p)
           b == Only(InputsOf(p), DOMAIN Inputs[p] \ {"latency_trace"})
<1>1. Listed(p, a) /\ Listed(p, b)
  BY ListedOnly DEF Latency
<1>2. Listed(p, a \o b) /\ Len(a \o b) = Len(a) + Len(b)
  BY <1>1, ListedBoth
<1>5. a \in Seq(Range(Fields)) /\ b \in Seq(Range(Fields)) /\ Len(a) \in Nat /\ Len(b) \in Nat
  BY <1>1, LenProperties DEF Listed
<1>6. EngineReads(p) = Records(a \o b)
  BY DEF EngineReads
<1>3. EngineReads(p) \in Seq(ReadOf(p)) /\ Len(EngineReads(p)) = Len(a) + Len(b) /\ Len(a) \in Nat /\ Len(b) \in Nat
  BY <1>2, <1>5, <1>6, ReadLists
<1>4. Len(a) + Len(b) # 0
  <2>1. /\ InputsOf(p) \in Seq(Range(Fields)) /\ 1 \in 1..Len(InputsOf(p))
        /\ InputsOf(p)[1] \in DOMAIN Inputs[p]
    BY InputsFacts
  <2>2. CASE InputsOf(p)[1] = "latency_trace"
    <3>1. \E j \in 1..Len(a) : a[j] = InputsOf(p)[1]
      BY <2>1, <2>2, OnlyFacts DEF Latency
    <3> QED BY <1>3, <3>1
  <2>3. CASE InputsOf(p)[1] # "latency_trace"
    <3>1. \E j \in 1..Len(b) : b[j] = InputsOf(p)[1]
      BY <2>1, <2>3, OnlyFacts
    <3> QED BY <1>3, <3>1
  <2> QED BY <2>2, <2>3
<1> QED BY <1>3, <1>4

\* Every read is of an input, and every object's header is among them.
LEMMA ReadsFacts ==
  ASSUME NEW p \in Players
  PROVE  /\ Reads(p) \in Seq(ReadOf(p)) /\ Len(Reads(p)) \in Nat \ {0}
         /\ Expect[p] # NoHash => \A u \in UrisOf(p) : \E k \in 1..Len(Reads(p)) :
              Reads(p)[k].part = "header" /\ Inputs[p][Reads(p)[k].field] = u
<1> DEFINE c == Checks(p)
           e == EngineReads(p)
           n == Len(c) + EngineCount * Len(e)
           f == [k \in 1..n |-> IF k <= Len(c) THEN c[k] ELSE e[1 + ((k - Len(c) - 1) % Len(e))]]
<1>1. c \in Seq(ReadOf(p)) /\ e \in Seq(ReadOf(p)) /\ Len(e) \in Nat \ {0} /\ Len(c) \in Nat
  BY ChecksFacts, EngineReadsFacts
<1>2. Reads(p) = f
  BY DEF Reads
<1>3. \A a \in Nat \ {0}, b \in Nat \ {0} : a * b \in Nat \ {0}
  OBVIOUS
<1>4. EngineCount * Len(e) \in Nat \ {0}
  BY <1>1, <1>3, RemoteAssumption
<1>5. n \in Nat \ {0} /\ Len(c) <= n
  BY <1>1, <1>4
<1>6. \A a \in Nat, b \in Nat \ {0} : a % b \in 0..(b-1)
  OBVIOUS
<1> HIDE DEF n, c, e
<1>7. ASSUME NEW k \in 1..n PROVE f[k] \in ReadOf(p)
  <2>1. CASE k <= Len(c)
    BY <1>1, <2>1
  <2>2. CASE ~(k <= Len(c))
    <3> DEFINE a == k - Len(c) - 1
    <3>1. a \in Nat
      BY <1>1, <1>5, <2>2
    <3>2. a % Len(e) \in 0..(Len(e)-1)
      BY <1>1, <1>6, <3>1
    <3>3. f[k] = e[1 + (a % Len(e))]
      BY <2>2
    <3> HIDE DEF a
    <3>4. 1 + (a % Len(e)) \in 1..Len(e)
      BY <1>1, <3>2
    <3> HIDE DEF f
    <3> QED BY <1>1, <3>3, <3>4
  <2> QED BY <2>1, <2>2
<1>8. f \in Seq(ReadOf(p)) /\ Len(f) = n
  BY <1>5, <1>7
<1>9. \A k \in 1..Len(c) : k \in 1..n /\ f[k] = c[k]
  BY <1>1, <1>5
<1> HIDE DEF f
<1>10. Expect[p] # NoHash => \A u \in UrisOf(p) : \E k \in 1..Len(f) : f[k].part = "header" /\ Inputs[p][f[k].field] = u
  <2> SUFFICES ASSUME Expect[p] # NoHash, NEW u \in UrisOf(p)
               PROVE  \E k \in 1..Len(f) : f[k].part = "header" /\ Inputs[p][f[k].field] = u
    OBVIOUS
  <2>1. PICK k \in 1..Len(c) : c[k].part = "header" /\ Inputs[p][c[k].field] = u
    BY ChecksFacts DEF c
  <2> QED BY <1>8, <1>9, <2>1
<1> QED BY <1>2, <1>5, <1>8, <1>10

(***************************************************************************)
(* The inductive invariant of the remote inputs                            *)
(***************************************************************************)
Pieces == Range(Stored) \cup Writers \cup {Hole}
Contents == Seq(Pieces)
Fetches == UNION {[us -> Contents] : us \in SUBSET Uris}
Seens == [uri : Uris, part : {"records", "header"}, content : Contents]
ProcType ==
  [pc : {"fetch", "create", "write", "read", "playing", "upload", "put", "done", "failed"},
   why : {"none", "absent", "disk", "hash", "unreadable"}, at : Nat \ {0}, offset : Nat,
   got : Contents, fetched : Fetches, seen : SUBSET Seens]

RemoteTypes ==
  /\ object \in [Uris -> Contents \cup {NoObject}]
  /\ \A f \in DOMAIN scratch : scratch[f] \in Contents
  /\ touched \in [Procs -> BOOLEAN]
  /\ proc \in [Procs -> ProcType]

\* Where a player is: the inputs before its position are fetched.
PlayerAt(p) ==
  /\ proc[p].pc \in {"fetch", "create", "write", "read", "playing", "failed"}
  /\ proc[p].pc \in {"fetch", "create", "write"} =>
       /\ proc[p].at <= Len(InputsOf(p))
       /\ DOMAIN Fetched(p) = {UriAt(p, i) : i \in 1..(proc[p].at - 1)}
  /\ proc[p].pc \in {"create", "write"} => Uri(p) \notin DOMAIN Fetched(p)
  /\ proc[p].pc \in {"read", "playing"} => DOMAIN Fetched(p) = UrisOf(p)
  /\ proc[p].pc = "read" => proc[p].at <= Len(Reads(p))
  /\ proc[p].pc = "playing" => proc[p].at = Len(Reads(p)) + 1
  /\ proc[p].why # "none" => proc[p].pc = "failed"

WriterAt(w) ==
  /\ proc[w].pc \in {"create", "write", "upload", "put", "done", "failed"}
  /\ proc[w].pc \in {"create", "write"} => proc[w].got = Whole(w)
  /\ DOMAIN proc[w].fetched = {}

Placed(p) ==
  /\ p \in Players => PlayerAt(p)
  /\ p \in Writers => WriterAt(p)
  /\ proc[p].pc = "write" => proc[p].offset <= Len(proc[p].got)
  /\ proc[p].pc \in {"write", "upload"} => ScratchPath(Uri(p)) \in DOMAIN scratch
  /\ \A u \in DOMAIN Fetched(p) : ScratchPath(u) \in DOMAIN scratch

\* The files an undisturbed process relies on hold what it put there.
Undisturbed(p) ==
  ~touched[p] =>
    /\ proc[p].pc = "write" =>
         LET content == scratch[ScratchPath(Uri(p))]
         IN Len(content) = proc[p].offset /\ \A i \in 1..Len(content) : content[i] = proc[p].got[i]
    /\ proc[p].pc = "upload" => scratch[ScratchPath(Uri(p))] = Whole(p)
    /\ proc[p].pc \notin {"playing", "failed"} =>
         \A u \in DOMAIN Fetched(p) : scratch[ScratchPath(u)] = Fetched(p)[u]

\* What an undisturbed player has read so far is what it fetched, each header as expected.
HeaderAt(p, k) ==
  Reads(p)[k].part = "header" => HashMatches(p, Fetched(p)[Inputs[p][Reads(p)[k].field]])

SeenRight(p) ==
  ~touched[p] =>
    /\ \A s \in proc[p].seen : s.uri \in DOMAIN Fetched(p) /\ s.content = Part(s.part, Fetched(p)[s.uri])
    /\ proc[p].why = "unreadable" => \E u \in DOMAIN Fetched(p) : ~Readable(Fetched(p)[u])
    /\ proc[p].why = "hash" => \E u \in DOMAIN Fetched(p) : ~HashMatches(p, Fetched(p)[u])
    /\ proc[p].pc \in {"read", "playing"} => \A k \in 1..(proc[p].at - 1) : HeaderAt(p, k)

PutRight(w) == proc[w].pc \in {"put", "done"} /\ ~touched[w] => proc[w].got = Whole(w)

ProcInv(p) ==
  Placed(p) /\ Undisturbed(p) /\ (p \in Players => SeenRight(p)) /\ (p \in Writers => PutRight(p))

RemoteInv == RemoteTypes /\ \A p \in Procs : ProcInv(p)

LEMMA RemoteInitInv == RemoteInit => RemoteInv
<1> SUFFICES ASSUME RemoteInit PROVE RemoteInv
  OBVIOUS
<1>1. \A v \in Pieces : Whole(v) \in Contents
  BY DEF Whole, Contents
<1>2. \A u \in DOMAIN Stored : Stored[u] \in Pieces
  BY DEF Pieces, Range
<1>3. \A p \in Procs : proc[p] =
       [pc |-> IF p \in Players THEN "fetch" ELSE "create", why |-> "none", at |-> 1, offset |-> 0,
        got |-> IF p \in Players THEN <<>> ELSE Whole(p), fetched |-> <<>>, seen |-> {}]
  BY DEF RemoteInit
<1>4. << >> \in Fetches /\ << >> \in Contents /\ DOMAIN << >> = {}
  <2>1. << >> \in [{} -> Contents]
    OBVIOUS
  <2>2. << >> \in Fetches
    <3>1. {} \in SUBSET Uris
      OBVIOUS
    <3> QED BY <2>1, <3>1 DEF Fetches
  <2>3. << >> \in Contents
    BY DEF Contents
  <2>4. DOMAIN << >> = {}
    BY <2>1
  <2> QED BY <2>2, <2>3, <2>4
<1>5. \A p \in Procs : p \in Players \/ (p \in Writers /\ Whole(p) \in Contents)
  BY <1>1 DEF Procs, Pieces
<1>6. RemoteTypes
  <2>1. object \in [Uris -> Contents \cup {NoObject}]
    BY <1>1, <1>2 DEF RemoteInit
  <2>2. \A f \in DOMAIN scratch : scratch[f] \in Contents
    BY <1>4 DEF RemoteInit
  <2>3. touched \in [Procs -> BOOLEAN]
    BY DEF RemoteInit
  <2>4. ASSUME NEW p \in Procs PROVE proc[p] \in ProcType
    <3> DEFINE got == IF p \in Players THEN <<>> ELSE Whole(p)
               none == << >>
    <3>1. got \in Contents /\ none \in Fetches
      BY <1>4, <1>5
    <3>2. proc[p] = [pc |-> IF p \in Players THEN "fetch" ELSE "create", why |-> "none", at |-> 1, offset |-> 0,
                     got |-> got, fetched |-> none, seen |-> {}]
      BY <1>3
    <3> HIDE DEF got, none
    <3> QED BY <3>1, <3>2 DEF ProcType
  <2>5. proc \in [Procs -> ProcType]
    BY <2>4 DEF RemoteInit
  <2> QED BY <2>1, <2>2, <2>3, <2>5 DEF RemoteTypes
<1>7. ASSUME NEW p \in Procs PROVE ProcInv(p)
  <2>1. /\ proc[p].pc = IF p \in Players THEN "fetch" ELSE "create"
        /\ proc[p].why = "none" /\ proc[p].at = 1 /\ proc[p].seen = {}
        /\ proc[p].got = IF p \in Players THEN <<>> ELSE Whole(p)
        /\ DOMAIN proc[p].fetched = {}
    <3> DEFINE got == IF p \in Players THEN <<>> ELSE Whole(p)
               none == << >>
    <3>1. proc[p] = [pc |-> IF p \in Players THEN "fetch" ELSE "create", why |-> "none", at |-> 1, offset |-> 0,
                     got |-> got, fetched |-> none, seen |-> {}]
      BY <1>3
    <3>2. DOMAIN none = {}
      BY <1>4
    <3> HIDE DEF none
    <3> QED BY <3>1, <3>2
  <2>2. p \in Players => PlayerAt(p)
    <3> SUFFICES ASSUME p \in Players PROVE PlayerAt(p)
      OBVIOUS
    <3>1. Len(InputsOf(p)) \in Nat \ {0} /\ 1..(1-1) = {}
      BY InputsFacts
    <3> QED BY <2>1, <3>1 DEF PlayerAt, Fetched
  <2>3. p \in Writers => WriterAt(p) /\ PutRight(p)
    BY <2>1, RemoteAssumption DEF WriterAt, PutRight
  <2>4. Placed(p)
    BY <2>1, <2>2, <2>3 DEF Placed, Fetched
  <2>5. Undisturbed(p)
    BY <2>1 DEF Undisturbed, Fetched
  <2>6. p \in Players => SeenRight(p)
    BY <2>1 DEF SeenRight
  <2> QED BY <2>3, <2>4, <2>5, <2>6 DEF ProcInv
<1> QED BY <1>6, <1>7 DEF RemoteInv

LEMMA PathsDiffer ==
  ASSUME NEW u, NEW v, ScratchPath(u) = ScratchPath(v)
  PROVE  u = v
BY DEF ScratchPath

\* What a step of another process leaves a process: the files it relies on, if undisturbed.
FilesFrom(p) ==
  \/ scratch' = scratch /\ touched' = touched
  \/ \E u \in Uris, content \in Contents : Changes(p, u, content)

LEMMA FilesKept ==
  ASSUME RemoteTypes, NEW p \in Procs, NEW q \in Procs, FilesFrom(p)
  PROVE  /\ DOMAIN scratch \subseteq DOMAIN scratch'
         /\ \A f \in DOMAIN scratch' : scratch'[f] \in Contents
         /\ touched' \in [Procs -> BOOLEAN] /\ (touched[q] => touched'[q])
         /\ touched[p] = touched'[p]
         /\ p # q /\ ~touched'[q] => \A u : Relies(q, u) /\ ScratchPath(u) \in DOMAIN scratch => scratch'[ScratchPath(u)] = scratch[ScratchPath(u)]
<1>1. CASE scratch' = scratch /\ touched' = touched
  BY <1>1 DEF RemoteTypes
<1>2. ASSUME NEW v \in Uris, NEW content \in Contents, Changes(p, v, content)
      PROVE  /\ DOMAIN scratch \subseteq DOMAIN scratch'
             /\ \A f \in DOMAIN scratch' : scratch'[f] \in Contents
             /\ touched' \in [Procs -> BOOLEAN] /\ (touched[q] => touched'[q])
             /\ touched[p] = touched'[p]
             /\ p # q /\ ~touched'[q] => \A u : Relies(q, u) /\ ScratchPath(u) \in DOMAIN scratch => scratch'[ScratchPath(u)] = scratch[ScratchPath(u)]
  <2>1. /\ scratch' = Bind(scratch, ScratchPath(v), content)
        /\ touched' = [r \in Procs |-> touched[r] \/ (r # p /\ Relies(r, v))]
    BY <1>2 DEF Changes
  <2>2. /\ DOMAIN scratch' = DOMAIN scratch \cup {ScratchPath(v)}
        /\ \A f \in DOMAIN scratch' : scratch'[f] = IF f = ScratchPath(v) THEN content ELSE scratch[f]
    BY <2>1 DEF Bind
  <2>3. \A f \in DOMAIN scratch' : scratch'[f] \in Contents
    BY <2>2 DEF RemoteTypes
  <2>4. \A r \in Procs : touched'[r] \in BOOLEAN /\ touched[r] \in BOOLEAN
    BY <2>1 DEF RemoteTypes, Relies
  <2>5. touched' \in [Procs -> BOOLEAN]
    BY <2>1, <2>4
  <2>6. touched'[q] = (touched[q] \/ (q # p /\ Relies(q, v))) /\ touched'[p] = (touched[p] \/ (p # p /\ Relies(p, v)))
    BY <2>1
  <2>7. touched[p] = touched'[p]
    BY <2>4, <2>6
  <2>8. ASSUME p # q, ~touched'[q], NEW u, Relies(q, u), ScratchPath(u) \in DOMAIN scratch
        PROVE  scratch'[ScratchPath(u)] = scratch[ScratchPath(u)]
    <3>1. u # v
      BY <2>6, <2>8
    <3>2. ScratchPath(u) # ScratchPath(v)
      BY <3>1, PathsDiffer
    <3> QED BY <2>2, <2>8, <3>2
  <2> QED BY <2>2, <2>3, <2>5, <2>6, <2>7, <2>8
<1> QED BY <1>1, <1>2 DEF FilesFrom

LEMMA OthersKeep ==
  ASSUME RemoteTypes, NEW p \in Procs, NEW q \in Procs, p # q, ProcInv(q),
         FilesFrom(p), proc'[q] = proc[q]
  PROVE  ProcInv(q)'
<1>1. /\ DOMAIN scratch \subseteq DOMAIN scratch'
      /\ touched[q] => touched'[q]
      /\ ~touched'[q] => \A u : Relies(q, u) /\ ScratchPath(u) \in DOMAIN scratch =>
                                  scratch'[ScratchPath(u)] = scratch[ScratchPath(u)]
  BY FilesKept
<1>2. Uri(q)' = Uri(q) /\ Fetched(q)' = Fetched(q)
  BY DEF Uri, Fetched
<1>3. (PlayerAt(q) => PlayerAt(q)') /\ (WriterAt(q) => WriterAt(q)')
  BY <1>2 DEF PlayerAt, WriterAt
<1>4. Placed(q)'
  BY <1>1, <1>2, <1>3 DEF ProcInv, Placed
<1>5. Undisturbed(q)'
  <2> SUFFICES ASSUME ~touched'[q] PROVE Undisturbed(q)'
    BY DEF Undisturbed
  <2>1. ~touched[q] /\ Placed(q) /\ Undisturbed(q)
    BY <1>1 DEF ProcInv
  <2>2. proc[q].pc \in {"write", "upload"} => scratch'[ScratchPath(Uri(q))] = scratch[ScratchPath(Uri(q))]
    BY <1>1, <2>1 DEF Relies, Placed
  <2>3. proc[q].pc \notin {"playing", "failed"} =>
          \A u \in DOMAIN Fetched(q) : scratch'[ScratchPath(u)] = scratch[ScratchPath(u)]
    BY <1>1, <2>1 DEF Relies, Placed, Fetched
  <2> QED BY <1>2, <2>1, <2>2, <2>3 DEF Undisturbed
<1>6. \A k : HeaderAt(q, k) => HeaderAt(q, k)'
  BY <1>2 DEF HeaderAt
<1>7. SeenRight(q) => SeenRight(q)'
  <2> SUFFICES ASSUME SeenRight(q), ~touched'[q] PROVE SeenRight(q)'
    BY DEF SeenRight
  <2>1. ~touched[q]
    BY <1>1
  <2> QED BY <1>2, <1>6, <2>1 DEF SeenRight
<1>8. PutRight(q) => PutRight(q)'
  BY <1>1 DEF PutRight
<1> QED BY <1>4, <1>5, <1>7, <1>8 DEF ProcInv

\* A step of p keeps the invariant if it keeps p's part of it.
LEMMA StepInv ==
  ASSUME RemoteInv, NEW p \in Procs, NEW r \in ProcType, proc' = [proc EXCEPT ![p] = r],
         FilesFrom(p), object' \in [Uris -> Contents \cup {NoObject}],
         ProcInv(p)'
  PROVE  RemoteInv'
<1>1. proc' \in [Procs -> ProcType]
  BY DEF RemoteInv, RemoteTypes
<1>2. RemoteTypes'
  BY <1>1, FilesKept DEF RemoteInv, RemoteTypes
<1>3. ASSUME NEW q \in Procs PROVE ProcInv(q)'
  <2>1. CASE q = p
    BY <2>1
  <2>2. CASE q # p
    <3>1. proc'[q] = proc[q]
      BY <2>2 DEF RemoteInv, RemoteTypes
    <3> QED BY <2>2, <3>1, OthersKeep DEF RemoteInv
  <2> QED BY <2>1, <2>2
<1> QED BY <1>2, <1>3 DEF RemoteInv

LEMMA ProcFacts ==
  ASSUME RemoteInv, NEW p \in Procs
  PROVE  /\ proc[p] \in ProcType /\ ProcInv(p)
         /\ proc[p].at \in Nat \ {0} /\ proc[p].offset \in Nat /\ proc[p].got \in Contents
         /\ proc[p].fetched \in Fetches /\ proc[p].seen \in SUBSET Seens
         /\ proc[p].pc \in {"fetch", "create", "write"} => Uri(p) \in Uris
         /\ p \in Players => PlayerAt(p) /\ SeenRight(p) /\ p \notin Writers
         /\ p \in Writers => WriterAt(p) /\ PutRight(p) /\ p \notin Players
<1>1. proc[p] \in ProcType /\ ProcInv(p)
  BY DEF RemoteInv, RemoteTypes
<1>2. /\ proc[p].at \in Nat \ {0} /\ proc[p].offset \in Nat /\ proc[p].got \in Contents
      /\ proc[p].fetched \in Fetches /\ proc[p].seen \in SUBSET Seens
  BY <1>1 DEF ProcType
<1>3. /\ p \in Players => PlayerAt(p) /\ SeenRight(p) /\ p \notin Writers
      /\ p \in Writers => WriterAt(p) /\ PutRight(p) /\ p \notin Players
  BY <1>1, RemoteAssumption DEF ProcInv, Placed
<1>4. ASSUME proc[p].pc \in {"fetch", "create", "write"} PROVE Uri(p) \in Uris
  <2>1. CASE p \in Players
    <3>1. proc[p].at \in 1..Len(InputsOf(p))
      BY <1>2, <1>3, <1>4, <2>1, InputsFacts DEF PlayerAt
    <3>2. Uri(p) = UriAt(p, proc[p].at)
      BY <2>1 DEF Uri, UriAt
    <3> QED BY <2>1, <3>1, <3>2, InputsFacts DEF UrisOf
  <2>2. CASE p \in Writers
    BY <1>3, <2>2, RemoteAssumption DEF Uri
  <2> QED BY <2>1, <2>2 DEF Procs
<1> QED BY <1>1, <1>2, <1>3, <1>4

LEMMA BindFacts ==
  ASSUME NEW f, NEW x, NEW v
  PROVE  /\ DOMAIN Bind(f, x, v) = DOMAIN f \cup {x}
         /\ Bind(f, x, v)[x] = v
         /\ \A y \in DOMAIN f : y # x => Bind(f, x, v)[y] = f[y]
BY DEF Bind

LEMMA BindFetches ==
  ASSUME NEW f \in Fetches, NEW u \in Uris, NEW c \in Contents
  PROVE  Bind(f, u, c) \in Fetches
<1>1. PICK us \in SUBSET Uris : f \in [us -> Contents]
  BY DEF Fetches
<1>2. Bind(f, u, c) \in [us \cup {u} -> Contents]
  BY <1>1 DEF Bind
<1>3. us \cup {u} \in SUBSET Uris
  OBVIOUS
<1> QED BY <1>2, <1>3 DEF Fetches

\* A player goes on with what it has fetched: also for an input whose object it has.
LEMMA AdvanceInv ==
  ASSUME RemoteInv, NEW p \in Players, NEW after \in ProcType, Advance(p, after),
         proc[p].pc \in {"fetch", "write"},
         after.at = proc[p].at, after.seen = proc[p].seen, after.why = "none",
         Uri(p) \in DOMAIN after.fetched,
         DOMAIN after.fetched = DOMAIN Fetched(p) \cup {Uri(p)},
         \A u \in DOMAIN after.fetched : ScratchPath(u) \in DOMAIN scratch,
         \A u \in DOMAIN Fetched(p) : after.fetched[u] = Fetched(p)[u],
         ~touched[p] => \A u \in DOMAIN after.fetched : scratch[ScratchPath(u)] = after.fetched[u],
         UNCHANGED <<object, scratch, touched>>
  PROVE  RemoteInv'
<1> DEFINE n == Len(InputsOf(p))
           at == proc[p].at
           r == [after EXCEPT !.at = IF @ < n THEN @ + 1 ELSE 1,
                              !.pc = IF after.at < n THEN "fetch" ELSE "read"]
<1>1. p \in Procs /\ n \in Nat \ {0} /\ p \notin Writers
  BY InputsFacts, RemoteAssumption DEF Procs
<1>2. PlayerAt(p) /\ SeenRight(p) /\ at \in Nat \ {0} /\ at <= n
  BY <1>1, ProcFacts DEF PlayerAt
<1>3. proc' = [proc EXCEPT ![p] = r]
  BY DEF Advance
<1>4. /\ r.at = IF at < n THEN at + 1 ELSE 1
      /\ r.pc = IF at < n THEN "fetch" ELSE "read"
      /\ r.why = "none" /\ r.fetched = after.fetched /\ r.seen = proc[p].seen
  BY DEF ProcType
<1>5. r \in ProcType
  <2> DEFINE x == IF after.at < n THEN after.at + 1 ELSE 1
             y == IF after.at < n THEN "fetch" ELSE "read"
  <2>1. x \in Nat \ {0} /\ y \in {"fetch", "read"}
    BY <1>1, <1>2
  <2>2. r = [after EXCEPT !.at = x, !.pc = y]
    OBVIOUS
  <2> HIDE DEF x, y, r
  <2> QED BY <2>1, <2>2 DEF ProcType
<1> HIDE DEF r
<1>6. proc'[p] = r
  BY <1>1, <1>3 DEF RemoteInv, RemoteTypes
<1>7. Uri(p) = UriAt(p, at)
  BY DEF Uri, UriAt
<1>8. DOMAIN r.fetched = {UriAt(p, i) : i \in 1..at}
  <2>1. DOMAIN Fetched(p) = {UriAt(p, i) : i \in 1..(at-1)}
    BY <1>2 DEF PlayerAt
  <2>2. \A i : i \in 1..at <=> i \in 1..(at-1) \/ i = at
    BY <1>2
  <2> QED BY <1>4, <1>7, <2>1, <2>2
<1>9. Fetched(p)' = r.fetched
  BY <1>6 DEF Fetched
<1>10. PlayerAt(p)'
  <2>1. CASE at < n
    <3>1. (at + 1) - 1 = at /\ at + 1 <= n
      BY <1>1, <1>2, <2>1
    <3> QED BY <1>4, <1>6, <1>8, <1>9, <2>1, <3>1 DEF PlayerAt
  <2>2. CASE ~(at < n)
    <3>1. at = n
      BY <1>1, <1>2, <2>2
    <3>2. DOMAIN r.fetched = UrisOf(p) /\ 1 <= Len(Reads(p))
      BY <1>8, <3>1, ReadsFacts DEF UrisOf
    <3> QED BY <1>4, <1>6, <1>9, <2>2, <3>2 DEF PlayerAt
  <2> QED BY <2>1, <2>2
<1>11. Placed(p)'
  BY <1>1, <1>4, <1>6, <1>9, <1>10 DEF Placed
<1>12. Undisturbed(p)'
  BY <1>4, <1>6, <1>9 DEF Undisturbed
<1>13. SeenRight(p)'
  <2> SUFFICES ASSUME ~touched[p] PROVE SeenRight(p)'
    BY DEF SeenRight
  <2>1. \A s \in proc[p].seen : s.uri \in DOMAIN Fetched(p) /\ s.content = Part(s.part, Fetched(p)[s.uri])
    BY <1>2 DEF SeenRight
  <2>2. r.pc \in {"read", "playing"} => 1..(r.at - 1) = {}
    BY <1>1, <1>2, <1>4
  <2>3. \A s \in proc[p].seen : s.uri \in DOMAIN r.fetched /\ s.content = Part(s.part, r.fetched[s.uri])
    BY <1>4, <2>1
  <2> QED BY <1>4, <1>6, <1>9, <2>2, <2>3 DEF SeenRight
<1>14. ProcInv(p)'
  BY <1>1, <1>11, <1>12, <1>13 DEF ProcInv
<1>15. FilesFrom(p) /\ object' \in [Uris -> Contents \cup {NoObject}]
  BY DEF FilesFrom, RemoteInv, RemoteTypes
<1> QED BY <1>1, <1>3, <1>5, <1>14, <1>15, StepInv

LEMMA GetInv ==
  ASSUME RemoteInv, NEW p \in Procs, Get(p)
  PROVE  RemoteInv'
<1>1. p \in Players /\ proc[p].pc = "fetch" /\ UNCHANGED <<object, scratch, touched>>
  BY DEF Get
<1>2. PlayerAt(p) /\ SeenRight(p) /\ p \notin Writers /\ proc[p] \in ProcType /\ ProcInv(p) /\ Uri(p) \in Uris
  BY <1>1, ProcFacts
<1>3. proc[p].why = "none"
  BY <1>1, <1>2 DEF PlayerAt
<1>4. CASE Uri(p) \in DOMAIN proc[p].fetched /\ Advance(p, proc[p])
  <2>1. \A u \in DOMAIN Fetched(p) : ScratchPath(u) \in DOMAIN scratch
    BY <1>2 DEF ProcInv, Placed
  <2>2. ~touched[p] => \A u \in DOMAIN Fetched(p) : scratch[ScratchPath(u)] = Fetched(p)[u]
    BY <1>1, <1>2 DEF ProcInv, Undisturbed
  <2> QED BY <1>1, <1>2, <1>3, <1>4, <2>1, <2>2, AdvanceInv DEF Fetched
<1>5. FilesFrom(p) /\ object' \in [Uris -> Contents \cup {NoObject}]
  BY <1>1 DEF FilesFrom, RemoteInv, RemoteTypes
<1>6. CASE Uri(p) \notin DOMAIN proc[p].fetched /\ object[Uri(p)] = NoObject /\ Fails(p, "absent")
  <2> DEFINE r == [proc[p] EXCEPT !.pc = "failed", !.why = "absent"]
  <2>1. /\ r.pc = "failed" /\ r.why = "absent" /\ r.at = proc[p].at /\ r.fetched = proc[p].fetched
        /\ r.seen = proc[p].seen /\ r.got = proc[p].got /\ r \in ProcType
    BY <1>2 DEF ProcType
  <2>2. proc' = [proc EXCEPT ![p] = r]
    BY <1>6 DEF Fails, RemoteInv, RemoteTypes
  <2> HIDE DEF r
  <2>3. proc'[p] = r
    BY <2>2 DEF RemoteInv, RemoteTypes
  <2>4. Placed(p)'
    BY <1>1, <1>2, <2>1, <2>3 DEF Placed, PlayerAt, Fetched, ProcInv
  <2>5. Undisturbed(p)' /\ SeenRight(p)'
    BY <1>1, <1>2, <2>1, <2>3 DEF Undisturbed, SeenRight, Fetched
  <2>6. ProcInv(p)'
    BY <1>2, <2>4, <2>5 DEF ProcInv
  <2> QED BY <1>5, <2>1, <2>2, <2>6, StepInv
<1>7. CASE /\ Uri(p) \notin DOMAIN proc[p].fetched /\ object[Uri(p)] # NoObject
           /\ proc' = [proc EXCEPT ![p].pc = "create", ![p].got = object[Uri(p)]]
  <2> DEFINE r == [proc[p] EXCEPT !.pc = "create", !.got = object[Uri(p)]]
  <2>0. object[Uri(p)] \in Contents
    BY <1>2, <1>7 DEF RemoteInv, RemoteTypes
  <2>1. /\ r.pc = "create" /\ r.why = proc[p].why /\ r.at = proc[p].at /\ r.fetched = proc[p].fetched
        /\ r.seen = proc[p].seen /\ r.got = object[Uri(p)] /\ r \in ProcType
    BY <1>2, <2>0 DEF ProcType
  <2>2. proc' = [proc EXCEPT ![p] = r]
    BY <1>7 DEF RemoteInv, RemoteTypes
  <2> HIDE DEF r
  <2>3. proc'[p] = r
    BY <2>2 DEF RemoteInv, RemoteTypes
  <2>4. Uri(p)' = Uri(p)
    BY <2>1, <2>3 DEF Uri
  <2>5. Placed(p)'
    BY <1>1, <1>2, <1>7, <2>1, <2>3, <2>4 DEF Placed, PlayerAt, Fetched, ProcInv
  <2>6. Undisturbed(p)' /\ SeenRight(p)'
    BY <1>1, <1>2, <1>3, <2>1, <2>3 DEF Undisturbed, SeenRight, Fetched, ProcInv
  <2>7. ProcInv(p)'
    BY <1>2, <2>5, <2>6 DEF ProcInv
  <2> QED BY <1>5, <2>1, <2>2, <2>7, StepInv
<1> QED BY <1>4, <1>6, <1>7 DEF Get

LEMMA CreateInv ==
  ASSUME RemoteInv, NEW p \in Procs, Create(p)
  PROVE  RemoteInv'
<1> DEFINE r == [proc[p] EXCEPT !.pc = "write", !.offset = 0]
<1>1. /\ proc[p].pc = "create" /\ object' = object /\ Changes(p, Uri(p), << >>)
      /\ proc' = [proc EXCEPT ![p] = r]
  BY DEF Create, RemoteInv, RemoteTypes
<1>2. proc[p] \in ProcType /\ ProcInv(p) /\ Uri(p) \in Uris /\ proc[p].got \in Contents
  BY <1>1, ProcFacts
<1>3. /\ r.pc = "write" /\ r.why = proc[p].why /\ r.at = proc[p].at /\ r.fetched = proc[p].fetched
      /\ r.seen = proc[p].seen /\ r.got = proc[p].got /\ r.offset = 0 /\ r \in ProcType
  BY <1>2 DEF ProcType
<1> HIDE DEF r
<1>4. proc'[p] = r
  BY <1>1 DEF RemoteInv, RemoteTypes
<1>5. Uri(p)' = Uri(p) /\ Fetched(p)' = Fetched(p)
  BY <1>3, <1>4 DEF Uri, Fetched
<1>6. << >> \in Contents /\ Len(<< >>) = 0 /\ 1..0 = {} /\ Len(proc[p].got) \in Nat
  BY <1>2 DEF Contents
<1>7. FilesFrom(p) /\ object' \in [Uris -> Contents \cup {NoObject}]
  BY <1>1, <1>2, <1>6 DEF FilesFrom, RemoteInv, RemoteTypes
<1>8. /\ scratch' = Bind(scratch, ScratchPath(Uri(p)), << >>) /\ touched'[p] = touched[p]
  BY <1>1, <1>7, FilesKept DEF Changes, RemoteInv
<1>9. /\ scratch'[ScratchPath(Uri(p))] = << >>
      /\ DOMAIN scratch' = DOMAIN scratch \cup {ScratchPath(Uri(p))}
      /\ \A f \in DOMAIN scratch : f # ScratchPath(Uri(p)) => scratch'[f] = scratch[f]
  BY <1>8 DEF Bind
<1>10. Uri(p) \notin DOMAIN Fetched(p)
  BY <1>1, <1>2, ProcFacts DEF PlayerAt, WriterAt, Fetched, Procs
<1>11. Placed(p)'
  <2>1. p \in Players => PlayerAt(p)'
    BY <1>1, <1>2, <1>3, <1>4, <1>5 DEF PlayerAt, ProcInv, Placed
  <2>2. p \in Writers => WriterAt(p)'
    BY <1>1, <1>2, <1>3, <1>4 DEF WriterAt, ProcInv, Placed
  <2> QED BY <1>2, <1>3, <1>4, <1>5, <1>6, <1>9, <2>1, <2>2 DEF Placed, ProcInv
<1>12. \A u \in DOMAIN Fetched(p) : scratch'[ScratchPath(u)] = scratch[ScratchPath(u)]
  BY <1>2, <1>9, <1>10, PathsDiffer DEF ProcInv, Placed
<1>13. Undisturbed(p)'
  BY <1>1, <1>2, <1>3, <1>4, <1>5, <1>6, <1>8, <1>9, <1>12 DEF Undisturbed, ProcInv
<1>14. (p \in Players => SeenRight(p)') /\ (p \in Writers => PutRight(p)')
  BY <1>1, <1>2, <1>3, <1>4, <1>5, <1>8 DEF SeenRight, PutRight, ProcInv
<1>15. ProcInv(p)'
  BY <1>11, <1>13, <1>14 DEF ProcInv
<1> QED BY <1>1, <1>3, <1>7, <1>15, StepInv

\* What is put at the end of the file continues it.
LEMMA PutFacts ==
  ASSUME NEW content \in Contents, NEW k \in Nat \ {0}, NEW piece \in Pieces
  PROVE  /\ Put(content, k, piece) \in Contents
         /\ k = Len(content) + 1 => /\ Len(Put(content, k, piece)) = k
                                    /\ Put(content, k, piece)[k] = piece
                                    /\ \A i \in 1..Len(content) : Put(content, k, piece)[i] = content[i]
<1> DEFINE n == IF k > Len(content) THEN k ELSE Len(content)
           f == Put(content, k, piece)
<1>1. Len(content) \in Nat /\ DOMAIN content = 1..Len(content) /\ \A i \in 1..Len(content) : content[i] \in Pieces
  BY DEF Contents
<1>2. n \in Nat /\ k \in 1..n /\ Len(content) <= n
  BY <1>1
<1>3. f = [i \in 1..n |-> IF i = k THEN piece ELSE IF i <= Len(content) THEN content[i] ELSE Hole]
  BY DEF Put
<1> HIDE DEF n, f
<1>4. \A i \in 1..n : f[i] \in Pieces
  BY <1>1, <1>2, <1>3 DEF Pieces
<1>5. f \in [1..n -> Pieces]
  BY <1>3, <1>4
<1>6. f \in Contents /\ Len(f) = n
  BY <1>2, <1>5, MappedSeq DEF Contents
<1>7. f[k] = piece
  BY <1>2, <1>3
<1>8. ASSUME k = Len(content) + 1
      PROVE  n = k /\ \A i \in 1..Len(content) : f[i] = content[i]
  <2>1. n = k
    BY <1>1, <1>8 DEF n
  <2>2. \A i \in 1..Len(content) : i \in 1..n /\ i # k /\ i <= Len(content)
    BY <1>1, <1>8, <2>1
  <2> QED BY <1>3, <2>1, <2>2
<1> QED BY <1>6, <1>7, <1>8 DEF f

LEMMA WriteInv ==
  ASSUME RemoteInv, NEW p \in Procs, Write(p)
  PROVE  RemoteInv'
<1> DEFINE k == proc[p].offset + 1
           path == ScratchPath(Uri(p))
           got == proc[p].got
           new == Put(scratch[path], k, got[k])
           r == [proc[p] EXCEPT !.offset = k]
<1>1. /\ proc[p].pc = "write" /\ object' = object /\ Changes(p, Uri(p), new) /\ k <= Len(got)
      /\ proc' = [proc EXCEPT ![p] = r]
  BY DEF Write, RemoteInv, RemoteTypes
<1>2. proc[p] \in ProcType /\ ProcInv(p) /\ Uri(p) \in Uris /\ got \in Contents /\ k \in Nat \ {0}
  BY <1>1, ProcFacts
<1>3. path \in DOMAIN scratch /\ scratch[path] \in Contents
  BY <1>1, <1>2 DEF ProcInv, Placed, RemoteInv, RemoteTypes
<1>4. k \in 1..Len(got) /\ got[k] \in Pieces
  <2>1. Len(got) \in Nat /\ \A i \in 1..Len(got) : got[i] \in Pieces
    BY <1>2 DEF Contents
  <2> QED BY <1>1, <1>2, <2>1
<1>5. new \in Contents
  BY <1>2, <1>3, <1>4, PutFacts
<1>6. /\ r.pc = "write" /\ r.why = proc[p].why /\ r.at = proc[p].at /\ r.fetched = proc[p].fetched
      /\ r.seen = proc[p].seen /\ r.got = got /\ r.offset = k /\ r \in ProcType
  BY <1>1, <1>2 DEF ProcType
<1> HIDE DEF r
<1>7. proc'[p] = r
  BY <1>1 DEF RemoteInv, RemoteTypes
<1>8. Uri(p)' = Uri(p) /\ Fetched(p)' = Fetched(p)
  BY <1>6, <1>7 DEF Uri, Fetched
<1>9. FilesFrom(p) /\ object' \in [Uris -> Contents \cup {NoObject}]
  BY <1>1, <1>2, <1>5 DEF FilesFrom, RemoteInv, RemoteTypes
<1>10. touched'[p] = touched[p]
  BY <1>9, FilesKept DEF RemoteInv
<1>11. /\ scratch'[path] = new
       /\ DOMAIN scratch' = DOMAIN scratch \cup {path}
       /\ \A f \in DOMAIN scratch : f # path => scratch'[f] = scratch[f]
  <2> HIDE DEF new, path
  <2>1. scratch' = Bind(scratch, path, new)
    BY <1>1 DEF Changes, path
  <2> QED BY <2>1 DEF Bind
<1>12. Uri(p) \notin DOMAIN Fetched(p)
  BY <1>1, <1>2, ProcFacts DEF PlayerAt, WriterAt, Fetched, Procs
<1>13. Placed(p)'
  <2>1. p \in Players => PlayerAt(p)'
    BY <1>1, <1>2, <1>6, <1>7, <1>8 DEF PlayerAt, ProcInv, Placed
  <2>2. p \in Writers => WriterAt(p)'
    BY <1>1, <1>2, <1>6, <1>7 DEF WriterAt, ProcInv, Placed
  <2> QED BY <1>1, <1>2, <1>6, <1>7, <1>8, <1>11, <2>1, <2>2 DEF Placed, ProcInv
<1>14. \A u \in DOMAIN Fetched(p) : scratch'[ScratchPath(u)] = scratch[ScratchPath(u)]
  BY <1>2, <1>11, <1>12, PathsDiffer DEF ProcInv, Placed
<1>15. ASSUME ~touched[p]
       PROVE  Len(new) = k /\ \A i \in 1..Len(new) : new[i] = got[i]
  <2> DEFINE old == scratch[path]
  <2>1. Len(old) = proc[p].offset /\ \A i \in 1..Len(old) : old[i] = got[i]
    BY <1>1, <1>2, <1>15 DEF ProcInv, Undisturbed
  <2>2. k = Len(old) + 1 /\ old \in Contents
    BY <1>3, <2>1
  <2> HIDE DEF old, k
  <2>3. Len(new) = k /\ new[k] = got[k] /\ \A i \in 1..Len(old) : new[i] = old[i]
    BY <1>2, <1>4, <2>2, PutFacts DEF old
  <2>4. \A i \in 1..k : i \in 1..Len(old) \/ i = k
    <3>1. Len(old) \in Nat
      BY <2>2 DEF Contents
    <3> QED BY <2>2, <3>1
  <2> HIDE DEF new, got
  <2> QED BY <2>1, <2>3, <2>4
<1> HIDE DEF new, path, got, k
<1>16. Undisturbed(p)'
  <2> SUFFICES ASSUME ~touched[p] PROVE Undisturbed(p)'
    BY <1>10 DEF Undisturbed
  <2>1. scratch'[ScratchPath(Uri(p)')] = new
    BY <1>8, <1>11 DEF path
  <2>2. \A u \in DOMAIN Fetched(p) : scratch[ScratchPath(u)] = Fetched(p)[u]
    BY <1>1, <1>2 DEF Undisturbed, ProcInv
  <2>3. ScratchPath(Uri(p))' = path
    BY <1>8 DEF path, ScratchPath
  <2> QED BY <1>6, <1>7, <1>8, <1>11, <1>14, <1>15, <2>2, <2>3 DEF Undisturbed
<1>17. (p \in Players => SeenRight(p)') /\ (p \in Writers => PutRight(p)')
  BY <1>1, <1>2, <1>6, <1>7, <1>8, <1>10 DEF SeenRight, PutRight, ProcInv
<1>18. ProcInv(p)'
  BY <1>13, <1>16, <1>17 DEF ProcInv
<1> QED BY <1>1, <1>6, <1>9, <1>18, StepInv

LEMMA WrittenInv ==
  ASSUME RemoteInv, NEW p \in Procs, Written(p)
  PROVE  RemoteInv'
<1> DEFINE got == proc[p].got
           path == ScratchPath(Uri(p))
<1>1. proc[p].pc = "write" /\ proc[p].offset = Len(got) /\ UNCHANGED <<object, scratch, touched>>
  BY DEF Written
<1>2. /\ proc[p] \in ProcType /\ ProcInv(p) /\ Uri(p) \in Uris /\ got \in Contents
      /\ proc[p].fetched \in Fetches /\ proc[p].at \in Nat \ {0}
  BY <1>1, ProcFacts
<1>3. path \in DOMAIN scratch /\ scratch[path] \in Contents
  BY <1>1, <1>2 DEF ProcInv, Placed, RemoteInv, RemoteTypes
<1>4. ~touched[p] => scratch[path] = got
  <2> SUFFICES ASSUME ~touched[p] PROVE scratch[path] = got
    OBVIOUS
  <2>1. Len(scratch[path]) = Len(got) /\ \A i \in 1..Len(scratch[path]) : scratch[path][i] = got[i]
    BY <1>1, <1>2 DEF ProcInv, Undisturbed
  <2>2. scratch[path] \in Seq(Pieces) /\ got \in Seq(Pieces)
    BY <1>2, <1>3 DEF Contents
  <2> HIDE DEF got, path
  <2> QED BY <2>1, <2>2, SeqEqual
<1>5. CASE p \in Players /\ Advance(p, [proc[p] EXCEPT !.fetched = Bind(@, Uri(p), got)])
  <2> DEFINE new == Bind(proc[p].fetched, Uri(p), got)
             after == [proc[p] EXCEPT !.fetched = new]
  <2>1. PlayerAt(p) /\ SeenRight(p)
    BY <1>5, ProcFacts, <1>2
  <2>2. new \in Fetches
    BY <1>2, BindFetches
  <2>3. /\ DOMAIN new = DOMAIN Fetched(p) \cup {Uri(p)} /\ new[Uri(p)] = got
        /\ \A u \in DOMAIN Fetched(p) : u # Uri(p) => new[u] = Fetched(p)[u]
    BY DEF Bind, Fetched
  <2>4. Uri(p) \notin DOMAIN Fetched(p)
    BY <1>1, <2>1 DEF PlayerAt
  <2> HIDE DEF new, got
  <2>5. /\ after.at = proc[p].at /\ after.seen = proc[p].seen /\ after.why = proc[p].why
        /\ after.fetched = new /\ after \in ProcType
    BY <1>2, <2>2 DEF ProcType
  <2>6. after.why = "none"
    BY <1>1, <2>1, <2>5 DEF PlayerAt
  <2>7. \A u \in DOMAIN new : ScratchPath(u) \in DOMAIN scratch
    BY <1>2, <1>3, <2>3 DEF ProcInv, Placed
  <2>8. ~touched[p] => \A u \in DOMAIN new : scratch[ScratchPath(u)] = new[u]
    <3> SUFFICES ASSUME ~touched[p], NEW u \in DOMAIN new PROVE scratch[ScratchPath(u)] = new[u]
      OBVIOUS
    <3>1. \A v \in DOMAIN Fetched(p) : scratch[ScratchPath(v)] = Fetched(p)[v]
      BY <1>1, <1>2 DEF ProcInv, Undisturbed
    <3>2. CASE u = Uri(p)
      BY <1>4, <2>3, <3>2
    <3>3. CASE u # Uri(p)
      BY <2>3, <3>1, <3>3
    <3> QED BY <3>2, <3>3
  <2>9. Advance(p, after)
    BY <1>5 DEF new
  <2>10. \A u \in DOMAIN Fetched(p) : new[u] = Fetched(p)[u]
    BY <2>3, <2>4
  <2> HIDE DEF after
  <2> QED BY <1>1, <1>5, <2>3, <2>5, <2>6, <2>7, <2>8, <2>9, <2>10, AdvanceInv
<1>6. CASE p \notin Players /\ proc' = [proc EXCEPT ![p].pc = "upload"]
  <2> DEFINE r == [proc[p] EXCEPT !.pc = "upload"]
  <2>1. p \in Writers /\ WriterAt(p) /\ got = Whole(p)
    BY <1>1, <1>2, <1>6 DEF Procs, ProcInv, Placed, WriterAt
  <2>2. /\ r.pc = "upload" /\ r.at = proc[p].at /\ r.fetched = proc[p].fetched
        /\ r.got = got /\ r \in ProcType
    BY <1>2 DEF ProcType
  <2>3. proc' = [proc EXCEPT ![p] = r]
    BY <1>6 DEF RemoteInv, RemoteTypes
  <2> HIDE DEF r
  <2>4. proc'[p] = r
    BY <2>3 DEF RemoteInv, RemoteTypes
  <2>5. Uri(p)' = Uri(p) /\ Fetched(p)' = Fetched(p) /\ ScratchPath(Uri(p))' = path
    BY <1>6, <2>2, <2>4 DEF Uri, Fetched, ScratchPath
  <2>6. Placed(p)'
    BY <1>1, <1>2, <1>3, <1>6, <2>1, <2>2, <2>4, <2>5 DEF Placed, WriterAt, ProcInv, Fetched
  <2>7. Undisturbed(p)'
    BY <1>1, <1>2, <1>4, <2>1, <2>2, <2>4, <2>5 DEF Undisturbed, ProcInv, WriterAt
  <2>8. PutRight(p)'
    BY <2>2, <2>4 DEF PutRight
  <2>9. ProcInv(p)'
    BY <1>6, <2>6, <2>7, <2>8 DEF ProcInv
  <2>10. FilesFrom(p) /\ object' \in [Uris -> Contents \cup {NoObject}]
    BY <1>1 DEF FilesFrom, RemoteInv, RemoteTypes
  <2> QED BY <2>2, <2>3, <2>9, <2>10, StepInv
<1> QED BY <1>5, <1>6 DEF Written

\* A process that fails keeps what it holds.
LEMMA FailsInv ==
  ASSUME RemoteInv, NEW p \in Procs, NEW why \in {"absent", "disk", "hash", "unreadable"}, Fails(p, why),
         UNCHANGED <<object, scratch, touched>>,
         ~touched[p] /\ why = "unreadable" => \E u \in DOMAIN Fetched(p) : ~Readable(Fetched(p)[u]),
         ~touched[p] /\ why = "hash" => \E u \in DOMAIN Fetched(p) : ~HashMatches(p, Fetched(p)[u])
  PROVE  RemoteInv'
<1> DEFINE r == [proc[p] EXCEPT !.pc = "failed", !.why = why]
<1>1. proc[p] \in ProcType /\ ProcInv(p)
  BY ProcFacts
<1>2. /\ r.pc = "failed" /\ r.why = why /\ r.at = proc[p].at /\ r.fetched = proc[p].fetched
      /\ r.seen = proc[p].seen /\ r.got = proc[p].got /\ r \in ProcType
  BY <1>1 DEF ProcType
<1>3. proc' = [proc EXCEPT ![p] = r]
  BY DEF Fails, RemoteInv, RemoteTypes
<1> HIDE DEF r
<1>4. proc'[p] = r
  BY <1>3 DEF RemoteInv, RemoteTypes
<1>5. Fetched(p)' = Fetched(p)
  BY <1>2, <1>4 DEF Fetched
<1>6. Placed(p)'
  BY <1>1, <1>2, <1>4, <1>5 DEF Placed, PlayerAt, WriterAt, ProcInv, Fetched
<1>7. Undisturbed(p)'
  BY <1>2, <1>4 DEF Undisturbed
<1>8. p \in Players => SeenRight(p)'
  BY <1>1, <1>2, <1>4, <1>5 DEF SeenRight, ProcInv
<1>9. PutRight(p)'
  BY <1>2, <1>4 DEF PutRight
<1>10. ProcInv(p)'
  BY <1>6, <1>7, <1>8, <1>9 DEF ProcInv
<1>11. FilesFrom(p) /\ object' \in [Uris -> Contents \cup {NoObject}]
  BY DEF FilesFrom, RemoteInv, RemoteTypes
<1> QED BY <1>2, <1>3, <1>10, <1>11, StepInv

LEMMA ReadInv ==
  ASSUME RemoteInv, NEW p \in Procs, Read(p)
  PROVE  RemoteInv'
<1> DEFINE at == proc[p].at
           q == Reads(p)[at]
           u == Inputs[p][q.field]
           content == scratch[ScratchPath(u)]
           one == IF q.part = "header" THEN SubSeq(content, 1, 1) ELSE content
           new == [uri |-> u, part |-> q.part, content |-> one]
           r == [proc[p] EXCEPT !.seen = @ \cup {new}, !.at = @ + 1,
                                !.pc = IF at = Len(Reads(p)) THEN "playing" ELSE "read"]
<1>1. p \in Players /\ proc[p].pc = "read" /\ UNCHANGED <<object, scratch, touched>>
  BY DEF Read
<1>2. /\ proc[p] \in ProcType /\ ProcInv(p) /\ PlayerAt(p) /\ SeenRight(p) /\ p \notin Writers
      /\ at \in Nat \ {0} /\ proc[p].seen \subseteq Seens
  BY <1>1, ProcFacts
<1>3. at \in 1..Len(Reads(p)) /\ Len(Reads(p)) \in Nat /\ proc[p].why = "none" /\ DOMAIN Fetched(p) = UrisOf(p)
  BY <1>1, <1>2, ReadsFacts DEF PlayerAt
<1>4. q \in ReadOf(p)
  BY <1>1, <1>3, ReadsFacts
<1>5. q.part \in {"records", "header"} /\ u \in UrisOf(p)
  BY <1>4 DEF ReadOf, UrisOf, UriAt
<1>6. u \in Uris /\ u \in DOMAIN Fetched(p) /\ content \in Contents
  BY <1>1, <1>2, <1>3, <1>5, InputsFacts DEF ProcInv, Placed, RemoteInv, RemoteTypes
<1>7. ~touched[p] => content = Fetched(p)[u]
  BY <1>1, <1>2, <1>6 DEF ProcInv, Undisturbed
<1> HIDE DEF at, q, u, content
<1>8. CASE q.part = "header" /\ ~HashMatches(p, content) /\ Fails(p, "hash")
  BY <1>1, <1>6, <1>7, <1>8, FailsInv
<1>9. CASE q.part = "records" /\ ~Readable(content) /\ Fails(p, "unreadable")
  BY <1>1, <1>6, <1>7, <1>9, FailsInv
<1>10. CASE (q.part = "header" => HashMatches(p, content)) /\ proc' = [proc EXCEPT ![p] = r]
  <2>1. one \in Contents
    <3>1. CASE q.part = "header"
      <4>1. content # << >> /\ content \in Seq(Pieces)
        BY <1>6, <1>10, <3>1 DEF HashMatches, Contents
      <4>2. \A i \in 1..1 : content[i] \in Pieces
        BY <4>1
      <4>3. SubSeq(content, 1, 1) \in Seq(Pieces)
        BY <4>2, SubSeqProperties
      <4> QED BY <3>1, <4>3 DEF Contents
    <3> QED BY <1>6, <3>1
  <2> HIDE DEF one
  <2>2. new \in Seens
    BY <1>5, <1>6, <2>1 DEF Seens
  <2>3. /\ r.seen = proc[p].seen \cup {new} /\ r.at = at + 1 /\ r.fetched = proc[p].fetched /\ r.got = proc[p].got
        /\ r.pc = (IF at = Len(Reads(p)) THEN "playing" ELSE "read") /\ r.why = "none"
    BY <1>2, <1>3 DEF ProcType, at
  <2>4. r \in ProcType
    <3> DEFINE seen == proc[p].seen \cup {new}
               pc == IF at = Len(Reads(p)) THEN "playing" ELSE "read"
               next == proc[p].at + 1
    <3>1. seen \in SUBSET Seens /\ pc \in {"playing", "read"} /\ next \in Nat \ {0}
      BY <1>2, <2>2 DEF at
    <3>2. r = [proc[p] EXCEPT !.seen = seen, !.at = next, !.pc = pc]
      OBVIOUS
    <3> HIDE DEF seen, pc, next, r, new
    <3> QED BY <1>2, <3>1, <3>2 DEF ProcType
  <2>5. new.uri = u /\ new.part = q.part /\ new.content = one
    OBVIOUS
  <2> HIDE DEF r, new
  <2>6. proc'[p] = r /\ Fetched(p)' = Fetched(p)
    BY <1>10, <2>3 DEF RemoteInv, RemoteTypes, Fetched
  <2>7. PlayerAt(p)'
    <3>1. at = Len(Reads(p)) => at + 1 = Len(Reads(p)) + 1
      OBVIOUS
    <3>2. at # Len(Reads(p)) => at + 1 <= Len(Reads(p))
      BY <1>3
    <3> QED BY <1>1, <1>3, <2>3, <2>6, <3>1, <3>2 DEF PlayerAt
  <2>8. Placed(p)'
    BY <1>1, <1>2, <2>3, <2>6, <2>7 DEF Placed, ProcInv
  <2>9. Undisturbed(p)'
    BY <1>1, <1>2, <2>3, <2>6 DEF Undisturbed, ProcInv
  <2>10. SeenRight(p)'
    <3> SUFFICES ASSUME ~touched[p] PROVE SeenRight(p)'
      BY <1>1 DEF SeenRight
    <3>1. \A s \in proc[p].seen : s.uri \in DOMAIN Fetched(p) /\ s.content = Part(s.part, Fetched(p)[s.uri])
      BY <1>2 DEF SeenRight
    <3>2. new.uri \in DOMAIN Fetched(p) /\ new.content = Part(new.part, Fetched(p)[new.uri])
      BY <1>6, <1>7, <2>5 DEF Part, one
    <3>3. \A k \in 1..(r.at - 1) : HeaderAt(p, k)
      <4>1. \A k \in 1..(r.at - 1) : k \in 1..(at - 1) \/ k = at
        BY <1>2, <2>3
      <4>2. \A k \in 1..(at - 1) : HeaderAt(p, k)
        BY <1>1, <1>2 DEF SeenRight, at
      <4>3. HeaderAt(p, at)
        BY <1>7, <1>10 DEF HeaderAt, q, u
      <4> QED BY <4>1, <4>2, <4>3
    <3>4. \A k : HeaderAt(p, k)' <=> HeaderAt(p, k)
      BY <2>6 DEF HeaderAt
    <3> QED BY <2>3, <2>6, <3>1, <3>2, <3>3, <3>4 DEF SeenRight
  <2>11. ProcInv(p)'
    BY <1>2, <2>8, <2>9, <2>10 DEF ProcInv
  <2>12. FilesFrom(p) /\ object' \in [Uris -> Contents \cup {NoObject}]
    BY <1>1 DEF FilesFrom, RemoteInv, RemoteTypes
  <2> QED BY <1>10, <2>4, <2>11, <2>12, StepInv
<1>11. \/ q.part = "header" /\ ~HashMatches(p, content) /\ Fails(p, "hash")
       \/ q.part = "records" /\ ~Readable(content) /\ Fails(p, "unreadable")
       \/ (q.part = "header" => HashMatches(p, content)) /\ proc' = [proc EXCEPT ![p] = r]
  BY DEF Read, RemoteInv, RemoteTypes, at, q, u, content
<1> QED BY <1>8, <1>9, <1>10, <1>11

LEMMA UploadInv ==
  ASSUME RemoteInv, NEW p \in Procs, Upload(p)
  PROVE  RemoteInv'
<1> DEFINE put == scratch[ScratchPath(Target[p])]
           r == [proc[p] EXCEPT !.pc = "put", !.got = put]
<1>1. proc[p].pc = "upload" /\ UNCHANGED <<object, scratch, touched>>
  BY DEF Upload
<1>2. proc[p] \in ProcType /\ ProcInv(p)
  BY ProcFacts
<1>3. p \in Writers /\ p \notin Players /\ Uri(p) = Target[p] /\ WriterAt(p)
  BY <1>1, <1>2, ProcFacts DEF PlayerAt, Procs, Uri
<1>4. put \in Contents /\ (~touched[p] => put = Whole(p))
  BY <1>1, <1>2, <1>3 DEF ProcInv, Placed, Undisturbed, RemoteInv, RemoteTypes
<1> HIDE DEF put
<1>5. r.pc = "put" /\ r.at = proc[p].at /\ r.fetched = proc[p].fetched /\ r.got = put /\ r \in ProcType
  BY <1>2, <1>4 DEF ProcType
<1>6. proc' = [proc EXCEPT ![p] = r]
  BY DEF Upload, RemoteInv, RemoteTypes, put
<1> HIDE DEF r
<1>7. proc'[p] = r /\ Fetched(p)' = Fetched(p)
  BY <1>5, <1>6 DEF RemoteInv, RemoteTypes, Fetched
<1>8. Placed(p)' /\ Undisturbed(p)' /\ PutRight(p)'
  BY <1>1, <1>2, <1>3, <1>4, <1>5, <1>7 DEF Placed, WriterAt, Undisturbed, PutRight, ProcInv, Fetched
<1>9. ProcInv(p)'
  BY <1>3, <1>8 DEF ProcInv
<1>10. FilesFrom(p) /\ object' \in [Uris -> Contents \cup {NoObject}]
  BY <1>1 DEF FilesFrom, RemoteInv, RemoteTypes
<1> QED BY <1>5, <1>6, <1>9, <1>10, StepInv

LEMMA PutObjectInv ==
  ASSUME RemoteInv, NEW p \in Procs, PutObject(p)
  PROVE  RemoteInv'
<1> DEFINE r == [proc[p] EXCEPT !.pc = "done"]
<1>1. proc[p].pc = "put" /\ UNCHANGED <<scratch, touched>> /\ object' = [object EXCEPT ![Target[p]] = proc[p].got]
  BY DEF PutObject
<1>2. proc[p] \in ProcType /\ ProcInv(p) /\ proc[p].got \in Contents
  BY ProcFacts
<1>3. p \in Writers /\ p \notin Players /\ WriterAt(p) /\ PutRight(p)
  BY <1>1, <1>2, ProcFacts DEF PlayerAt, Procs
<1>4. r.pc = "done" /\ r.at = proc[p].at /\ r.fetched = proc[p].fetched /\ r.got = proc[p].got /\ r \in ProcType
  BY <1>2 DEF ProcType
<1>5. proc' = [proc EXCEPT ![p] = r]
  BY DEF PutObject, RemoteInv, RemoteTypes
<1> HIDE DEF r
<1>6. proc'[p] = r /\ Fetched(p)' = Fetched(p)
  BY <1>4, <1>5 DEF RemoteInv, RemoteTypes, Fetched
<1>7. Placed(p)' /\ Undisturbed(p)' /\ PutRight(p)'
  BY <1>1, <1>2, <1>3, <1>4, <1>6 DEF Placed, WriterAt, Undisturbed, PutRight, ProcInv, Fetched
<1>8. ProcInv(p)'
  BY <1>3, <1>7 DEF ProcInv
<1>9. FilesFrom(p) /\ object' \in [Uris -> Contents \cup {NoObject}]
  BY <1>1, <1>2 DEF FilesFrom, RemoteInv, RemoteTypes
<1> QED BY <1>4, <1>5, <1>8, <1>9, StepInv

LEMMA RemoteStepInv == RemoteInv /\ [RemoteStep]_remoteVars => RemoteInv'
<1> SUFFICES ASSUME RemoteInv, [RemoteStep]_remoteVars PROVE RemoteInv'
  OBVIOUS
<1>1. ASSUME NEW p \in Procs, DiskFull(p) PROVE RemoteInv'
  BY <1>1, FailsInv DEF DiskFull
<1>2. CASE UNCHANGED remoteVars
  <2>1. UNCHANGED <<object, scratch, proc, touched>>
    BY <1>2 DEF remoteVars
  <2>2. RemoteTypes' <=> RemoteTypes
    BY <2>1 DEF RemoteTypes
  <2>3. ASSUME NEW p \in Procs PROVE ProcInv(p)' <=> ProcInv(p)
    <3>1. Uri(p)' = Uri(p) /\ Fetched(p)' = Fetched(p) /\ proc'[p] = proc[p]
      BY <2>1 DEF Uri, Fetched
    <3>2. \A k : HeaderAt(p, k)' <=> HeaderAt(p, k)
      BY <3>1 DEF HeaderAt
    <3>3. /\ PlayerAt(p)' <=> PlayerAt(p)
          /\ WriterAt(p)' <=> WriterAt(p)
      BY <3>1 DEF PlayerAt, WriterAt
    <3>4. /\ Placed(p)' <=> Placed(p)
          /\ Undisturbed(p)' <=> Undisturbed(p)
      BY <2>1, <3>1, <3>3 DEF Placed, Undisturbed
    <3>5. /\ SeenRight(p)' <=> SeenRight(p)
          /\ PutRight(p)' <=> PutRight(p)
      BY <2>1, <3>1, <3>2 DEF SeenRight, PutRight
    <3> QED BY <3>4, <3>5 DEF ProcInv
  <2> QED BY <2>2, <2>3 DEF RemoteInv
<1>3. CASE RemoteStep
  BY <1>1, <1>3, GetInv, CreateInv, WriteInv, WrittenInv, ReadInv, UploadInv, PutObjectInv DEF RemoteStep
<1> QED BY <1>2, <1>3

\* The header of an object passes the check if the part of it that was checked does.
LEMMA HeaderMatches ==
  ASSUME NEW p \in Players, NEW content \in Contents, HashMatches(p, content)
  PROVE  HashMatches(p, SubSeq(content, 1, 1))
<1>1. content # << >> /\ content \in Seq(Pieces)
  BY DEF HashMatches, Contents
<1>2. \A i \in 1..1 : content[i] \in Pieces
  BY <1>1
<1>3. SubSeq(content, 1, 1) \in Seq(Pieces) /\ Len(SubSeq(content, 1, 1)) = 1 /\ SubSeq(content, 1, 1)[1] = content[1]
  <2>1. 1 \in 1..(1 - 1 + 1) /\ 1 + 1 - 1 = 1
    OBVIOUS
  <2> QED BY <1>2, <2>1, SubSeqProperties
<1>4. SubSeq(content, 1, 1) # << >>
  <2> DEFINE one == SubSeq(content, 1, 1)
  <2>1. Len(one) = 1 /\ Len(<< >>) = 0
    BY <1>3, EmptySeq
  <2> HIDE DEF one
  <2>2. one # << >>
    BY <2>1
  <2> QED BY <2>2 DEF one
<1> QED BY <1>3, <1>4 DEF HashMatches

LEMMA RemoteInvIntact == RemoteInv => InputsIntact
<1> SUFFICES ASSUME RemoteInv PROVE InputsIntact
  OBVIOUS
<1>1. ASSUME NEW p \in Players, ~touched[p]
      PROVE  /\ \A s \in proc[p].seen : s.content = Part(s.part, Fetched(p)[s.uri])
             /\ proc[p].why = "unreadable" => \E u \in DOMAIN Fetched(p) : ~Readable(Fetched(p)[u])
             /\ proc[p].why = "hash" => \E u \in DOMAIN Fetched(p) : ~HashMatches(p, Fetched(p)[u])
             /\ proc[p].pc = "playing" /\ Expect[p] # NoHash =>
                  \A s \in proc[p].seen : HashMatches(p, s.content)
  <2>1. p \in Procs
    BY DEF Procs
  <2>2. SeenRight(p) /\ PlayerAt(p) /\ proc[p].fetched \in Fetches
    BY <2>1, ProcFacts
  <2>3. ASSUME proc[p].pc = "playing", Expect[p] # NoHash, NEW s \in proc[p].seen
        PROVE  HashMatches(p, s.content)
    <3>1. s.uri \in UrisOf(p) /\ s.content = Part(s.part, Fetched(p)[s.uri]) /\ s.uri \in DOMAIN Fetched(p)
      BY <1>1, <2>2, <2>3 DEF SeenRight, PlayerAt
    <3>2. PICK k \in 1..Len(Reads(p)) : Reads(p)[k].part = "header" /\ Inputs[p][Reads(p)[k].field] = s.uri
      BY <2>3, <3>1, ReadsFacts
    <3>3. k \in 1..(proc[p].at - 1)
      <4>1. proc[p].at = Len(Reads(p)) + 1 /\ Len(Reads(p)) \in Nat
        BY <2>2, <2>3, ReadsFacts DEF PlayerAt
      <4> QED BY <4>1
    <3>4. HashMatches(p, Fetched(p)[s.uri])
      BY <1>1, <2>2, <2>3, <3>2, <3>3 DEF SeenRight, HeaderAt
    <3>5. Fetched(p)[s.uri] \in Contents
      BY <2>2, <3>1 DEF Fetches, Fetched
    <3> QED BY <3>1, <3>4, <3>5, HeaderMatches DEF Part
  <2> QED BY <1>1, <2>2, <2>3 DEF SeenRight
<1>2. ASSUME NEW w \in Writers, proc[w].pc \in {"put", "done"}, ~touched[w] PROVE proc[w].got = Whole(w)
  BY <1>2 DEF RemoteInv, ProcInv, PutRight, Procs
<1> QED BY <1>1, <1>2 DEF InputsIntact

\* Whatever the processes of a host fetch, write, check, load and upload through the
\* scratch directory they share, and in whatever order their steps interleave: a
\* process no other one disturbed at an object of its own has what it fetched or wrote
\* (crates/sim-s3/src/lib.rs, scratch_path; src/lib.rs, materialize_remote_inputs and
\* verify_config_hash; src/record.rs).
THEOREM InputsStayIntact == RemoteSpec => []InputsIntact
<1>1. RemoteInit => RemoteInv
  BY RemoteInitInv
<1>2. RemoteInv /\ [RemoteStep]_remoteVars => RemoteInv'
  BY RemoteStepInv
<1>3. RemoteInv => InputsIntact
  BY RemoteInvIntact
<1> QED BY <1>1, <1>2, <1>3, PTL DEF RemoteSpec

(***************************************************************************)
(* Whole blocks                                                            *)
(***************************************************************************)
LEMMA BlockArithmetic ==
  /\ \A d, n \in Nat : d <= n \div BlockSize <=> d * BlockSize <= n
  /\ \A d, e \in Nat : d * BlockSize \in Nat /\ (d <= e <=> d * BlockSize <= e * BlockSize)
  /\ \A d, e \in Nat : d * BlockSize = e * BlockSize => d = e
  /\ \A n \in Nat : n \div BlockSize \in Nat
<1>1. BlockSize \in Nat \ {0}
  BY ReplayConstants
<1>2. \A d, n, b \in Nat : b # 0 => (d <= n \div b <=> d * b <= n)
  OBVIOUS
<1>3. \A d, e, b \in Nat : b # 0 => (d <= e <=> d * b <= e * b)
  OBVIOUS
<1>4. \A d, b \in Nat : d * b \in Nat
  OBVIOUS
<1>5. \A n, b \in Nat : b # 0 => n \div b \in Nat
  OBVIOUS
<1> QED BY <1>1, <1>2, <1>3, <1>4, <1>5

(***************************************************************************)
(* Totals                                                                  *)
(***************************************************************************)
AddStep == [p \in Nat \X Nat |-> p[1] + p[2]]
Sums(f, q) == Iterates(f, Nat, 0, q, AddStep)

LEMMA TotalIs ==
  ASSUME NEW q \in Seq(Nat)
  PROVE  \E f : Sums(f, q) /\ Total(q) = f[Len(q)]
<1> DEFINE Rec(g) == [s \in SUBSET (1..Len(q)) |-> IF s = {} THEN 0 ELSE g[s \ {Max(s)}] + q[Max(s)]]
           iter == CHOOSE g : g = Rec(g)
<1>1. DOMAIN q = 1..Len(q) /\ Len(q) \in Nat /\ \A i \in 1..Len(q) : q[i] \in Nat
  OBVIOUS
<1>2. AddStep \in [Nat \X Nat -> Nat] /\ 0 \in Nat
  BY DEF AddStep
<1>3. \A x, y \in Nat : AddStep[<<x, y>>] = x + y
  BY DEF AddStep
<1>4. ASSUME NEW s \in SUBSET (1..Len(q)), s # {} PROVE q[Max(s)] \in Nat
  <2>1. Max(s) \in 1..Len(q)
    BY <1>1, <1>4, MaxOfSet
  <2> HIDE DEF iter
  <2> QED BY <1>1, <2>1
<1>5. Total(q) = iter[1..Len(q)]
  BY <1>1 DEF Total, FoldLeft, MapThenFoldSet
<1>6. PICK g : Solves(Len(q), g, Nat, 0, q, AddStep)
  BY <1>2, SetRecursion
<1>7. g = Rec(g)
  <2>1. /\ g \in [SUBSET (1..Len(q)) -> Nat]
        /\ \A s \in SUBSET (1..Len(q)) :
             g[s] = IF s = {} THEN 0 ELSE AddStep[<<g[s \ {Max(s)}], q[Max(s)]>>]
    BY <1>6 DEF Solves
  <2>2. ASSUME NEW s \in SUBSET (1..Len(q))
        PROVE  g[s] = IF s = {} THEN 0 ELSE g[s \ {Max(s)}] + q[Max(s)]
    <3>1. g[s \ {Max(s)}] \in Nat
      BY <2>1
    <3> HIDE DEF iter
    <3> QED BY <1>3, <1>4, <2>1, <3>1
  <2> HIDE DEF iter
  <2> QED BY <2>1, <2>2
<1>8. iter = Rec(iter)
  BY <1>7
<1> HIDE DEF iter
<1>9. iter[{}] = 0
  BY <1>8
<1>10. ASSUME NEW s \in SUBSET (1..Len(q)), s # {}, iter[s \ {Max(s)}] \in Nat
       PROVE  iter[s] = AddStep[<<iter[s \ {Max(s)}], q[Max(s)]>>]
  BY <1>3, <1>4, <1>8, <1>10
<1>11. Unrolls(iter, Nat, 0, q, AddStep)
  BY <1>9, <1>10 DEF Unrolls
<1>12. FoldsOver(Nat, Nat, 0, q, AddStep)
  BY <1>2 DEF FoldsOver
<1>13. \E f : Sums(f, q) /\ f[Len(q)] = iter[1..Len(q)]
  BY <1>11, <1>12, Unrolled DEF Sums
<1> QED BY <1>5, <1>13

LEMMA SumsFacts ==
  ASSUME NEW q \in Seq(Nat), NEW f, Sums(f, q)
  PROVE  /\ f[0] = 0 /\ \A k \in 0..Len(q) : f[k] \in Nat
         /\ \A k \in 1..Len(q) : f[k] = f[k-1] + q[k] /\ q[k] \in Nat /\ f[k-1] \in Nat
<1>1. \A k \in 1..Len(q) : q[k] \in Nat /\ k - 1 \in 0..Len(q)
  OBVIOUS
<1>2. f \in [0..Len(q) -> Nat] /\ f[0] = 0 /\ \A k \in 1..Len(q) : f[k] = AddStep[<<f[k-1], q[k]>>]
  BY DEF Sums, Iterates
<1>3. \A k \in 1..Len(q) : f[k-1] \in Nat
  BY <1>1, <1>2
<1> QED BY <1>1, <1>2, <1>3 DEF AddStep

LEMMA TotalFacts ==
  ASSUME NEW q \in Seq(Nat)
  PROVE  Total(q) \in Nat /\ (q = << >> => Total(q) = 0)
<1>1. PICK f : Sums(f, q) /\ Total(q) = f[Len(q)]
  BY TotalIs
<1>2. Len(q) \in 0..Len(q) /\ (q = << >> => Len(q) = 0)
  OBVIOUS
<1> QED BY <1>1, <1>2, SumsFacts

LEMMA TotalAppend ==
  ASSUME NEW q \in Seq(Nat), NEW n \in Nat
  PROVE  Total(Append(q, n)) = Total(q) + n
<1> DEFINE t == Append(q, n)
<1>1. /\ t \in Seq(Nat) /\ Len(t) = Len(q) + 1 /\ t[Len(t)] = n /\ Len(q) \in Nat
      /\ \A k \in 1..Len(q) : t[k] = q[k]
  BY AppendProperties
<1> HIDE DEF t
<1>2. PICK f : Sums(f, q) /\ Total(q) = f[Len(q)]
  BY TotalIs
<1>3. PICK g : Sums(g, t) /\ Total(t) = g[Len(t)]
  BY <1>1, TotalIs
<1>4. StartAlike(t, q, Len(q))
  BY <1>1 DEF StartAlike
<1>5. g[Len(q)] = f[Len(q)]
  <2>1. Len(q) \in 0..Len(q)
    BY <1>1
  <2> QED BY <1>2, <1>3, <1>4, <2>1, IteratesAgree DEF Sums
<1>6. g[Len(t)] = g[Len(t)-1] + t[Len(t)] /\ Len(t) - 1 = Len(q)
  BY <1>1, <1>3, SumsFacts
<1> QED BY <1>1, <1>2, <1>3, <1>5, <1>6 DEF t

LEMMA TotalCons ==
  ASSUME NEW n \in Nat, NEW q \in Seq(Nat)
  PROVE  <<n>> \o q \in Seq(Nat) /\ Total(<<n>> \o q) = n + Total(q)
<1> DEFINE t == <<n>> \o q
<1>1. <<n>> \in Seq(Nat) /\ Len(<<n>>) = 1 /\ <<n>>[1] = n /\ Len(q) \in Nat
  OBVIOUS
<1>2. /\ t \in Seq(Nat) /\ Len(t) = Len(q) + 1
      /\ \A i \in 1..(1 + Len(q)) : t[i] = IF i <= 1 THEN <<n>>[i] ELSE q[i - 1]
  BY <1>1, ConcatProperties
<1>3. t[1] = n /\ \A k \in 1..Len(q) : t[k+1] = q[k] /\ k + 1 \in 1..Len(t) /\ (k+1) - 1 = k
  <2>1. \A k \in 1..Len(q) : k + 1 \in 1..(1 + Len(q)) /\ ~(k + 1 <= 1) /\ (k + 1) - 1 = k
    BY <1>1
  <2>2. 1 \in 1..(1 + Len(q))
    BY <1>1
  <2> QED BY <1>1, <1>2, <2>1, <2>2
<1> HIDE DEF t
<1>4. PICK f : Sums(f, q) /\ Total(q) = f[Len(q)]
  BY TotalIs
<1>5. PICK g : Sums(g, t) /\ Total(t) = g[Len(t)]
  BY <1>2, TotalIs
<1> DEFINE T == {k \in Nat : k <= Len(q) => g[k+1] = n + f[k]}
<1>6. 0 \in T
  <2>1. 1 \in 1..Len(t) /\ 1 - 1 = 0
    BY <1>1, <1>2
  <2>2. g[1] = g[0] + t[1] /\ g[0] = 0 /\ f[0] = 0
    BY <1>2, <1>4, <1>5, <2>1, SumsFacts
  <2>3. g[0 + 1] = n + f[0]
    BY <1>3, <2>2
  <2> QED BY <2>3
<1>7. ASSUME NEW k \in Nat, k \in T PROVE k + 1 \in T
  <2> SUFFICES ASSUME k + 1 <= Len(q) PROVE g[(k+1)+1] = n + f[k+1]
    OBVIOUS
  <2>1. k + 1 \in 1..Len(q) /\ (k + 1) - 1 = k /\ k <= Len(q) /\ g[k+1] = n + f[k]
    BY <1>1, <1>7
  <2>2. f[k+1] = f[k] + q[k+1] /\ f[k] \in Nat /\ q[k+1] \in Nat
    BY <1>4, <2>1, SumsFacts
  <2>3. t[(k+1)+1] = q[k+1] /\ (k+1)+1 \in 1..Len(t) /\ ((k+1)+1) - 1 = k + 1
    BY <1>3, <2>1
  <2>4. g[(k+1)+1] = g[k+1] + t[(k+1)+1]
    BY <1>2, <1>5, <2>3, SumsFacts
  <2> QED BY <2>1, <2>2, <2>3, <2>4
<1> HIDE DEF T
<1>8. Len(q) \in T
  BY <1>1, <1>6, <1>7, NatInductive
<1> QED BY <1>1, <1>2, <1>4, <1>5, <1>8 DEF T, t

\* A sequence below another one has the smaller total, and the same total only if it is it.
LEMMA TotalBelow ==
  ASSUME NEW s \in Seq(Nat), NEW t \in Seq(Nat), Len(s) <= Len(t), \A k \in 1..Len(s) : s[k] <= t[k]
  PROVE  /\ Total(s) <= Total(t)
         /\ Total(s) = Total(t) /\ (\A k \in 1..Len(t) : t[k] > 0) => s = t
<1>1. PICK f : Sums(f, s) /\ Total(s) = f[Len(s)]
  BY TotalIs
<1>2. PICK g : Sums(g, t) /\ Total(t) = g[Len(t)]
  BY TotalIs
<1>3. Len(s) \in Nat /\ Len(t) \in Nat /\ Len(s) \in 0..Len(s) /\ Len(t) \in 0..Len(t)
  OBVIOUS
<1> DEFINE positive == \A k \in 1..Len(t) : t[k] > 0
           Below(k) == f[k] <= g[k] /\ (f[k] = g[k] => \A i \in 1..k : s[i] = t[i])
           T == {k \in Nat : k <= Len(s) => Below(k)}
           Above(k) == g[Len(s)] <= g[k] /\ (positive /\ k # Len(s) => g[Len(s)] < g[k])
           U == {j \in Nat : Len(s) + j <= Len(t) => Above(Len(s) + j)}
<1>4. 0 \in T
  BY <1>1, <1>2, SumsFacts
<1>5. ASSUME NEW k \in Nat, k \in T PROVE k + 1 \in T
  <2> SUFFICES ASSUME k + 1 <= Len(s) PROVE Below(k+1)
    OBVIOUS
  <2>1. /\ k + 1 \in 1..Len(s) /\ k + 1 \in 1..Len(t) /\ (k + 1) - 1 = k /\ Below(k)
    BY <1>3, <1>5
  <2>2. f[k+1] = f[k] + s[k+1] /\ f[k] \in Nat /\ s[k+1] \in Nat
    BY <1>1, <2>1, SumsFacts
  <2>3. g[k+1] = g[k] + t[k+1] /\ g[k] \in Nat /\ t[k+1] \in Nat
    BY <1>2, <2>1, SumsFacts
  <2>4. s[k+1] <= t[k+1]
    BY <2>1
  <2>5. \A i \in 1..(k+1) : i \in 1..k \/ i = k + 1
    OBVIOUS
  <2>6. f[k+1] <= g[k+1] /\ (f[k+1] = g[k+1] => f[k] = g[k] /\ s[k+1] = t[k+1])
    <3>1. PICK a, b, c, d : a = f[k] /\ b = g[k] /\ c = s[k+1] /\ d = t[k+1]
      OBVIOUS
    <3>2. a <= b /\ c <= d
      BY <2>1, <2>4, <3>1
    <3> HIDE DEF Below
    <3>3. a \in Nat /\ b \in Nat /\ c \in Nat /\ d \in Nat /\ f[k+1] = a + c /\ g[k+1] = b + d
      BY <2>2, <2>3, <3>1
    <3>4. a + c <= b + d /\ (a + c = b + d => a = b /\ c = d)
      BY <3>2, <3>3
    <3> QED BY <3>1, <3>3, <3>4
  <2> QED BY <2>1, <2>5, <2>6
<1>6. 0 \in U
  <2>1. Len(s) + 0 = Len(s) /\ g[Len(s)] \in Nat
    BY <1>2, <1>3, SumsFacts
  <2> QED BY <2>1
<1>7. ASSUME NEW j \in Nat, j \in U PROVE j + 1 \in U
  <2> SUFFICES ASSUME Len(s) + (j + 1) <= Len(t) PROVE Above(Len(s) + (j + 1))
    OBVIOUS
  <2> DEFINE k == Len(s) + (j + 1)
  <2>1. k \in 1..Len(t) /\ k - 1 = Len(s) + j /\ Above(k - 1) /\ k # Len(s) /\ k - 1 \in Nat
    BY <1>3, <1>7
  <2> HIDE DEF k
  <2>2. g[k] = g[k-1] + t[k] /\ g[k-1] \in Nat /\ t[k] \in Nat
    BY <1>2, <2>1, SumsFacts
  <2>3. positive => t[k] > 0
    BY <2>1
  <2>4. g[Len(s)] \in Nat
    BY <1>2, <1>3, SumsFacts
  <2>5. Above(k)
    <3> HIDE DEF positive
    <3>1. PICK a, b, c : a = g[Len(s)] /\ b = g[k-1] /\ c = t[k]
      OBVIOUS
    <3>2. a \in Nat /\ b \in Nat /\ c \in Nat /\ g[k] = b + c /\ a <= b
      BY <2>1, <2>2, <2>4, <3>1
    <3>3. a <= g[k] /\ (c > 0 => a < g[k])
      BY <3>2
    <3> QED BY <2>3, <3>1, <3>3
  <2> QED BY <2>5 DEF k
<1> HIDE DEF T, U
<1>8. Len(s) \in T
  BY <1>3, <1>4, <1>5, NatInductive
<1>9. Len(t) - Len(s) \in U
  <2>1. Len(t) - Len(s) \in Nat
    BY <1>3
  <2> QED BY <1>6, <1>7, <2>1, NatInductive
<1>10. Below(Len(s)) /\ Above(Len(t))
  <2>1. Len(s) + (Len(t) - Len(s)) = Len(t) /\ Len(s) <= Len(s) /\ Len(t) <= Len(t)
    BY <1>3
  <2> HIDE DEF Below, Above
  <2>2. Len(s) \in T => (Len(s) <= Len(s) => Below(Len(s)))
    BY DEF T
  <2>3. Len(t) - Len(s) \in U => (Len(s) + (Len(t) - Len(s)) <= Len(t) => Above(Len(s) + (Len(t) - Len(s))))
    BY DEF U
  <2> QED BY <1>8, <1>9, <2>1, <2>2, <2>3
<1>11. f[Len(s)] \in Nat /\ g[Len(s)] \in Nat /\ g[Len(t)] \in Nat
  BY <1>1, <1>2, <1>3, SumsFacts
<1>12. f[Len(s)] = g[Len(t)] /\ positive => Len(s) = Len(t) /\ \A i \in 1..Len(s) : s[i] = t[i]
  BY <1>3, <1>10, <1>11
<1>13. Len(s) = Len(t) /\ (\A i \in 1..Len(s) : s[i] = t[i]) => s = t
  BY SeqEqual
<1>14. f[Len(s)] <= g[Len(t)]
  BY <1>3, <1>10, <1>11
<1>15. Total(s) = f[Len(s)] /\ Total(t) = g[Len(t)]
  BY <1>1, <1>2
<1> HIDE DEF positive
<1>16. Total(s) <= Total(t) /\ (Total(s) = Total(t) /\ positive => s = t)
  BY <1>12, <1>13, <1>14, <1>15
<1> QED BY <1>16 DEF positive

(***************************************************************************)
(* The records of a trace, in replay order                                 *)
(***************************************************************************)
\* A record that was read has a size for each of its gaps.
ValidRecord == {rec \in TraceRecord : rec.timed => \A k \in DOMAIN rec.itl : rec.itl[k] > 0}

LEMMA TraceValid == Trace \in Seq(ValidRecord)
<1>1. Trace \in Seq(TraceRecord) /\ DOMAIN Trace = 1..Len(Trace) /\ Len(Trace) \in Nat
  BY TraceAssumption
<1>2. ASSUME NEW i \in 1..Len(Trace) PROVE Trace[i] \in ValidRecord
  <2>1. Trace[i] \in TraceRecord
    BY <1>1
  <2>2. ASSUME Trace[i].timed, NEW k \in DOMAIN Trace[i].itl PROVE Trace[i].itl[k] > 0
    <3>1. CASE Trace[i].sized
      BY <1>1, <2>2, <3>1, TraceAssumption DEF ValidateRecord
    <3>2. CASE ~Trace[i].sized
      BY <1>1, <2>2, <3>2, TraceAssumption
    <3> QED BY <3>1, <3>2
  <2> QED BY <2>1, <2>2 DEF ValidRecord
<1>3. Trace \in [1..Len(Trace) -> ValidRecord]
  BY <1>1, <1>2
<1> QED BY <1>1, <1>3

SubsetStep ==
  [p \in Seq(ValidRecord) \X ValidRecord |-> IF p[2].scheduled THEN InsertByArrival(p[1], p[2]) ELSE p[1]]

LEMMA InsertByArrivalType ==
  ASSUME NEW rows \in Seq(ValidRecord), NEW rec \in ValidRecord
  PROVE  InsertByArrival(rows, rec) \in Seq(ValidRecord)
<1> DEFINE before == {k \in DOMAIN rows : rows[k].arrival <= rec.arrival}
           at == 1 + Cardinality(before)
           n == Len(rows)
<1>1. n \in Nat /\ DOMAIN rows = 1..n /\ \A k \in 1..n : rows[k] \in ValidRecord
  OBVIOUS
<1>2. IsFiniteSet(1..n) /\ Cardinality(1..n) = n
  <2>1. 1 \in Int /\ n \in Int
    BY <1>1
  <2> HIDE DEF n
  <2>2. IsFiniteSet(1..n) /\ Cardinality(1..n) = IF 1 > n THEN 0 ELSE n-1+1
    BY <2>1, FS_Interval
  <2> QED BY <1>1, <2>2
<1>3. before \subseteq 1..n
  BY <1>1
<1> HIDE DEF before
<1>4. Cardinality(before) \in Nat /\ Cardinality(before) <= n
  BY <1>2, <1>3, FS_Subset, FS_CardinalityType
<1>5. at \in Int /\ 1 <= at /\ at - 1 <= n /\ at - 1 \in Int
  BY <1>1, <1>4
<1> HIDE DEF at
<1>6. SubSeq(rows, 1, at - 1) \in Seq(ValidRecord)
  <2>1. \A i \in 1..(at - 1) : rows[i] \in ValidRecord
    BY <1>1, <1>5
  <2> QED BY <1>5, <2>1, SubSeqProperties
<1>7. SubSeq(rows, at, n) \in Seq(ValidRecord)
  <2>1. \A i \in at..n : rows[i] \in ValidRecord
    BY <1>1, <1>5
  <2> QED BY <1>1, <1>5, <2>1, SubSeqProperties
<1>8. <<rec>> \in Seq(ValidRecord)
  OBVIOUS
<1>9. (SubSeq(rows, 1, at - 1) \o <<rec>>) \o SubSeq(rows, at, n) \in Seq(ValidRecord)
  BY <1>6, <1>7, <1>8, ConcatProperties
<1> QED BY <1>9 DEF InsertByArrival, InsertAt, at, before

LEMMA ReplaySubsetType == ReplaySubset \in Seq(ValidRecord)
<1> DEFINE S == ValidRecord
           q == Trace
           Keeps(t, x) == IF x.scheduled THEN InsertByArrival(t, x) ELSE t
           Rec(g) == [s \in SUBSET (1..Len(q)) |-> IF s = {} THEN << >> ELSE Keeps(g[s \ {Max(s)}], q[Max(s)])]
           iter == CHOOSE g : g = Rec(g)
<1>0. q \in Seq(S)
  BY TraceValid
<1>1. DOMAIN q = 1..Len(q) /\ Len(q) \in Nat /\ \A i \in 1..Len(q) : q[i] \in S
  BY <1>0
<1>2. SubsetStep \in [Seq(S) \X S -> Seq(S)] /\ << >> \in Seq(S)
  BY InsertByArrivalType DEF SubsetStep
<1>3. \A t \in Seq(S), x \in S : SubsetStep[<<t, x>>] = Keeps(t, x)
  BY DEF SubsetStep
<1>4. ReplaySubset = iter[1..Len(q)]
  BY <1>1 DEF ReplaySubset, FoldLeft, MapThenFoldSet
<1> HIDE DEF Keeps, S, q
<1>5. ASSUME NEW s \in SUBSET (1..Len(q)), s # {} PROVE q[Max(s)] \in S
  <2>1. Max(s) \in 1..Len(q)
    BY <1>1, <1>5, MaxOfSet
  <2> HIDE DEF iter
  <2> QED BY <1>1, <2>1
<1>6. PICK g : Solves(Len(q), g, Seq(S), << >>, q, SubsetStep)
  BY <1>0, <1>2, SetRecursion
<1>7. g = Rec(g)
  <2>1. /\ g \in [SUBSET (1..Len(q)) -> Seq(S)]
        /\ \A s \in SUBSET (1..Len(q)) :
             g[s] = IF s = {} THEN << >> ELSE SubsetStep[<<g[s \ {Max(s)}], q[Max(s)]>>]
    BY <1>6 DEF Solves
  <2>2. ASSUME NEW s \in SUBSET (1..Len(q))
        PROVE  g[s] = IF s = {} THEN << >> ELSE Keeps(g[s \ {Max(s)}], q[Max(s)])
    <3>1. g[s \ {Max(s)}] \in Seq(S)
      BY <2>1
    <3> HIDE DEF iter
    <3> QED BY <1>3, <1>5, <2>1, <3>1
  <2> HIDE DEF iter
  <2> QED BY <2>1, <2>2
<1>8. iter = Rec(iter)
  BY <1>7
<1> HIDE DEF iter
<1>9. iter[{}] = << >>
  BY <1>8
<1>10. ASSUME NEW s \in SUBSET (1..Len(q)), s # {}, iter[s \ {Max(s)}] \in Seq(S)
       PROVE  iter[s] = SubsetStep[<<iter[s \ {Max(s)}], q[Max(s)]>>]
  BY <1>3, <1>5, <1>8, <1>10
<1>11. Unrolls(iter, Seq(S), << >>, q, SubsetStep)
  BY <1>9, <1>10 DEF Unrolls
<1>12. FoldsOver(Seq(S), S, << >>, q, SubsetStep)
  BY <1>0, <1>2 DEF FoldsOver
<1>13. PICK f : Iterates(f, Seq(S), << >>, q, SubsetStep) /\ f[Len(q)] = iter[1..Len(q)]
  BY <1>11, <1>12, Unrolled
<1>14. f[Len(q)] \in Seq(S)
  <2>1. Len(q) \in 0..Len(q)
    BY <1>1
  <2> QED BY <1>13, <2>1 DEF Iterates
<1> QED BY <1>4, <1>13, <1>14 DEF S

\* The first chunk and the gaps cover what the record put out.
LEMMA RecordFacts ==
  ASSUME NEW rec \in ValidRecord
  PROVE  /\ FirstChunk(rec) \in Nat \ {0} /\ Total(rec.itl) \in Nat /\ rec.itl \in Seq(Nat) /\ rec.output \in Nat
         /\ rec.output <= FirstChunk(rec) + Total(rec.itl)
<1>1. rec.itl \in Seq(Nat) /\ rec.output \in Nat
  BY DEF TraceRecord, ValidRecord
<1>2. Total(rec.itl) \in Nat
  BY <1>1, TotalFacts
<1> DEFINE n == Total(rec.itl)
<1> HIDE DEF n
<1>3. n \in Nat
  BY <1>2 DEF n
<1>4. FirstChunk(rec) = MaxOf(rec.output - MinOf(rec.output, n), 1)
  BY DEF FirstChunk, n
<1>5. FirstChunk(rec) \in Nat \ {0} /\ rec.output <= FirstChunk(rec) + n
  BY <1>1, <1>3, <1>4 DEF MaxOf, MinOf
<1> QED BY <1>1, <1>3, <1>5 DEF n

(***************************************************************************)
(* Matching                                                                *)
(***************************************************************************)
BlocksOf(p) == Len(p) \div BlockSize
AgreeTo(p, q, n) == \A k \in 1..n : p[k] = q[k]
DepthsShared(p, q) == {d \in 0..MinOf(BlocksOf(p), BlocksOf(q)) : AgreeTo(p, q, d * BlockSize)}

LEMMA SharedFacts ==
  ASSUME NEW p \in Seq(Vocabulary), NEW q \in Seq(Vocabulary)
  PROVE  /\ SharedBlocks(p, q) \in Nat /\ SharedBlocks(p, q) <= BlocksOf(p) /\ BlocksOf(p) \in Nat
         /\ \A d \in Nat : d <= SharedBlocks(p, q) <=>
              d <= BlocksOf(p) /\ d <= BlocksOf(q) /\ AgreeTo(p, q, d * BlockSize)
<1> DEFINE m == MinOf(BlocksOf(p), BlocksOf(q))
           s == DepthsShared(p, q)
<1>1. Len(p) \in Nat /\ Len(q) \in Nat
  OBVIOUS
<1>2. BlocksOf(p) \in Nat /\ BlocksOf(q) \in Nat
  BY <1>1, BlockArithmetic DEF BlocksOf
<1>3. m \in Nat /\ m <= BlocksOf(p) /\ m <= BlocksOf(q) /\ (m = BlocksOf(p) \/ m = BlocksOf(q))
  BY <1>2 DEF MinOf
<1>4. SharedBlocks(p, q) = Max(s)
  BY DEF SharedBlocks, DepthsShared, BlocksOf, AgreeTo
<1> HIDE DEF m
<1>5. \A d : d \in s <=> d \in 0..m /\ AgreeTo(p, q, d * BlockSize)
  BY DEF DepthsShared, m
<1> HIDE DEF s
<1>6. 0 \in s
  <2>1. 0 * BlockSize = 0 /\ 0 \in 0..m
    BY <1>3, ReplayConstants
  <2>2. AgreeTo(p, q, 0)
    BY DEF AgreeTo
  <2> QED BY <1>5, <2>1, <2>2
<1>7. Max(s) \in s /\ \A d \in s : Max(s) >= d
  <2> DEFINE u == {d \in 0..m : m - d \in s}
  <2>1. u \in SUBSET Nat /\ u # {}
    <3>1. m \in u
      <4>1. m - m = 0 /\ m \in 0..m
        BY <1>3
      <4> QED BY <1>6, <4>1
    <3> QED BY <3>1
  <2>2. PICK x \in u : \A y \in u : x <= y
    BY <2>1, LeastOf
  <2>3. m - x \in s /\ \A d \in s : m - x >= d
    <3>1. \A d \in s : m - d \in u /\ d \in Nat
      <4> SUFFICES ASSUME NEW d \in s PROVE m - d \in u /\ d \in Nat
        OBVIOUS
      <4>1. d \in 0..m
        BY <1>5
      <4>2. m - d \in 0..m /\ m - (m - d) = d
        BY <1>3, <4>1
      <4> QED BY <4>1, <4>2
    <3>2. x \in 0..m /\ m - x \in s
      OBVIOUS
    <3> HIDE DEF u
    <3>3. \A d \in s : x <= m - d /\ d \in Nat
      BY <2>2, <3>1
    <3> QED BY <1>3, <3>2, <3>3
  <2> QED BY <2>3 DEF Max
<1>8. Max(s) \in 0..m
  BY <1>5, <1>7
<1>9. ASSUME NEW d \in Nat
      PROVE  d <= Max(s) <=> d <= BlocksOf(p) /\ d <= BlocksOf(q) /\ AgreeTo(p, q, d * BlockSize)
  <2>1. ASSUME d <= Max(s) PROVE d <= m /\ AgreeTo(p, q, d * BlockSize)
    <3>1. AgreeTo(p, q, Max(s) * BlockSize)
      BY <1>5, <1>7
    <3>2. /\ d * BlockSize <= Max(s) * BlockSize
          /\ d * BlockSize \in Nat /\ Max(s) * BlockSize \in Nat
      BY <1>8, <2>1, BlockArithmetic
    <3> DEFINE a == d * BlockSize
               b == Max(s) * BlockSize
    <3> HIDE DEF a, b
    <3>3. a <= b /\ a \in Nat /\ b \in Nat /\ AgreeTo(p, q, b)
      BY <3>1, <3>2 DEF a, b
    <3>4. AgreeTo(p, q, a)
      BY <3>3 DEF AgreeTo
    <3> QED BY <1>3, <1>8, <2>1, <3>4 DEF a
  <2>2. ASSUME d <= BlocksOf(p), d <= BlocksOf(q), AgreeTo(p, q, d * BlockSize) PROVE d <= Max(s)
    <3>1. d \in 0..m
      BY <1>3, <2>2
    <3>2. d \in s
      BY <1>5, <2>2, <3>1
    <3>3. Max(s) >= d
      BY <1>7, <3>2
    <3> QED BY <1>8, <3>3
  <2>3. d <= m => d <= BlocksOf(p) /\ d <= BlocksOf(q)
    BY <1>2, <1>3
  <2> QED BY <2>1, <2>2, <2>3
<1> QED BY <1>2, <1>3, <1>4, <1>8, <1>9

LEMMA PrefixOf ==
  ASSUME NEW p \in Seq(Vocabulary), NEW d \in 1..BlocksOf(p)
  PROVE  /\ PromptBlockHashes(p)[d] \in Seq(Vocabulary)
         /\ Len(PromptBlockHashes(p)[d]) = d * BlockSize
         /\ \A k \in 1..(d * BlockSize) : PromptBlockHashes(p)[d][k] = p[k]
         /\ d * BlockSize \in Nat /\ d * BlockSize <= Len(p)
         /\ DOMAIN PromptBlockHashes(p) = 1..BlocksOf(p)
<1> DEFINE n == d * BlockSize
           t == SubSeq(p, 1, n)
<1>1. Len(p) \in Nat /\ BlocksOf(p) \in Nat /\ d \in Nat /\ d <= Len(p) \div BlockSize
  BY BlockArithmetic DEF BlocksOf
<1>2. n \in Nat /\ n <= Len(p)
  BY <1>1, BlockArithmetic
<1>3. PromptBlockHashes(p)[d] = t /\ DOMAIN PromptBlockHashes(p) = 1..BlocksOf(p)
  BY DEF PromptBlockHashes, BlocksOf
<1> HIDE DEF n
<1>4. \A k \in 1..n : p[k] \in Vocabulary
  BY <1>1, <1>2
<1>5. /\ t \in Seq(Vocabulary) /\ Len(t) = IF 1 <= n THEN n - 1 + 1 ELSE 0
      /\ \A i \in 1..(n - 1 + 1) : t[i] = p[1 + i - 1]
  BY <1>2, <1>4, SubSeqProperties
<1>6. Len(t) = n /\ \A i \in 1..n : t[i] = p[i]
  <2>1. \A i \in 1..n : i \in 1..(n - 1 + 1) /\ 1 + i - 1 = i
    BY <1>2
  <2>2. Len(t) = n
    BY <1>2, <1>5
  <2> HIDE DEF t
  <2> QED BY <1>5, <2>1, <2>2
<1> QED BY <1>2, <1>3, <1>5, <1>6 DEF n

\* A hash of one prompt is in the chain of another iff that many blocks are the same.
LEMMA HashShared ==
  ASSUME NEW p \in Seq(Vocabulary), NEW q \in Seq(Vocabulary), NEW d \in 1..BlocksOf(p)
  PROVE  PromptBlockHashes(p)[d] \in Range(PromptBlockHashes(q)) <=> d <= SharedBlocks(p, q)
<1> DEFINE n == d * BlockSize
           t == PromptBlockHashes(p)[d]
<1>1. /\ t \in Seq(Vocabulary) /\ Len(t) = n /\ \A k \in 1..n : t[k] = p[k]
      /\ n \in Nat /\ n <= Len(p)
  BY PrefixOf
<1>2. d \in Nat /\ d <= BlocksOf(p) /\ d >= 1 /\ BlocksOf(q) \in Nat
  <2>1. Len(q) \in Nat
    OBVIOUS
  <2> QED BY <2>1, SharedFacts, BlockArithmetic DEF BlocksOf
<1>3. t \in Range(PromptBlockHashes(q)) <=> \E e \in 1..BlocksOf(q) : t = PromptBlockHashes(q)[e]
  BY DEF Range, PromptBlockHashes, BlocksOf
<1> HIDE DEF t
<1>4. ASSUME NEW e \in 1..BlocksOf(q), t = PromptBlockHashes(q)[e]
      PROVE  d <= SharedBlocks(p, q)
  <2>1. Len(t) = e * BlockSize /\ \A k \in 1..(e * BlockSize) : t[k] = q[k]
    BY <1>4, PrefixOf
  <2>2. d * BlockSize = e * BlockSize
    BY <1>1, <2>1
  <2>3. d = e
    <3>1. e \in Nat
      BY <1>2
    <3> QED BY <1>2, <2>2, <3>1, BlockArithmetic
  <2>4. d <= BlocksOf(q)
    BY <2>3, <1>2
  <2>5. AgreeTo(p, q, n)
    BY <1>1, <2>1, <2>2 DEF AgreeTo
  <2> QED BY <1>2, <2>4, <2>5, SharedFacts
<1>5. ASSUME d <= SharedBlocks(p, q)
      PROVE  \E e \in 1..BlocksOf(q) : t = PromptBlockHashes(q)[e]
  <2>1. d <= BlocksOf(q) /\ AgreeTo(p, q, n)
    BY <1>2, <1>5, SharedFacts
  <2>2. d \in 1..BlocksOf(q)
    BY <1>2, <2>1
  <2> DEFINE u == PromptBlockHashes(q)[d]
  <2>3. u \in Seq(Vocabulary) /\ Len(u) = n /\ \A k \in 1..n : u[k] = q[k]
    BY <2>2, PrefixOf
  <2> HIDE DEF u, n
  <2>4. \A k \in 1..Len(t) : t[k] = u[k]
    BY <1>1, <2>1, <2>3 DEF AgreeTo
  <2>5. t = u
    BY <1>1, <2>3, <2>4, SeqEqual
  <2> QED BY <2>2, <2>5 DEF u
<1> QED BY <1>3, <1>4, <1>5 DEF t

Rows(rows, indexed) ==
  indexed \subseteq Nat \ {0} /\ \A i \in indexed : rows[i].prompt \in Seq(Vocabulary)

Ties(rows, indexed, prompt, i) ==
  {j \in indexed : SharedBlocks(prompt, rows[j].prompt) = SharedBlocks(prompt, rows[i].prompt)}

\* What matching returns: none, or a record of the greatest depth, fresh ones first.
LEMMA MatchFacts ==
  ASSUME NEW rows, NEW indexed, Rows(rows, indexed), NEW used, NEW prompt \in Seq(Vocabulary),
         NEW i, i = MatchPrefix(rows, indexed, used, prompt)
  PROVE  \/ i = 0 /\ \A j \in indexed : SharedBlocks(prompt, rows[j].prompt) = 0
         \/ /\ i \in indexed
            /\ \A j \in indexed : SharedBlocks(prompt, rows[j].prompt) <= SharedBlocks(prompt, rows[i].prompt)
            /\ \/ i \notin used /\ \A j \in Ties(rows, indexed, prompt, i) : j < i => j \in used
               \/ Ties(rows, indexed, prompt, i) \subseteq used /\ i = Min(Ties(rows, indexed, prompt, i))
<1> DEFINE Depth(j) == SharedBlocks(prompt, rows[j].prompt)
           chain == PromptBlockHashes(prompt)
           n == BlocksOf(prompt)
           hits == {d \in DOMAIN chain : ByHash(rows, indexed, chain[d]) # {}}
           candidates == ByHash(rows, indexed, chain[Max(hits)])
           fresh == candidates \ used
<1>1. /\ n \in Nat /\ DOMAIN chain = 1..n
      /\ \A j \in indexed : Depth(j) \in Nat /\ Depth(j) <= n
      /\ indexed \subseteq Nat \ {0}
  <2>1. n \in Nat /\ DOMAIN chain = 1..n
    <3>1. Len(prompt) \in Nat
      OBVIOUS
    <3> QED BY <3>1, BlockArithmetic DEF BlocksOf, PromptBlockHashes
  <2> QED BY <2>1, SharedFacts DEF Rows
<1>2. \A d \in 1..n : ByHash(rows, indexed, chain[d]) = {j \in indexed : d <= Depth(j)}
  BY HashShared DEF ByHash, Rows
<1>3. i = IF hits = {} THEN 0 ELSE IF fresh # {} THEN Min(fresh) ELSE Min(candidates)
  BY DEF MatchPrefix
<1> HIDE DEF chain, n, Depth
<1>4. \A d : d \in hits <=> d \in 1..n /\ \E j \in indexed : d <= Depth(j)
  BY <1>1, <1>2
<1> HIDE DEF hits
<1>5. CASE hits = {}
  <2>1. \A j \in indexed : Depth(j) = 0
    <3> SUFFICES ASSUME NEW j \in indexed, Depth(j) # 0 PROVE FALSE
      OBVIOUS
    <3>1. Depth(j) \in 1..n /\ Depth(j) <= Depth(j)
      BY <1>1
    <3> QED BY <1>4, <1>5, <3>1
  <2> HIDE DEF candidates, fresh
  <2> QED BY <1>3, <1>5, <2>1 DEF Depth
<1>6. CASE hits # {}
  <2> DEFINE m == Max(hits)
  <2>1. m \in hits /\ \A d \in hits : m >= d
    <3>1. hits \in SUBSET (1..n)
      BY <1>4
    <3> QED BY <1>1, <1>6, <3>1, MaxOfSet
  <2> HIDE DEF m
  <2>2. m \in 1..n /\ candidates = {j \in indexed : m <= Depth(j)} /\ candidates # {}
    <3>1. m \in 1..n /\ \E j \in indexed : m <= Depth(j)
      BY <1>4, <2>1
    <3>2. candidates = {j \in indexed : m <= Depth(j)}
      BY <1>2, <3>1 DEF m
    <3> HIDE DEF candidates
    <3> QED BY <3>1, <3>2
  <2> HIDE DEF candidates
  <2>3. \A j \in indexed : Depth(j) <= m
    <3> SUFFICES ASSUME NEW j \in indexed, ~(Depth(j) <= m) PROVE FALSE
      OBVIOUS
    <3>1. Depth(j) \in 1..n /\ Depth(j) <= Depth(j)
      BY <1>1, <2>2
    <3>2. Depth(j) \in hits
      BY <1>4, <3>1
    <3> QED BY <1>1, <2>1, <2>2, <3>1, <3>2
  <2>4. \A j \in indexed : j \in candidates <=> Depth(j) = m
    BY <1>1, <2>2, <2>3
  <2>5. candidates \subseteq indexed /\ candidates \in SUBSET Nat
    BY <1>1, <2>2
  <2>6. i = IF fresh # {} THEN Min(fresh) ELSE Min(candidates)
    BY <1>3, <1>6
  <2>7. i \in candidates
    <3>1. CASE fresh # {}
      <4>1. fresh \in SUBSET Nat
        BY <2>5
      <4>2. Min(fresh) \in fresh
        BY <3>1, <4>1, MinOfSet
      <4> QED BY <2>6, <3>1, <4>2
    <3>2. CASE fresh = {}
      BY <2>2, <2>5, <2>6, <3>2, MinOfSet
    <3> QED BY <3>1, <3>2
  <2>8. i \in indexed /\ Depth(i) = m
    BY <2>4, <2>5, <2>7
  <2>9. Ties(rows, indexed, prompt, i) = candidates
    BY <2>4, <2>5, <2>8 DEF Ties, Depth
  <2>10. CASE fresh # {}
    <3>1. fresh \in SUBSET Nat
      BY <2>5
    <3>2. i \in fresh /\ \A j \in fresh : i <= j
      BY <2>6, <2>10, <3>1, MinOfSet
    <3>3. i \notin used
      BY <3>2
    <3>4. \A j \in candidates : j < i => j \in used
      <4> SUFFICES ASSUME NEW j \in candidates, j < i, j \notin used PROVE FALSE
        OBVIOUS
      <4>1. j \in fresh
        OBVIOUS
      <4>2. i <= j /\ i \in Nat /\ j \in Nat
        BY <2>5, <3>1, <3>2, <4>1
      <4> QED BY <4>2
    <3> QED BY <2>3, <2>8, <2>9, <3>3, <3>4 DEF Depth
  <2>11. CASE fresh = {}
    <3>1. candidates \subseteq used /\ i = Min(candidates)
      BY <2>6, <2>11
    <3> QED BY <2>3, <2>8, <2>9, <3>1 DEF Depth
  <2> QED BY <2>10, <2>11
<1> QED BY <1>5, <1>6

(***************************************************************************)
(* Schedules                                                               *)
(***************************************************************************)
FramedSize(rec, k) == IF rec.itl[k] > 1 THEN rec.itl[k] ELSE ChunkSize

LEMMA FramedFacts ==
  ASSUME NEW rec \in ValidRecord, rec.timed
  PROVE  /\ Framed(rec) \in Seq(Nat) /\ Len(Framed(rec)) = Len(rec.itl) + 1 /\ Len(rec.itl) \in Nat
         /\ Framed(rec)[1] = FirstChunk(rec)
         /\ \A k \in 1..Len(rec.itl) : Framed(rec)[k+1] = FramedSize(rec, k)
         /\ \A k \in 1..Len(Framed(rec)) : Framed(rec)[k] > 0
         /\ FirstChunk(rec) + Total(rec.itl) <= Total(Framed(rec)) /\ Total(Framed(rec)) \in Nat
         /\ ChunkSize = 1 =>
              Framed(rec) = <<FirstChunk(rec)>> \o rec.itl /\ Total(Framed(rec)) = FirstChunk(rec) + Total(rec.itl)
<1> DEFINE n == FirstChunk(rec)
           itl == rec.itl
           sizes == [k \in DOMAIN itl |-> IF itl[k] > 1 THEN itl[k] ELSE ChunkSize]
           framed == <<n>> \o sizes
<1>1. n \in Nat /\ n > 0 /\ itl \in Seq(Nat) /\ Total(itl) \in Nat
  BY RecordFacts
<1>2. \A k \in DOMAIN itl : itl[k] > 0
  BY DEF ValidRecord
<1>3. DOMAIN itl = 1..Len(itl) /\ Len(itl) \in Nat /\ \A k \in 1..Len(itl) : itl[k] \in Nat
  BY <1>1
<1> HIDE DEF n, itl
<1>4. \A k \in 1..Len(itl) : sizes[k] \in Nat /\ sizes[k] > 0 /\ itl[k] <= sizes[k]
                             /\ sizes[k] = (IF itl[k] > 1 THEN itl[k] ELSE ChunkSize)
                             /\ (ChunkSize = 1 => sizes[k] = itl[k])
  <2>1. ChunkSize \in Nat /\ ChunkSize >= 1
    BY ReplayConstants
  <2> QED BY <1>2, <1>3, <2>1
<1>5. sizes \in Seq(Nat) /\ Len(sizes) = Len(itl)
  <2>1. sizes \in [1..Len(itl) -> Nat]
    BY <1>3, <1>4
  <2> HIDE DEF sizes
  <2> QED BY <1>3, <2>1, MappedSeq
<1> HIDE DEF sizes
<1>6. <<n>> \in Seq(Nat) /\ Len(<<n>>) = 1 /\ <<n>>[1] = n
  BY <1>1
<1>7. /\ framed \in Seq(Nat) /\ Len(framed) = 1 + Len(itl)
      /\ \A k \in 1..(1 + Len(itl)) : framed[k] = IF k <= 1 THEN <<n>>[k] ELSE sizes[k-1]
  <2> DEFINE x == <<n>>
  <2>1. x \in Seq(Nat) /\ Len(x) = 1 /\ sizes \in Seq(Nat) /\ Len(sizes) = Len(itl) /\ framed = x \o sizes
    BY <1>5, <1>6
  <2> HIDE DEF x, framed
  <2>2. /\ x \o sizes \in Seq(Nat) /\ Len(x \o sizes) = Len(x) + Len(sizes)
        /\ \A k \in 1..(Len(x) + Len(sizes)) : (x \o sizes)[k] = IF k <= Len(x) THEN x[k] ELSE sizes[k - Len(x)]
    <3>1. x \in Seq(Nat) /\ sizes \in Seq(Nat)
      BY <2>1
    <3> QED BY <3>1, ConcatProperties
  <2>3. /\ framed \in Seq(Nat) /\ Len(framed) = 1 + Len(itl)
        /\ \A k \in 1..(1 + Len(itl)) : framed[k] = IF k <= 1 THEN x[k] ELSE sizes[k-1]
    BY <2>1, <2>2
  <2> QED BY <2>3 DEF x
<1> HIDE DEF framed
<1>8. framed[1] = n /\ \A k \in 1..Len(itl) : framed[k+1] = sizes[k]
  <2>1. 1 \in 1..(1 + Len(itl)) /\ \A k \in 1..Len(itl) : k + 1 \in 1..(1 + Len(itl)) /\ ~(k + 1 <= 1) /\ (k+1)-1 = k
    BY <1>3
  <2> QED BY <1>6, <1>7, <2>1
<1>9. \A k \in 1..Len(framed) : framed[k] > 0
  <2> SUFFICES ASSUME NEW k \in 1..Len(framed) PROVE framed[k] > 0
    OBVIOUS
  <2>1. CASE k = 1
    BY <1>1, <1>8, <2>1
  <2>2. CASE k # 1
    <3>1. k - 1 \in 1..Len(itl) /\ (k - 1) + 1 = k
      BY <1>3, <1>7, <2>2
    <3> QED BY <1>4, <1>8, <3>1
  <2> QED BY <2>1, <2>2
<1>10. Total(framed) = n + Total(sizes) /\ Total(sizes) \in Nat
  BY <1>1, <1>5, TotalCons, TotalFacts DEF framed
<1>11. Total(itl) <= Total(sizes)
  <2>1. Len(itl) <= Len(sizes) /\ \A k \in 1..Len(itl) : itl[k] <= sizes[k]
    BY <1>3, <1>4, <1>5
  <2>2. itl \in Seq(Nat)
    BY <1>1 DEF itl
  <2> QED BY <1>5, <2>1, <2>2, TotalBelow
<1>12. ChunkSize = 1 => sizes = itl
  <2> SUFFICES ASSUME ChunkSize = 1 PROVE sizes = itl
    OBVIOUS
  <2>1. \A k \in 1..Len(sizes) : sizes[k] = itl[k]
    BY <1>4, <1>5
  <2>2. itl \in Seq(Nat)
    BY <1>1 DEF itl
  <2> QED BY <1>5, <2>1, <2>2, SeqEqual
<1>13. framed = Framed(rec)
  BY DEF framed, Framed, sizes, n, itl
<1>14. Total(itl) \in Nat
  BY <1>1 DEF itl
<1>15. n + Total(itl) <= Total(framed) /\ Total(framed) \in Nat
  BY <1>1, <1>10, <1>11, <1>14
<1>16. ChunkSize = 1 => framed = <<n>> \o itl /\ Total(framed) = n + Total(itl)
  BY <1>10, <1>12 DEF framed
<1>17. \A k \in 1..Len(itl) : framed[k+1] = FramedSize(rec, k)
  BY <1>4, <1>8 DEF FramedSize, itl
<1> QED BY <1>3, <1>7, <1>8, <1>9, <1>13, <1>15, <1>16, <1>17 DEF n, itl

(***************************************************************************)
(* What the sources serve                                                  *)
(***************************************************************************)
LEMMA StepRows ==
  /\ Rows(ReplaySubset, StepsIndexed)
  /\ \A i \in StepsIndexed : i \in 1..Len(ReplaySubset) /\ ReplaySubset[i] \in ValidRecord /\ ReplaySubset[i].timed
<1>1. ReplaySubset \in Seq(ValidRecord)
  BY ReplaySubsetType
<1>2. \A i \in StepsIndexed : i \in 1..Len(ReplaySubset) /\ ReplaySubset[i] \in ValidRecord /\ ReplaySubset[i].timed
  BY <1>1 DEF StepsIndexed
<1>3. \A i \in StepsIndexed : ReplaySubset[i].prompt \in Seq(Vocabulary) /\ i \in Nat \ {0}
  BY <1>1, <1>2 DEF ValidRecord, TraceRecord
<1> QED BY <1>2, <1>3 DEF Rows

LEMMA TokenRowsFacts ==
  /\ Rows(TokenRows, TokensIndexed)
  /\ TokensIndexed \subseteq DOMAIN TokenRows /\ DOMAIN TokenRows \subseteq Nat \ {0}
  /\ \A i \in DOMAIN TokenRows : TokenRows[i].output \in Nat
  /\ mode.tokens = "trace" => TokenRows = ReplaySubset
<1>1. mode.tokens = "trace" => TokenRows = ReplaySubset
  BY DEF TokenRows
<1>2. TokenRows \in Seq(ValidRecord) \/ TokenRows \in Seq(DatasetRow)
  BY ReplaySubsetType, TraceAssumption DEF TokenRows
<1>3. \A i \in DOMAIN TokenRows : TokenRows[i] \in ValidRecord \/ TokenRows[i] \in DatasetRow
  BY <1>2
<1>4. \A i \in DOMAIN TokenRows : TokenRows[i].output \in Nat /\ TokenRows[i].prompt \in Seq(Vocabulary)
  BY <1>3 DEF ValidRecord, TraceRecord, DatasetRow
<1>5. DOMAIN TokenRows \subseteq Nat \ {0}
  <2>1. DOMAIN TokenRows = 1..Len(TokenRows) /\ Len(TokenRows) \in Nat
    BY <1>2
  <2> QED BY <2>1
<1>6. TokensIndexed \subseteq DOMAIN TokenRows
  BY DEF TokensIndexed
<1> QED BY <1>1, <1>4, <1>5, <1>6 DEF Rows

(***************************************************************************)
(* The inductive invariant of replay                                       *)
(***************************************************************************)
OutTokens == {RandomToken} \cup (Nat \X Nat)
RequestType ==
  [req : Ids, prompt : Seq(Vocabulary), limit : Nat, tokens : Nat, steps : Nat, max_tokens : Nat,
   script : Seq(Nat), prefilling : BOOLEAN, out : Seq(OutTokens), chunks : Seq(Nat)]
Admission == [prompt : Seq(Vocabulary), tokens : Nat, steps : Nat]

\* What the sources made of the admission numbered k, and what their books say of all.
Matched(k) ==
  /\ mode.match = "prefix" => LongestPrefix(k) /\ ArrivalOrder(k)
  /\ mode.tokens = "trace" /\ mode.steps =>
       /\ mode.match = "index" /\ admitted[k].tokens \in StepsIndexed => admitted[k].steps = admitted[k].tokens
       /\ mode.match = "prefix" /\ TokensIndexed = StepsIndexed => admitted[k].steps = admitted[k].tokens

Books ==
  mode.match = "prefix" =>
    /\ consumed.tokens = {admitted[k].tokens : k \in DOMAIN admitted} \ {0}
    /\ consumed.steps = {admitted[k].steps : k \in DOMAIN admitted} \ {0}

\* The content of a request's output so far.
Content(q) ==
  /\ q.tokens # 0 => q.tokens \in DOMAIN TokenRows
  /\ q.steps # 0 => q.steps \in StepsIndexed
  /\ q.max_tokens = ClampBySteps(ClampByTokens(q.limit, q.tokens), q.steps)
  /\ Len(q.out) <= q.max_tokens /\ Len(q.out) = Total(q.chunks)
  /\ q.tokens \in TokensIndexed =>
       \A k \in 1..Len(q.out) :
         q.out[k] = IF k <= TokenRows[q.tokens].output THEN RecordedToken(q.tokens, k) ELSE RandomToken

\* Its chunks so far: those of its schedule, the last one cut if the request is at its end,
\* and the script holds what the schedule has left.
Chunked(q) ==
  LET rec == ReplaySubset[q.steps]
      framed == Framed(rec)
  IN q.steps # 0 /\ q.req \notin Remote =>
       /\ q.prefilling => q.chunks = << >> /\ q.out = << >> /\ q.script = rec.itl
       /\ ~q.prefilling =>
            /\ Len(q.chunks) >= 1 /\ Len(q.script) = Len(rec.itl) + 1 - Len(q.chunks)
            /\ \A k \in 1..Len(q.script) : q.script[k] = rec.itl[Len(q.chunks) - 1 + k]
       /\ Len(q.chunks) <= Len(framed)
       /\ \A k \in 1..(Len(q.chunks) - 1) : q.chunks[k] = framed[k]
       /\ q.chunks # << >> => q.chunks[Len(q.chunks)] <= framed[Len(q.chunks)]
       /\ Len(q.out) < q.max_tokens => \A k \in 1..Len(q.chunks) : q.chunks[k] = framed[k]

Running(q) == q \in RequestType /\ Content(q) /\ Chunked(q)

RanOut(f) == Running(f.request) /\ Len(f.request.out) >= f.request.max_tokens /\ f.reason = FinishReason(f.request)

ServeInv ==
  /\ mode \in Modes
  /\ admitted \in Seq(Admission)
  /\ Books
  /\ \A k \in DOMAIN admitted : Matched(k)
  /\ \A r \in DOMAIN live : Running(live[r])
  /\ \A f \in finished : RanOut(f)

LEMMA ServeInitInv == ServeInit => ServeInv
<1> SUFFICES ASSUME ServeInit PROVE ServeInv
  OBVIOUS
<1>1. mode \in Modes /\ admitted = << >> /\ live = << >> /\ finished = {} /\ consumed = [tokens |-> {}, steps |-> {}]
  BY DEF ServeInit
<1>2. DOMAIN << >> = {}
  <2>1. << >> \in [{} -> Nat]
    OBVIOUS
  <2> QED BY <2>1
<1>3. admitted \in Seq(Admission)
  BY <1>1
<1>4. Books
  BY <1>1, <1>2 DEF Books
<1> QED BY <1>1, <1>2, <1>3, <1>4 DEF ServeInv

LEMMA SourcesServe ==
  ASSUME NEW r \in Ids, NEW prompt \in Seq(Vocabulary)
  PROVE  /\ TokenRecord(r, prompt) \in Nat /\ (TokenRecord(r, prompt) # 0 => TokenRecord(r, prompt) \in DOMAIN TokenRows)
         /\ StepRecord(r, prompt) \in Nat /\ (StepRecord(r, prompt) # 0 => StepRecord(r, prompt) \in StepsIndexed)
<1>1. TokensIndexed \subseteq DOMAIN TokenRows /\ DOMAIN TokenRows \subseteq Nat \ {0} /\ StepsIndexed \subseteq Nat \ {0}
  BY TokenRowsFacts, StepRows DEF Rows
<1>2. ASSUME NEW used
      PROVE  MatchPrefix(TokenRows, TokensIndexed, used, prompt) \in TokensIndexed \cup {0}
  BY TokenRowsFacts, MatchFacts
<1>3. ASSUME NEW used
      PROVE  MatchPrefix(ReplaySubset, StepsIndexed, used, prompt) \in StepsIndexed \cup {0}
  BY StepRows, MatchFacts
<1>4. MatchIndex(TokenRows, r) \in DOMAIN TokenRows \cup {0}
  BY DEF MatchIndex
<1>5. TokenRecord(r, prompt) \in DOMAIN TokenRows \cup {0}
  BY <1>1, <1>2, <1>4 DEF TokenRecord
<1>6. StepRecord(r, prompt) \in StepsIndexed \cup {0}
  BY <1>3 DEF StepRecord
<1> DEFINE i == TokenRecord(r, prompt)
           s == StepRecord(r, prompt)
<1> HIDE DEF i, s
<1>7. i \in DOMAIN TokenRows \cup {0} /\ s \in StepsIndexed \cup {0}
  BY <1>5, <1>6 DEF i, s
<1>8. i \in Nat /\ (i # 0 => i \in DOMAIN TokenRows) /\ s \in Nat /\ (s # 0 => s \in StepsIndexed)
  BY <1>1, <1>7
<1> QED BY <1>8 DEF i, s

\* The record of an admission is the one the documents promise.
LEMMA AdmissionMatched ==
  ASSUME ServeInv, NEW r \in Ids, NEW prompt \in Seq(Vocabulary),
         NEW i, i = TokenRecord(r, prompt), NEW s, s = StepRecord(r, prompt),
         admitted' = Append(admitted, [prompt |-> prompt, tokens |-> i, steps |-> s]), mode' = mode
  PROVE  /\ admitted' \in Seq(Admission)
         /\ \A k \in DOMAIN admitted' : Matched(k)'
         /\ {admitted'[k].tokens : k \in DOMAIN admitted'} = {admitted[k].tokens : k \in DOMAIN admitted} \cup {i}
         /\ {admitted'[k].steps : k \in DOMAIN admitted'} = {admitted[k].steps : k \in DOMAIN admitted} \cup {s}
<1> DEFINE n == Len(admitted)
           new == [prompt |-> prompt, tokens |-> i, steps |-> s]
<1>1. admitted \in Seq(Admission) /\ Books /\ \A k \in DOMAIN admitted : Matched(k)
  BY DEF ServeInv
<1>2. new \in Admission /\ new.tokens = i /\ new.steps = s /\ new.prompt = prompt
  BY SourcesServe DEF Admission
<1> HIDE DEF new
<1>3. /\ admitted' \in Seq(Admission) /\ Len(admitted') = n + 1 /\ admitted'[n+1] = new /\ n \in Nat
      /\ \A k \in 1..n : admitted'[k] = admitted[k]
  <2>1. admitted' = Append(admitted, new)
    BY DEF new
  <2> QED BY <1>1, <1>2, <2>1, AppendProperties
<1>4. DOMAIN admitted = 1..n /\ DOMAIN admitted' = 1..(n+1)
  BY <1>1, <1>3
<1> HIDE DEF n
<1>m. PICK m : m = n + 1
  OBVIOUS
<1>5. m \in Nat /\ m - 1 = n /\ \A k : k \in 1..(n+1) <=> k \in 1..n \/ k = m
  BY <1>3, <1>m
<1>n. admitted'[m] = new /\ admitted'[m].tokens = i /\ admitted'[m].steps = s /\ admitted'[m].prompt = prompt
  BY <1>2, <1>3, <1>m
<1>6. /\ {admitted'[k].tokens : k \in DOMAIN admitted'} = {admitted[k].tokens : k \in DOMAIN admitted} \cup {i}
      /\ {admitted'[k].steps : k \in DOMAIN admitted'} = {admitted[k].steps : k \in DOMAIN admitted} \cup {s}
  BY <1>3, <1>4, <1>5, <1>n
<1>7. TokenRows' = TokenRows /\ TokensIndexed' = TokensIndexed /\ StepsIndexed' = StepsIndexed
  <2>1. TokenRows' = TokenRows
    BY DEF TokenRows
  <2> QED BY <2>1 DEF TokensIndexed, StepsIndexed
<1>8. ASSUME NEW k \in 1..n PROVE Matched(k)'
  <2>1. Matched(k) /\ admitted'[k] = admitted[k] /\ k \in Nat
    BY <1>1, <1>3, <1>4
  <2>2. LongestPrefix(k) => LongestPrefix(k)'
    BY <1>7, <2>1 DEF LongestPrefix
  <2>3. ArrivalOrder(k) => ArrivalOrder(k)'
    <3>1. \A j \in 1..(k-1) : admitted'[j] = admitted[j]
      <4>1. \A j \in 1..(k-1) : j \in 1..n
        BY <1>3, <2>1
      <4> QED BY <1>3, <4>1
    <3>2. {admitted'[j].tokens : j \in 1..(k-1)} = {admitted[j].tokens : j \in 1..(k-1)}
      BY <3>1
    <3> QED BY <1>7, <2>1, <3>2 DEF ArrivalOrder
  <2> QED BY <1>7, <2>1, <2>2, <2>3 DEF Matched
<1>9. ASSUME mode.match = "prefix" PROVE LongestPrefix(m)' /\ ArrivalOrder(m)'
  <2> DEFINE used == consumed.tokens
             before == {admitted'[j].tokens : j \in 1..(m-1)}
  <2>1. i = MatchPrefix(TokenRows, TokensIndexed, used, prompt)
    BY <1>9 DEF TokenRecord
  <2>2. \/ i = 0 /\ \A j \in TokensIndexed : SharedBlocks(prompt, TokenRows[j].prompt) = 0
        \/ /\ i \in TokensIndexed
           /\ \A j \in TokensIndexed : SharedBlocks(prompt, TokenRows[j].prompt) <= SharedBlocks(prompt, TokenRows[i].prompt)
           /\ \/ i \notin used /\ \A j \in Ties(TokenRows, TokensIndexed, prompt, i) : j < i => j \in used
              \/ /\ Ties(TokenRows, TokensIndexed, prompt, i) \subseteq used
                 /\ i = Min(Ties(TokenRows, TokensIndexed, prompt, i))
    BY <2>1, TokenRowsFacts, MatchFacts
  <2>3. before \ {0} = used
    <3>2. before = {admitted[j].tokens : j \in 1..n}
      BY <1>3, <1>5
    <3> QED BY <1>1, <1>4, <1>9, <3>2 DEF Books
  <2>4. 0 \notin TokensIndexed
    BY TokenRowsFacts
  <2> HIDE DEF used, before
  <2>5. LongestPrefix(m)'
    <3>1. CASE i = 0
      BY <1>n, <1>7, <2>2, <2>4, <3>1 DEF LongestPrefix
    <3>2. CASE i # 0
      BY <1>n, <1>7, <2>2, <3>2 DEF LongestPrefix
    <3> QED BY <3>1, <3>2
  <2>6. ASSUME i # 0
        PROVE  /\ \A j \in Ties(TokenRows, TokensIndexed, prompt, i) : j < i => j \in before
               /\ i \in before => /\ Ties(TokenRows, TokensIndexed, prompt, i) \subseteq before
                                  /\ i = Min(Ties(TokenRows, TokensIndexed, prompt, i))
    <3>1. used \subseteq before /\ (i \in before => i \in used)
      BY <2>3, <2>6
    <3>2. Ties(TokenRows, TokensIndexed, prompt, i) \subseteq TokensIndexed
      BY DEF Ties
    <3> QED BY <2>2, <2>6, <3>1, <3>2
  <2>7. ArrivalOrder(m)'
    <3>1. CASE i = 0
      BY <1>n, <3>1 DEF ArrivalOrder
    <3>2. CASE i # 0
      BY <1>n, <1>7, <2>6, <3>2 DEF ArrivalOrder, Ties, before
    <3> QED BY <3>1, <3>2
  <2> QED BY <2>5, <2>7
<1>10. ASSUME mode.tokens = "trace", mode.steps, mode.match = "index", i \in StepsIndexed PROVE s = i
  <2>1. TokenRows = ReplaySubset
    BY <1>10, TokenRowsFacts
  <2> QED BY <1>10, <2>1 DEF TokenRecord, StepRecord
<1>11. ASSUME mode.tokens = "trace", mode.steps, mode.match = "prefix", TokensIndexed = StepsIndexed PROVE s = i
  <2>1. TokenRows = ReplaySubset
    BY <1>11, TokenRowsFacts
  <2>2. \A k \in DOMAIN admitted : admitted[k].steps = admitted[k].tokens
    BY <1>1, <1>11 DEF Matched
  <2>3. consumed.steps = consumed.tokens
    <3>1. {admitted[k].steps : k \in DOMAIN admitted} = {admitted[k].tokens : k \in DOMAIN admitted}
      BY <2>2
    <3>2. /\ consumed.tokens = {admitted[k].tokens : k \in DOMAIN admitted} \ {0}
          /\ consumed.steps = {admitted[k].steps : k \in DOMAIN admitted} \ {0}
      BY <1>1, <1>11 DEF Books
    <3> QED BY <3>1, <3>2
  <2>4. mode.match # "index"
    BY <1>11
  <2> QED BY <1>11, <2>1, <2>3, <2>4 DEF TokenRecord, StepRecord
<1>12. Matched(m)'
  BY <1>n, <1>7, <1>9, <1>10, <1>11 DEF Matched
<1>13. \A k \in DOMAIN admitted' : Matched(k)'
  BY <1>4, <1>5, <1>8, <1>12
<1> QED BY <1>3, <1>6, <1>13

(***************************************************************************)
(* Admission                                                               *)
(***************************************************************************)
\* What clamping leaves of a client's limit.
LEMMA ClampFacts ==
  ASSUME NEW limit \in Nat, NEW i, i # 0 => i \in DOMAIN TokenRows, NEW s, s # 0 => s \in StepsIndexed,
         NEW m, m = ClampBySteps(ClampByTokens(limit, i), s)
  PROVE  /\ m \in Nat
         /\ s # 0 => m <= FirstChunk(ReplaySubset[s]) + Total(ReplaySubset[s].itl)
         /\ i # 0 /\ Clamps => m <= TokenRows[i].output
         /\ i # 0 /\ Clamps /\ s = 0 => m = MinOf(limit, TokenRows[i].output)
         /\ i # 0 /\ Clamps /\ s = i /\ TokenRows = ReplaySubset => m = MinOf(limit, TokenRows[i].output)
<1> DEFINE c == ClampByTokens(limit, i)
           o == TokenRows[i].output
           t == FirstChunk(ReplaySubset[s]) + Total(ReplaySubset[s].itl)
<1>1. i # 0 => o \in Nat
  BY TokenRowsFacts
<1>2. s # 0 => t \in Nat /\ ReplaySubset[s].output <= t
  <2>1. ASSUME s # 0 PROVE ReplaySubset[s] \in ValidRecord
    BY <2>1, StepRows
  <2> QED BY <2>1, RecordFacts
<1>3. c = (IF i # 0 /\ Clamps THEN MinOf(limit, o) ELSE limit) /\ m = (IF s # 0 THEN MinOf(c, t) ELSE c)
  BY DEF ClampByTokens, ClampBySteps
<1>4. s = i /\ TokenRows = ReplaySubset => o = ReplaySubset[s].output
  OBVIOUS
<1> HIDE DEF c, o, t
<1>5. c \in Nat /\ (i # 0 /\ Clamps => c = MinOf(limit, o) /\ c <= o)
  <2>1. CASE i # 0 /\ Clamps
    <3>1. c = MinOf(limit, o) /\ o \in Nat
      BY <1>1, <1>3, <2>1
    <3> QED BY <3>1 DEF MinOf
  <2>2. CASE ~(i # 0 /\ Clamps)
    BY <1>3, <2>2
  <2> QED BY <2>1, <2>2
<1>6. m \in Nat /\ (s # 0 => m <= t) /\ m <= c /\ (s = 0 => m = c)
  <2>1. CASE s # 0
    <3>1. m = MinOf(c, t) /\ t \in Nat
      BY <1>2, <1>3, <2>1
    <3> QED BY <1>5, <2>1, <3>1 DEF MinOf
  <2>2. CASE s = 0
    BY <1>3, <1>5, <2>2
  <2> QED BY <2>1, <2>2
<1>7. i # 0 /\ Clamps => m <= o
  BY <1>1, <1>5, <1>6
<1>8. i # 0 /\ Clamps /\ s = i /\ TokenRows = ReplaySubset => m = c
  BY <1>1, <1>2, <1>3, <1>4, <1>5 DEF MinOf
<1> QED BY <1>5, <1>6, <1>7, <1>8 DEF o, t

\* The mode a source is started with never changes, and with it what a request is held to.
LEMMA ModeKept ==
  ASSUME mode' = mode
  PROVE  /\ TokenRows' = TokenRows /\ TokensIndexed' = TokensIndexed /\ StepsIndexed' = StepsIndexed
         /\ \A q : Running(q) => Running(q)'
         /\ \A f : RanOut(f) => RanOut(f)'
<1>1. TokenRows' = TokenRows /\ TokensIndexed' = TokensIndexed /\ StepsIndexed' = StepsIndexed
  <2>1. TokenRows' = TokenRows
    BY DEF TokenRows
  <2> QED BY <2>1 DEF TokensIndexed, StepsIndexed
<1>2. ASSUME NEW q, Running(q) PROVE Running(q)'
  <2>1. Content(q)'
    BY <1>1, <1>2 DEF Running, Content, ClampByTokens, ClampBySteps, Clamps
  <2>2. Chunked(q)'
    BY <1>2 DEF Running, Chunked
  <2> QED BY <1>2, <2>1, <2>2 DEF Running
<1>3. ASSUME NEW f, RanOut(f) PROVE RanOut(f)'
  BY <1>1, <1>2, <1>3 DEF RanOut, FinishReason
<1> QED BY <1>1, <1>2, <1>3

\* A request is admitted with nothing emitted and its whole schedule ahead.
LEMMA AdmittedRuns ==
  ASSUME NEW r \in Ids, NEW prompt \in Seq(Vocabulary), NEW limit \in Nat,
         NEW i \in Nat, i # 0 => i \in DOMAIN TokenRows, NEW s \in Nat, s # 0 => s \in StepsIndexed,
         NEW q, q = [req |-> r, prompt |-> prompt, limit |-> limit, tokens |-> i, steps |-> s,
                     max_tokens |-> ClampBySteps(ClampByTokens(limit, i), s),
                     script |-> IF s # 0 THEN ReplaySubset[s].itl ELSE << >>,
                     prefilling |-> r \notin Remote, out |-> << >>, chunks |-> << >>]
  PROVE  Running(q)
<1> DEFINE m == ClampBySteps(ClampByTokens(limit, i), s)
           script == IF s # 0 THEN ReplaySubset[s].itl ELSE << >>
<1>1. m \in Nat
  BY ClampFacts
<1>2. s # 0 => ReplaySubset[s] \in ValidRecord /\ ReplaySubset[s].timed
  BY StepRows
<1>3. script \in Seq(Nat) /\ (s # 0 => script = ReplaySubset[s].itl)
  BY <1>2, RecordFacts
<1>4. << >> \in Seq(Nat) /\ << >> \in Seq(OutTokens) /\ Len(<< >>) = 0 /\ Total(<< >>) = 0
  <2>1. << >> \in Seq(Nat) /\ << >> \in Seq(OutTokens) /\ Len(<< >>) = 0
    OBVIOUS
  <2> QED BY <2>1, TotalFacts
<1>5. /\ q.req = r /\ q.prompt = prompt /\ q.limit = limit /\ q.tokens = i /\ q.steps = s
      /\ q.max_tokens = m /\ q.script = script /\ q.prefilling = (r \notin Remote)
      /\ q.out = << >> /\ q.chunks = << >>
  OBVIOUS
<1>6. q \in RequestType
  BY <1>1, <1>3, <1>4 DEF RequestType
<1> HIDE DEF script, m
<1>7. Content(q)
  BY <1>1, <1>4, <1>5 DEF Content, m
<1>8. Chunked(q)
  <2> SUFFICES ASSUME s # 0, r \notin Remote PROVE Chunked(q)
    BY <1>5 DEF Chunked
  <2>1. Len(Framed(ReplaySubset[s])) \in Nat
    <3>1. ReplaySubset[s] \in ValidRecord /\ ReplaySubset[s].timed
      BY <1>2
    <3>2. Framed(ReplaySubset[s]) \in Seq(Nat)
      BY <3>1, FramedFacts
    <3> QED BY <3>2
  <2>2. q.steps = s /\ q.chunks = << >> /\ q.out = << >> /\ q.script = ReplaySubset[s].itl /\ q.prefilling /\ Len(<< >>) = 0
    BY <1>3, <1>4, <1>5
  <2>3. \A k \in 1..0 : FALSE
    OBVIOUS
  <2>4. \A k \in 1..(0 - 1) : FALSE
    OBVIOUS
  <2> QED BY <2>1, <2>2, <2>3, <2>4 DEF Chunked
<1> QED BY <1>6, <1>7, <1>8 DEF Running

LEMMA AdmitKeeps ==
  ASSUME ServeInv, NEW r \in Ids, NEW prompt \in Prompts, NEW limit \in Limits, Admit(r, prompt, limit)
  PROVE  ServeInv'
<1>1. PICK i, s : i = TokenRecord(r, prompt) /\ s = StepRecord(r, prompt)
  OBVIOUS
<1> DEFINE q == [req |-> r, prompt |-> prompt, limit |-> limit, tokens |-> i, steps |-> s,
                 max_tokens |-> ClampBySteps(ClampByTokens(limit, i), s),
                 script |-> IF s # 0 THEN ReplaySubset[s].itl ELSE << >>,
                 prefilling |-> r \notin Remote, out |-> << >>, chunks |-> << >>]
<1>2. prompt \in Seq(Vocabulary) /\ limit \in Nat
  BY ReplayConstants
<1>3. /\ i \in Nat /\ (i # 0 => i \in DOMAIN TokenRows)
      /\ s \in Nat /\ (s # 0 => s \in StepsIndexed)
  BY <1>1, <1>2, SourcesServe
<1>4. Running(q)
  BY <1>2, <1>3, AdmittedRuns
<1>5. /\ admitted' = Append(admitted, [prompt |-> prompt, tokens |-> i, steps |-> s])
      /\ live' = [x \in DOMAIN live \cup {r} |-> IF x = r THEN q ELSE live[x]]
      /\ consumed' = [tokens |-> Consume(consumed.tokens, i), steps |-> Consume(consumed.steps, s)]
      /\ mode' = mode /\ finished' = finished
  BY <1>1 DEF Admit
<1> HIDE DEF q
<1>6. /\ admitted' \in Seq(Admission) /\ \A k \in DOMAIN admitted' : Matched(k)'
      /\ {admitted'[k].tokens : k \in DOMAIN admitted'} = {admitted[k].tokens : k \in DOMAIN admitted} \cup {i}
      /\ {admitted'[k].steps : k \in DOMAIN admitted'} = {admitted[k].steps : k \in DOMAIN admitted} \cup {s}
  BY <1>1, <1>2, <1>5, AdmissionMatched
<1>7. Books'
  <2> SUFFICES ASSUME mode.match = "prefix"
               PROVE  /\ consumed'.tokens = {admitted'[k].tokens : k \in DOMAIN admitted'} \ {0}
                      /\ consumed'.steps = {admitted'[k].steps : k \in DOMAIN admitted'} \ {0}
    BY <1>5 DEF Books
  <2>1. /\ consumed.tokens = {admitted[k].tokens : k \in DOMAIN admitted} \ {0}
        /\ consumed.steps = {admitted[k].steps : k \in DOMAIN admitted} \ {0}
    BY DEF ServeInv, Books
  <2>2. /\ consumed'.tokens = IF i # 0 THEN consumed.tokens \cup {i} ELSE consumed.tokens
        /\ consumed'.steps = IF s # 0 THEN consumed.steps \cup {s} ELSE consumed.steps
    BY <1>5 DEF Consume
  <2> QED BY <1>6, <2>1, <2>2
<1>8. \A x \in DOMAIN live' : Running(live[x])'
  <2>1. ASSUME NEW x \in DOMAIN live' PROVE Running(live[x])'
    <3>1. PICK y : y = live'[x]
      OBVIOUS
    <3>2. Running(y)
      BY <1>4, <1>5, <3>1 DEF ServeInv
    <3>3. Running(y)'
      BY <1>5, <3>2, ModeKept
    <3> QED BY <3>1, <3>3
  <2> QED BY <2>1
<1>9. \A f \in finished' : RanOut(f)'
  BY <1>5, ModeKept DEF ServeInv
<1> QED BY <1>5, <1>6, <1>7, <1>8, <1>9 DEF ServeInv

(***************************************************************************)
(* Generation                                                              *)
(***************************************************************************)
\* A step of a request, the body of Generate.
Stepped(q, n) ==
  [q EXCEPT !.out = q.out \o NextTokens(q, n),
            !.chunks = Append(q.chunks, n),
            !.prefilling = FALSE,
            !.script = IF q.prefilling \/ q.script = << >> THEN q.script ELSE Tail(q.script)]

LEMMA NextTokensFacts ==
  ASSUME NEW q, q \in RequestType, NEW n \in Nat
  PROVE  /\ NextTokens(q, n) \in Seq(OutTokens) /\ Len(NextTokens(q, n)) = n
         /\ \A k \in 1..n : NextTokens(q, n)[k] =
              IF q.tokens \in TokensIndexed /\ Len(q.out) + k <= TokenRows[q.tokens].output
                THEN RecordedToken(q.tokens, Len(q.out) + k) ELSE RandomToken
<1>1. q.out \in Seq(OutTokens) /\ q.tokens \in Nat
  BY DEF RequestType
<1>2. Len(q.out) \in Nat
  BY <1>1
<1> DEFINE t == NextTokens(q, n)
           At(k) == IF q.tokens \in TokensIndexed /\ Len(q.out) + k <= TokenRows[q.tokens].output
                      THEN RecordedToken(q.tokens, Len(q.out) + k) ELSE RandomToken
<1>3. t = [k \in 1..n |-> At(k)]
  BY DEF NextTokens
<1>4. ASSUME NEW k \in 1..n PROVE At(k) \in OutTokens
  <2>1. Len(q.out) + k \in Nat
    BY <1>2
  <2>2. RecordedToken(q.tokens, Len(q.out) + k) \in Nat \X Nat
    BY <1>1, <2>1 DEF RecordedToken
  <2> QED BY <2>2 DEF OutTokens
<1> HIDE DEF At
<1>5. t \in [1..n -> OutTokens]
  BY <1>3, <1>4
<1> HIDE DEF t
<1>6. t \in Seq(OutTokens) /\ Len(t) = n /\ \A k \in 1..n : t[k] = At(k)
  BY <1>3, <1>5
<1> QED BY <1>6 DEF t, At

\* The size of a step's chunk, and where it comes from when the request has a schedule.
LEMMA ChunkFacts ==
  ASSUME NEW q, Running(q), Len(q.out) < q.max_tokens
  PROVE  /\ ChunkTokens(q) \in Nat \ {0}
         /\ q.steps # 0 /\ q.req \notin Remote =>
              /\ Len(q.chunks) + 1 <= Len(Framed(ReplaySubset[q.steps]))
              /\ ChunkTokens(q) = Framed(ReplaySubset[q.steps])[Len(q.chunks) + 1]
              /\ ~q.prefilling => q.script # << >>
<1>1. q \in RequestType /\ Content(q) /\ Chunked(q)
  BY DEF Running
<1>2. /\ q.script \in Seq(Nat) /\ q.chunks \in Seq(Nat) /\ q.steps \in Nat
      /\ Len(q.chunks) \in Nat /\ Len(q.script) \in Nat /\ q.max_tokens \in Nat
      /\ q.prefilling \in BOOLEAN /\ q.limit \in Nat /\ q.tokens \in Nat
  <2>1. /\ q.script \in Seq(Nat) /\ q.chunks \in Seq(Nat) /\ q.steps \in Nat /\ q.max_tokens \in Nat
        /\ q.prefilling \in BOOLEAN /\ q.limit \in Nat /\ q.tokens \in Nat
    BY <1>1 DEF RequestType
  <2> QED BY <2>1
<1>3. ChunkSize \in Nat \ {0}
  BY ReplayConstants
<1> DEFINE rec == ReplaySubset[q.steps]
           framed == Framed(rec)
           c == Len(q.chunks)
<1>4. q.steps # 0 => rec \in ValidRecord /\ rec.timed /\ q.steps \in StepsIndexed
  BY <1>1, StepRows DEF Content
<1>5. q.steps # 0 => FirstChunk(rec) \in Nat \ {0}
  BY <1>4, RecordFacts
<1>6. ChunkTokens(q) \in Nat \ {0}
  <2>1. CASE q.prefilling
    BY <1>3, <1>5, <2>1 DEF ChunkTokens
  <2>2. CASE ~q.prefilling /\ q.script # << >>
    <3>1. Head(q.script) \in Nat
      BY <1>2, <2>2, HeadTailProperties
    <3> QED BY <1>3, <2>2, <3>1 DEF ChunkTokens
  <2>3. CASE ~q.prefilling /\ q.script = << >>
    BY <1>3, <2>3 DEF ChunkTokens
  <2> QED BY <2>1, <2>2, <2>3
<1>7. ASSUME q.steps # 0, q.req \notin Remote
      PROVE  c + 1 <= Len(framed) /\ ChunkTokens(q) = framed[c + 1] /\ (~q.prefilling => q.script # << >>)
  <2>1. /\ framed \in Seq(Nat) /\ Len(framed) = Len(rec.itl) + 1 /\ Len(rec.itl) \in Nat
        /\ framed[1] = FirstChunk(rec)
        /\ \A k \in 1..Len(rec.itl) : framed[k+1] = FramedSize(rec, k)
        /\ FirstChunk(rec) + Total(rec.itl) <= Total(framed) /\ Total(framed) \in Nat
    BY <1>4, <1>7, FramedFacts
  <2> HIDE DEF framed
  <2>2. /\ q.prefilling => q.chunks = << >> /\ q.script = rec.itl
        /\ ~q.prefilling =>
             /\ c >= 1 /\ Len(q.script) = Len(rec.itl) + 1 - c
             /\ \A k \in 1..Len(q.script) : q.script[k] = rec.itl[c - 1 + k]
        /\ c <= Len(framed)
        /\ \A k \in 1..c : q.chunks[k] = framed[k]
    BY <1>1, <1>7 DEF Chunked, framed
  <2>3. CASE q.prefilling
    <3>1. c = 0
      BY <2>2, <2>3
    <3> QED BY <1>7, <2>1, <2>3, <3>1 DEF ChunkTokens
  <2>4. CASE ~q.prefilling
    <3>1. c # Len(framed)
      <4>1. ASSUME c = Len(framed) PROVE FALSE
        <5>1. q.chunks = framed
          BY <1>2, <2>1, <2>2, <4>1, SeqEqual
        <5>2. Len(q.out) = Total(framed)
          BY <1>1, <5>1 DEF Content
        <5>3. q.max_tokens <= FirstChunk(rec) + Total(rec.itl)
          <6>1. q.max_tokens = ClampBySteps(ClampByTokens(q.limit, q.tokens), q.steps)
                /\ (q.tokens # 0 => q.tokens \in DOMAIN TokenRows)
            BY <1>1 DEF Content
          <6> QED BY <1>2, <1>4, <1>7, <6>1, ClampFacts
        <5>4. FirstChunk(rec) + Total(rec.itl) \in Nat
          <6>1. rec \in ValidRecord
            BY <1>4, <1>7
          <6> QED BY <6>1, RecordFacts
        <5> HIDE DEF rec
        <5> QED BY <1>2, <2>1, <5>2, <5>3, <5>4
      <4> QED BY <4>1
    <3>2. Len(q.script) >= 1 /\ 1 \in 1..Len(q.script) /\ c \in 1..Len(rec.itl)
      <4>1. c >= 1 /\ c <= Len(framed) /\ Len(q.script) = Len(rec.itl) + 1 - c
        BY <2>2, <2>4
      <4>2. c \in Nat /\ Len(q.script) \in Nat
        BY <1>2
      <4> HIDE DEF c, rec
      <4> QED BY <2>1, <3>1, <4>1, <4>2
    <3>3. q.script[1] = rec.itl[c]
      <4>1. c - 1 + 1 = c
        BY <1>2
      <4> QED BY <2>2, <2>4, <3>2, <4>1
    <3>4. q.script # << >> /\ Head(q.script) = rec.itl[c]
      BY <1>2, <3>2, <3>3
    <3>5. ChunkTokens(q) = FramedSize(rec, c)
      BY <2>4, <3>4 DEF ChunkTokens, FramedSize
    <3>6. c + 1 <= Len(framed)
      BY <1>2, <2>1, <3>2
    <3> QED BY <2>1, <3>2, <3>4, <3>5, <3>6
  <2> QED BY <1>2, <2>3, <2>4 DEF framed
<1> QED BY <1>6, <1>7

\* A step leaves the request running.
LEMMA SteppedRuns ==
  ASSUME NEW q, Running(q), Len(q.out) < q.max_tokens,
         NEW n, n = MinOf(ChunkTokens(q), q.max_tokens - Len(q.out))
  PROVE  Running(Stepped(q, n))
<1>1. q \in RequestType /\ Content(q) /\ Chunked(q)
  BY DEF Running
<1>2. /\ q.req \in Ids /\ q.prompt \in Seq(Vocabulary) /\ q.limit \in Nat /\ q.tokens \in Nat /\ q.steps \in Nat
      /\ q.max_tokens \in Nat /\ q.script \in Seq(Nat) /\ q.prefilling \in BOOLEAN
      /\ q.out \in Seq(OutTokens) /\ q.chunks \in Seq(Nat)
  BY <1>1 DEF RequestType
<1> DEFINE p == Stepped(q, n)
           a == Len(q.out)
           c == Len(q.chunks)
           m == q.max_tokens
           script == IF q.prefilling \/ q.script = << >> THEN q.script ELSE Tail(q.script)
<1>3. a \in Nat /\ c \in Nat /\ m \in Nat /\ a < m
  BY <1>2
<1>4. ChunkTokens(q) \in Nat \ {0}
  BY ChunkFacts
<1>5. n \in Nat \ {0} /\ n <= ChunkTokens(q) /\ a + n <= m /\ (a + n < m => n = ChunkTokens(q))
  <2> HIDE DEF a, m
  <2>1. n = MinOf(ChunkTokens(q), m - a)
    BY DEF m, a
  <2> QED BY <1>3, <1>4, <2>1 DEF MinOf
<1>6. /\ NextTokens(q, n) \in Seq(OutTokens) /\ Len(NextTokens(q, n)) = n
      /\ \A k \in 1..n : NextTokens(q, n)[k] =
           IF q.tokens \in TokensIndexed /\ a + k <= TokenRows[q.tokens].output
             THEN RecordedToken(q.tokens, a + k) ELSE RandomToken
  BY <1>1, <1>5, NextTokensFacts
<1>7. script \in Seq(Nat)
  BY <1>2, HeadTailProperties
<1> HIDE DEF script
<1> DEFINE out == q.out \o NextTokens(q, n)
           chunks == Append(q.chunks, n)
<1>o. /\ out \in Seq(OutTokens) /\ Len(out) = a + n
      /\ \A k \in 1..(a + n) : out[k] = IF k <= a THEN q.out[k] ELSE NextTokens(q, n)[k - a]
  <2> DEFINE x == NextTokens(q, n)
             o == q.out
  <2>1. o \in Seq(OutTokens) /\ x \in Seq(OutTokens) /\ Len(o) = a /\ Len(x) = n
    BY <1>2, <1>6
  <2> HIDE DEF x, o, a
  <2>2. /\ o \o x \in Seq(OutTokens) /\ Len(o \o x) = Len(o) + Len(x)
        /\ \A k \in 1..(Len(o) + Len(x)) : (o \o x)[k] = IF k <= Len(o) THEN o[k] ELSE x[k - Len(o)]
    BY <2>1, ConcatProperties
  <2>3. out = o \o x
    BY DEF out, o, x
  <2>4. /\ out \in Seq(OutTokens) /\ Len(out) = a + n
        /\ \A k \in 1..(a + n) : out[k] = IF k <= a THEN o[k] ELSE x[k - a]
    BY <2>1, <2>2, <2>3
  <2> QED BY <2>4 DEF o, x
<1>c. /\ chunks \in Seq(Nat) /\ Len(chunks) = c + 1 /\ chunks[c + 1] = n
      /\ \A k \in 1..c : chunks[k] = q.chunks[k]
      /\ chunks # << >>
  <2> DEFINE x == q.chunks
  <2>1. n \in Nat /\ x \in Seq(Nat) /\ Len(x) = c
    BY <1>2, <1>5
  <2> HIDE DEF x, c
  <2>2. /\ Append(x, n) \in Seq(Nat) /\ Len(Append(x, n)) = c + 1 /\ Append(x, n)[c + 1] = n
        /\ \A k \in 1..c : Append(x, n)[k] = x[k]
        /\ Append(x, n) # << >>
    BY <2>1, AppendProperties
  <2> QED BY <2>2 DEF chunks, x
<1> HIDE DEF out, chunks
<1>8. /\ p.req = q.req /\ p.prompt = q.prompt /\ p.limit = q.limit /\ p.tokens = q.tokens /\ p.steps = q.steps
      /\ p.max_tokens = m /\ p.script = script /\ p.prefilling = FALSE /\ p.out = out /\ p.chunks = chunks
      /\ p \in RequestType
  <2>1. p = [q EXCEPT !.out = out, !.chunks = chunks, !.prefilling = FALSE, !.script = script]
    BY DEF Stepped, out, chunks, script
  <2> QED BY <1>1, <1>7, <1>o, <1>c, <2>1 DEF RequestType
<1>9. /\ p.out \in Seq(OutTokens) /\ Len(p.out) = a + n
      /\ \A k \in 1..(a + n) : p.out[k] = IF k <= a THEN q.out[k] ELSE NextTokens(q, n)[k - a]
  BY <1>8, <1>o
<1>10. /\ p.chunks \in Seq(Nat) /\ Len(p.chunks) = c + 1 /\ p.chunks[c + 1] = n
       /\ \A k \in 1..c : p.chunks[k] = q.chunks[k]
       /\ p.chunks # << >>
  BY <1>8, <1>c
<1> HIDE DEF p, a, c, m
<1>12. Content(p)
  <2>1. Total(p.chunks) = a + n
    <3>1. Total(p.chunks) = Total(q.chunks) + n
      BY <1>2, <1>5, <1>8, TotalAppend DEF chunks
    <3> QED BY <1>1, <3>1 DEF Content, a
  <2>2. ASSUME q.tokens \in TokensIndexed, NEW k \in 1..(a + n)
        PROVE  p.out[k] = IF k <= TokenRows[q.tokens].output THEN RecordedToken(q.tokens, k) ELSE RandomToken
    <3>1. CASE k <= a
      <4>1. k \in 1..Len(q.out)
        BY <1>3, <3>1 DEF a
      <4> QED BY <1>1, <1>9, <2>2, <3>1, <4>1 DEF Content
    <3>2. CASE k > a
      <4>1. k - a \in 1..n /\ a + (k - a) = k
        BY <1>3, <1>5, <3>2
      <4>2. p.out[k] = NextTokens(q, n)[k - a]
        BY <1>3, <1>9, <3>2
      <4> QED BY <1>6, <2>2, <4>1, <4>2
    <3> QED BY <1>3, <3>1, <3>2
  <2> QED BY <1>1, <1>5, <1>8, <1>9, <2>1, <2>2 DEF Content, m
<1>13. Chunked(p)
  <2> DEFINE rec == ReplaySubset[q.steps]
             framed == Framed(rec)
  <2> SUFFICES ASSUME q.steps # 0, q.req \notin Remote PROVE Chunked(p)
    BY <1>8 DEF Chunked
  <2>1. c + 1 <= Len(framed) /\ ChunkTokens(q) = framed[c + 1] /\ (~q.prefilling => q.script # << >>)
    BY ChunkFacts DEF c
  <2>2. /\ q.prefilling => q.chunks = << >> /\ q.script = rec.itl
        /\ ~q.prefilling =>
             /\ c >= 1 /\ Len(q.script) = Len(rec.itl) + 1 - c
             /\ \A k \in 1..Len(q.script) : q.script[k] = rec.itl[c - 1 + k]
        /\ \A k \in 1..c : q.chunks[k] = framed[k]
    BY <1>1 DEF Chunked, c
  <2>3. Len(rec.itl) \in Nat
    <3>1. q.steps \in StepsIndexed
      BY <1>1 DEF Content
    <3>2. rec \in ValidRecord
      BY <3>1, StepRows
    <3>3. rec.itl \in Seq(Nat)
      BY <3>2, RecordFacts
    <3> QED BY <3>3
  <2> HIDE DEF framed
  <2>4. Len(p.script) = Len(rec.itl) + 1 - (c + 1) /\ \A k \in 1..Len(p.script) : p.script[k] = rec.itl[c + k]
    <3>1. CASE q.prefilling
      <4>1. c = 0
        BY <2>2, <3>1 DEF c
      <4>2. p.script = rec.itl
        BY <1>8, <2>2, <3>1 DEF script
      <4> HIDE DEF rec
      <4>3. \A k \in 1..Len(p.script) : c + k = k
        BY <4>1
      <4> QED BY <2>3, <4>1, <4>2, <4>3
    <3>2. CASE ~q.prefilling
      <4>1. p.script = Tail(q.script) /\ q.script # << >>
        BY <1>8, <2>1, <3>2 DEF script
      <4>2. Len(p.script) = Len(q.script) - 1 /\ \A k \in 1..Len(p.script) : p.script[k] = q.script[k+1]
        BY <1>2, <4>1, HeadTailProperties
      <4>3. Len(q.script) \in Nat
        BY <1>2
      <4>4. ASSUME NEW k \in 1..Len(p.script) PROVE p.script[k] = rec.itl[c + k]
        <5>1. k + 1 \in 1..Len(q.script) /\ c - 1 + (k + 1) = c + k
          <6>1. k \in Nat /\ k >= 1 /\ k <= Len(q.script) - 1
            BY <4>2, <4>3
          <6> QED BY <1>3, <4>3, <6>1
        <5> QED BY <2>2, <3>2, <4>2, <5>1
      <4>5. Len(p.script) = Len(rec.itl) + 1 - (c + 1)
        <5> HIDE DEF rec
        <5>1. Len(q.script) = Len(rec.itl) + 1 - c /\ Len(p.script) = Len(q.script) - 1
          BY <2>2, <3>2, <4>2
        <5>2. PICK x, y, z : x = Len(rec.itl) /\ y = Len(q.script) /\ z = Len(p.script)
          OBVIOUS
        <5>3. x \in Nat /\ y \in Nat /\ y = x + 1 - c /\ z = y - 1
          BY <2>3, <4>3, <5>1, <5>2
        <5>4. z = x + 1 - (c + 1)
          BY <1>3, <5>3
        <5> QED BY <5>2, <5>4
      <4> QED BY <4>4, <4>5
    <3> QED BY <1>2, <3>1, <3>2
  <2>5. \A k \in 1..((c + 1) - 1) : p.chunks[k] = framed[k]
    BY <1>3, <1>10, <2>2
  <2>6. p.chunks[c + 1] <= framed[c + 1]
    BY <1>5, <1>10, <2>1
  <2>7. a + n < m => \A k \in 1..(c + 1) : p.chunks[k] = framed[k]
    <3>1. ASSUME a + n < m, NEW k \in 1..(c + 1) PROVE p.chunks[k] = framed[k]
      <4>1. CASE k = c + 1
        BY <1>5, <1>10, <2>1, <3>1, <4>1
      <4>2. CASE k # c + 1
        <5>1. k \in 1..c
          BY <1>3, <3>1, <4>2
        <5> QED BY <1>10, <2>2, <5>1
      <4> QED BY <4>1, <4>2
    <3> QED BY <3>1
  <2>8. \A k \in 1..Len(p.script) : (c + 1) - 1 + k = c + k
    BY <1>3
  <2>9. c + 1 >= 1
    BY <1>3
  <2>10. p.steps = q.steps /\ p.prefilling = FALSE /\ p.max_tokens = m
    BY <1>8
  <2> HIDE DEF rec
  <2>11. Len(p.script) = Len(rec.itl) + 1 - Len(p.chunks) /\ \A k \in 1..Len(p.script) : p.script[k] = rec.itl[Len(p.chunks) - 1 + k]
    BY <1>10, <2>4, <2>8
  <2> QED BY <1>9, <1>10, <2>1, <2>5, <2>6, <2>7, <2>9, <2>10, <2>11 DEF Chunked, framed, rec
<1> QED BY <1>8, <1>12, <1>13 DEF Running, p

(***************************************************************************)
(* The invariant is inductive                                              *)
(***************************************************************************)
\* A step that admits nobody leaves the sources' books alone.
LEMMA BooksKept ==
  ASSUME ServeInv, mode' = mode, admitted' = admitted, consumed' = consumed
  PROVE  mode' \in Modes /\ admitted' \in Seq(Admission) /\ Books' /\ \A k \in DOMAIN admitted' : Matched(k)'
<1>1. mode' \in Modes /\ admitted' \in Seq(Admission) /\ Books'
  BY DEF ServeInv, Books
<1>2. TokenRows' = TokenRows /\ TokensIndexed' = TokensIndexed /\ StepsIndexed' = StepsIndexed
  BY ModeKept
<1>3. ASSUME NEW k \in DOMAIN admitted' PROVE Matched(k)'
  <2>1. Matched(k)
    BY <1>3 DEF ServeInv
  <2>2. LongestPrefix(k) => LongestPrefix(k)'
    BY <1>2 DEF LongestPrefix
  <2>3. ArrivalOrder(k) => ArrivalOrder(k)'
    BY <1>2 DEF ArrivalOrder
  <2> QED BY <1>2, <2>1, <2>2, <2>3 DEF Matched
<1> QED BY <1>1, <1>3

LEMMA GenerateKeeps ==
  ASSUME ServeInv, NEW r \in Ids, Generate(r)
  PROVE  ServeInv'
<1>1. PICK q : q = live[r]
  OBVIOUS
<1>2. PICK n : n = MinOf(ChunkTokens(q), q.max_tokens - Len(q.out))
  OBVIOUS
<1>3. /\ r \in DOMAIN live /\ Len(q.out) < q.max_tokens
      /\ live' = [live EXCEPT ![r] = Stepped(q, n)]
      /\ mode' = mode /\ consumed' = consumed /\ admitted' = admitted /\ finished' = finished
  BY <1>1, <1>2 DEF Generate, Stepped
<1>4. Running(q)
  BY <1>1, <1>3 DEF ServeInv
<1>5. Running(Stepped(q, n))
  BY <1>2, <1>3, <1>4, SteppedRuns
<1>6. PICK p : p = Stepped(q, n)
  OBVIOUS
<1>7. \A x \in DOMAIN live' : Running(live[x])'
  <2>1. ASSUME NEW x \in DOMAIN live' PROVE Running(live[x])'
    <3>1. PICK y : y = live'[x]
      OBVIOUS
    <3>2. Running(y)
      <4>1. x \in DOMAIN live /\ (y = p \/ y = live[x])
        BY <1>3, <1>6, <2>1, <3>1
      <4>2. Running(live[x])
        BY <4>1 DEF ServeInv
      <4> QED BY <1>5, <1>6, <4>1, <4>2
    <3>3. Running(y)'
      BY <1>3, <3>2, ModeKept
    <3> QED BY <3>1, <3>3
  <2> QED BY <2>1
<1>8. \A f \in finished' : RanOut(f)'
  BY <1>3, ModeKept DEF ServeInv
<1>9. mode' \in Modes /\ admitted' \in Seq(Admission) /\ Books' /\ \A k \in DOMAIN admitted' : Matched(k)'
  BY <1>3, BooksKept
<1> QED BY <1>7, <1>8, <1>9 DEF ServeInv

\* Dropping a request leaves the others running.
LEMMA OthersRun ==
  ASSUME ServeInv, NEW r, mode' = mode, live' = Without(r)
  PROVE  \A x \in DOMAIN live' : Running(live[x])'
<1>1. ASSUME NEW x \in DOMAIN live' PROVE Running(live[x])'
  <2>1. PICK y : y = live'[x]
    OBVIOUS
  <2>2. x \in DOMAIN live /\ y = live[x]
    BY <1>1, <2>1 DEF Without
  <2>3. Running(y)
    BY <2>2 DEF ServeInv
  <2>4. Running(y)'
    BY <2>3, ModeKept
  <2> QED BY <2>1, <2>4
<1> QED BY <1>1

LEMMA FinishKeeps ==
  ASSUME ServeInv, NEW r \in Ids, Finish(r)
  PROVE  ServeInv'
<1>1. PICK q, e : q = live[r] /\ e = [request |-> q, reason |-> FinishReason(q)]
  OBVIOUS
<1>2. /\ r \in DOMAIN live /\ Len(q.out) >= q.max_tokens
      /\ finished' = finished \cup {e} /\ live' = Without(r)
      /\ mode' = mode /\ consumed' = consumed /\ admitted' = admitted
  BY <1>1 DEF Finish
<1>3. Running(q)
  BY <1>1, <1>2 DEF ServeInv
<1>4. RanOut(e)
  BY <1>1, <1>2, <1>3 DEF RanOut
<1>5. \A f \in finished' : RanOut(f)'
  <2>1. \A f \in finished' : RanOut(f)
    BY <1>2, <1>4 DEF ServeInv
  <2> QED BY <1>2, <2>1, ModeKept
<1>6. \A x \in DOMAIN live' : Running(live[x])'
  BY <1>2, OthersRun
<1>7. mode' \in Modes /\ admitted' \in Seq(Admission) /\ Books' /\ \A k \in DOMAIN admitted' : Matched(k)'
  BY <1>2, BooksKept
<1> QED BY <1>5, <1>6, <1>7 DEF ServeInv

LEMMA AbortKeeps ==
  ASSUME ServeInv, NEW r \in Ids, AbortRequest(r)
  PROVE  ServeInv'
<1>1. live' = Without(r) /\ mode' = mode /\ consumed' = consumed /\ admitted' = admitted /\ finished' = finished
  BY DEF AbortRequest
<1>2. \A f \in finished' : RanOut(f)'
  BY <1>1, ModeKept DEF ServeInv
<1>3. \A x \in DOMAIN live' : Running(live[x])'
  BY <1>1, OthersRun
<1>4. mode' \in Modes /\ admitted' \in Seq(Admission) /\ Books' /\ \A k \in DOMAIN admitted' : Matched(k)'
  BY <1>1, BooksKept
<1> QED BY <1>2, <1>3, <1>4 DEF ServeInv

LEMMA ServeUnchanged ==
  ASSUME ServeInv, UNCHANGED serveVars
  PROVE  ServeInv'
<1>1. live' = live /\ mode' = mode /\ consumed' = consumed /\ admitted' = admitted /\ finished' = finished
  BY DEF serveVars
<1>2. \A f \in finished' : RanOut(f)'
  BY <1>1, ModeKept DEF ServeInv
<1>3. \A x \in DOMAIN live' : Running(live[x])'
  <2>1. ASSUME NEW x \in DOMAIN live' PROVE Running(live[x])'
    <3>1. PICK y : y = live'[x]
      OBVIOUS
    <3>2. Running(y)
      BY <1>1, <2>1, <3>1 DEF ServeInv
    <3>3. Running(y)'
      BY <1>1, <3>2, ModeKept
    <3> QED BY <3>1, <3>3
  <2> QED BY <2>1
<1>4. mode' \in Modes /\ admitted' \in Seq(Admission) /\ Books' /\ \A k \in DOMAIN admitted' : Matched(k)'
  BY <1>1, BooksKept
<1> QED BY <1>2, <1>3, <1>4 DEF ServeInv

THEOREM ServeInvariant == ServeSpec => []ServeInv
<1>1. ServeInit => ServeInv
  BY ServeInitInv
<1>2. ServeInv /\ [ServeNext]_serveVars => ServeInv'
  <2> SUFFICES ASSUME ServeInv, [ServeNext]_serveVars PROVE ServeInv'
    OBVIOUS
  <2>1. ASSUME NEW r \in Ids, NEW prompt \in Prompts, NEW limit \in Limits, Admit(r, prompt, limit) PROVE ServeInv'
    BY <2>1, AdmitKeeps
  <2>2. ASSUME NEW r \in Ids, Generate(r) PROVE ServeInv'
    BY <2>2, GenerateKeeps
  <2>3. ASSUME NEW r \in Ids, Finish(r) PROVE ServeInv'
    BY <2>3, FinishKeeps
  <2>4. ASSUME NEW r \in Ids, AbortRequest(r) PROVE ServeInv'
    BY <2>4, AbortKeeps
  <2>5. CASE Idle
    BY <2>5, ServeUnchanged DEF Idle
  <2>6. CASE UNCHANGED serveVars
    BY <2>6, ServeUnchanged
  <2> QED BY <2>1, <2>2, <2>3, <2>4, <2>5, <2>6 DEF ServeNext
<1> QED BY <1>1, <1>2, PTL DEF ServeSpec

(***************************************************************************)
(* What the invariant says                                                 *)
(***************************************************************************)
LEMMA MatchedRecords == ServeInv => RecordsMatched
<1> SUFFICES ASSUME ServeInv PROVE RecordsMatched
  OBVIOUS
<1>1. mode.match \in {"index", "prefix"}
  BY ReplayConstants DEF ServeInv
<1>2. ConsumeOnceMatching
  BY DEF ServeInv, Matched, ConsumeOnceMatching
<1>3. SameRecord
  <2> SUFFICES ASSUME mode.match = "prefix" => TokensIndexed = StepsIndexed,
                      mode.tokens = "trace", mode.steps,
                      NEW k \in DOMAIN admitted, admitted[k].tokens \in StepsIndexed
               PROVE  admitted[k].steps = admitted[k].tokens
    BY DEF SameRecord, OneRecord
  <2>1. Matched(k)
    BY DEF ServeInv
  <2> QED BY <1>1, <2>1 DEF Matched
<1> QED BY <1>2, <1>3 DEF RecordsMatched

\* A request that ran to its end emitted exactly its limit.
LEMMA RanOutFacts ==
  ASSUME NEW f, RanOut(f), NEW q, q = f.request
  PROVE  /\ Running(q) /\ q \in RequestType /\ Content(q) /\ Chunked(q)
         /\ Len(q.out) \in Nat /\ DOMAIN q.out = 1..Len(q.out) /\ Len(q.chunks) \in Nat
         /\ Len(q.out) = q.max_tokens /\ q.limit \in Nat /\ q.chunks \in Seq(Nat) /\ q.tokens \in Nat
         /\ f.reason = FinishReason(q)
<1>1. Running(q) /\ q \in RequestType /\ Content(q) /\ Chunked(q) /\ Len(q.out) >= q.max_tokens /\ f.reason = FinishReason(q)
  BY DEF RanOut, Running
<1>2. q.out \in Seq(OutTokens) /\ q.chunks \in Seq(Nat) /\ q.max_tokens \in Nat /\ q.limit \in Nat /\ q.tokens \in Nat
  BY <1>1 DEF RequestType
<1>3. Len(q.out) \in Nat /\ DOMAIN q.out = 1..Len(q.out) /\ Len(q.chunks) \in Nat
  BY <1>2
<1>4. Len(q.out) <= q.max_tokens
  BY <1>1 DEF Content
<1>5. Len(q.out) = q.max_tokens
  BY <1>1, <1>2, <1>3, <1>4
<1> QED BY <1>1, <1>2, <1>3, <1>5

LEMMA VerbatimContent == ServeInv => ContentIdentical
<1> SUFFICES ASSUME ServeInv, NEW f \in finished, NEW q, q = f.request, q.tokens \in TokensIndexed
             PROVE  /\ \A k \in DOMAIN q.out :
                         q.out[k] = IF k <= TokenRows[q.tokens].output THEN RecordedToken(q.tokens, k) ELSE RandomToken
                    /\ (q.steps = 0 \/ (mode.tokens = "trace" /\ q.steps = q.tokens)) /\ Clamps =>
                         Len(q.out) = MinOf(q.limit, TokenRows[q.tokens].output)
                    /\ Len(q.out) = TokenRows[q.tokens].output => f.reason \in {"stop", TokenRows[q.tokens].fin}
  BY DEF ContentIdentical
<1>1. /\ Content(q) /\ DOMAIN q.out = 1..Len(q.out) /\ Len(q.out) \in Nat
      /\ Len(q.out) = q.max_tokens /\ q.limit \in Nat /\ f.reason = FinishReason(q)
  <2>1. RanOut(f)
    BY DEF ServeInv
  <2> QED BY <2>1, RanOutFacts
<1>2. q.tokens \in DOMAIN TokenRows /\ q.tokens # 0 /\ TokenRows[q.tokens].output \in Nat
  BY TokenRowsFacts
<1>3. ASSUME q.steps = 0 \/ (mode.tokens = "trace" /\ q.steps = q.tokens), Clamps
      PROVE  Len(q.out) = MinOf(q.limit, TokenRows[q.tokens].output)
  <2> DEFINE i == q.tokens
             s == q.steps
             m == q.max_tokens
  <2>1. m = ClampBySteps(ClampByTokens(q.limit, i), s) /\ (s # 0 => s \in StepsIndexed)
    BY <1>1 DEF Content
  <2>2. i # 0 /\ i \in DOMAIN TokenRows /\ q.limit \in Nat
    BY <1>1, <1>2
  <2>3. s # 0 => s = i /\ TokenRows = ReplaySubset
    BY <1>3, TokenRowsFacts
  <2> HIDE DEF i, s, m
  <2>4. m = MinOf(q.limit, TokenRows[i].output)
    BY <1>3, <2>1, <2>2, <2>3, ClampFacts
  <2> QED BY <1>1, <2>4 DEF i, m
<1>4. ASSUME Len(q.out) = TokenRows[q.tokens].output PROVE f.reason \in {"stop", TokenRows[q.tokens].fin}
  BY <1>1, <1>2, <1>4 DEF FinishReason
<1> QED BY <1>1, <1>3, <1>4 DEF Content

LEMMA VerbatimSchedule == ServeInv => ScheduleVerbatim
<1> SUFFICES ASSUME ServeInv, NEW f \in finished, NEW q, q = f.request, q.steps # 0, q.req \notin Remote,
                    NEW rec, rec = ReplaySubset[q.steps], NEW framed, framed = Framed(rec)
             PROVE  /\ Len(q.chunks) <= Len(framed)
                    /\ \A k \in 1..(Len(q.chunks) - 1) : q.chunks[k] = framed[k]
                    /\ q.chunks # << >> => Last(q.chunks) <= framed[Len(q.chunks)]
                    /\ ChunkSize = 1 /\ q.max_tokens = FirstChunk(rec) + Total(rec.itl) =>
                         q.chunks = <<FirstChunk(rec)>> \o rec.itl
  BY DEF ScheduleVerbatim
<1> DEFINE c == Len(q.chunks)
<1>1. /\ Content(q) /\ Chunked(q) /\ c \in Nat /\ q.chunks \in Seq(Nat) /\ Len(q.out) = q.max_tokens
  <2>1. RanOut(f)
    BY DEF ServeInv
  <2> QED BY <2>1, RanOutFacts
<1>2. /\ c <= Len(framed)
      /\ \A k \in 1..(c - 1) : q.chunks[k] = framed[k]
      /\ q.chunks # << >> => q.chunks[c] <= framed[c]
  BY <1>1 DEF Chunked
<1>3. q.chunks # << >> => Last(q.chunks) <= framed[c]
  BY <1>2 DEF Last
<1>4. rec \in ValidRecord /\ rec.timed
  BY <1>1, StepRows DEF Content
<1>5. ASSUME ChunkSize = 1, q.max_tokens = FirstChunk(rec) + Total(rec.itl)
      PROVE  q.chunks = <<FirstChunk(rec)>> \o rec.itl
  <2>1. /\ framed \in Seq(Nat) /\ \A k \in 1..Len(framed) : framed[k] > 0
        /\ framed = <<FirstChunk(rec)>> \o rec.itl /\ Total(framed) = FirstChunk(rec) + Total(rec.itl)
    BY <1>4, <1>5, FramedFacts
  <2>2. Total(q.chunks) = Total(framed)
    BY <1>1, <1>5, <2>1 DEF Content
  <2>3. ASSUME NEW k \in 1..c PROVE q.chunks[k] <= framed[k]
    <3>1. q.chunks # << >>
      BY <1>1, <2>3
    <3>2. k \in 1..(c - 1) \/ k = c
      BY <1>1, <2>3
    <3>3. k \in 1..Len(framed) /\ framed[k] \in Nat
      <4>1. Len(framed) \in Nat /\ framed \in Seq(Nat)
        <5>1. framed \in Seq(Nat)
          BY <2>1
        <5> QED BY <5>1
      <4>2. k \in 1..Len(framed)
        BY <1>1, <1>2, <2>3, <4>1
      <4> QED BY <4>1, <4>2
    <3> QED BY <1>2, <3>1, <3>2, <3>3
  <2>4. q.chunks = framed
    BY <1>1, <1>2, <2>1, <2>2, <2>3, TotalBelow
  <2> QED BY <2>1, <2>4
<1> QED BY <1>2, <1>3, <1>5

(* Whatever the trace, the prompts, the order of admissions, the aborts and the retries, a  *)
(* request matched by prefix is served the record that shares most full blocks with its      *)
(* prompt, first in arrival order among those nobody was served (TokenSource, PrefixSteps),  *)
(* and its schedule is that of the same record if both sources index the same records.       *)
THEOREM RecordsAreMatched == ServeSpec => []RecordsMatched
<1>1. ServeInv => RecordsMatched
  BY MatchedRecords
<1> QED BY <1>1, ServeInvariant, PTL

(* A request that ran to its end emitted its record from the first token on, as long as its  *)
(* limit and the record allow (next_tokens, on_request_added), in the chunks of its          *)
(* schedule, the last one cut by the limit (take_schedule, the engine's decode step).        *)
THEOREM ReplayIsVerbatim == ServeSpec => []ReplayedVerbatim
<1>1. ServeInv => ReplayedVerbatim
  BY VerbatimContent, VerbatimSchedule DEF ReplayedVerbatim
<1> QED BY <1>1, ServeInvariant, PTL

(***************************************************************************)
(* Replayed arrivals: the records and their order                          *)
(***************************************************************************)
\* Records as read_trace returns them; block_hashes covers full blocks of the prompt only.
FileRecord ==
  {r \in [prompt : Nat, hashes : Seq(Seq(Nat \ {0})), arrival : Int, output : Nat, ttft : Nat, itl : Seq(Nat),
          itl_tokens : Seq(Nat), ctx : Int, summary : [count : Nat, mean : Nat], concurrency : Nat, ids : Int] :
     HashBlock * Len(r.hashes) <= r.prompt}

LEMMA MaxPair ==
  ASSUME NEW a \in Int, NEW b \in Int
  PROVE  Max({a, b}) \in Int /\ Max({a, b}) \in {a, b} /\ Max({a, b}) >= a /\ Max({a, b}) >= b
<1>1. \E x \in {a, b} : \A y \in {a, b} : x >= y
  <2>1. CASE a >= b
    BY <2>1
  <2>2. CASE b >= a
    BY <2>2
  <2> QED BY <2>1, <2>2
<1> QED BY <1>1 DEF Max

LEMMA MinPair ==
  ASSUME NEW a \in Int, NEW b \in Int
  PROVE  Min({a, b}) \in Int /\ Min({a, b}) \in {a, b} /\ Min({a, b}) <= a /\ Min({a, b}) <= b
<1>1. \E x \in {a, b} : \A y \in {a, b} : x <= y
  <2>1. CASE a <= b
    BY <2>1
  <2>2. CASE b <= a
    BY <2>2
  <2> QED BY <2>1, <2>2
<1> QED BY <1>1 DEF Min

LEMMA TotalOfFacts ==
  ASSUME NEW s \in Seq(Nat)
  PROVE  TotalOf(s) \in Nat
BY TotalFacts DEF TotalOf, Total

LEMMA SourceFacts ==
  ASSUME NEW r \in FileRecord
  PROVE  r.arrival \in Int /\ r.ttft \in Nat /\ SourceGaps(r) \in Seq(Nat) /\ SourceMs(r) \in Nat
<1>1. r.arrival \in Int /\ r.ttft \in Nat /\ r.itl \in Seq(Nat) /\ r.summary.count \in Nat /\ r.summary.mean \in Nat
  BY DEF FileRecord
<1>2. SourceGaps(r) \in Seq(Nat)
  <2>1. [i \in 1 .. r.summary.count |-> r.summary.mean] \in Seq(Nat)
    BY <1>1
  <2> QED BY <1>1, <2>1 DEF SourceGaps
<1> QED BY <1>1, <1>2, TotalOfFacts DEF SourceMs

\* Records by arrival, and all of them with one.
InOrder(rs) ==
  /\ \A k \in 1..Len(rs) : rs[k].arrival >= 0
  /\ \A j, k \in 1..Len(rs) : j <= k => rs[j].arrival <= rs[k].arrival

Insert(order, r) ==
  IF r.arrival < 0 THEN order
  ELSE InsertAt(order, 1 + Cardinality({k \in DOMAIN order : order[k].arrival <= r.arrival}), r)

\* The positions up to some place are as many as that place says.
LEMMA InitialSegment ==
  ASSUME NEW n \in Nat, NEW s \in SUBSET (1..n), \A j \in s : \A k \in 1..j : k \in s
  PROVE  Cardinality(s) \in 0..n /\ s = 1..Cardinality(s)
<1>1. CASE s = {}
  <2>1. Cardinality(s) = 0
    BY <1>1, FS_EmptySet
  <2> QED BY <1>1, <2>1
<1>2. CASE s # {}
  <2>1. Max(s) \in s /\ \A y \in s : Max(s) >= y
    BY <1>2, MaxOfSet
  <2>2. PICK m \in 1..n : m \in s /\ \A y \in s : m >= y
    BY <2>1
  <2>3. s = 1..m
    <3>1. \A k \in 1..m : k \in s
      BY <2>2
    <3>2. \A k \in s : k \in 1..m
      <4>1. \A k \in s : k \in 1..n /\ k <= m
        BY <2>2
      <4> QED BY <4>1
    <3> QED BY <3>1, <3>2
  <2>4. Cardinality(1..m) = m
    BY FS_Interval
  <2> QED BY <2>3, <2>4
<1> QED BY <1>1, <1>2

LEMMA InsertKeepsOrder ==
  ASSUME NEW order \in Seq(FileRecord), InOrder(order), NEW r \in FileRecord
  PROVE  Insert(order, r) \in Seq(FileRecord) /\ InOrder(Insert(order, r))
<1> DEFINE n == Len(order)
           before == {k \in DOMAIN order : order[k].arrival <= r.arrival}
           c == Cardinality(before)
           new == (SubSeq(order, 1, c) \o <<r>>) \o SubSeq(order, c + 1, n)
<1>1. CASE r.arrival < 0
  BY <1>1 DEF Insert
<1>2. CASE ~(r.arrival < 0)
  <2>1. n \in Nat /\ DOMAIN order = 1..n /\ r.arrival \in Int /\ r.arrival >= 0
        /\ \A k \in 1..n : order[k] \in FileRecord /\ order[k].arrival \in Int /\ order[k].arrival >= 0
    <3>1. n \in Nat /\ DOMAIN order = 1..n /\ \A k \in 1..n : order[k] \in FileRecord
      OBVIOUS
    <3>2. \A k \in 1..n : order[k].arrival \in Int
      BY <3>1, SourceFacts
    <3>3. r.arrival \in Int
      BY SourceFacts
    <3> QED BY <1>2, <3>1, <3>2, <3>3 DEF InOrder
  <2>2. \A j, k \in 1..n : j <= k => order[j].arrival <= order[k].arrival
    BY DEF InOrder
  <2>3. before \in SUBSET (1..n)
    BY <2>1
  <2>4. \A j \in before : \A k \in 1..j : k \in before
    <3> SUFFICES ASSUME NEW j \in before, NEW k \in 1..j PROVE k \in before
      OBVIOUS
    <3>1. j \in 1..n /\ k \in 1..n /\ k <= j
      BY <2>1
    <3>2. order[k].arrival <= order[j].arrival /\ order[j].arrival <= r.arrival
      BY <2>2, <3>1
    <3> QED BY <2>1, <3>1, <3>2
  <2>5. c \in 0..n /\ before = 1..c
    <3> HIDE DEF before
    <3> QED BY <2>1, <2>3, <2>4, InitialSegment
  <2>6. \A k \in 1..n : order[k].arrival <= r.arrival <=> k <= c
    <3>1. \A k \in 1..n : order[k].arrival <= r.arrival <=> k \in 1..c
      BY <2>1, <2>5
    <3> HIDE DEF c, before
    <3> QED BY <2>5, <3>1
  <2> HIDE DEF before
  <2>7. Insert(order, r) = new
    <3>1. Insert(order, r) = InsertAt(order, 1 + c, r)
      BY <1>2 DEF Insert, before
    <3>2. (1 + c) - 1 = c /\ 1 + c = c + 1
      BY <2>5
    <3> HIDE DEF c
    <3> QED BY <3>1, <3>2 DEF InsertAt
  <2> HIDE DEF c
  <2>8. /\ SubSeq(order, 1, c) \in Seq(FileRecord) /\ Len(SubSeq(order, 1, c)) = c
        /\ \A k \in 1..c : SubSeq(order, 1, c)[k] = order[k]
    <3>1. \A k \in 1..c : order[k] \in FileRecord
      BY <2>1, <2>5
    <3> QED BY <2>1, <2>5, <3>1, SubSeqProperties
  <2>9. /\ SubSeq(order, c + 1, n) \in Seq(FileRecord) /\ Len(SubSeq(order, c + 1, n)) = n - c
        /\ \A k \in 1..(n - c) : SubSeq(order, c + 1, n)[k] = order[c + k]
    <3> DEFINE first == c + 1
               right == SubSeq(order, first, n)
    <3>1. first \in 1..(n + 1) /\ first \in Int /\ first = c + 1
      BY <2>1, <2>5
    <3>2. \A k \in first..n : order[k] \in FileRecord
      BY <2>1, <3>1
    <3> HIDE DEF first
    <3>3. /\ right \in Seq(FileRecord)
          /\ Len(right) = IF first <= n THEN n - first + 1 ELSE 0
          /\ \A k \in 1..(n - first + 1) : right[k] = order[first + k - 1]
      BY <2>1, <3>1, <3>2, SubSeqProperties
    <3> HIDE DEF right
    <3>n. n \in Nat /\ c \in Nat /\ c <= n /\ first = c + 1
      BY <2>1, <2>5, <3>1
    <3> HIDE DEF n
    <3>4. n - first + 1 = n - c /\ \A k \in 1..(n - c) : first + k - 1 = c + k
      BY <3>n
    <3>5. Len(right) = n - c
      BY <3>n, <3>3
    <3>6. \A k \in 1..(n - c) : right[k] = order[c + k]
      BY <3>3, <3>4
    <3> QED BY <3>3, <3>5, <3>6 DEF first, right, n
  <2>10. new \in Seq(FileRecord) /\ Len(new) = n + 1
    <3> DEFINE left == SubSeq(order, 1, c)
               right == SubSeq(order, c + 1, n)
               most == left \o <<r>>
    <3>1. /\ left \in Seq(FileRecord) /\ right \in Seq(FileRecord) /\ <<r>> \in Seq(FileRecord)
          /\ Len(left) = c /\ Len(right) = n - c /\ Len(<<r>>) = 1
      BY <2>8, <2>9
    <3>2. new = most \o right /\ n \in Nat /\ c \in Nat /\ c <= n
      BY <2>1, <2>5
    <3> HIDE DEF new, n, left, right, FileRecord
    <3>3. most \in Seq(FileRecord) /\ Len(most) = c + 1
      BY <3>1, ConcatProperties
    <3> HIDE DEF most
    <3>4. most \o right \in Seq(FileRecord) /\ Len(most \o right) = Len(most) + Len(right)
      <4>1. most \in Seq(FileRecord) /\ right \in Seq(FileRecord)
        BY <3>1, <3>3
      <4> QED BY <4>1, ConcatProperties
    <3>5. Len(most) + Len(right) = n + 1
      BY <3>1, <3>2, <3>3
    <3> QED BY <3>2, <3>4, <3>5
  <2>11. \A k \in 1..(n + 1) : new[k] = IF k <= c THEN order[k] ELSE IF k = c + 1 THEN r ELSE order[k - 1]
    <3> SUFFICES ASSUME NEW k \in 1..(n + 1)
                 PROVE  new[k] = IF k <= c THEN order[k] ELSE IF k = c + 1 THEN r ELSE order[k - 1]
      OBVIOUS
    <3> DEFINE left == SubSeq(order, 1, c)   right == SubSeq(order, c + 1, n)   most == left \o <<r>>
    <3>0. n \in Nat /\ c \in Nat /\ c <= n /\ k \in Nat /\ k <= n + 1 /\ 1 <= k
      BY <2>1, <2>5
    <3>1. left \in Seq(FileRecord) /\ right \in Seq(FileRecord) /\ <<r>> \in Seq(FileRecord)
      BY <2>8, <2>9
    <3>2. most \in Seq(FileRecord) /\ Len(most) = c + 1
      BY <2>5, <2>8, <3>1, ConcatProperties
    <3>l. /\ Len(left) = c /\ Len(right) = n - c
          /\ \A i \in 1..c : left[i] = order[i]
          /\ \A i \in 1..(n - c) : right[i] = order[c + i]
      BY <2>8, <2>9
    <3>n. new = most \o right
      OBVIOUS
    <3> HIDE DEF left, right
    <3>m. /\ Len(<<r>>) = 1 /\ <<r>>[1] = r
          /\ \A i \in 1..c : most[i] = left[i]
          /\ most[c + 1] = r
      <4>1. \A i \in 1..(Len(left) + Len(<<r>>)) : most[i] = IF i <= Len(left) THEN left[i] ELSE <<r>>[i - Len(left)]
        BY <3>1, ConcatProperties
      <4>2. \A i \in 1..c : i \in 1..(c + 1) /\ i <= c
        BY <3>0
      <4>3. c + 1 \in 1..(c + 1) /\ ~(c + 1 <= c) /\ (c + 1) - c = 1
        BY <3>0
      <4> QED BY <3>l, <4>1, <4>2, <4>3
    <3> HIDE DEF most
    <3>o. \A i \in 1..(n + 1) : new[i] = IF i <= c + 1 THEN most[i] ELSE right[i - (c + 1)]
      <4>1. (c + 1) + (n - c) = n + 1
        BY <3>0
      <4>2. /\ Len(most \o right) = Len(most) + Len(right)
            /\ \A i \in 1..(Len(most) + Len(right)) :
                 (most \o right)[i] = IF i <= Len(most) THEN most[i] ELSE right[i - Len(most)]
        BY <3>1, <3>2, ConcatProperties
      <4>3. Len(most) = c + 1 /\ Len(right) = n - c
        BY <3>2, <3>l
      <4> HIDE DEF n
      <4> QED BY <3>n, <4>1, <4>2, <4>3
    <3> HIDE DEF new
    <3>3. CASE k <= c
      <4>1. k <= c + 1 /\ k \in 1..c
        BY <3>0, <3>3
      <4> QED BY <3>3, <3>l, <3>m, <3>o, <4>1
    <3>4. CASE k = c + 1
      BY <3>0, <3>4, <3>m, <3>o
    <3>5. CASE k > c + 1
      <4>1. k - (c + 1) \in 1..(n - c) /\ c + (k - (c + 1)) = k - 1 /\ ~(k <= c + 1) /\ ~(k <= c)
        BY <3>0, <3>5
      <4>2. new[k] = right[k - (c + 1)]
        BY <3>o, <4>1
      <4> DEFINE i == k - (c + 1)
      <4>3. i \in 1..(n - c) /\ order[c + i] = order[k - 1]
        BY <4>1
      <4> HIDE DEF i
      <4>4. right[i] = order[k - 1]
        BY <3>l, <4>3
      <4> QED BY <3>5, <4>1, <4>2, <4>4 DEF i
    <3> QED BY <3>0, <3>3, <3>4, <3>5
  <2> HIDE DEF new
  <2>12. \A k \in 1..(n + 1) : new[k].arrival >= 0
    BY <2>1, <2>5, <2>11
  <2>13. ASSUME NEW j \in 1..(n + 1), NEW k \in 1..(n + 1), j <= k PROVE new[j].arrival <= new[k].arrival
    <3>1. CASE k <= c
      BY <2>1, <2>2, <2>5, <2>11, <2>13, <3>1
    <3>2. CASE k = c + 1
      <4>1. CASE j = k
        <5>1. new[k] = r
          BY <2>5, <2>11, <3>2
        <5> QED BY <2>1, <4>1, <5>1
      <4>2. CASE j < k
        BY <2>1, <2>5, <2>6, <2>11, <3>2, <4>2
      <4> QED BY <2>13, <4>1, <4>2
    <3>3. CASE k > c + 1
      <4>1. k - 1 \in 1..n /\ ~(k - 1 <= c) /\ new[k] = order[k - 1]
        BY <2>5, <2>11, <3>3
      <4>2. r.arrival <= order[k - 1].arrival
        BY <2>1, <2>6, <4>1
      <4>3. CASE j <= c
        BY <2>1, <2>2, <2>5, <2>11, <3>3, <4>1, <4>3
      <4>4. CASE j = c + 1
        BY <2>5, <2>11, <4>1, <4>2, <4>4
      <4>5. CASE j > c + 1
        <5>1. new[j] = order[j - 1] /\ j - 1 \in 1..n /\ j - 1 <= k - 1
          BY <2>5, <2>11, <2>13, <4>5
        <5> QED BY <2>2, <4>1, <5>1
      <4> QED BY <2>5, <4>3, <4>4, <4>5
    <3> QED BY <2>5, <3>1, <3>2, <3>3
  <2> QED BY <2>7, <2>10, <2>12, <2>13 DEF InOrder
<1> QED BY <1>1, <1>2

Orders == {rs \in Seq(FileRecord) : InOrder(rs)}
InsertStep == [p \in Orders \X FileRecord |-> Insert(p[1], p[2])]

LEMMA ByArrivalFacts ==
  ASSUME NEW q \in Seq(FileRecord)
  PROVE  ByArrival(q) \in Orders
<1> DEFINE S == FileRecord
           Rec(g) == [s \in SUBSET (1..Len(q)) |-> IF s = {} THEN << >> ELSE Insert(g[s \ {Max(s)}], q[Max(s)])]
           iter == CHOOSE g : g = Rec(g)
<1>1. DOMAIN q = 1..Len(q) /\ Len(q) \in Nat /\ \A i \in 1..Len(q) : q[i] \in S
  OBVIOUS
<1>2. InsertStep \in [Orders \X S -> Orders] /\ << >> \in Orders
  <2>1. << >> \in Orders
    BY DEF Orders, InOrder
  <2>2. \A rs \in Orders, r \in S : Insert(rs, r) \in Orders
    BY InsertKeepsOrder DEF Orders
  <2> QED BY <2>1, <2>2 DEF InsertStep
<1>3. \A t \in Orders, x \in S : InsertStep[<<t, x>>] = Insert(t, x)
  BY DEF InsertStep
<1>4. ByArrival(q) = iter[1..Len(q)]
  BY <1>1 DEF ByArrival, FoldLeft, MapThenFoldSet, Insert
<1> HIDE DEF S
<1>5. ASSUME NEW s \in SUBSET (1..Len(q)), s # {} PROVE q[Max(s)] \in S
  <2>1. Max(s) \in 1..Len(q)
    BY <1>1, <1>5, MaxOfSet
  <2> HIDE DEF iter
  <2> QED BY <1>1, <2>1
<1>s. q \in Seq(S)
  BY DEF S
<1>6. PICK g : Solves(Len(q), g, Orders, << >>, q, InsertStep)
  BY <1>s, <1>2, SetRecursion
<1>7. g = Rec(g)
  <2>1. /\ g \in [SUBSET (1..Len(q)) -> Orders]
        /\ \A s \in SUBSET (1..Len(q)) :
             g[s] = IF s = {} THEN << >> ELSE InsertStep[<<g[s \ {Max(s)}], q[Max(s)]>>]
    BY <1>6 DEF Solves
  <2>2. ASSUME NEW s \in SUBSET (1..Len(q))
        PROVE  g[s] = IF s = {} THEN << >> ELSE Insert(g[s \ {Max(s)}], q[Max(s)])
    <3>1. g[s \ {Max(s)}] \in Orders
      BY <2>1
    <3> HIDE DEF iter
    <3> QED BY <1>3, <1>5, <2>1, <3>1
  <2> HIDE DEF iter
  <2> QED BY <2>1, <2>2
<1>8. iter = Rec(iter)
  BY <1>7
<1> HIDE DEF iter
<1>9. iter[{}] = << >>
  BY <1>8
<1>10. ASSUME NEW s \in SUBSET (1..Len(q)), s # {}, iter[s \ {Max(s)}] \in Orders
       PROVE  iter[s] = InsertStep[<<iter[s \ {Max(s)}], q[Max(s)]>>]
  BY <1>3, <1>5, <1>8, <1>10
<1>11. Unrolls(iter, Orders, << >>, q, InsertStep)
  BY <1>9, <1>10 DEF Unrolls
<1>12. FoldsOver(Orders, S, << >>, q, InsertStep)
  BY <1>s, <1>2 DEF FoldsOver
<1>13. PICK f : Iterates(f, Orders, << >>, q, InsertStep) /\ f[Len(q)] = iter[1..Len(q)]
  BY <1>11, <1>12, Unrolled
<1>14. f[Len(q)] \in Orders
  <2>1. Len(q) \in 0..Len(q)
    BY <1>1
  <2> QED BY <1>13, <2>1 DEF Iterates
<1> QED BY <1>4, <1>13, <1>14

(***************************************************************************)
(* Replayed arrivals: when requests are sent                               *)
(***************************************************************************)
ArrivalNext(Traces) ==
  \/ \E file \in Traces, max \in Nat \ {0}, sessions, prefixes \in BOOLEAN :
       SpawnTasks(file, max, sessions, prefixes)
  \/ ReplayStep

\* replay_arrivals of any trace of a set, with any command line.
ArrivalSpec(Traces) == ReplayInit /\ [][ArrivalNext(Traces)]_replayVars

\* What a task is at a time: when it is due, was sent and ended.
TaskFields == {"state", "due", "sent", "ended", "answer", "fate"}
TaskOK(t, now) ==
  /\ DOMAIN t = TaskFields
  /\ t.due \in Nat /\ t.sent \in Int /\ t.ended \in Int
  /\ t.state \in {"waiting", "timed", "sent", "ended"}
  /\ t.state \in {"waiting", "timed"} => t.sent = -1
  /\ t.state \in {"sent", "ended"} => t.sent \in 0..now
  /\ t.state # "ended" => t.ended = -1
  /\ t.state = "ended" => t.ended \in t.sent..now
  /\ t.state \in {"timed", "sent"} => now <= t.due

TasksOK ==
  /\ subset \in Orders /\ chained \in BOOLEAN /\ shared \in BOOLEAN
  /\ DOMAIN tasks = 1..Len(subset)
  /\ clock \in Nat /\ (tasks = NoTasks => clock = 0)
  /\ \A i \in Tasks : TaskOK(tasks[i], clock)

\* While no answer took less time than recorded, nothing is due before its offset.
AllSlow == \A i \in Tasks : Over(i) => Took(i) >= SourceMs(subset[i])
DueLate(i) ==
  /\ tasks[i].state = "timed" => tasks[i].due >= Offset(i)
  /\ tasks[i].sent >= 0 => tasks[i].sent >= Offset(i)
NeverEarly == AllSlow => \A i \in Tasks : DueLate(i)

\* While all took just that, and no turn overlapped its parent, all is due at its offset.
AllExact == \A i \in Tasks : (Over(i) => Took(i) = SourceMs(subset[i])) /\ ~Overlapped(i)
DueThen(i) ==
  /\ tasks[i].state = "timed" => tasks[i].due = Offset(i)
  /\ tasks[i].sent >= 0 => tasks[i].sent = Offset(i)
OnTime == AllExact => \A i \in Tasks : DueThen(i)

\* Prompts are built once, from the records replayed.
PromptsBuilt == prompts = [i \in 1..Len(subset) |-> PromptOf(subset[i], i, shared)]

ArrivalInv == TasksOK /\ NeverEarly /\ OnTime /\ PromptsBuilt

LEMMA SubsetFacts ==
  ASSUME subset \in Orders
  PROVE  /\ Len(subset) \in Nat /\ DOMAIN subset = 1..Len(subset)
         /\ \A i \in 1..Len(subset) :
              /\ subset[i] \in FileRecord /\ subset[i].arrival \in Int
              /\ SourceMs(subset[i]) \in Nat /\ SourceCompletion(subset[i]) = subset[i].arrival + SourceMs(subset[i])
              /\ Offset(i) = subset[i].arrival - subset[1].arrival /\ Offset(i) \in Nat
<1>1. subset \in Seq(FileRecord) /\ InOrder(subset)
  BY DEF Orders
<1>2. Len(subset) \in Nat /\ DOMAIN subset = 1..Len(subset) /\ \A i \in 1..Len(subset) : subset[i] \in FileRecord
  BY <1>1
<1> SUFFICES ASSUME NEW i \in 1..Len(subset)
             PROVE  /\ subset[i].arrival \in Int /\ SourceMs(subset[i]) \in Nat
                    /\ SourceCompletion(subset[i]) = subset[i].arrival + SourceMs(subset[i])
                    /\ Offset(i) = subset[i].arrival - subset[1].arrival /\ Offset(i) \in Nat
  BY <1>2
<1>3. subset[i].arrival \in Int /\ SourceMs(subset[i]) \in Nat
  BY <1>2, SourceFacts
<1>4. SourceCompletion(subset[i]) = subset[i].arrival + SourceMs(subset[i])
  BY DEF SourceCompletion, SourceMs
<1>5. 1 \in 1..Len(subset) /\ 1 <= i
  BY <1>2
<1>6. subset[1].arrival \in Int /\ subset[1].arrival <= subset[i].arrival
  BY <1>1, <1>2, <1>5, SourceFacts DEF InOrder
<1> QED BY <1>3, <1>4, <1>6 DEF Offset

LEMMA ArrivalInit == ReplayInit => ArrivalInv
<1> SUFFICES ASSUME ReplayInit PROVE ArrivalInv
  OBVIOUS
<1>1. subset = << >> /\ Len(subset) = 0 /\ 1..Len(subset) = {} /\ tasks = << >> /\ DOMAIN tasks = {} /\ prompts = << >>
  BY DEF ReplayInit, NoTasks
<1>2. << >> \in Orders
  BY DEF Orders, InOrder
<1>3. TasksOK
  BY <1>1, <1>2 DEF ReplayInit, TasksOK, Tasks, NoTasks
<1>4. NeverEarly /\ OnTime
  BY <1>1 DEF NeverEarly, OnTime, Tasks
<1>5. PromptsBuilt
  BY <1>1 DEF PromptsBuilt
<1> QED BY <1>3, <1>4, <1>5 DEF ArrivalInv

LEMMA FirstRecords ==
  ASSUME NEW all \in Orders, NEW max \in Nat
  PROVE  SubSeq(all, 1, Min({Len(all), max})) \in Orders
<1> DEFINE m == Min({Len(all), max})
           rs == SubSeq(all, 1, m)
<1>1. all \in Seq(FileRecord) /\ InOrder(all) /\ Len(all) \in Nat
  BY DEF Orders
<1>2. m \in Int /\ m <= Len(all) /\ m \in Nat
  <2> DEFINE l == Len(all)
  <2>1. l \in Nat /\ l \in Int /\ max \in Int
    BY <1>1
  <2> HIDE DEF l, m, rs
  <2>2. Min({l, max}) \in {l, max} /\ Min({l, max}) <= l
    BY <2>1, MinPair
  <2>3. Min({l, max}) \in Nat
    BY <2>1, <2>2
  <2> QED BY <2>2, <2>3 DEF l, m
<1> HIDE DEF m
<1>3. \A k \in 1..m : all[k] \in FileRecord
  BY <1>1, <1>2
<1>4. rs \in Seq(FileRecord) /\ Len(rs) = m /\ \A k \in 1..m : rs[k] = all[k]
  BY <1>1, <1>2, <1>3, SubSeqProperties
<1> HIDE DEF rs
<1>5. \A k \in 1..m : k \in 1..Len(all)
  BY <1>1, <1>2
<1>6. InOrder(rs)
  BY <1>1, <1>4, <1>5 DEF InOrder
<1>7. rs \in Orders
  BY <1>4, <1>6 DEF Orders
<1> QED BY <1>7 DEF rs, m

LEMMA SpawnKeeps ==
  ASSUME ArrivalInv, NEW file \in Seq(FileRecord), NEW max \in Nat \ {0}, NEW sessions \in BOOLEAN,
         NEW prefixes \in BOOLEAN, SpawnTasks(file, max, sessions, prefixes)
  PROVE  ArrivalInv'
<1> DEFINE all == ByArrival(file)
           rs == SubSeq(all, 1, Min({Len(all), max}))
           Task(i) == [state |-> IF sessions /\ Parent(rs, i) # 0 THEN "waiting" ELSE "timed",
                       due |-> rs[i].arrival - rs[1].arrival, sent |-> -1, ended |-> -1,
                       answer |-> NoAnswer, fate |-> "none"]
<1>1. rs \in Orders
  <2>1. all \in Orders
    BY ByArrivalFacts
  <2> HIDE DEF all
  <2> QED BY <2>1, FirstRecords
<1>2. /\ subset' = rs /\ chained' = sessions /\ shared' = prefixes /\ tasks = NoTasks
      /\ tasks' = [i \in DOMAIN rs |-> Task(i)]
      /\ prompts' = [i \in DOMAIN rs |-> PromptOf(rs[i], i, prefixes)]
      /\ clock' = clock
  BY DEF SpawnTasks
<1> HIDE DEF rs
<1>3. clock = 0
  BY <1>2 DEF ArrivalInv, TasksOK
<1>4. /\ Len(rs) \in Nat /\ DOMAIN rs = 1..Len(rs)
      /\ \A i \in 1..Len(rs) : rs[i].arrival - rs[1].arrival \in Nat
  <2>1. rs \in Seq(FileRecord) /\ InOrder(rs)
    BY <1>1 DEF Orders
  <2>2. Len(rs) \in Nat /\ DOMAIN rs = 1..Len(rs) /\ \A i \in 1..Len(rs) : rs[i] \in FileRecord
    BY <2>1
  <2>3. ASSUME NEW i \in 1..Len(rs) PROVE rs[i].arrival - rs[1].arrival \in Nat
    <3>1. 1 \in 1..Len(rs) /\ 1 <= i
      BY <2>2
    <3>2. rs[1].arrival \in Int /\ rs[i].arrival \in Int /\ rs[1].arrival <= rs[i].arrival
      BY <2>1, <2>2, <3>1, SourceFacts DEF InOrder
    <3> QED BY <3>2
  <2> QED BY <2>2, <2>3
<1>5. ASSUME NEW i \in 1..Len(rs)
      PROVE  /\ tasks'[i].due = rs[i].arrival - rs[1].arrival /\ tasks'[i].due \in Nat
             /\ tasks'[i].sent = -1 /\ tasks'[i].ended = -1 /\ tasks'[i].state \in {"waiting", "timed"}
             /\ DOMAIN tasks'[i] = TaskFields
  BY <1>2, <1>4 DEF TaskFields
<1>6. DOMAIN tasks' = 1..Len(rs)
  BY <1>2, <1>4
<1>7. TasksOK'
  <2>1. \A i \in 1..Len(rs) : TaskOK(tasks'[i], 0)
    <3> SUFFICES ASSUME NEW i \in 1..Len(rs) PROVE TaskOK(tasks'[i], 0)
      OBVIOUS
    <3> DEFINE t == tasks'[i]
    <3>1. t.due \in Nat /\ t.sent = -1 /\ t.ended = -1 /\ t.state \in {"waiting", "timed"} /\ DOMAIN t = TaskFields
      BY <1>5
    <3> HIDE DEF t
    <3>2. TaskOK(t, 0)
      BY <3>1 DEF TaskOK
    <3> QED BY <3>2 DEF t
  <2> QED BY <1>1, <1>2, <1>3, <1>6, <2>1 DEF TasksOK, Tasks
<1>8. \A i \in 1..Len(rs) : /\ tasks'[i].due = Offset(i)' /\ ~(tasks'[i].sent >= 0) /\ tasks'[i].due \in Nat
  <2> SUFFICES ASSUME NEW i \in 1..Len(rs)
               PROVE  tasks'[i].due = Offset(i)' /\ ~(tasks'[i].sent >= 0) /\ tasks'[i].due \in Nat
    OBVIOUS
  <2>1. Offset(i)' = rs[i].arrival - rs[1].arrival
    BY <1>2 DEF Offset
  <2>2. tasks'[i].sent = -1
    BY <1>5
  <2>3. ~(tasks'[i].sent >= 0)
    BY <2>2
  <2> QED BY <1>5, <2>1, <2>3
<1>9. (NeverEarly /\ OnTime)'
  BY <1>6, <1>8 DEF NeverEarly, OnTime, DueLate, DueThen, Tasks
<1>10. PromptsBuilt'
  BY <1>2, <1>4 DEF PromptsBuilt
<1> QED BY <1>7, <1>9, <1>10 DEF ArrivalInv

\* What a step that leaves the records alone needs to keep.
LEMMA PaceKeeps ==
  ASSUME ArrivalInv, UNCHANGED <<subset, chained, shared, prompts>>, DOMAIN tasks' = Tasks,
         clock' \in Nat, tasks' = NoTasks => clock' = 0,
         \A i \in Tasks : TaskOK(tasks[i], clock)' ,
         AllSlow' /\ AllSlow => \A i \in Tasks : DueLate(i)',
         AllExact' /\ AllExact => \A i \in Tasks : DueThen(i)',
         \A i \in Tasks : Over(i) => tasks'[i].ended = tasks[i].ended /\ tasks'[i].sent = tasks[i].sent
  PROVE  ArrivalInv'
<1>1. TasksOK'
  BY DEF ArrivalInv, TasksOK, Tasks
<1>2. AllSlow' => AllSlow
  BY DEF AllSlow, Over, Took, Tasks
<1>3. AllExact' => AllExact
  <2>1. \A i \in Tasks : Overlapped(i)' = Overlapped(i)
    BY DEF Overlapped, ParentOf
  <2> QED BY <2>1 DEF AllExact, Over, Took, Tasks
<1>4. NeverEarly'
  BY <1>2 DEF NeverEarly, Tasks
<1>5. OnTime'
  BY <1>3 DEF OnTime, Tasks
<1>6. PromptsBuilt'
  BY DEF ArrivalInv, PromptsBuilt
<1> QED BY <1>1, <1>4, <1>5, <1>6 DEF ArrivalInv

LEMMA AnswerFacts ==
  ASSUME NEW r \in FileRecord, NEW a \in Answers(r)
  PROVE  Duration(a) \in Nat
<1>1. r.ttft \in Nat /\ SourceGaps(r) \in Seq(Nat) /\ SourceMs(r) \in Nat /\ << >> \in Seq(Nat)
  BY SourceFacts
<1>2. a.ttft \in Nat /\ a.gaps \in Seq(Nat)
  <2> DEFINE Paced(late, size) == [ok |-> TRUE, ttft |-> r.ttft + late, gaps |-> SourceGaps(r),
                                     chunks |-> <<1>> \o [i \in DOMAIN SourceGaps(r) |-> size]]
             whole == [ok |-> TRUE, ttft |-> SourceMs(r), gaps |-> << >>, chunks |-> <<Max({r.output, 1})>>]
  <2>1. Answers(r) = {Paced(late, size) : late \in Slower, size \in {1, 2}} \cup {whole}
    BY DEF Answers
  <2>2. \A late \in Slower, size \in {1, 2} : Paced(late, size).ttft \in Nat /\ Paced(late, size).gaps \in Seq(Nat)
    BY <1>1, ReplayAssumption
  <2>3. whole.ttft \in Nat /\ whole.gaps \in Seq(Nat)
    BY <1>1
  <2> HIDE DEF Paced, whole
  <2>4. CASE \E late \in Slower, size \in {1, 2} : a = Paced(late, size)
    BY <2>2, <2>4
  <2>5. CASE a = whole
    BY <2>3, <2>5
  <2> QED BY <2>1, <2>4, <2>5
<1>3. TotalOf(a.gaps) \in Nat
  BY <1>2, TotalOfFacts
<1> QED BY <1>2, <1>3 DEF Duration

LEMMA TimeoutFacts ==
  ASSUME NEW r \in FileRecord
  PROVE  TimeoutOf(r) \in Nat
<1>1. SourceMs(r) \in Nat
  BY SourceFacts
<1>2. \A x, y, z \in Nat : x + y * z \in Nat
  OBVIOUS
<1>3. TimeoutBase \in Nat /\ TimeoutFactor \in Nat
  BY ReplayAssumption
<1> QED BY <1>1, <1>2, <1>3 DEF TimeoutOf

LEMMA SendKeeps ==
  ASSUME ArrivalInv, NEW i \in Tasks, Send(i)
  PROVE  ArrivalInv'
<1>1. /\ subset \in Orders /\ DOMAIN tasks = 1..Len(subset) /\ clock \in Nat /\ TaskOK(tasks[i], clock)
      /\ tasks[i].state = "timed" /\ tasks[i].due <= clock
      /\ UNCHANGED <<subset, chained, shared, prompts, clock, verdict>>
  BY DEF ArrivalInv, TasksOK, Tasks, Send
<1>2. subset[i] \in FileRecord /\ Offset(i) \in Nat
  BY <1>1, SubsetFacts DEF Tasks
<1>3. tasks[i].due = clock /\ tasks[i].due \in Nat /\ tasks[i].ended = -1 /\ tasks[i].sent = -1
  BY <1>1 DEF TaskOK
<1>f. DOMAIN tasks[i] = TaskFields /\ i \in DOMAIN tasks
  BY <1>1 DEF TaskOK, Tasks
<1>4. PICK due \in Nat :
        /\ due >= clock /\ DOMAIN tasks' = DOMAIN tasks
        /\ tasks'[i].state = "sent" /\ tasks'[i].sent = clock /\ tasks'[i].ended = tasks[i].ended /\ tasks'[i].due = due
        /\ DOMAIN tasks'[i] = TaskFields
        /\ \A j \in Tasks : j # i => tasks'[j] = tasks[j]
  <2>1. CASE \E a \in Answers(subset[i]) :
               tasks' = [tasks EXCEPT ![i].state = "sent", ![i].sent = clock, ![i].answer = a, ![i].fate = "answered",
                                      ![i].due = clock + Min({Duration(a), TimeoutOf(subset[i])})]
    <3>1. PICK a \in Answers(subset[i]) :
            tasks' = [tasks EXCEPT ![i].state = "sent", ![i].sent = clock, ![i].answer = a, ![i].fate = "answered",
                                   ![i].due = clock + Min({Duration(a), TimeoutOf(subset[i])})]
      BY <2>1
    <3> DEFINE wait == Min({Duration(a), TimeoutOf(subset[i])})
    <3>2. wait \in Nat
      <4>1. Duration(a) \in Nat /\ TimeoutOf(subset[i]) \in Nat
        BY <1>2, AnswerFacts, TimeoutFacts
      <4>2. wait \in {Duration(a), TimeoutOf(subset[i])}
        BY <4>1, MinPair
      <4> QED BY <4>1, <4>2
    <3>3. tasks'[i].due = clock + wait
      BY <1>f, <3>1 DEF Tasks, TaskFields
    <3> HIDE DEF wait
    <3>4. clock + wait \in Nat /\ clock + wait >= clock
      BY <1>1, <3>2
    <3>5. /\ DOMAIN tasks' = DOMAIN tasks
          /\ tasks'[i].state = "sent" /\ tasks'[i].sent = clock /\ tasks'[i].ended = tasks[i].ended
          /\ DOMAIN tasks'[i] = TaskFields
          /\ \A j \in Tasks : j # i => tasks'[j] = tasks[j]
      BY <1>f, <3>1 DEF Tasks, TaskFields
    <3> QED BY <3>3, <3>4, <3>5
  <2>2. CASE tasks' = [tasks EXCEPT ![i].state = "sent", ![i].sent = clock, ![i].fate = "error", ![i].due = clock]
    BY <1>1, <1>f, <2>2 DEF Tasks, TaskFields
  <2>3. CASE tasks' = [tasks EXCEPT ![i].state = "sent", ![i].sent = clock, ![i].fate = "lost",
                                    ![i].due = clock + TimeoutOf(subset[i])]
    <3>1. TimeoutOf(subset[i]) \in Nat
      BY <1>2, TimeoutFacts
    <3>2. clock + TimeoutOf(subset[i]) \in Nat /\ clock + TimeoutOf(subset[i]) >= clock
      BY <1>1, <3>1
    <3> QED BY <1>f, <2>3, <3>2 DEF Tasks, TaskFields
  <2> QED BY <2>1, <2>2, <2>3 DEF Send
<1>5. ASSUME NEW j \in Tasks PROVE TaskOK(tasks[j], clock)'
  <2>1. CASE j = i
    <3> DEFINE t == tasks'[i]
    <3>1. t.due \in Nat /\ t.due >= clock /\ t.sent = clock /\ t.ended = -1 /\ t.state = "sent"
          /\ DOMAIN t = TaskFields
      BY <1>3, <1>4
    <3> HIDE DEF t
    <3>2. TaskOK(t, clock)
      BY <1>1, <3>1 DEF TaskOK
    <3> QED BY <1>1, <2>1, <3>2 DEF t
  <2>2. CASE j # i
    BY <1>1, <1>4, <2>2 DEF ArrivalInv, TasksOK
  <2> QED BY <2>1, <2>2
<1>6. \A j \in Tasks : Offset(j)' = Offset(j)
  BY <1>1 DEF Offset
<1>7. ASSUME AllSlow, NEW j \in Tasks PROVE DueLate(j)'
  <2>1. DueLate(j) /\ DueLate(i)
    BY <1>7 DEF ArrivalInv, NeverEarly
  <2>2. CASE j = i
    BY <1>1, <1>2, <1>3, <1>4, <1>6, <2>1, <2>2 DEF DueLate
  <2>3. CASE j # i
    BY <1>4, <1>6, <2>1, <2>3 DEF DueLate
  <2> QED BY <2>2, <2>3
<1>8. ASSUME AllExact, NEW j \in Tasks PROVE DueThen(j)'
  <2>1. DueThen(j) /\ DueThen(i)
    BY <1>8 DEF ArrivalInv, OnTime
  <2>2. CASE j = i
    BY <1>1, <1>2, <1>3, <1>4, <1>6, <2>1, <2>2 DEF DueThen
  <2>3. CASE j # i
    BY <1>4, <1>6, <2>1, <2>3 DEF DueThen
  <2> QED BY <2>2, <2>3
<1>9. \A j \in Tasks : Over(j) => tasks'[j].ended = tasks[j].ended /\ tasks'[j].sent = tasks[j].sent
  <2>1. ~Over(i)
    BY <1>3 DEF Over
  <2> QED BY <1>4, <2>1
<1>10. tasks' # NoTasks
  BY <1>4 DEF NoTasks, Tasks
<1>11. DOMAIN tasks' = Tasks /\ clock' \in Nat
  BY <1>1, <1>4 DEF Tasks
<1> QED BY <1>1, <1>5, <1>7, <1>8, <1>9, <1>10, <1>11, PaceKeeps

LEMMA ThinkFacts ==
  ASSUME subset \in Orders, NEW c \in 1..Len(subset), NEW p \in 1..Len(subset)
  PROVE  /\ Think(c, p) \in Nat
         /\ Think(c, p) >= subset[c].arrival - SourceCompletion(subset[p])
         /\ subset[c].arrival >= SourceCompletion(subset[p]) =>
              Think(c, p) = subset[c].arrival - SourceCompletion(subset[p])
<1> DEFINE d == subset[c].arrival - SourceCompletion(subset[p])
<1>1. subset[c].arrival \in Int /\ SourceCompletion(subset[p]) \in Int
  <2>1. \A i \in 1..Len(subset) : subset[i].arrival \in Int /\ SourceMs(subset[i]) \in Nat
                                  /\ SourceCompletion(subset[i]) = subset[i].arrival + SourceMs(subset[i])
    BY SubsetFacts
  <2> QED BY <2>1
<1>2. d \in Int /\ (d >= 0 <=> subset[c].arrival >= SourceCompletion(subset[p]))
  BY <1>1
<1> HIDE DEF d
<1>3. Max({d, 0}) \in {d, 0} /\ Max({d, 0}) >= d /\ Max({d, 0}) >= 0
  <2>1. \A b \in Int : Max({d, b}) \in {d, b} /\ Max({d, b}) >= d /\ Max({d, b}) >= b
    BY <1>2, MaxPair
  <2> QED BY <2>1
<1>4. Max({d, 0}) \in Nat /\ (d >= 0 => Max({d, 0}) = d)
  BY <1>2, <1>3
<1>5. Think(c, p) = Max({d, 0})
  BY DEF Think, d
<1> QED BY <1>2, <1>3, <1>4, <1>5 DEF d

LEMMA EndKeeps ==
  ASSUME ArrivalInv, NEW i \in Tasks, EndTask(i)
  PROVE  ArrivalInv'
<1> DEFINE Waits(c) == tasks[c].state = "waiting" /\ ParentOf(c) = i
           d == tasks'[i]
<1>1. /\ subset \in Orders /\ Tasks = 1..Len(subset) /\ clock \in Nat /\ \A c \in Tasks : TaskOK(tasks[c], clock)
      /\ tasks[i].state = "sent" /\ tasks[i].due <= clock
      /\ UNCHANGED <<subset, chained, shared, prompts, clock, verdict>>
  BY DEF ArrivalInv, TasksOK, Tasks, EndTask
<1>2. /\ tasks[i].due = clock /\ tasks[i].sent \in 0..clock /\ tasks[i].ended = -1
  BY <1>1 DEF TaskOK
<1>3. /\ DOMAIN tasks' = Tasks
      /\ d.state = "ended" /\ d.ended = clock /\ d.sent = tasks[i].sent /\ d.due = tasks[i].due
      /\ DOMAIN d = TaskFields
      /\ \A c \in Tasks : c # i /\ ~Waits(c) => tasks'[c] = tasks[c]
      /\ \A c \in Tasks : c # i /\ Waits(c) =>
           /\ tasks'[c].state = "timed" /\ tasks'[c].due = clock + Think(c, i)
           /\ tasks'[c].sent = tasks[c].sent /\ tasks'[c].ended = tasks[c].ended
           /\ DOMAIN tasks'[c] = TaskFields
  <2> DEFINE answered == tasks[i].fate = "answered" /\ Duration(tasks[i].answer) <= TimeoutOf(subset[i])
  <2>1. tasks' = [c \in Tasks |->
                   CASE c = i -> [tasks[i] EXCEPT !.state = "ended", !.ended = clock,
                                                  !.answer = IF answered THEN tasks[i].answer ELSE NoAnswer]
                     [] c # i /\ tasks[c].state = "waiting" /\ Release(i, answered, c) ->
                          [tasks[c] EXCEPT !.state = "timed", !.due = clock + Think(c, i)]
                     [] OTHER -> tasks[c]]
    BY DEF EndTask
  <2> HIDE DEF answered
  <2>2. \A c \in Tasks : Release(i, answered, c) <=> ParentOf(c) = i
    BY DEF Release
  <2>3. DOMAIN tasks' = Tasks
    BY <2>1
  <2>4. d = [tasks[i] EXCEPT !.state = "ended", !.ended = clock,
                             !.answer = IF answered THEN tasks[i].answer ELSE NoAnswer]
    BY <2>1
  <2>t. ASSUME NEW c \in Tasks PROVE tasks[c].state \in {"waiting", "timed", "sent", "ended"}
    BY <1>1 DEF TaskOK
  <2>5. ASSUME NEW c \in Tasks, c # i, ~Waits(c) PROVE tasks'[c] = tasks[c]
    BY <2>1, <2>2, <2>5
  <2>6. ASSUME NEW c \in Tasks, c # i, Waits(c)
        PROVE  tasks'[c] = [tasks[c] EXCEPT !.state = "timed", !.due = clock + Think(c, i)]
    BY <2>1, <2>2, <2>6
  <2>f. ASSUME NEW c \in Tasks PROVE DOMAIN tasks[c] = TaskFields
    BY <1>1 DEF TaskOK
  <2>7. /\ d.state = "ended" /\ d.ended = clock /\ d.sent = tasks[i].sent /\ d.due = tasks[i].due
        /\ DOMAIN d = TaskFields
    BY <2>4, <2>f DEF TaskFields
  <2>8. ASSUME NEW c \in Tasks, c # i, Waits(c)
        PROVE  /\ tasks'[c].state = "timed" /\ tasks'[c].due = clock + Think(c, i)
               /\ tasks'[c].sent = tasks[c].sent /\ tasks'[c].ended = tasks[c].ended
               /\ DOMAIN tasks'[c] = TaskFields
    <3>1. tasks'[c] = [tasks[c] EXCEPT !.state = "timed", !.due = clock + Think(c, i)]
      BY <2>6, <2>8
    <3> QED BY <2>f, <3>1 DEF TaskFields
  <2> QED BY <2>3, <2>5, <2>7, <2>8
<1> HIDE DEF d
<1>4. ASSUME NEW c \in Tasks PROVE Think(c, i) \in Nat
  BY <1>1, ThinkFacts
<1>5. ASSUME NEW c \in Tasks PROVE TaskOK(tasks[c], clock)'
  <2> DEFINE t == tasks'[c]
  <2>0. TaskOK(tasks[c], clock)
    BY <1>1
  <2>1. CASE c = i
    <3>1. /\ t.due = clock /\ t.ended = clock /\ t.sent \in 0..clock /\ t.state = "ended" /\ DOMAIN t = TaskFields
      BY <1>2, <1>3, <2>1 DEF d
    <3> HIDE DEF t
    <3>2. TaskOK(t, clock)
      BY <1>1, <3>1 DEF TaskOK
    <3> QED BY <1>1, <3>2 DEF t
  <2>2. CASE c # i /\ Waits(c)
    <3>1. t.state = "timed" /\ t.due = clock + Think(c, i) /\ t.sent = -1 /\ t.ended = -1 /\ DOMAIN t = TaskFields
      BY <1>3, <2>0, <2>2 DEF TaskOK
    <3>2. t.due \in Nat /\ clock <= t.due
      BY <1>1, <1>4, <3>1
    <3> HIDE DEF t
    <3>3. TaskOK(t, clock)
      BY <1>1, <3>1, <3>2 DEF TaskOK
    <3> QED BY <1>1, <3>3 DEF t
  <2>3. CASE c # i /\ ~Waits(c)
    BY <1>1, <1>3, <2>0, <2>3
  <2> QED BY <2>1, <2>2, <2>3
<1>6. \A j \in Tasks : Offset(j)' = Offset(j) /\ Offset(j) = subset[j].arrival - subset[1].arrival /\ Offset(j) \in Nat
                       /\ subset[j].arrival \in Int /\ SourceMs(subset[j]) \in Nat
                       /\ SourceCompletion(subset[j]) = subset[j].arrival + SourceMs(subset[j])
  BY <1>1, SubsetFacts DEF Offset
<1>o. Tasks # {} /\ 1 \in Tasks /\ subset[1].arrival \in Int
  <2>1. Len(subset) \in Nat
    BY <1>1, SubsetFacts
  <2> QED BY <1>1, <1>6, <2>1
<1>7. Over(i)' /\ Took(i)' = clock - tasks[i].sent
  BY <1>1, <1>3 DEF Over, Took, d
<1>8. ASSUME AllSlow, AllSlow', NEW j \in Tasks PROVE DueLate(j)'
  <2>0. tasks[j].sent \in Int
    BY <1>1 DEF TaskOK
  <2>1. DueLate(j) /\ DueLate(i)
    BY <1>8 DEF ArrivalInv, NeverEarly
  <2>2. clock - tasks[i].sent >= SourceMs(subset[i])
    <3>1. Took(i)' >= SourceMs(subset[i])'
      BY <1>3, <1>7, <1>8 DEF AllSlow, Tasks
    <3> QED BY <1>1, <1>7, <3>1
  <2>3. tasks[i].sent >= Offset(i)
    BY <1>2, <2>1 DEF DueLate
  <2>4. CASE j = i
    BY <1>3, <1>6, <2>1, <2>4 DEF DueLate, d
  <2>5. CASE j # i /\ Waits(j)
    <3>1. Think(j, i) >= subset[j].arrival - SourceCompletion(subset[i])
      BY <1>1, ThinkFacts
    <3>2. clock + Think(j, i) >= Offset(j)
      <4> DEFINE aj == subset[j].arrival   ai == subset[i].arrival   a1 == subset[1].arrival
                 ms == SourceMs(subset[i])   at == tasks[i].sent   pause == Think(j, i)
      <4>1. /\ aj \in Int /\ ai \in Int /\ a1 \in Int /\ ms \in Nat /\ at \in Int /\ pause \in Nat
            /\ Offset(j) = aj - a1 /\ Offset(i) = ai - a1 /\ SourceCompletion(subset[i]) = ai + ms
        <5>1. at \in Int /\ pause \in Nat /\ a1 \in Int
          BY <1>1, <1>2, <1>4, <1>o
        <5>2. aj \in Int /\ Offset(j) = aj - a1
          BY <1>6
        <5>3. ai \in Int /\ Offset(i) = ai - a1 /\ ms \in Nat /\ SourceCompletion(subset[i]) = ai + ms
          BY <1>6
        <5> QED BY <5>1, <5>2, <5>3
      <4> HIDE DEF aj, ai, a1, ms, at, pause
      <4>2. clock - at >= ms /\ at >= Offset(i) /\ pause >= aj - SourceCompletion(subset[i])
        BY <2>2, <2>3, <3>1 DEF aj, ms, at, pause
      <4>3. clock + pause >= aj - a1
        BY <1>1, <4>1, <4>2
      <4> QED BY <4>1, <4>3 DEF pause
    <3>3. tasks'[j].sent = -1
      BY <1>1, <1>3, <2>5 DEF TaskOK
    <3>4. ~(tasks'[j].sent >= 0)
      BY <3>3
    <3> QED BY <1>3, <1>6, <2>5, <3>2, <3>4 DEF DueLate
  <2>6. CASE j # i /\ ~Waits(j)
    BY <1>3, <1>6, <2>1, <2>6 DEF DueLate
  <2> QED BY <2>4, <2>5, <2>6
<1>9. ASSUME AllExact, AllExact', NEW j \in Tasks PROVE DueThen(j)'
  <2>1. DueThen(j) /\ DueThen(i)
    BY <1>9 DEF ArrivalInv, OnTime
  <2>2. clock - tasks[i].sent = SourceMs(subset[i])
    <3>1. Took(i)' = SourceMs(subset[i])'
      BY <1>3, <1>7, <1>9 DEF AllExact, Tasks
    <3> QED BY <1>1, <1>7, <3>1
  <2>3. tasks[i].sent = Offset(i)
    BY <1>2, <2>1 DEF DueThen
  <2>4. CASE j = i
    BY <1>3, <1>6, <2>1, <2>4 DEF DueThen, d
  <2>5. CASE j # i /\ Waits(j)
    <3>1. subset[j].arrival >= SourceCompletion(subset[i])
      <4>1. ~Overlapped(j)
        BY <1>9 DEF AllExact
      <4>2. i # 0
        BY <1>1
      <4>3. ~(subset[j].arrival < SourceCompletion(subset[i]))
        BY <2>5, <4>1, <4>2 DEF Overlapped
      <4> QED BY <1>6, <4>3
    <3>2. Think(j, i) = subset[j].arrival - SourceCompletion(subset[i])
      BY <1>1, <3>1, ThinkFacts
    <3>3. clock + Think(j, i) = Offset(j)
      <4> DEFINE aj == subset[j].arrival   ai == subset[i].arrival   a1 == subset[1].arrival
                 ms == SourceMs(subset[i])   at == tasks[i].sent   pause == Think(j, i)
      <4>1. /\ aj \in Int /\ ai \in Int /\ a1 \in Int /\ ms \in Nat /\ at \in Int /\ pause \in Nat
            /\ Offset(j) = aj - a1 /\ Offset(i) = ai - a1 /\ SourceCompletion(subset[i]) = ai + ms
        <5>1. at \in Int /\ pause \in Nat /\ a1 \in Int
          BY <1>1, <1>2, <1>4, <1>o
        <5>2. aj \in Int /\ Offset(j) = aj - a1
          BY <1>6
        <5>3. ai \in Int /\ Offset(i) = ai - a1 /\ ms \in Nat /\ SourceCompletion(subset[i]) = ai + ms
          BY <1>6
        <5> QED BY <5>1, <5>2, <5>3
      <4> HIDE DEF aj, ai, a1, ms, at, pause
      <4>2. clock - at = ms /\ at = Offset(i) /\ pause = aj - SourceCompletion(subset[i])
        BY <2>2, <2>3, <3>2 DEF aj, ms, at, pause
      <4>3. clock + pause = aj - a1
        BY <1>1, <4>1, <4>2
      <4> QED BY <4>1, <4>3 DEF pause
    <3>4. tasks'[j].sent = -1
      BY <1>1, <1>3, <2>5 DEF TaskOK
    <3>5. ~(tasks'[j].sent >= 0)
      BY <3>4
    <3> QED BY <1>3, <1>6, <2>5, <3>3, <3>5 DEF DueThen
  <2>6. CASE j # i /\ ~Waits(j)
    BY <1>3, <1>6, <2>1, <2>6 DEF DueThen
  <2> QED BY <2>4, <2>5, <2>6
<1>10. ASSUME NEW j \in Tasks, Over(j) PROVE tasks'[j].ended = tasks[j].ended /\ tasks'[j].sent = tasks[j].sent
  <2>1. j # i
    BY <1>2, <1>10 DEF Over
  <2> QED BY <1>3, <2>1
<1>11. tasks' # NoTasks
  BY <1>3, <1>o DEF NoTasks
<1> QED BY <1>1, <1>3, <1>5, <1>8, <1>9, <1>10, <1>11, PaceKeeps

LEMMA TickKeeps ==
  ASSUME ArrivalInv, Tick
  PROVE  ArrivalInv'
<1> DEFINE dues == {tasks[i].due : i \in Pending}
<1>1. /\ subset \in Orders /\ clock \in Nat /\ \A i \in Tasks : TaskOK(tasks[i], clock)
      /\ Pending # {} /\ \A i \in Pending : tasks[i].due > clock
      /\ clock' = Min(dues)
      /\ UNCHANGED <<subset, chained, shared, prompts, tasks, verdict>>
  BY DEF ArrivalInv, TasksOK, Tick
<1>2. Pending \subseteq Tasks /\ \A i \in Tasks : tasks[i].state \in {"timed", "sent"} <=> i \in Pending
  BY DEF Pending
<1>3. dues \in SUBSET Nat /\ dues # {}
  <2>1. \A i \in Pending : tasks[i].due \in Nat
    BY <1>1, <1>2 DEF TaskOK
  <2> QED BY <1>1, <2>1
<1>4. clock' \in dues /\ \A y \in dues : clock' <= y
  BY <1>1, <1>3, MinOfSet
<1>5. clock' \in Nat /\ clock' > clock /\ \A i \in Pending : clock' <= tasks[i].due
  BY <1>1, <1>3, <1>4
<1>6. ASSUME NEW i \in Tasks PROVE TaskOK(tasks[i], clock)'
  <2> DEFINE t == tasks[i]
  <2>1. TaskOK(t, clock) /\ (t.state \in {"timed", "sent"} => clock' <= t.due)
    BY <1>1, <1>2, <1>5
  <2> HIDE DEF t
  <2>2. TaskOK(t, clock')
    <3>1. t.state \in {"sent", "ended"} => t.sent \in 0..clock'
      BY <1>1, <1>5, <2>1 DEF TaskOK
    <3>2. t.state = "ended" => t.ended \in t.sent..clock'
      BY <1>1, <1>5, <2>1 DEF TaskOK
    <3> QED BY <2>1, <3>1, <3>2 DEF TaskOK
  <2> QED BY <1>1, <2>2 DEF t
<1>7. tasks' # NoTasks
  <2>1. DOMAIN NoTasks = {}
    BY DEF NoTasks
  <2> QED BY <1>1, <1>2, <2>1 DEF Tasks
<1>8. \A i \in Tasks : (DueLate(i) => DueLate(i)') /\ (DueThen(i) => DueThen(i)')
  BY <1>1 DEF DueLate, DueThen, Offset
<1>9. /\ AllSlow => \A i \in Tasks : DueLate(i)'
      /\ AllExact => \A i \in Tasks : DueThen(i)'
  BY <1>8 DEF ArrivalInv, NeverEarly, OnTime
<1>10. DOMAIN tasks' = Tasks
  BY <1>1 DEF Tasks
<1> QED BY <1>1, <1>5, <1>6, <1>7, <1>9, <1>10, PaceKeeps

LEMMA ArrivalStill ==
  ASSUME ArrivalInv, UNCHANGED <<subset, chained, shared, prompts, clock, tasks>>
  PROVE  ArrivalInv'
<1>1. TasksOK'
  BY DEF ArrivalInv, TasksOK, Tasks
<1>2. NeverEarly' /\ OnTime'
  <2>1. \A i : (Over(i)' <=> Over(i)) /\ Took(i)' = Took(i) /\ (Overlapped(i)' <=> Overlapped(i))
               /\ (DueLate(i)' <=> DueLate(i)) /\ (DueThen(i)' <=> DueThen(i))
    BY DEF Over, Took, Overlapped, ParentOf, DueLate, DueThen, Offset
  <2> QED BY <2>1 DEF ArrivalInv, NeverEarly, OnTime, AllSlow, AllExact, Tasks
<1>3. PromptsBuilt'
  BY DEF ArrivalInv, PromptsBuilt
<1> QED BY <1>1, <1>2, <1>3 DEF ArrivalInv

LEMMA ArrivalStep ==
  ASSUME NEW Traces, Traces \subseteq Seq(FileRecord), ArrivalInv, [ArrivalNext(Traces)]_replayVars
  PROVE  ArrivalInv'
<1>1. CASE \E file \in Traces, max \in Nat \ {0}, sessions, prefixes \in BOOLEAN :
             SpawnTasks(file, max, sessions, prefixes)
  BY <1>1, SpawnKeeps
<1>2. CASE \E i \in Tasks : Send(i)
  BY <1>2, SendKeeps
<1>3. CASE \E i \in Tasks : EndTask(i)
  BY <1>3, EndKeeps
<1>4. CASE Tick
  BY <1>4, TickKeeps
<1>5. CASE JudgeReplay
  BY <1>5, ArrivalStill DEF JudgeReplay
<1>6. CASE UNCHANGED replayVars
  BY <1>6, ArrivalStill DEF replayVars
<1> QED BY <1>1, <1>2, <1>3, <1>4, <1>5, <1>6 DEF ArrivalNext, ReplayStep

LEMMA PaceFollows == ArrivalInv => PaceKept
BY DEF ArrivalInv, NeverEarly, OnTime, AllSlow, AllExact, DueLate, DueThen, PaceKept

(***************************************************************************)
(* Replayed arrivals: what requests share                                  *)
(***************************************************************************)
\* Where two sequences part: they agree so far, and one ends there or they differ next.
PartAt(s, t, m) ==
  /\ m \in Nat /\ m <= Len(s) /\ m <= Len(t)
  /\ \A k \in 1..m : s[k] = t[k]
  /\ m = Len(s) \/ m = Len(t) \/ s[m + 1] # t[m + 1]

LEMMA CommonIs ==
  ASSUME NEW S, NEW s \in Seq(S), NEW t \in Seq(S), NEW m, PartAt(s, t, m)
  PROVE  Common(s, t) = m
<1> DEFINE l == Min({Len(s), Len(t)})
           Same == {k \in 0..l : SubSeq(s, 1, k) = SubSeq(t, 1, k)}
<1>0. Len(s) \in Nat /\ Len(t) \in Nat /\ m \in Nat /\ m <= Len(s) /\ m <= Len(t)
  BY DEF PartAt
<1>1. l \in Nat /\ l <= Len(s) /\ l <= Len(t) /\ (l = Len(s) \/ l = Len(t))
  <2> DEFINE a == Len(s)   b == Len(t)
  <2>1. a \in Nat /\ b \in Nat /\ a \in Int /\ b \in Int
    BY <1>0
  <2> HIDE DEF a, b
  <2>2. Min({a, b}) \in Int /\ Min({a, b}) \in {a, b} /\ Min({a, b}) <= a /\ Min({a, b}) <= b
    BY <2>1, MinPair
  <2>3. Min({a, b}) \in Nat /\ (Min({a, b}) = a \/ Min({a, b}) = b)
    BY <2>1, <2>2
  <2> QED BY <2>2, <2>3 DEF a, b
<1> HIDE DEF l
<1>2. ASSUME NEW k \in 0..l
      PROVE  /\ SubSeq(s, 1, k) \in Seq(S) /\ Len(SubSeq(s, 1, k)) = k /\ \A j \in 1..k : SubSeq(s, 1, k)[j] = s[j]
             /\ SubSeq(t, 1, k) \in Seq(S) /\ Len(SubSeq(t, 1, k)) = k /\ \A j \in 1..k : SubSeq(t, 1, k)[j] = t[j]
  <2>1. k \in Nat /\ k <= Len(s) /\ k <= Len(t)
    BY <1>0, <1>1
  <2>2. \A j \in 1..k : s[j] \in S /\ t[j] \in S
    BY <1>0, <2>1
  <2> QED BY <2>1, <2>2, SubSeqProperties
<1>3. m \in Same
  <2>1. m \in 0..l
    BY <1>0, <1>1
  <2>2. \A j \in 1..m : SubSeq(s, 1, m)[j] = SubSeq(t, 1, m)[j]
    BY <1>2, <2>1 DEF PartAt
  <2>3. SubSeq(s, 1, m) = SubSeq(t, 1, m)
    BY <1>2, <2>1, <2>2, SeqEqual
  <2> QED BY <2>1, <2>3
<1>4. ASSUME NEW k \in Same PROVE k <= m
  <2> SUFFICES ASSUME m < k PROVE FALSE
    BY <1>0, <1>1
  <2>1. k \in 0..l /\ SubSeq(s, 1, k) = SubSeq(t, 1, k) /\ m + 1 \in 1..k
    BY <1>0, <1>1
  <2>2. s[m + 1] = t[m + 1]
    BY <1>2, <2>1
  <2>3. m # Len(s) /\ m # Len(t)
    BY <1>0, <1>1, <2>1
  <2> QED BY <2>2, <2>3 DEF PartAt
<1>5. Same \subseteq Nat
  BY <1>1
<1>6. Common(s, t) = Max(Same)
  BY DEF Common, l
<1> HIDE DEF Same
<1>7. Max(Same) \in Same /\ \A k \in Same : Max(Same) >= k
  BY <1>3, <1>4, <1>5 DEF Max
<1>8. Max(Same) <= m /\ Max(Same) >= m /\ Max(Same) \in Nat
  BY <1>3, <1>4, <1>5, <1>7
<1> QED BY <1>0, <1>6, <1>8

LEMMA CommonParts ==
  ASSUME NEW S, NEW s \in Seq(S), NEW t \in Seq(S)
  PROVE  PartAt(s, t, Common(s, t))
<1> DEFINE Parts == {k \in Nat : k = Len(s) \/ k = Len(t) \/ s[k + 1] # t[k + 1]}
<1>1. Len(s) \in Nat /\ Len(t) \in Nat
  OBVIOUS
<1>2. Parts # {} /\ Parts \in SUBSET Nat
  BY <1>1
<1>3. PICK m \in Parts : \A k \in Parts : m <= k
  BY <1>2, LeastOf
<1>4. m \in Nat /\ m <= Len(s) /\ m <= Len(t)
  BY <1>1, <1>3
<1>5. ASSUME NEW k \in 1..m PROVE s[k] = t[k]
  <2>1. k - 1 \in Nat /\ ~(m <= k - 1) /\ (k - 1) + 1 = k
    BY <1>4
  <2>2. k - 1 \notin Parts
    BY <1>3, <2>1
  <2> QED BY <2>1, <2>2
<1>6. m = Len(s) \/ m = Len(t) \/ s[m + 1] # t[m + 1]
  BY <1>3
<1>7. PartAt(s, t, m)
  BY <1>4, <1>5, <1>6 DEF PartAt
<1> QED BY <1>7, CommonIs

LEMMA BlocksNat ==
  ASSUME NEW m \in Nat
  PROVE  HashBlock * m \in Nat
<1>1. HashBlock \in Nat
  BY ReplayAssumption
<1>2. \A d, b \in Nat : b * d \in Nat
  OBVIOUS
<1> QED BY <1>1, <1>2

\* A position's block, and its place there.
LEMMA PlaceFacts ==
  ASSUME NEW j \in Nat \ {0}, NEW m \in Nat
  PROVE  /\ HashBlock * m \in Nat /\ (HashBlock * m) \div HashBlock = m
         /\ ((j - 1) \div HashBlock) + 1 \in Nat \ {0} /\ ((j - 1) % HashBlock) + 1 \in Nat \ {0}
         /\ j <= HashBlock * m <=> ((j - 1) \div HashBlock) + 1 <= m
         /\ HashBlock * m < HashBlock * (m + 1)
         /\ ((HashBlock * m + 1) - 1) \div HashBlock = m /\ ((HashBlock * m + 1) - 1) % HashBlock = 0
<1>1. HashBlock \in Nat \ {0}
  BY ReplayAssumption
<1>2. \A n, d, b \in Nat : b # 0 => (n < b * d <=> n \div b < d)
  OBVIOUS
<1>3. \A d, b \in Nat : b # 0 => b * d \in Nat /\ (b * d) \div b = d /\ (b * d) % b = 0 /\ b * d < b * (d + 1)
  OBVIOUS
<1>4. \A n, b \in Nat : b # 0 => n \div b \in Nat /\ n % b \in Nat
  OBVIOUS
<1>5. j - 1 \in Nat
  OBVIOUS
<1> DEFINE bm == HashBlock * m
           q == (j - 1) \div HashBlock
           r == (j - 1) % HashBlock
<1>6. bm \in Nat /\ bm \div HashBlock = m /\ bm % HashBlock = 0 /\ bm < HashBlock * (m + 1)
  BY <1>1, <1>3
<1>7. q \in Nat /\ r \in Nat /\ (j - 1 < bm <=> q < m)
  BY <1>1, <1>2, <1>4, <1>5
<1> HIDE DEF bm, q, r
<1>8. q + 1 \in Nat \ {0} /\ r + 1 \in Nat \ {0} /\ (j <= bm <=> q + 1 <= m) /\ (bm + 1) - 1 = bm
  BY <1>6, <1>7
<1> QED BY <1>6, <1>8 DEF bm, q, r

Token == Seq(Nat) \X Nat

\* The token at a position: of a shared block, or the request's own.
TokenAt(h, i, j) ==
  IF j <= HashBlock * Len(h) THEN <<h[((j - 1) \div HashBlock) + 1], ((j - 1) % HashBlock) + 1>>
  ELSE <<(<<0, i>>), j - HashBlock * Len(h)>>

Built(p, h, len, i) ==
  p \in Seq(Token) /\ Len(p) = len /\ HashBlock * Len(h) <= len /\ \A j \in 1..len : p[j] = TokenAt(h, i, j)

LEMMA SyntheticFacts ==
  ASSUME NEW i \in Nat, NEW len \in Nat
  PROVE  /\ SyntheticPrompt(i, len) \in Seq(Token) /\ Len(SyntheticPrompt(i, len)) = len
         /\ \A j \in 1..len : SyntheticPrompt(i, len)[j] = <<(<<0, i>>), j>>
<1>1. <<0, i>> \in Seq(Nat)
  OBVIOUS
<1>2. SyntheticPrompt(i, len) = [j \in 1..len |-> <<(<<0, i>>), j>>]
  BY DEF SyntheticPrompt, MixToken
<1>3. \A j \in 1..len : <<(<<0, i>>), j>> \in Token
  <2> DEFINE own == <<0, i>>
  <2>1. own \in Seq(Nat)
    BY <1>1
  <2> HIDE DEF own
  <2>2. \A j \in 1..len : <<own, j>> \in Token
    BY <2>1 DEF Token
  <2> QED BY <2>2 DEF own
<1> DEFINE p == [j \in 1..len |-> <<(<<0, i>>), j>>]
<1>4. p \in [1..len -> Token]
  BY <1>3
<1> HIDE DEF Token
<1>5. p \in Seq(Token) /\ Len(p) = len
  BY <1>4, MappedSeq
<1> QED BY <1>2, <1>5

LEMMA FromHashesFacts ==
  ASSUME NEW h \in Seq(Seq(Nat \ {0})), NEW len \in Nat, HashBlock * Len(h) <= len, NEW i \in Nat
  PROVE  Built(PromptFromBlockHashes(h, len, i), h, len, i)
<1> DEFINE n == HashBlock * Len(h)
           full == [j \in 1..n |-> MixToken(h[((j - 1) \div HashBlock) + 1], ((j - 1) % HashBlock) + 1)]
           rest == SyntheticPrompt(i, len - n)
<1>1. Len(h) \in Nat /\ DOMAIN h = 1..Len(h) /\ \A k \in 1..Len(h) : h[k] \in Seq(Nat)
  <2>1. \A x : x \in Seq(Nat \ {0}) => x \in Seq(Nat)
    OBVIOUS
  <2> QED BY <2>1
<1>2. n \in Nat /\ n <= len /\ len - n \in Nat
  <2>1. n \in Nat
    BY <1>1, BlocksNat
  <2> HIDE DEF n
  <2>2. n <= len
    BY DEF n
  <2> QED BY <2>1, <2>2
<1>3. Min({n, len}) = n
  <2>1. n \in Int /\ len \in Int
    BY <1>2
  <2>2. Min({n, len}) \in {n, len} /\ Min({n, len}) <= n /\ Min({n, len}) <= len
    BY <2>1, MinPair
  <2> QED BY <1>2, <2>2
<1>4. ASSUME NEW j \in 1..n
      PROVE  /\ ((j - 1) \div HashBlock) + 1 \in 1..Len(h)
             /\ <<h[((j - 1) \div HashBlock) + 1], ((j - 1) % HashBlock) + 1>> \in Token
  <2>1. j \in Nat \ {0} /\ j <= n
    BY <1>2
  <2>2. /\ ((j - 1) \div HashBlock) + 1 \in Nat \ {0} /\ ((j - 1) % HashBlock) + 1 \in Nat \ {0}
        /\ ((j - 1) \div HashBlock) + 1 <= Len(h)
    BY <1>1, <2>1, PlaceFacts
  <2> QED BY <1>1, <2>2 DEF Token
<1>5. full \in [1..n -> Token] /\ \A j \in 1..n : full[j] = <<h[((j - 1) \div HashBlock) + 1], ((j - 1) % HashBlock) + 1>>
  BY <1>4 DEF MixToken
<1>6. PromptFromBlockHashes(h, len, i) = full \o SyntheticPrompt(i, len - Len(full))
  BY <1>3 DEF PromptFromBlockHashes
<1> HIDE DEF full, Token
<1>7. full \in Seq(Token) /\ Len(full) = n
  BY <1>2, <1>5, MappedSeq
<1>8. rest \in Seq(Token) /\ Len(rest) = len - n /\ \A j \in 1..(len - n) : rest[j] = <<(<<0, i>>), j>>
  BY <1>2, SyntheticFacts
<1> HIDE DEF rest, n
<1>9. PromptFromBlockHashes(h, len, i) = full \o rest
  BY <1>6, <1>7 DEF rest
<1>10. /\ full \o rest \in Seq(Token) /\ Len(full \o rest) = len
       /\ \A j \in 1..len : (full \o rest)[j] = IF j <= n THEN full[j] ELSE rest[j - n]
  <2>1. n + (len - n) = len
    BY <1>2
  <2>2. /\ full \o rest \in Seq(Token) /\ Len(full \o rest) = Len(full) + Len(rest)
        /\ \A j \in 1..(Len(full) + Len(rest)) :
             (full \o rest)[j] = IF j <= Len(full) THEN full[j] ELSE rest[j - Len(full)]
    BY <1>7, <1>8, ConcatProperties
  <2>3. Len(full) + Len(rest) = len
    BY <1>7, <1>8, <2>1
  <2> QED BY <1>7, <2>2, <2>3
<1>11. ASSUME NEW j \in 1..len PROVE (full \o rest)[j] = TokenAt(h, i, j)
  <2>1. CASE j <= n
    <3>1. j \in 1..n
      BY <1>2, <2>1
    <3> QED BY <1>5, <1>10, <2>1, <3>1 DEF TokenAt, n
  <2>2. CASE ~(j <= n)
    <3>1. j - n \in 1..(len - n)
      BY <1>2, <2>2
    <3> QED BY <1>8, <1>10, <2>2, <3>1 DEF TokenAt, n
  <2> QED BY <2>1, <2>2
<1> QED BY <1>2, <1>9, <1>10, <1>11 DEF Built, n

SharedHashes(r, prefixes) == IF prefixes THEN r.hashes ELSE << >>

LEMMA PromptOfFacts ==
  ASSUME NEW r \in FileRecord, NEW i \in Nat, NEW prefixes \in BOOLEAN
  PROVE  /\ SharedHashes(r, prefixes) \in Seq(Seq(Nat \ {0})) /\ r.prompt \in Nat
         /\ Built(PromptOf(r, i, prefixes), SharedHashes(r, prefixes), r.prompt, i)
<1>1. r.hashes \in Seq(Seq(Nat \ {0})) /\ r.prompt \in Nat /\ HashBlock * Len(r.hashes) <= r.prompt
  BY DEF FileRecord
<1>2. CASE prefixes /\ r.hashes # << >>
  <2>1. PromptOf(r, i, prefixes) = PromptFromBlockHashes(r.hashes, r.prompt, i) /\ SharedHashes(r, prefixes) = r.hashes
    BY <1>2 DEF PromptOf, SharedHashes
  <2> QED BY <1>1, <2>1, FromHashesFacts
<1>3. CASE ~(prefixes /\ r.hashes # << >>)
  <2>1. PromptOf(r, i, prefixes) = SyntheticPrompt(i, r.prompt) /\ SharedHashes(r, prefixes) = << >>
    BY <1>3 DEF PromptOf, SharedHashes
  <2>2. HashBlock * Len(<< >>) = 0
    <3>1. HashBlock \in Nat
      BY ReplayAssumption
    <3>2. \A b \in Nat : b * 0 = 0
      OBVIOUS
    <3> QED BY <3>1, <3>2
  <2>3. \A j \in 1..r.prompt : TokenAt(<< >>, i, j) = <<(<<0, i>>), j>>
    <3>1. \A j \in 1..r.prompt : ~(j <= 0) /\ j - 0 = j
      BY <1>1
    <3> QED BY <2>2, <3>1 DEF TokenAt
  <2>4. Built(SyntheticPrompt(i, r.prompt), << >>, r.prompt, i)
    <3> DEFINE p == SyntheticPrompt(i, r.prompt)
    <3>1. p \in Seq(Token) /\ Len(p) = r.prompt /\ \A j \in 1..r.prompt : p[j] = <<(<<0, i>>), j>>
      BY <1>1, SyntheticFacts
    <3> HIDE DEF p
    <3>2. HashBlock * Len(<< >>) <= r.prompt
      BY <1>1, <2>2
    <3>3. \A j \in 1..r.prompt : p[j] = TokenAt(<< >>, i, j)
      BY <2>3, <3>1
    <3>4. Built(p, << >>, r.prompt, i)
      BY <3>1, <3>2, <3>3 DEF Built
    <3> QED BY <3>4 DEF p
  <2> QED BY <1>1, <2>1, <2>4
<1> QED BY <1>2, <1>3

LEMMA BlocksGrow ==
  ASSUME NEW m \in Nat, NEW n \in Nat, m <= n
  PROVE  HashBlock * m <= HashBlock * n
<1>1. HashBlock \in Nat
  BY ReplayAssumption
<1>2. \A b, c, d \in Nat : c <= d => b * c <= b * d
  OBVIOUS
<1> QED BY <1>1, <1>2

\* A block hash is no request's own seed.
LEMMA SeedsDiffer ==
  ASSUME NEW x \in Seq(Nat \ {0}), NEW i \in Nat
  PROVE  x # <<0, i>>
<1> SUFFICES ASSUME x = <<0, i>> PROVE FALSE
  OBVIOUS
<1>1. Len(x) = 2 /\ x[1] = 0
  OBVIOUS
<1>2. x[1] \in Nat \ {0}
  BY <1>1
<1> QED BY <1>1, <1>2

\* The first token after m whole blocks.
LEMMA NextToken ==
  ASSUME NEW h \in Seq(Seq(Nat \ {0})), NEW i \in Nat, NEW m \in Nat, m <= Len(h)
  PROVE  TokenAt(h, i, HashBlock * m + 1)
           = IF m < Len(h) THEN <<h[m + 1], 1>> ELSE <<(<<0, i>>), 1>>
<1> DEFINE n == HashBlock * m
           l == HashBlock * Len(h)
<1>1. Len(h) \in Nat
  OBVIOUS
<1>2. n \in Nat /\ l \in Nat /\ n < HashBlock * (m + 1) /\ HashBlock * (m + 1) \in Nat
  <2>1. m + 1 \in Nat \ {0}
    OBVIOUS
  <2> QED BY <1>1, <2>1, PlaceFacts
<1>3. ((n + 1) - 1) \div HashBlock = m /\ ((n + 1) - 1) % HashBlock = 0
  <2>1. 1 \in Nat \ {0}
    OBVIOUS
  <2> QED BY <2>1, PlaceFacts
<1>4. CASE m < Len(h)
  <2>1. m + 1 \in Nat /\ m + 1 <= Len(h)
    BY <1>1, <1>4
  <2>2. HashBlock * (m + 1) <= l
    BY <1>1, <2>1, BlocksGrow
  <2> DEFINE b == HashBlock * (m + 1)
  <2>3. n < b /\ b <= l /\ b \in Nat
    BY <1>2, <2>2
  <2> HIDE DEF n, l, b
  <2>4. n + 1 <= l
    BY <1>2, <2>3
  <2>5. TokenAt(h, i, n + 1) = <<h[(((n + 1) - 1) \div HashBlock) + 1], (((n + 1) - 1) % HashBlock) + 1>>
    BY <2>4 DEF TokenAt, l
  <2>6. TokenAt(h, i, n + 1) = <<h[m + 1], 0 + 1>>
    BY <1>3, <2>5
  <2>7. 0 + 1 = 1
    OBVIOUS
  <2>8. TokenAt(h, i, n + 1) = <<h[m + 1], 1>>
    BY <2>6, <2>7
  <2> QED BY <1>4, <2>8 DEF n
<1>5. CASE ~(m < Len(h))
  <2>1. n = l
    BY <1>1, <1>5
  <2> HIDE DEF n, l
  <2>2. ~(n + 1 <= l) /\ (n + 1) - l = 1
    BY <1>2, <2>1
  <2>3. TokenAt(h, i, n + 1) = <<(<<0, i>>), (n + 1) - l>>
    BY <2>2 DEF TokenAt, l
  <2>4. TokenAt(h, i, n + 1) = <<(<<0, i>>), 1>>
    BY <2>2, <2>3
  <2> QED BY <1>5, <2>4 DEF n
<1> QED BY <1>4, <1>5

\* Two prompts part where the blocks they share end.
LEMMA BuiltPart ==
  ASSUME NEW h \in Seq(Seq(Nat \ {0})), NEW g \in Seq(Seq(Nat \ {0})), NEW i \in Nat, NEW j \in Nat, i # j,
         NEW lh \in Nat, NEW lg \in Nat, NEW p, NEW q, Built(p, h, lh, i), Built(q, g, lg, j),
         NEW m, PartAt(h, g, m)
  PROVE  PartAt(p, q, HashBlock * m)
<1> DEFINE n == HashBlock * m
<1>1. m \in Nat /\ m <= Len(h) /\ m <= Len(g) /\ Len(h) \in Nat /\ Len(g) \in Nat
  BY DEF PartAt
<1>2. /\ Len(p) = lh /\ HashBlock * Len(h) <= lh /\ \A k \in 1..lh : p[k] = TokenAt(h, i, k)
      /\ Len(q) = lg /\ HashBlock * Len(g) <= lg /\ \A k \in 1..lg : q[k] = TokenAt(g, j, k)
  BY DEF Built
<1>3. n \in Nat /\ n <= HashBlock * Len(h) /\ n <= HashBlock * Len(g) /\ n <= lh /\ n <= lg
  <2> DEFINE a == HashBlock * Len(h)
             b == HashBlock * Len(g)
  <2>1. n \in Nat /\ a \in Nat /\ b \in Nat
    BY <1>1, BlocksNat
  <2>2. n <= a /\ n <= b
    BY <1>1, BlocksGrow
  <2>3. a <= lh /\ b <= lg
    BY <1>2
  <2> HIDE DEF n, a, b
  <2>4. n <= lh /\ n <= lg
    BY <2>1, <2>2, <2>3
  <2> QED BY <2>1, <2>2, <2>4 DEF a, b
<1>4. ASSUME NEW k \in 1..n PROVE p[k] = q[k]
  <2> DEFINE c == ((k - 1) \div HashBlock) + 1
             d == ((k - 1) % HashBlock) + 1
  <2>1. k \in Nat \ {0} /\ k <= n /\ k \in 1..lh /\ k \in 1..lg
    BY <1>3
  <2>2. c \in 1..m
    <3>1. c \in Nat \ {0} /\ c <= m
      BY <1>1, <2>1, PlaceFacts
    <3> HIDE DEF c
    <3> QED BY <1>1, <3>1
  <2>3. k <= HashBlock * Len(h) /\ k <= HashBlock * Len(g)
    <3> DEFINE a == HashBlock * Len(h)
               b == HashBlock * Len(g)
    <3>1. a \in Nat /\ b \in Nat /\ n \in Nat /\ n <= a /\ n <= b /\ k <= n /\ k \in Nat
      BY <1>1, <1>3, <2>1, BlocksNat
    <3> HIDE DEF n, a, b
    <3>2. k <= a /\ k <= b
      BY <3>1
    <3> QED BY <3>2 DEF a, b
  <2>4. TokenAt(h, i, k) = <<h[c], d>> /\ TokenAt(g, j, k) = <<g[c], d>>
    BY <2>3 DEF TokenAt
  <2>5. h[c] = g[c]
    BY <2>2 DEF PartAt
  <2> QED BY <1>2, <2>1, <2>4, <2>5
<1>5. ASSUME n # Len(p), n # Len(q) PROVE p[n + 1] # q[n + 1]
  <2>1. n + 1 \in 1..lh /\ n + 1 \in 1..lg
    <3> HIDE DEF n
    <3> QED BY <1>2, <1>3, <1>5
  <2>2. /\ p[n + 1] = IF m < Len(h) THEN <<h[m + 1], 1>> ELSE <<(<<0, i>>), 1>>
        /\ q[n + 1] = IF m < Len(g) THEN <<g[m + 1], 1>> ELSE <<(<<0, j>>), 1>>
    <3>1. p[n + 1] = TokenAt(h, i, n + 1) /\ q[n + 1] = TokenAt(g, j, n + 1)
      BY <1>2, <2>1
    <3> QED BY <1>1, <3>1, NextToken
  <2>3. CASE m < Len(h) /\ m < Len(g)
    <3>1. h[m + 1] # g[m + 1]
      BY <1>1, <2>3 DEF PartAt
    <3> QED BY <2>2, <2>3, <3>1
  <2>4. CASE m < Len(h) /\ ~(m < Len(g))
    <3>1. h[m + 1] \in Seq(Nat \ {0})
      BY <1>1, <2>4
    <3>2. h[m + 1] # <<0, j>>
      BY <3>1, SeedsDiffer
    <3> QED BY <2>2, <2>4, <3>2
  <2>5. CASE ~(m < Len(h)) /\ m < Len(g)
    <3>1. g[m + 1] \in Seq(Nat \ {0})
      BY <1>1, <2>5
    <3>2. g[m + 1] # <<0, i>>
      BY <3>1, SeedsDiffer
    <3> QED BY <2>2, <2>5, <3>2
  <2>6. CASE ~(m < Len(h)) /\ ~(m < Len(g))
    <3>1. <<0, i>> # <<0, j>>
      OBVIOUS
    <3> QED BY <2>2, <2>6, <3>1
  <2> QED BY <2>3, <2>4, <2>5, <2>6
<1> QED BY <1>2, <1>3, <1>4, <1>5 DEF PartAt

LEMMA PromptsFollow ==
  ASSUME ArrivalInv
  PROVE  PromptsShare
<1>1. /\ subset \in Orders /\ shared \in BOOLEAN /\ Tasks = 1..Len(subset)
      /\ prompts = [i \in 1..Len(subset) |-> PromptOf(subset[i], i, shared)]
  BY DEF ArrivalInv, TasksOK, PromptsBuilt, Tasks
<1>2. Len(subset) \in Nat /\ \A i \in 1..Len(subset) : subset[i] \in FileRecord
  BY <1>1, SubsetFacts
<1> SUFFICES ASSUME NEW i \in Tasks, NEW j \in Tasks, i # j
             PROVE  Common(prompts[i], prompts[j]) \div HashBlock
                      = IF shared THEN Common(subset[i].hashes, subset[j].hashes) ELSE 0
  BY DEF PromptsShare
<1> DEFINE h == SharedHashes(subset[i], shared)
           g == SharedHashes(subset[j], shared)
           m == Common(h, g)
<1>3. i \in Nat /\ j \in Nat /\ subset[i] \in FileRecord /\ subset[j] \in FileRecord
  BY <1>1, <1>2
<1>4. /\ h \in Seq(Seq(Nat \ {0})) /\ subset[i].prompt \in Nat /\ Built(prompts[i], h, subset[i].prompt, i)
      /\ g \in Seq(Seq(Nat \ {0})) /\ subset[j].prompt \in Nat /\ Built(prompts[j], g, subset[j].prompt, j)
  <2>1. prompts[i] = PromptOf(subset[i], i, shared) /\ prompts[j] = PromptOf(subset[j], j, shared)
    BY <1>1
  <2> QED BY <1>1, <1>3, <2>1, PromptOfFacts
<1> HIDE DEF h, g
<1>5. PartAt(h, g, m)
  BY <1>4, CommonParts
<1>6. m \in Nat
  BY <1>5 DEF PartAt
<1>7. PartAt(prompts[i], prompts[j], HashBlock * m)
  <2> HIDE DEF m
  <2> QED BY <1>3, <1>4, <1>5, BuiltPart
<1>8. Common(prompts[i], prompts[j]) = HashBlock * m
  <2>1. prompts[i] \in Seq(Token) /\ prompts[j] \in Seq(Token)
    BY <1>4 DEF Built
  <2> HIDE DEF m, Token
  <2> QED BY <1>7, <2>1, CommonIs
<1>9. (HashBlock * m) \div HashBlock = m
  <2>1. 1 \in Nat \ {0}
    OBVIOUS
  <2> HIDE DEF m
  <2> QED BY <1>6, <2>1, PlaceFacts
<1>10. m = IF shared THEN Common(subset[i].hashes, subset[j].hashes) ELSE 0
  <2>1. CASE shared
    BY <2>1 DEF h, g, SharedHashes
  <2>2. CASE ~shared
    <3>1. h = << >> /\ g = << >>
      BY <2>2 DEF h, g, SharedHashes
    <3>2. m <= Len(h) /\ Len(h) = 0
      BY <1>5, <3>1 DEF PartAt
    <3> QED BY <1>6, <2>2, <3>2
  <2> QED BY <1>1, <2>1, <2>2
<1> QED BY <1>8, <1>9, <1>10

(* However a trace is replayed: while no answer is faster than recorded, no request is sent  *)
(* before its recorded offset; while all are just as recorded and no turn was recorded       *)
(* before its parent's end, each is sent at its offset (replay_arrivals, think_ms); and two  *)
(* prompts share the blocks their records did (infer_session_parents,                        *)
(* prompt_from_block_hashes).                                                                *)
THEOREM ReplayKeepsLoad ==
  ASSUME NEW Traces, Traces \subseteq Seq(FileRecord)
  PROVE  ArrivalSpec(Traces) => []ReplayFaithful
<1>1. ReplayInit => ArrivalInv
  BY ArrivalInit
<1>2. ArrivalInv /\ [ArrivalNext(Traces)]_replayVars => ArrivalInv'
  BY ArrivalStep
<1>3. ArrivalInv => ReplayFaithful
  BY PaceFollows, PromptsFollow DEF ReplayFaithful
<1> QED BY <1>1, <1>2, <1>3, PTL DEF ArrivalSpec
=============================================================================
