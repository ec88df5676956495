-------------------------- MODULE ControlApiProofs -------------------------
(* The control API's broadcasts, for every number of engines, calls, fields  *)
(* and failures: which engines a patch has changed, when the engines agree,  *)
(* and what a read may report.                                               *)
EXTENDS ControlApi, FiniteSetTheorems, SequenceTheorems, WellFoundedInduction, TLAPS

(***************************************************************************)
(* Queues and histories, as sequences without repetition                   *)
(***************************************************************************)
In(c, s) == \E i \in 1..Len(s) : s[i] = c
Distinct(s) == \A i, j \in 1..Len(s) : s[i] = s[j] => i = j

LEMMA AppendIn ==
  ASSUME NEW T, NEW s \in Seq(T), NEW e \in T
  PROVE  /\ Append(s, e) \in Seq(T) /\ Len(Append(s, e)) = Len(s) + 1 /\ Len(s) \in Nat
         /\ \A i \in 1..Len(s) : Append(s, e)[i] = s[i]
         /\ Append(s, e)[Len(s) + 1] = e
         /\ \A c : In(c, Append(s, e)) <=> In(c, s) \/ c = e
         /\ Distinct(s) /\ ~ In(e, s) => Distinct(Append(s, e))
<1>1. Len(s) \in Nat /\ Len(Append(s, e)) = Len(s) + 1 /\ Append(s, e) \in Seq(T)
  BY AppendProperties, LenProperties
<1>2. \A i \in 1..Len(s) : Append(s, e)[i] = s[i]
  BY AppendProperties
<1>3. Append(s, e)[Len(s) + 1] = e
  BY AppendProperties
<1>. QED
  BY <1>1, <1>2, <1>3 DEF In, Distinct

LEMMA TailIn ==
  ASSUME NEW T, NEW s \in Seq(T), s # << >>
  PROVE  /\ Tail(s) \in Seq(T) /\ Head(s) \in T /\ In(Head(s), s)
         /\ \A c : In(c, s) <=> c = Head(s) \/ In(c, Tail(s))
         /\ Distinct(s) => Distinct(Tail(s)) /\ ~ In(Head(s), Tail(s))
<1>1. Len(s) \in Nat \ {0}
  BY EmptySeq
<1>2. /\ Len(Tail(s)) = Len(s) - 1 /\ \A i \in 1..Len(Tail(s)) : Tail(s)[i] = s[i + 1]
      /\ Tail(s) \in Seq(T) /\ Head(s) \in T
  BY HeadTailProperties
<1>3. Head(s) = s[1] /\ 1 \in 1..Len(s)
  BY <1>1
<1>4. ASSUME NEW c, In(c, s), c # Head(s) PROVE In(c, Tail(s))
  <2>1. PICK i \in 1..Len(s) : s[i] = c
    BY <1>4 DEF In
  <2>2. i - 1 \in 1..Len(Tail(s)) /\ Tail(s)[i - 1] = s[i]
    BY <2>1, <1>1, <1>2, <1>3, <1>4
  <2>. QED
    BY <2>1, <2>2 DEF In
<1>5. ASSUME NEW c, In(c, Tail(s)) PROVE In(c, s) /\ (Distinct(s) => c # Head(s))
  <2>1. PICK i \in 1..Len(Tail(s)) : Tail(s)[i] = c
    BY <1>5 DEF In
  <2>2. i + 1 \in 1..Len(s) /\ s[i + 1] = c /\ i + 1 # 1
    BY <2>1, <1>1, <1>2
  <2>. QED
    BY <2>2, <1>3 DEF In, Distinct
<1>6. Distinct(s) => Distinct(Tail(s))
  BY <1>1, <1>2 DEF Distinct
<1>. QED
  BY <1>2, <1>3, <1>4, <1>5, <1>6 DEF In

(***************************************************************************)
(* The invariant: where a call is, and what that says of the engines       *)
(***************************************************************************)
Places == {"new", "send", "wait", "ok", "bad_request", "conflict", "internal", "gone"}
Configs == [Fields -> Values]
Answers == [kind : {"conflict"}] \cup [kind : {"config"}, config : Configs]
             \cup [kind : {"stats"}, count : Nat]

Types ==
  /\ op \in [Calls -> Ops \cup {Idle}] /\ pc \in [Calls -> Places]
  /\ at \in [Calls -> 1..(N + 1)]
  /\ replies \in [Calls -> Seq(Answers)] /\ reply \in [Calls -> SUBSET Answers]
  /\ input_rx \in [Engines -> Seq(Calls)] /\ applied \in [Engines -> Seq(Calls)]
  /\ config \in [Engines -> Configs] /\ received \in [Engines -> Nat]
  /\ seen \in [Calls -> SUBSET Calls]

Waiting(c) == {e \in Engines : In(c, input_rx[e])}
AppliedAt(c) == {e \in Engines : In(c, applied[e])}

PatchOp(o) == o.kind = "patch"
Refused(o) == PatchOp(o) /\ Conflicts(o.patch)

(* One call: what it asks for, where it is, the engine it has come to, its oneshot, the      *)
(* engines that have it queued and those that have applied it.                               *)
CallOK(o, p, a, r, Q, P) ==
  /\ p = "new" => o = Idle
  /\ p # "wait" => r = {}
  /\ p \in {"new", "bad_request"} => a = 1
  /\ p \in {"send", "wait", "internal", "gone"} => a \in Engines
  /\ p = "ok" => a = N + 1
  /\ p = "conflict" => Refused(o)
  /\ Refused(o) => a = 1
  \* a queued call is queued at the engine it has come to
  /\ Q # {} => Q = {a} /\ p \in {"wait", "gone"} /\ r = {} /\ a \notin P
  \* a patch has been applied by the engines before that one, and perhaps there
  /\ P # {} => PatchOp(o) /\ ~Refused(o)
  /\ PatchOp(o) => \A e \in Engines : (e < a => e \in P) /\ (e > a => e \notin P)
  /\ a \in P => p = "gone" \/ (p = "wait" /\ r # {})
  /\ r # {} => \E x \in Answers :
                 /\ r = {x} /\ (x.kind = "conflict" <=> Refused(o))
                 /\ PatchOp(o) /\ ~Refused(o) => a \in P

CallsOK ==
  \A c \in Calls : CallOK(op[c], pc[c], at[c], reply[c], Waiting(c), AppliedAt(c))

NoneTwice == \A e \in Engines : Distinct(input_rx[e]) /\ Distinct(applied[e])

PatchInv == Types /\ CallsOK /\ NoneTwice

LEMMA OpFacts ==
  /\ \A o \in Ops : PatchOp(o) => o.patch \in Patches
  /\ ~PatchOp(Idle) /\ \A o \in Ops : o.kind # "none"
BY DEF Ops, PatchOp, Idle

LEMMA PatchInit == Init => PatchInv
<1>. SUFFICES ASSUME Init PROVE PatchInv
  OBVIOUS
<1>1. N \in Nat \ {0} /\ MaxCalls \in Nat /\ Default \in Configs
  BY ControlConstants DEF Configs
<1>2. << >> \in Seq(Calls) /\ << >> \in Seq(Answers) /\ Len(<< >>) = 0
  BY EmptySeq
<1>3. Types
  BY <1>1, <1>2 DEF Init, Types, Places
<1>4. \A c : Waiting(c) = {} /\ AppliedAt(c) = {}
  BY <1>2 DEF Init, Waiting, AppliedAt, In
<1>5. CallsOK
  <2>. SUFFICES ASSUME NEW c \in Calls PROVE CallOK(Idle, "new", 1, {}, {}, {})
    BY <1>4 DEF CallsOK, Init
  <2>. QED
    BY <1>1, OpFacts DEF CallOK, Refused, Engines
<1>6. NoneTwice
  BY <1>2 DEF Init, NoneTwice, Distinct
<1>. QED
  BY <1>3, <1>5, <1>6 DEF PatchInv

(***************************************************************************)
(* The handlers' steps                                                     *)
(***************************************************************************)
Handlers == <<op, pc, at, replies, reply>>

\* A step of one handler that leaves the engines alone.
LEMMA OneCall ==
  ASSUME PatchInv, NEW c \in Calls, Types',
         UNCHANGED <<input_rx, applied>>,
         \A d \in Calls \ {c} : /\ op'[d] = op[d] /\ pc'[d] = pc[d] /\ at'[d] = at[d]
                                /\ reply'[d] = reply[d],
         CallOK(op'[c], pc'[c], at'[c], reply'[c], Waiting(c), AppliedAt(c))
  PROVE  PatchInv'
<1>1. \A d \in Calls : Waiting(d)' = Waiting(d) /\ AppliedAt(d)' = AppliedAt(d)
  BY DEF Waiting, AppliedAt
<1>2. ASSUME NEW d \in Calls
      PROVE  CallOK(op'[d], pc'[d], at'[d], reply'[d], Waiting(d)', AppliedAt(d)')
  <2>1. CASE d = c
    BY <1>1, <2>1
  <2>2. CASE d # c
    BY <1>1, <2>2 DEF PatchInv, CallsOK
  <2>. QED
    BY <2>1, <2>2
<1>3. CallsOK'
  BY <1>2 DEF CallsOK
<1>4. NoneTwice'
  BY DEF PatchInv, NoneTwice
<1>. QED
  BY <1>3, <1>4 DEF PatchInv

LEMMA BeginStep ==
  ASSUME PatchInv, NEW c \in Calls, NEW o \in Menu[c], Begin(c, o)
  PROVE  PatchInv'
<1>1. o \in Ops
  BY ControlConstants DEF Calls
<1>2. /\ pc[c] = "new" /\ op' = [op EXCEPT ![c] = o]
      /\ pc' = [pc EXCEPT ![c] = IF Validates(o) THEN "send" ELSE "bad_request"]
      /\ UNCHANGED <<at, replies, reply, input_rx, config, received, applied>>
      /\ seen' = [seen EXCEPT ![c] = {d \in Calls : o.kind \in {"get_config", "patch"}
                                                      /\ IsPatch(d) /\ pc[d] = "ok"}]
  BY DEF Begin
<1>3. Types'
  BY <1>1, <1>2 DEF PatchInv, Types, Places
<1>4. CallOK(op[c], pc[c], at[c], reply[c], Waiting(c), AppliedAt(c))
  BY DEF PatchInv, CallsOK
<1>5. op'[c] = o /\ pc'[c] \in {"send", "bad_request"} /\ at'[c] = at[c] /\ reply'[c] = reply[c]
  BY <1>2 DEF PatchInv, Types
<1>6. \A d \in Calls \ {c} : /\ op'[d] = op[d] /\ pc'[d] = pc[d] /\ at'[d] = at[d]
                             /\ reply'[d] = reply[d]
  BY <1>2 DEF PatchInv, Types
<1>7. at[c] = 1 /\ reply[c] = {} /\ Waiting(c) = {} /\ AppliedAt(c) = {} /\ 1 \in Engines /\ N \in Nat
  BY <1>2, <1>4, OpFacts, ControlConstants DEF CallOK, Engines
<1>8. CallOK(op'[c], pc'[c], at'[c], reply'[c], Waiting(c), AppliedAt(c))
  BY <1>5, <1>7 DEF CallOK, Engines
<1>. QED
  BY <1>2, <1>3, <1>6, <1>8, OneCall

LEMMA SendStep ==
  ASSUME PatchInv, NEW c \in Calls, Send(c)
  PROVE  PatchInv'
<1>1. CallOK(op[c], pc[c], at[c], reply[c], Waiting(c), AppliedAt(c))
  BY DEF PatchInv, CallsOK
<1>2. pc[c] = "send" /\ UNCHANGED <<op, at, replies, reply, config, received, applied, seen>>
  BY DEF Send, history
<1>3. at[c] \in Engines /\ reply[c] = {} /\ Waiting(c) = {} /\ at[c] \notin AppliedAt(c)
  BY <1>1, <1>2 DEF CallOK
<1>. DEFINE a == at[c]
            s == input_rx[a]
<1>4. CASE pc' = [pc EXCEPT ![c] = "internal"] /\ UNCHANGED input_rx
  <2>1. Types'
    BY <1>2, <1>4 DEF PatchInv, Types, Places
  <2>2. pc'[c] = "internal" /\ \A d \in Calls \ {c} : pc'[d] = pc[d]
    BY <1>4 DEF PatchInv, Types
  <2>3. CallOK(op'[c], pc'[c], at'[c], reply'[c], Waiting(c), AppliedAt(c))
    BY <1>1, <1>2, <1>3, <2>2 DEF CallOK
  <2>. QED
    BY <1>2, <1>4, <2>1, <2>2, <2>3, OneCall
<1>5. CASE pc' = [pc EXCEPT ![c] = "wait"] /\ input_rx' = [input_rx EXCEPT ![a] = Append(s, c)]
  <2>1. pc'[c] = "wait" /\ \A d \in Calls \ {c} : pc'[d] = pc[d]
    BY <1>5 DEF PatchInv, Types
  <2>2. s \in Seq(Calls) /\ Distinct(s) /\ ~ In(c, s)
    BY <1>3 DEF PatchInv, Types, NoneTwice, Waiting
  <2>3. /\ Append(s, c) \in Seq(Calls) /\ \A d : In(d, Append(s, c)) <=> In(d, s) \/ d = c
        /\ Distinct(Append(s, c))
    BY <2>2, AppendIn
  <2>4. \A e \in Engines : input_rx'[e] = IF e = a THEN Append(s, c) ELSE input_rx[e]
    BY <1>5 DEF PatchInv, Types
  <2>5. Types'
    BY <1>2, <1>3, <1>5, <2>3 DEF PatchInv, Types, Places
  <2>6. NoneTwice'
    BY <1>2, <2>3, <2>4 DEF PatchInv, NoneTwice
  <2>7. \A d \in Calls \ {c} : Waiting(d)' = Waiting(d)
    BY <2>3, <2>4 DEF Waiting
  <2>8. Waiting(c)' = {a}
    BY <1>3, <2>3, <2>4 DEF Waiting
  <2>9. \A d \in Calls : AppliedAt(d)' = AppliedAt(d)
    BY <1>2 DEF AppliedAt
  <2>10. CallOK(op[c], "wait", a, reply[c], {a}, AppliedAt(c))
    BY <1>1, <1>2, <1>3 DEF CallOK
  <2>11. ASSUME NEW d \in Calls
         PROVE  CallOK(op'[d], pc'[d], at'[d], reply'[d], Waiting(d)', AppliedAt(d)')
    <3>1. CASE d = c
      BY <1>2, <2>1, <2>8, <2>9, <2>10, <3>1
    <3>2. CASE d # c
      BY <1>2, <2>1, <2>7, <2>9, <3>2 DEF PatchInv, CallsOK
    <3>. QED
      BY <3>1, <3>2
  <2>12. CallsOK'
    BY <2>11 DEF CallsOK
  <2>. QED
    BY <2>5, <2>6, <2>12 DEF PatchInv
<1>. QED
  BY <1>4, <1>5 DEF Send

LEMMA DroppedStep ==
  ASSUME PatchInv, NEW c \in Calls, ReplyDropped(c)
  PROVE  PatchInv'
<1>1. CallOK(op[c], pc[c], at[c], reply[c], Waiting(c), AppliedAt(c))
  BY DEF PatchInv, CallsOK
<1>2. /\ pc[c] = "wait" /\ reply[c] = {} /\ c \notin ToSet(input_rx[at[c]])
      /\ pc' = [pc EXCEPT ![c] = "internal"]
      /\ UNCHANGED <<op, at, replies, reply, input_rx, config, received, applied, seen>>
  BY DEF ReplyDropped, history
<1>3. at[c] \in Engines
  BY <1>1, <1>2 DEF CallOK
<1>4. at[c] \notin Waiting(c)
  <2>1. input_rx[at[c]] \in Seq(Calls)
    BY <1>3 DEF PatchInv, Types
  <2>2. DOMAIN input_rx[at[c]] = 1..Len(input_rx[at[c]])
    BY <2>1, LenProperties
  <2>. QED
    BY <1>2, <2>2 DEF Waiting, In, ToSet
<1>5. Types'
  BY <1>2 DEF PatchInv, Types, Places
<1>6. pc'[c] = "internal" /\ \A d \in Calls \ {c} : pc'[d] = pc[d]
  BY <1>2 DEF PatchInv, Types
<1>7. CallOK(op'[c], pc'[c], at'[c], reply'[c], Waiting(c), AppliedAt(c))
  BY <1>1, <1>2, <1>4, <1>6 DEF CallOK
<1>. QED
  BY <1>2, <1>5, <1>6, <1>7, OneCall

LEMMA DisconnectStep ==
  ASSUME PatchInv, NEW c \in Calls, Disconnect(c)
  PROVE  PatchInv'
<1>1. CallOK(op[c], pc[c], at[c], reply[c], Waiting(c), AppliedAt(c))
  BY DEF PatchInv, CallsOK
<1>2. /\ pc[c] \in {"send", "wait"} /\ pc' = [pc EXCEPT ![c] = "gone"]
      /\ reply' = [reply EXCEPT ![c] = {}]
      /\ UNCHANGED <<op, at, replies, input_rx, config, received, applied, seen>>
  BY DEF Disconnect, history
<1>3. Types'
  BY <1>2 DEF PatchInv, Types, Places
<1>4. /\ pc'[c] = "gone" /\ reply'[c] = {}
      /\ \A d \in Calls \ {c} : pc'[d] = pc[d] /\ reply'[d] = reply[d]
  BY <1>2 DEF PatchInv, Types
<1>5. CallOK(op'[c], pc'[c], at'[c], reply'[c], Waiting(c), AppliedAt(c))
  BY <1>1, <1>2, <1>4 DEF CallOK
<1>. QED
  BY <1>2, <1>3, <1>4, <1>5, OneCall

LEMMA ReceiveStep ==
  ASSUME PatchInv, NEW c \in Calls, Receive(c)
  PROVE  PatchInv'
<1>1. CallOK(op[c], pc[c], at[c], reply[c], Waiting(c), AppliedAt(c))
  BY DEF PatchInv, CallsOK
<1>2. PICK x \in reply[c] :
        IF x.kind = "conflict"
        THEN pc' = [pc EXCEPT ![c] = "conflict"] /\ UNCHANGED <<at, replies>>
        ELSE /\ pc' = [pc EXCEPT ![c] = IF at[c] = N THEN "ok" ELSE "send"]
             /\ at' = [at EXCEPT ![c] = @ + 1]
             /\ replies' = [replies EXCEPT ![c] = Append(@, x)]
  BY DEF Receive
<1>3. /\ pc[c] = "wait" /\ reply' = [reply EXCEPT ![c] = {}]
      /\ UNCHANGED <<op, input_rx, config, received, applied, seen>>
  BY DEF Receive, history
<1>4. /\ at[c] \in Engines /\ x \in Answers /\ (x.kind = "conflict" <=> Refused(op[c]))
      /\ PatchOp(op[c]) /\ ~Refused(op[c]) => at[c] \in AppliedAt(c)
  BY <1>1, <1>2, <1>3 DEF CallOK
<1>5. N \in Nat \ {0} /\ at[c] \in Nat /\ at[c] <= N
  BY <1>4, ControlConstants DEF Engines
<1>6. reply'[c] = {} /\ \A d \in Calls \ {c} : reply'[d] = reply[d]
  BY <1>3 DEF PatchInv, Types
<1>7. CASE x.kind = "conflict"
  <2>1. pc' = [pc EXCEPT ![c] = "conflict"] /\ UNCHANGED <<at, replies>>
    BY <1>2, <1>7
  <2>2. Types'
    BY <1>3, <2>1 DEF PatchInv, Types, Places
  <2>3. pc'[c] = "conflict" /\ \A d \in Calls \ {c} : pc'[d] = pc[d]
    BY <2>1 DEF PatchInv, Types
  <2>4. CallOK(op'[c], pc'[c], at'[c], reply'[c], Waiting(c), AppliedAt(c))
    BY <1>1, <1>2, <1>3, <1>4, <1>6, <1>7, <2>1, <2>3 DEF CallOK
  <2>. QED
    BY <1>3, <1>6, <2>1, <2>2, <2>3, <2>4, OneCall
<1>8. CASE x.kind # "conflict"
  <2>1. /\ pc' = [pc EXCEPT ![c] = IF at[c] = N THEN "ok" ELSE "send"]
        /\ at' = [at EXCEPT ![c] = @ + 1]
        /\ replies' = [replies EXCEPT ![c] = Append(@, x)]
    BY <1>2, <1>8
  <2>2. Append(replies[c], x) \in Seq(Answers)
    BY <1>4, AppendProperties DEF PatchInv, Types
  <2>3. Types'
    <3>1. pc' \in [Calls -> Places]
      BY <2>1 DEF PatchInv, Types, Places
    <3>2. at' \in [Calls -> 1..(N + 1)]
      BY <1>5, <2>1 DEF PatchInv, Types
    <3>3. replies' \in [Calls -> Seq(Answers)] /\ reply' \in [Calls -> SUBSET Answers]
      BY <1>3, <2>1, <2>2 DEF PatchInv, Types
    <3>. QED
      BY <1>3, <3>1, <3>2, <3>3 DEF PatchInv, Types
  <2>4. /\ pc'[c] = IF at[c] = N THEN "ok" ELSE "send"
        /\ at'[c] = at[c] + 1
        /\ \A d \in Calls \ {c} : pc'[d] = pc[d] /\ at'[d] = at[d]
    BY <2>1 DEF PatchInv, Types
  <2>5. Waiting(c) = {} /\ ~Refused(op[c])
    BY <1>1, <1>2, <1>4, <1>8 DEF CallOK
  <2>6. at[c] + 1 \notin AppliedAt(c)
    <3>1. CASE PatchOp(op[c])
      BY <1>1, <1>5, <3>1 DEF CallOK, AppliedAt, Engines
    <3>2. CASE ~PatchOp(op[c])
      BY <1>1, <3>2 DEF CallOK
    <3>. QED
      BY <3>1, <3>2
  <2>7. PatchOp(op[c]) => \A e \in Engines : (e < at[c] + 1 => e \in AppliedAt(c))
                                             /\ (e > at[c] + 1 => e \notin AppliedAt(c))
    <3>1. ASSUME PatchOp(op[c]), NEW e \in Engines
          PROVE  (e < at[c] + 1 => e \in AppliedAt(c)) /\ (e > at[c] + 1 => e \notin AppliedAt(c))
      <4>1. e \in Int /\ at[c] \in Int
        BY <1>5 DEF Engines
      <4>2. (e < at[c] => e \in AppliedAt(c)) /\ (e > at[c] => e \notin AppliedAt(c))
        BY <1>1, <3>1 DEF CallOK
      <4>3. at[c] \in AppliedAt(c)
        BY <1>4, <2>5, <3>1
      <4>. QED
        BY <4>1, <4>2, <4>3
    <3>. QED
      BY <3>1
  <2>8. CallOK(op[c], pc'[c], at[c] + 1, {}, {}, AppliedAt(c))
    <3>1. at[c] # N => at[c] + 1 \in Engines
      BY <1>5 DEF Engines
    <3>2. AppliedAt(c) # {} => PatchOp(op[c]) /\ ~Refused(op[c])
      BY <1>1 DEF CallOK
    <3>. QED
      BY <2>4, <2>5, <2>6, <2>7, <3>1, <3>2 DEF CallOK
  <2>. QED
    BY <1>3, <1>6, <2>3, <2>4, <2>5, <2>8, OneCall
<1>. QED
  BY <1>7, <1>8

(***************************************************************************)
(* The engines' steps                                                      *)
(***************************************************************************)

\* Handling the call at the head of an engine's queue.
LEMMA HandleCall ==
  ASSUME PatchInv, NEW e \in Engines, HandleControl(e), NEW c, c = Head(input_rx[e])
  PROVE  PatchInv'
<1>. DEFINE s == input_rx[e]
            o == op[c]
            cf == config'[e]
            n == received'[e]
            x == Answer(c, cf, n)
            Applies == PatchOp(o) /\ ~Refused(o)
<1>1. /\ s # << >> /\ input_rx' = [input_rx EXCEPT ![e] = Tail(s)]
      /\ IF IsPatch(c) THEN ApplyPatch(e, c) ELSE UNCHANGED <<config, applied>>
      /\ received' = [received EXCEPT ![e] = 0] \/ UNCHANGED received
      /\ reply' = IF pc[c] = "wait" THEN [reply EXCEPT ![c] = {x}] ELSE reply
      /\ UNCHANGED <<op, pc, at, replies, seen>>
  BY DEF HandleControl, handlers
<1>2. s \in Seq(Calls) /\ Distinct(s) /\ applied[e] \in Seq(Calls) /\ Distinct(applied[e])
  BY DEF PatchInv, Types, NoneTwice
<1>3. /\ Tail(s) \in Seq(Calls) /\ c \in Calls /\ In(c, s)
      /\ \A d : In(d, s) <=> d = c \/ In(d, Tail(s))
      /\ Distinct(Tail(s)) /\ ~ In(c, Tail(s))
  BY <1>1, <1>2, TailIn
<1>4. CallOK(o, pc[c], at[c], reply[c], Waiting(c), AppliedAt(c))
  BY <1>3 DEF PatchInv, CallsOK
<1>5. /\ at[c] = e /\ Waiting(c) = {e} /\ pc[c] \in {"wait", "gone"} /\ reply[c] = {}
      /\ e \notin AppliedAt(c)
  BY <1>3, <1>4 DEF CallOK, Waiting
<1>6. o \in Ops \cup {Idle}
  BY <1>3 DEF PatchInv, Types
<1>7. PatchOp(o) => o.patch \in Patches
  BY <1>6, OpFacts
<1>8. /\ Applies => /\ config' = [config EXCEPT ![e] = Patched(config[e], o.patch)]
                    /\ applied' = [applied EXCEPT ![e] = Append(applied[e], c)]
      /\ ~Applies => UNCHANGED <<config, applied>>
  BY <1>1 DEF IsPatch, PatchOp, Refused, ApplyPatch
<1>9. config' \in [Engines -> Configs]
  <2>1. CASE Applies
    <3>1. /\ DOMAIN o.patch \subseteq Fields /\ \A f \in DOMAIN o.patch : o.patch[f] \in Values
      BY <1>7, <2>1, ControlConstants
    <3>2. Patched(config[e], o.patch) \in Configs
      BY <3>1 DEF PatchInv, Types, Patched, Configs
    <3>. QED
      BY <1>8, <2>1, <3>2 DEF PatchInv, Types
  <2>2. CASE ~Applies
    BY <1>8, <2>2 DEF PatchInv, Types
  <2>. QED
    BY <2>1, <2>2
<1>10. received' \in [Engines -> Nat]
  <2>1. received \in [Engines -> Nat]
    BY DEF PatchInv, Types
  <2>2. [received EXCEPT ![e] = 0] \in [Engines -> Nat]
    BY <2>1
  <2>3. CASE received' = [received EXCEPT ![e] = 0]
    BY <2>2, <2>3
  <2>4. CASE UNCHANGED received
    BY <2>1, <2>4
  <2>. QED
    BY <1>1, <2>3, <2>4
<1>11. x \in Answers /\ (x.kind = "conflict" <=> Refused(o))
  <2>1. cf \in Configs /\ n \in Nat
    BY <1>9, <1>10
  <2>. HIDE DEF cf, n
  <2>2. CASE Refused(o)
    BY <2>2 DEF Answer, Answers, Refused, PatchOp, IsPatch
  <2>3. CASE ~Refused(o) /\ o.kind \in {"patch", "get_config"}
    BY <2>1, <2>3 DEF Answer, Answers, Refused, PatchOp, IsPatch
  <2>4. CASE ~Refused(o) /\ o.kind \notin {"patch", "get_config"}
    BY <2>1, <2>4 DEF Answer, Answers, Refused, PatchOp, IsPatch
  <2>. QED
    BY <2>2, <2>3, <2>4
<1>. HIDE DEF x
<1>12. reply' \in [Calls -> SUBSET Answers]
  BY <1>1, <1>11 DEF PatchInv, Types
<1>13. /\ reply'[c] = IF pc[c] = "wait" THEN {x} ELSE {}
       /\ \A d \in Calls \ {c} : reply'[d] = reply[d]
  BY <1>1, <1>3, <1>5 DEF PatchInv, Types
<1>14. \A g \in Engines : input_rx'[g] = IF g = e THEN Tail(s) ELSE input_rx[g]
  BY <1>1 DEF PatchInv, Types
<1>15. ~ In(c, applied[e])
  BY <1>5 DEF AppliedAt
<1>16. /\ Append(applied[e], c) \in Seq(Calls) /\ Distinct(Append(applied[e], c))
       /\ \A d : In(d, Append(applied[e], c)) <=> In(d, applied[e]) \/ d = c
  BY <1>2, <1>3, <1>15, AppendIn
<1>17. \A g \in Engines : applied'[g] = IF Applies /\ g = e THEN Append(applied[e], c) ELSE applied[g]
  BY <1>8 DEF PatchInv, Types
<1>18. applied' \in [Engines -> Seq(Calls)]
  BY <1>8, <1>16 DEF PatchInv, Types
<1>19. Types'
  <2>1. input_rx' \in [Engines -> Seq(Calls)]
    BY <1>1, <1>3 DEF PatchInv, Types
  <2>. QED
    BY <1>1, <1>9, <1>10, <1>12, <1>18, <2>1 DEF PatchInv, Types
<1>20. NoneTwice'
  BY <1>3, <1>14, <1>16, <1>17 DEF PatchInv, NoneTwice
<1>. HIDE DEF s, Applies
<1>21. \A d \in Calls \ {c} : Waiting(d)' = Waiting(d) /\ AppliedAt(d)' = AppliedAt(d)
  BY <1>3, <1>14, <1>16, <1>17 DEF Waiting, AppliedAt, s
<1>22. Waiting(c)' = {}
  <2>1. ASSUME NEW g \in Engines PROVE ~ In(c, input_rx'[g])
    <3>1. CASE g = e
      BY <1>3, <1>14, <3>1
    <3>2. CASE g # e
      <4>1. input_rx'[g] = input_rx[g]
        BY <1>14, <3>2
      <4>2. g \notin Waiting(c)
        BY <1>5, <3>2
      <4>. QED
        BY <4>1, <4>2 DEF Waiting
    <3>. QED
      BY <3>1, <3>2
  <2>. QED
    BY <2>1 DEF Waiting
<1>23. AppliedAt(c)' = IF Applies THEN AppliedAt(c) \cup {e} ELSE AppliedAt(c)
  <2>1. ASSUME NEW g \in Engines
        PROVE  In(c, applied'[g]) <=> In(c, applied[g]) \/ (Applies /\ g = e)
    BY <1>16, <1>17
  <2>2. AppliedAt(c)' = {g \in Engines : In(c, applied'[g])}
    BY DEF AppliedAt
  <2>. QED
    BY <2>1, <2>2 DEF AppliedAt
<1>24. CallOK(o, pc[c], at[c], reply'[c], {}, AppliedAt(c)')
  <2>1. ASSUME PatchOp(o), NEW g \in Engines
        PROVE  (g < e => g \in AppliedAt(c)') /\ (g > e => g \notin AppliedAt(c)')
    <3>1. (g < e => g \in AppliedAt(c)) /\ (g > e => g \notin AppliedAt(c))
      BY <1>4, <1>5, <2>1 DEF CallOK
    <3>2. ~(e > e)
      BY ControlConstants DEF Engines
    <3>. QED
      BY <1>23, <3>1, <3>2
  <2>2. AppliedAt(c)' # {} => PatchOp(o) /\ ~Refused(o)
    BY <1>4, <1>23 DEF CallOK, Applies
  <2>3. e \in AppliedAt(c)' => pc[c] = "gone" \/ (pc[c] = "wait" /\ reply'[c] # {})
    BY <1>5, <1>13
  <2>4. reply'[c] # {} => /\ reply'[c] = {x} /\ pc[c] = "wait"
                          /\ (PatchOp(o) /\ ~Refused(o) => e \in AppliedAt(c)')
    BY <1>13, <1>23 DEF Applies
  <2>. HIDE DEF o
  <2>. QED
    BY <1>4, <1>5, <1>11, <2>1, <2>2, <2>3, <2>4 DEF CallOK
<1>25. ASSUME NEW d \in Calls
       PROVE  CallOK(op'[d], pc'[d], at'[d], reply'[d], Waiting(d)', AppliedAt(d)')
  <2>1. CASE d = c
    <3>1. CallOK(op'[c], pc'[c], at'[c], reply'[c], Waiting(c)', AppliedAt(c)')
      <4>1. op'[c] = o /\ pc'[c] = pc[c] /\ at'[c] = at[c]
        BY <1>1 DEF o
      <4>. HIDE DEF o
      <4>. QED
        BY <1>22, <1>24, <4>1
    <3>. QED
      BY <3>1, <2>1
  <2>2. CASE d # c
    BY <1>1, <1>13, <1>21, <2>2 DEF PatchInv, CallsOK
  <2>. QED
    BY <2>1, <2>2
<1>26. CallsOK'
  BY <1>25 DEF CallsOK
<1>. QED
  BY <1>19, <1>20, <1>26 DEF PatchInv

LEMMA HandleStep ==
  ASSUME PatchInv, NEW e \in Engines, HandleControl(e)
  PROVE  PatchInv'
BY HandleCall

LEMMA ExitStep ==
  ASSUME PatchInv, NEW e \in Engines, NEW how, EngineExit(e, how)
  PROVE  PatchInv'
<1>1. /\ input_rx' = [input_rx EXCEPT ![e] = << >>]
      /\ UNCHANGED <<op, pc, at, replies, reply, config, received, applied, seen>>
  BY DEF EngineExit, handlers, history
<1>2. << >> \in Seq(Calls) /\ Len(<< >>) = 0
  BY EmptySeq
<1>3. Types'
  BY <1>1, <1>2 DEF PatchInv, Types
<1>4. \A g \in Engines : input_rx'[g] = IF g = e THEN << >> ELSE input_rx[g]
  BY <1>1 DEF PatchInv, Types
<1>5. NoneTwice'
  BY <1>1, <1>2, <1>4 DEF PatchInv, NoneTwice, Distinct
<1>6. \A c \in Calls : Waiting(c)' \subseteq Waiting(c) /\ AppliedAt(c)' = AppliedAt(c)
  BY <1>1, <1>2, <1>4 DEF Waiting, AppliedAt, In
<1>7. ASSUME NEW c \in Calls
      PROVE  CallOK(op'[c], pc'[c], at'[c], reply'[c], Waiting(c)', AppliedAt(c)')
  <2>1. CallOK(op[c], pc[c], at[c], reply[c], Waiting(c), AppliedAt(c))
    BY DEF PatchInv, CallsOK
  <2>2. CallOK(op[c], pc[c], at[c], reply[c], Waiting(c)', AppliedAt(c))
    BY <1>6, <2>1 DEF CallOK
  <2>. QED
    BY <1>1, <1>6, <2>2
<1>8. CallsOK'
  BY <1>7 DEF CallsOK
<1>. QED
  BY <1>3, <1>5, <1>8 DEF PatchInv

Quiet == UNCHANGED <<op, pc, at, replies, reply, input_rx, applied, config, seen>>

LEMMA QuietStep ==
  ASSUME PatchInv, Quiet, received' \in [Engines -> Nat]
  PROVE  PatchInv'
BY DEF PatchInv, Quiet, Types, CallsOK, NoneTwice, Waiting, AppliedAt

\* The steps that no call takes part in.
LEMMA QuietSteps ==
  ASSUME Types,
         \/ \E e \in Engines : ReceiveRequest(e)
         \/ Signal \/ Server \/ Join \/ Over \/ UNCHANGED vars
  PROVE  Quiet /\ received' \in [Engines -> Nat]
<1>1. ASSUME NEW e \in Engines, ReceiveRequest(e) PROVE Quiet /\ received' \in [Engines -> Nat]
  BY <1>1 DEF ReceiveRequest, Quiet, Types, handlers, history
<1>2. CASE Signal \/ Server \/ Join
  BY <1>2 DEF Signal, Server, Bind, ServerCloses, Join, Calm, Quiet, Types, handlers, history
<1>3. CASE Over \/ UNCHANGED vars
  BY <1>3 DEF Over, vars, Quiet, Types, handlers, history
<1>. QED
  BY <1>1, <1>2, <1>3

LEMMA PatchStep ==
  ASSUME PatchInv, [Next]_vars
  PROVE  PatchInv'
<1>1. ASSUME NEW c \in Calls,
             Handler(c) \/ Disconnect(c) \/ \E o \in Menu[c] : Begin(c, o)
      PROVE  PatchInv'
  BY <1>1, BeginStep, SendStep, DroppedStep, ReceiveStep, DisconnectStep DEF Handler
<1>2. ASSUME NEW e \in Engines, HandleControl(e) \/ EngineDrains(e) \/ EngineFails(e)
      PROVE  PatchInv'
  BY <1>2, HandleStep, ExitStep DEF EngineDrains, EngineFails
<1>3. CASE \/ \E e \in Engines : ReceiveRequest(e)
           \/ Signal \/ Server \/ Join \/ Over \/ UNCHANGED vars
  <2>1. Quiet /\ received' \in [Engines -> Nat]
    BY <1>3, QuietSteps DEF PatchInv
  <2>. QED
    BY <2>1, QuietStep
<1>. QED
  BY <1>1, <1>2, <1>3 DEF Next, Running

THEOREM CallsInvariant == Spec => []PatchInv
BY PatchInit, PatchStep, PTL DEF Spec

(***************************************************************************)
(* A patch reaches a prefix of the engines                                 *)
(***************************************************************************)
LEMMA InToSet ==
  ASSUME NEW T, NEW s \in Seq(T), NEW c
  PROVE  /\ c \in ToSet(s) <=> In(c, s)
         /\ DOMAIN s = 1..Len(s)
BY LenProperties DEF ToSet, In

LEMMA OncePerEngine ==
  ASSUME NEW T, NEW s \in Seq(T), Distinct(s), NEW c
  PROVE  Cardinality({i \in DOMAIN s : s[i] = c}) <= 1
<1>. DEFINE I == {i \in DOMAIN s : s[i] = c}
<1>1. DOMAIN s = 1..Len(s)
  BY LenProperties
<1>2. I = {} \/ \E i \in I : I = {i}
  BY <1>1 DEF Distinct
<1>. HIDE DEF I
<1>3. Cardinality(I) <= 1
  <2>1. CASE I = {}
    <3>1. Cardinality(I) = 0
      BY <2>1, FS_EmptySet
    <3>. QED
      BY <3>1
  <2>2. CASE \E i \in I : I = {i}
    <3>1. Cardinality(I) = 1
      BY <2>2, FS_Singleton
    <3>. QED
      BY <3>1
  <2>. QED
    BY <1>2, <2>1, <2>2
<1>. QED
  BY <1>3 DEF I

LEMMA PatchInvPrefix == PatchInv => PatchesReachPrefix
<1>. SUFFICES ASSUME PatchInv, NEW c \in Calls, IsPatch(c)
              PROVE  /\ \E k \in {at[c] - 1, at[c]} : Applied(c) = 1..k
                     /\ pc[c] = "ok" => Applied(c) = Engines
                     /\ pc[c] \in {"bad_request", "conflict"} => Applied(c) = {}
                     /\ \A e \in Engines : Cardinality({i \in DOMAIN applied[e] : applied[e][i] = c}) <= 1
  BY DEF PatchesReachPrefix
<1>1. CallOK(op[c], pc[c], at[c], reply[c], Waiting(c), AppliedAt(c)) /\ PatchOp(op[c])
  BY DEF PatchInv, CallsOK, IsPatch, PatchOp
<1>2. \A e \in Engines : applied[e] \in Seq(Calls) /\ Distinct(applied[e])
  BY DEF PatchInv, Types, NoneTwice
<1>3. Applied(c) = AppliedAt(c)
  BY <1>2, InToSet DEF Applied, AppliedAt
<1>. DEFINE a == at[c]
            A == AppliedAt(c)
<1>4. a \in 1..(N + 1) /\ N \in Nat \ {0} /\ A \subseteq 1..N
  BY ControlConstants DEF PatchInv, Types, AppliedAt, Engines
<1>5. \A e \in 1..N : (e < a => e \in A) /\ (e > a => e \notin A)
  BY <1>1 DEF CallOK, Engines
<1>6. /\ pc[c] = "ok" => a = N + 1
      /\ pc[c] = "bad_request" => a = 1
      /\ pc[c] = "conflict" => A = {}
      /\ pc[c] = "bad_request" => a \notin A
  BY <1>1 DEF CallOK
<1>. HIDE DEF a, A
<1>7. A = 1..(a - 1) \/ A = 1..a
  <2>1. a \in Nat /\ \A e \in A : e \in Nat /\ 1 <= e /\ e <= a
    BY <1>4, <1>5
  <2>2. \A e \in 1..(a - 1) : e \in A
    BY <1>4, <1>5
  <2>3. CASE a \in A
    <3>1. \A e \in 1..a : e = a \/ e \in 1..(a - 1)
      BY <2>1
    <3>2. A \subseteq 1..a /\ 1..a \subseteq A
      BY <2>1, <2>2, <2>3, <3>1
    <3>. QED
      BY <3>2
  <2>4. CASE a \notin A
    <3>1. A \subseteq 1..(a - 1) /\ 1..(a - 1) \subseteq A
      BY <2>1, <2>2, <2>4
    <3>. QED
      BY <3>1
  <2>. QED
    BY <2>3, <2>4
<1>8. pc[c] = "ok" => A = 1..N
  <2>. SUFFICES ASSUME pc[c] = "ok" PROVE A = 1..N
    OBVIOUS
  <2>1. a = N + 1
    BY <1>6
  <2>2. \A e \in 1..N : e < a
    BY <1>4, <2>1
  <2>3. \A e \in 1..N : e \in A
    BY <1>5, <2>2
  <2>. QED
    BY <1>4, <2>3
<1>9. pc[c] \in {"bad_request", "conflict"} => A = {}
  BY <1>4, <1>5, <1>6
<1>10. \A e \in Engines : Cardinality({i \in DOMAIN applied[e] : applied[e][i] = c}) <= 1
  BY <1>2, OncePerEngine
<1>. QED
  BY <1>3, <1>7, <1>8, <1>9, <1>10 DEF a, A, Engines

(* A patch reaches the engines in order and each of them at most once, whatever engines     *)
(* exit and clients leave meanwhile: one that fails part-way has changed a prefix of them,  *)
(* one answered 200 all of them, and one refused none.                                      *)
THEOREM PatchesGoInOrder == Spec => []PatchesReachPrefix
BY CallsInvariant, PatchInvPrefix, PTL

(***************************************************************************)
(* What the engines' configurations and the reads of them say of the       *)
(* patches: the histories, and the invariant over them                     *)
(***************************************************************************)

(* Position m of s holds the last patch of s that names field f.                             *)
Names(f, s, ops, i) == f \in DOMAIN ops[s[i]].patch
LastNaming(f, s, ops, m) == Names(f, s, ops, m) /\ \A i \in 1..Len(s) : i > m => ~Names(f, s, ops, i)

(* The configuration cf is what the patches of s leave, one after the other.                 *)
Described(cf, s, ops) ==
  \A f \in Fields :
    \/ cf[f] = Default[f] /\ \A i \in 1..Len(s) : ~Names(f, s, ops, i)
    \/ \E m \in 1..Len(s) : LastNaming(f, s, ops, m) /\ cf[f] = ops[s[m]].patch[f]

(* Every patch of s comes after those answered before it began.                              *)
Ordered(s, S) == \A i \in 1..Len(s) : \A p \in S[s[i]] : \E j \in 1..Len(s) : j < i /\ s[j] = p

(* The configuration cf shows patch p of s, or patches of s after it.                        *)
Shows(cf, s, ops, p) ==
  \E j \in 1..Len(s) :
    /\ s[j] = p
    /\ \A f \in DOMAIN ops[p].patch :
         \E i \in 1..Len(s) : i >= j /\ Names(f, s, ops, i) /\ cf[f] = ops[s[i]].patch[f]

(* A read that has its first answer, or the engine's answer to it, shows the patches S.       *)
ReadOK(o, a, rs, r, S, s, ops) ==
  /\ a = 1 => rs = << >>
  /\ a # 1 => rs # << >>
  /\ o.kind = "get_config" =>
       /\ a = 1 => \A x \in r : \A p \in S : Shows(x.config, s, ops, p)
       /\ a # 1 => \A p \in S : Shows(rs[1].config, s, ops, p)

SeenOK == \A c \in Calls : \A p \in seen[c] : PatchOp(op[p]) /\ pc[p] = "ok"
ConfigsOK == \A e \in Engines : Described(config[e], applied[e], op)
OrderOK == \A e \in Engines : Ordered(applied[e], seen)
ReadsOK == \A c \in Calls : ReadOK(op[c], at[c], replies[c], reply[c], seen[c], applied[1], op)

HistoryInv == PatchInv /\ SeenOK /\ ConfigsOK /\ OrderOK /\ ReadsOK

LEMMA DescribedAppend ==
  ASSUME NEW s \in Seq(Calls), NEW c \in Calls, NEW ops, NEW cf, Described(cf, s, ops)
  PROVE  Described(Patched(cf, ops[c].patch), Append(s, c), ops)
<1>. DEFINE t == Append(s, c)
            q == ops[c].patch
<1>1. /\ Len(s) \in Nat /\ Len(t) = Len(s) + 1 /\ t[Len(s) + 1] = c
      /\ \A i \in 1..Len(s) : t[i] = s[i]
  BY AppendIn
<1>2. /\ \A i \in 1..Len(t) : i \in 1..Len(s) \/ i = Len(s) + 1
      /\ \A i \in 1..Len(s) : i \in 1..Len(t) /\ ~(i > Len(s) + 1) /\ Len(s) + 1 > i
      /\ Len(s) + 1 \in 1..Len(t) /\ ~(Len(s) + 1 > Len(s) + 1)
  BY <1>1
<1>3. /\ \A f : Names(f, t, ops, Len(s) + 1) <=> f \in DOMAIN q
      /\ \A f : \A i \in 1..Len(s) : Names(f, t, ops, i) <=> Names(f, s, ops, i)
  BY <1>1 DEF Names
<1>. HIDE DEF t
<1>4. ASSUME NEW f \in Fields
      PROVE  \/ Patched(cf, q)[f] = Default[f] /\ \A i \in 1..Len(t) : ~Names(f, t, ops, i)
             \/ \E m \in 1..Len(t) : LastNaming(f, t, ops, m) /\ Patched(cf, q)[f] = ops[t[m]].patch[f]
  <2>1. CASE f \in DOMAIN q
    <3>1. Patched(cf, q)[f] = ops[t[Len(s) + 1]].patch[f]
      BY <1>1, <2>1 DEF Patched
    <3>2. LastNaming(f, t, ops, Len(s) + 1)
      BY <1>2, <1>3, <2>1 DEF LastNaming
    <3>. QED
      BY <1>2, <3>1, <3>2
  <2>2. CASE f \notin DOMAIN q
    <3>1. Patched(cf, q)[f] = cf[f]
      BY <2>2 DEF Patched
    <3>2. CASE cf[f] = Default[f] /\ \A i \in 1..Len(s) : ~Names(f, s, ops, i)
      BY <1>2, <1>3, <2>2, <3>1, <3>2
    <3>3. ASSUME NEW m \in 1..Len(s), LastNaming(f, s, ops, m), cf[f] = ops[s[m]].patch[f]
          PROVE  \E k \in 1..Len(t) : LastNaming(f, t, ops, k) /\ Patched(cf, q)[f] = ops[t[k]].patch[f]
      <4>1. LastNaming(f, t, ops, m)
        BY <1>2, <1>3, <2>2, <3>3 DEF LastNaming
      <4>2. Patched(cf, q)[f] = ops[t[m]].patch[f]
        BY <1>1, <3>1, <3>3
      <4>. QED
        BY <1>2, <4>1, <4>2
    <3>. QED
      BY <3>2, <3>3 DEF Described
  <2>. QED
    BY <2>1, <2>2
<1>. QED
  BY <1>4 DEF Described, t, q

\* A longer history shows what the shorter one did.
LEMMA ShowsAppend ==
  ASSUME NEW s \in Seq(Calls), NEW c \in Calls, NEW ops, NEW cf, NEW p, Shows(cf, s, ops, p)
  PROVE  Shows(cf, Append(s, c), ops, p)
<1>. DEFINE t == Append(s, c)
<1>1. /\ Len(s) \in Nat /\ Len(t) = Len(s) + 1
      /\ \A i \in 1..Len(s) : t[i] = s[i] /\ i \in 1..Len(t)
  BY AppendIn
<1>2. \A f : \A i \in 1..Len(s) : Names(f, t, ops, i) <=> Names(f, s, ops, i)
  BY <1>1 DEF Names
<1>. HIDE DEF t
<1>3. PICK j \in 1..Len(s) :
        /\ s[j] = p
        /\ \A f \in DOMAIN ops[p].patch :
             \E i \in 1..Len(s) : i >= j /\ Names(f, s, ops, i) /\ cf[f] = ops[s[i]].patch[f]
  BY DEF Shows
<1>4. j \in 1..Len(t) /\ t[j] = p
  BY <1>1, <1>3
<1>5. \A f \in DOMAIN ops[p].patch :
        \E i \in 1..Len(t) : i >= j /\ Names(f, t, ops, i) /\ cf[f] = ops[t[i]].patch[f]
  BY <1>1, <1>2, <1>3
<1>6. Shows(cf, t, ops, p)
  BY <1>4, <1>5 DEF Shows
<1>. QED
  BY <1>6 DEF t

\* An engine's configuration shows every patch it has applied.
LEMMA DescribedShows ==
  ASSUME NEW s \in Seq(Calls), NEW ops, NEW cf, Described(cf, s, ops),
         NEW p, In(p, s), DOMAIN ops[p].patch \subseteq Fields
  PROVE  Shows(cf, s, ops, p)
<1>1. PICK j \in 1..Len(s) : s[j] = p
  BY DEF In
<1>2. Len(s) \in Nat
  BY LenProperties
<1>3. ASSUME NEW f \in DOMAIN ops[p].patch
      PROVE  \E i \in 1..Len(s) : i >= j /\ Names(f, s, ops, i) /\ cf[f] = ops[s[i]].patch[f]
  <2>1. Names(f, s, ops, j) /\ f \in Fields
    BY <1>1, <1>3 DEF Names
  <2>2. PICK m \in 1..Len(s) : LastNaming(f, s, ops, m) /\ cf[f] = ops[s[m]].patch[f]
    BY <2>1 DEF Described
  <2>3. m >= j
    BY <1>2, <2>1, <2>2 DEF LastNaming
  <2>. QED
    BY <2>2, <2>3 DEF LastNaming
<1>. QED
  BY <1>1, <1>3 DEF Shows

\* What a history says does not change with the calls it does not hold.
LEMMA OtherOps ==
  ASSUME NEW s, NEW ops, NEW opt, \A i \in 1..Len(s) : opt[s[i]] = ops[s[i]], NEW cf
  PROVE  /\ Described(cf, s, ops) => Described(cf, s, opt)
         /\ \A p : Shows(cf, s, ops, p) => Shows(cf, s, opt, p)
<1>1. \A f : \A i \in 1..Len(s) : Names(f, s, opt, i) <=> Names(f, s, ops, i)
  BY DEF Names
<1>2. Described(cf, s, ops) => Described(cf, s, opt)
  BY <1>1 DEF Described, LastNaming
<1>3. ASSUME NEW p, Shows(cf, s, ops, p) PROVE Shows(cf, s, opt, p)
  BY <1>1, <1>3 DEF Shows
<1>. QED
  BY <1>2, <1>3

(***************************************************************************)
(* The invariant over the histories is kept                                *)
(***************************************************************************)
LEMMA AppliedCalls ==
  ASSUME PatchInv, NEW e \in Engines
  PROVE  /\ applied[e] \in Seq(Calls) /\ Distinct(applied[e])
         /\ \A i \in 1..Len(applied[e]) :
              LET c == applied[e][i] IN
              c \in Calls /\ PatchOp(op[c]) /\ pc[c] # "new" /\ op[c].patch \in Patches
<1>1. applied[e] \in Seq(Calls) /\ Distinct(applied[e])
  BY DEF PatchInv, Types, NoneTwice
<1>2. ASSUME NEW i \in 1..Len(applied[e]), NEW c, c = applied[e][i]
      PROVE  c \in Calls /\ PatchOp(op[c]) /\ pc[c] # "new" /\ op[c].patch \in Patches
  <2>1. c \in Calls /\ e \in AppliedAt(c)
    BY <1>1, <1>2, ElementOfSeq DEF AppliedAt, In
  <2>2. PatchOp(op[c]) /\ (pc[c] = "new" => op[c] = Idle)
    BY <2>1 DEF PatchInv, CallsOK, CallOK
  <2>3. op[c] \in Ops \cup {Idle}
    BY <2>1 DEF PatchInv, Types
  <2>. QED
    BY <2>1, <2>2, <2>3, OpFacts
<1>. QED
  BY <1>1, <1>2

\* A patch answered 200 has been applied by every engine.
LEMMA AnsweredApplied ==
  ASSUME PatchInv, NEW p \in Calls, PatchOp(op[p]), pc[p] = "ok", NEW e \in Engines
  PROVE  In(p, applied[e]) /\ op[p].patch \in Patches
<1>1. CallOK(op[p], pc[p], at[p], reply[p], Waiting(p), AppliedAt(p))
  BY DEF PatchInv, CallsOK
<1>2. at[p] = N + 1 /\ e < at[p]
  BY <1>1, ControlConstants DEF CallOK, Engines
<1>3. e \in AppliedAt(p)
  BY <1>1, <1>2 DEF CallOK
<1>4. op[p] \in Ops \cup {Idle}
  BY DEF PatchInv, Types
<1>. QED
  BY <1>3, <1>4, OpFacts DEF AppliedAt

\* A step that leaves the engines alone, and the calls that have begun.
LEMMA EnginesKept ==
  ASSUME HistoryInv, UNCHANGED <<config, applied>>,
         \A c \in Calls : pc[c] # "new" => op'[c] = op[c] /\ seen'[c] = seen[c]
  PROVE  /\ ConfigsOK' /\ OrderOK'
         /\ \A cf, p : Shows(cf, applied[1], op, p) => Shows(cf, applied'[1], op', p)
<1>1. ASSUME NEW e \in Engines
      PROVE  \A i \in 1..Len(applied[e]) :
               op'[applied[e][i]] = op[applied[e][i]] /\ seen'[applied[e][i]] = seen[applied[e][i]]
  BY AppliedCalls DEF HistoryInv
<1>2. ASSUME NEW e \in Engines
      PROVE  /\ Described(config[e], applied[e], op')
             /\ \A cf, p : Shows(cf, applied[e], op, p) => Shows(cf, applied[e], op', p)
  BY <1>1, OtherOps DEF HistoryInv, ConfigsOK
<1>3. ASSUME NEW e \in Engines PROVE Ordered(applied[e], seen')
  <2>1. Ordered(applied[e], seen)
    BY DEF HistoryInv, OrderOK
  <2>. QED
    BY <1>1, <2>1 DEF Ordered
<1>4. 1 \in Engines
  BY ControlConstants DEF Engines
<1>. QED
  BY <1>2, <1>3, <1>4 DEF ConfigsOK, OrderOK

\* A step in which no handler gets further.
LEMMA StandingStep ==
  ASSUME HistoryInv, UNCHANGED <<op, at, replies, seen, config, applied>>,
         \A c \in Calls : reply'[c] \subseteq reply[c] /\ (pc[c] = "ok" => pc'[c] = "ok")
  PROVE  SeenOK' /\ ConfigsOK' /\ OrderOK' /\ ReadsOK'
<1>1. ConfigsOK' /\ OrderOK'
  BY EnginesKept
<1>2. SeenOK'
  BY DEF HistoryInv, SeenOK, PatchInv, Types
<1>3. ReadsOK'
  BY DEF HistoryInv, ReadsOK, ReadOK
<1>. QED
  BY <1>1, <1>2, <1>3

LEMMA BeginHistory ==
  ASSUME HistoryInv, NEW c \in Calls, NEW o \in Menu[c], Begin(c, o)
  PROVE  SeenOK' /\ ConfigsOK' /\ OrderOK' /\ ReadsOK'
<1>1. /\ pc[c] = "new" /\ op' = [op EXCEPT ![c] = o] /\ \A d \in Calls \ {c} : pc'[d] = pc[d]
      /\ \A d \in Calls \ {c} : seen'[d] = seen[d]
      /\ \A p \in seen'[c] : p \in Calls /\ IsPatch(p) /\ pc[p] = "ok"
      /\ UNCHANGED <<at, replies, reply, config, applied>>
  BY DEF Begin, HistoryInv, PatchInv, Types
<1>2. \A d \in Calls \ {c} : op'[d] = op[d]
  BY <1>1 DEF HistoryInv, PatchInv, Types
<1>3. /\ ConfigsOK' /\ OrderOK'
      /\ \A cf, p : Shows(cf, applied[1], op, p) => Shows(cf, applied'[1], op', p)
  BY <1>1, <1>2, EnginesKept
<1>4. SeenOK'
  <2>1. \A p \in Calls : pc[p] = "ok" => p # c /\ op'[p] = op[p] /\ pc'[p] = "ok"
    BY <1>1, <1>2
  <2>2. \A d \in Calls : \A p \in seen'[d] : p \in Calls /\ PatchOp(op[p]) /\ pc[p] = "ok"
    BY <1>1 DEF HistoryInv, SeenOK, PatchInv, Types, IsPatch, PatchOp
  <2>. QED
    BY <2>1, <2>2 DEF SeenOK
<1>5. at[c] = 1 /\ reply[c] = {}
  BY <1>1 DEF HistoryInv, PatchInv, CallsOK, CallOK
<1>6. ASSUME NEW d \in Calls
      PROVE  ReadOK(op'[d], at'[d], replies'[d], reply'[d], seen'[d], applied'[1], op')
  <2>1. ReadOK(op[d], at[d], replies[d], reply[d], seen[d], applied[1], op)
    BY DEF HistoryInv, ReadsOK
  <2>2. CASE d = c
    BY <1>1, <1>5, <2>1, <2>2 DEF ReadOK
  <2>3. CASE d # c
    BY <1>1, <1>2, <1>3, <2>1, <2>3 DEF ReadOK
  <2>. QED
    BY <2>2, <2>3
<1>. QED
  BY <1>3, <1>4, <1>6 DEF ReadsOK

LEMMA ReceiveHistory ==
  ASSUME HistoryInv, NEW c \in Calls, Receive(c)
  PROVE  SeenOK' /\ ConfigsOK' /\ OrderOK' /\ ReadsOK'
<1>1. PICK a \in reply[c] :
        IF a.kind = "conflict"
        THEN /\ pc' = [pc EXCEPT ![c] = "conflict"]
             /\ UNCHANGED <<at, replies>>
        ELSE /\ pc' = [pc EXCEPT ![c] = IF at[c] = N THEN "ok" ELSE "send"]
             /\ at' = [at EXCEPT ![c] = @ + 1]
             /\ replies' = [replies EXCEPT ![c] = Append(@, a)]
  BY DEF Receive
<1>2. /\ pc[c] = "wait" /\ reply' = [reply EXCEPT ![c] = {}]
      /\ UNCHANGED <<op, config, applied, seen>>
  BY DEF Receive, history
<1>3. reply'[c] = {} /\ \A d \in Calls \ {c} : reply'[d] = reply[d]
  BY <1>2 DEF HistoryInv, PatchInv, Types
<1>4. \A d \in Calls \ {c} : pc'[d] = pc[d]
  BY <1>1 DEF HistoryInv, PatchInv, Types
<1>5. CASE a.kind = "conflict"
  BY <1>1, <1>2, <1>3, <1>4, <1>5, StandingStep
<1>6. CASE a.kind # "conflict"
  <2>1. /\ at'[c] = at[c] + 1 /\ replies'[c] = Append(replies[c], a) /\ at[c] \in Nat \ {0}
        /\ replies[c] \in Seq(Answers) /\ a \in Answers
        /\ \A d \in Calls \ {c} : at'[d] = at[d] /\ replies'[d] = replies[d]
    BY <1>1, <1>6, ControlConstants DEF HistoryInv, PatchInv, Types
  <2>2. /\ ConfigsOK' /\ OrderOK'
    BY <1>2, EnginesKept
  <2>3. SeenOK'
    BY <1>2, <1>4 DEF HistoryInv, SeenOK, PatchInv, Types
  <2>4. ReadOK(op[c], at[c], replies[c], reply[c], seen[c], applied[1], op)
    BY DEF HistoryInv, ReadsOK
  <2>5. /\ replies'[c] # << >>
        /\ replies[c] = << >> => replies'[c][1] = a
        /\ replies[c] # << >> => replies'[c][1] = replies[c][1]
    <3>1. /\ Len(replies[c]) \in Nat /\ Len(replies'[c]) = Len(replies[c]) + 1
          /\ replies'[c][Len(replies[c]) + 1] = a
          /\ \A i \in 1..Len(replies[c]) : replies'[c][i] = replies[c][i]
      BY <2>1, AppendIn
    <3>2. Len(<< >>) = 0 /\ (replies[c] # << >> => Len(replies[c]) # 0)
      BY <2>1, EmptySeq
    <3>. QED
      BY <3>1, <3>2
  <2>6. at'[c] # 1
    BY <2>1
  <2>7. ReadOK(op[c], at'[c], replies'[c], {}, seen[c], applied[1], op)
    BY <1>1, <2>4, <2>5, <2>6 DEF ReadOK
  <2>8. ASSUME NEW d \in Calls
        PROVE  ReadOK(op'[d], at'[d], replies'[d], reply'[d], seen'[d], applied'[1], op')
    <3>1. CASE d = c
      BY <1>2, <1>3, <2>7, <3>1
    <3>2. CASE d # c
      BY <1>2, <1>3, <2>1, <3>2 DEF HistoryInv, ReadsOK
    <3>. QED
      BY <3>1, <3>2
  <2>. QED
    BY <2>2, <2>3, <2>8 DEF ReadsOK
<1>. QED
  BY <1>5, <1>6

LEMMA OrderedAppend ==
  ASSUME NEW s \in Seq(Calls), NEW c \in Calls, NEW S, Ordered(s, S), \A p \in S[c] : In(p, s)
  PROVE  Ordered(Append(s, c), S)
<1>. DEFINE t == Append(s, c)
<1>1. /\ Len(s) \in Nat /\ Len(t) = Len(s) + 1 /\ t[Len(s) + 1] = c
      /\ \A i \in 1..Len(s) : t[i] = s[i]
  BY AppendIn
<1>. HIDE DEF t
<1>2. ASSUME NEW i \in 1..Len(t), NEW p \in S[t[i]] PROVE \E j \in 1..Len(t) : j < i /\ t[j] = p
  <2>1. CASE i \in 1..Len(s)
    <3>1. p \in S[s[i]]
      BY <1>1, <1>2, <2>1
    <3>2. PICK j \in 1..Len(s) : j < i /\ s[j] = p
      BY <2>1, <3>1 DEF Ordered
    <3>. QED
      BY <1>1, <3>2
  <2>2. CASE i = Len(s) + 1
    <3>1. PICK j \in 1..Len(s) : s[j] = p
      BY <1>1, <1>2, <2>2 DEF In
    <3>. QED
      BY <1>1, <2>2, <3>1
  <2>. QED
    BY <1>1, <2>1, <2>2
<1>3. Ordered(t, S)
  BY <1>2 DEF Ordered
<1>. QED
  BY <1>3 DEF t

LEMMA HandleCallHistory ==
  ASSUME HistoryInv, NEW e \in Engines, HandleControl(e), NEW c, c = Head(input_rx[e])
  PROVE  SeenOK' /\ ConfigsOK' /\ OrderOK' /\ ReadsOK'
<1>. DEFINE o == op[c]
            Applies == PatchOp(o) /\ ~Refused(o)
            x == Answer(c, config'[e], received'[e])
<1>1. /\ input_rx[e] # << >>
      /\ IF IsPatch(c) THEN ApplyPatch(e, c) ELSE UNCHANGED <<config, applied>>
      /\ reply' = IF pc[c] = "wait" THEN [reply EXCEPT ![c] = {x}] ELSE reply
      /\ UNCHANGED <<op, pc, at, replies, seen>>
  BY DEF HandleControl, handlers
<1>2. c \in Calls /\ e \in Waiting(c)
  BY <1>1, TailIn DEF HistoryInv, PatchInv, Types, Waiting
<1>3. at[c] = e /\ reply[c] = {}
  BY <1>2 DEF HistoryInv, PatchInv, CallsOK, CallOK
<1>4. /\ Applies => /\ config' = [config EXCEPT ![e] = Patched(config[e], o.patch)]
                    /\ applied' = [applied EXCEPT ![e] = Append(applied[e], c)]
      /\ ~Applies => UNCHANGED <<config, applied>>
  BY <1>1 DEF IsPatch, PatchOp, Refused, ApplyPatch
<1>5. /\ \A g \in Engines : applied'[g] = IF Applies /\ g = e THEN Append(applied[e], c) ELSE applied[g]
      /\ \A g \in Engines : config'[g] = IF Applies /\ g = e THEN Patched(config[e], o.patch) ELSE config[g]
  BY <1>4 DEF HistoryInv, PatchInv, Types
<1>6. /\ reply'[c] \subseteq {x}
      /\ \A d \in Calls \ {c} : reply'[d] = reply[d]
  BY <1>1, <1>2, <1>3 DEF HistoryInv, PatchInv, Types
<1>7. applied[e] \in Seq(Calls) /\ Described(config[e], applied[e], op) /\ Ordered(applied[e], seen)
  BY DEF HistoryInv, PatchInv, Types, ConfigsOK, OrderOK
<1>8. \A d \in Calls : \A p \in seen[d] : \A g \in Engines :
        p \in Calls /\ In(p, applied[g]) /\ op[p].patch \in Patches
  <2>1. \A d \in Calls : \A p \in seen[d] : p \in Calls /\ PatchOp(op[p]) /\ pc[p] = "ok"
    BY DEF HistoryInv, SeenOK, PatchInv, Types
  <2>. QED
    BY <2>1, AnsweredApplied DEF HistoryInv
<1>. HIDE DEF Applies, x
<1>9. ConfigsOK'
  <2>1. Described(Patched(config[e], o.patch), Append(applied[e], c), op)
    BY <1>2, <1>7, DescribedAppend
  <2>2. ASSUME NEW g \in Engines PROVE Described(config'[g], applied'[g], op)
    <3>1. Described(config[g], applied[g], op)
      BY DEF HistoryInv, ConfigsOK
    <3>. QED
      BY <1>5, <2>1, <3>1
  <2>. QED
    BY <1>1, <2>2 DEF ConfigsOK
<1>10. OrderOK'
  <2>1. Ordered(Append(applied[e], c), seen)
    BY <1>2, <1>7, <1>8, OrderedAppend
  <2>2. ASSUME NEW g \in Engines PROVE Ordered(applied'[g], seen)
    <3>1. Ordered(applied[g], seen)
      BY DEF HistoryInv, OrderOK
    <3>. QED
      BY <1>5, <2>1, <3>1
  <2>. QED
    BY <1>1, <2>2 DEF OrderOK
<1>11. SeenOK'
  BY <1>1 DEF HistoryInv, SeenOK
<1>12. 1 \in Engines
  BY ControlConstants DEF Engines
<1>13. \A cf, p : Shows(cf, applied[1], op, p) => Shows(cf, applied'[1], op, p)
  BY <1>2, <1>5, <1>7, <1>12, ShowsAppend
<1>14. ASSUME NEW d \in Calls
       PROVE  ReadOK(op[d], at[d], replies[d], reply'[d], seen[d], applied'[1], op)
  <2>1. ReadOK(op[d], at[d], replies[d], reply[d], seen[d], applied[1], op)
    BY DEF HistoryInv, ReadsOK
  <2>2. CASE d # c
    BY <1>6, <1>13, <2>1, <2>2 DEF ReadOK
  <2>3. CASE d = c /\ ~(o.kind = "get_config" /\ at[c] = 1)
    BY <1>13, <2>1, <2>3 DEF ReadOK
  <2>4. CASE d = c /\ o.kind = "get_config" /\ at[c] = 1
    <3>1. ~Applies /\ config'[1] = config[1] /\ applied'[1] = applied[1] /\ e = 1
      BY <1>3, <1>5, <1>12, <2>4 DEF Applies, PatchOp
    <3>2. x.config = config[1]
      BY <2>4, <3>1 DEF x, Answer, IsPatch
    <3>3. \A p \in seen[c] : Shows(config[1], applied[1], op, p)
      BY <1>2, <1>7, <1>8, <1>12, <3>1, DescribedShows, ControlConstants
    <3>4. \A y \in reply'[d] : \A p \in seen[d] : Shows(y.config, applied'[1], op, p)
      BY <1>6, <2>4, <3>1, <3>2, <3>3
    <3>. QED
      BY <2>1, <2>4, <3>4 DEF ReadOK
  <2>. QED
    BY <2>2, <2>3, <2>4
<1>15. ReadsOK'
  BY <1>1, <1>14 DEF ReadsOK
<1>. QED
  BY <1>9, <1>10, <1>11, <1>15

LEMMA HistoryStep ==
  ASSUME HistoryInv, [Next]_vars
  PROVE  HistoryInv'
<1>1. PatchInv'
  BY PatchStep DEF HistoryInv
<1>. SUFFICES SeenOK' /\ ConfigsOK' /\ OrderOK' /\ ReadsOK'
  BY <1>1 DEF HistoryInv
<1>2. ASSUME NEW c \in Calls, Send(c) \/ ReplyDropped(c) \/ Disconnect(c)
      PROVE  SeenOK' /\ ConfigsOK' /\ OrderOK' /\ ReadsOK'
  <2>1. /\ UNCHANGED <<op, at, replies, seen, config, applied>>
        /\ reply' = reply \/ reply' = [reply EXCEPT ![c] = {}]
        /\ \E p : pc' = [pc EXCEPT ![c] = p]
        /\ pc[c] # "ok"
    BY <1>2 DEF Send, ReplyDropped, Disconnect, history
  <2>2. \A d \in Calls : reply'[d] \subseteq reply[d] /\ (pc[d] = "ok" => pc'[d] = "ok")
    BY <2>1 DEF HistoryInv, PatchInv, Types
  <2>. QED
    BY <2>1, <2>2, StandingStep
<1>3. ASSUME NEW c \in Calls, Receive(c) \/ \E o \in Menu[c] : Begin(c, o)
      PROVE  SeenOK' /\ ConfigsOK' /\ OrderOK' /\ ReadsOK'
  BY <1>3, ReceiveHistory, BeginHistory
<1>4. ASSUME NEW e \in Engines, HandleControl(e)
      PROVE  SeenOK' /\ ConfigsOK' /\ OrderOK' /\ ReadsOK'
  BY <1>4, HandleCallHistory
<1>5. ASSUME NEW e \in Engines, EngineDrains(e) \/ EngineFails(e)
      PROVE  SeenOK' /\ ConfigsOK' /\ OrderOK' /\ ReadsOK'
  <2>1. UNCHANGED <<op, pc, at, replies, reply, seen, config, applied>>
    BY <1>5 DEF EngineDrains, EngineFails, EngineExit, handlers, history
  <2>. QED
    BY <2>1, StandingStep
<1>6. CASE \/ \E e \in Engines : ReceiveRequest(e)
           \/ Signal \/ Server \/ Join \/ Over \/ UNCHANGED vars
  <2>1. Quiet
    BY <1>6, QuietSteps DEF HistoryInv, PatchInv
  <2>. QED
    BY <2>1, StandingStep DEF Quiet
<1>. QED
  BY <1>2, <1>3, <1>4, <1>5, <1>6 DEF Next, Running, Handler

LEMMA HistoryInit == Init => HistoryInv
<1>. SUFFICES ASSUME Init PROVE HistoryInv
  OBVIOUS
<1>1. Len(<< >>) = 0
  BY EmptySeq
<1>2. ConfigsOK
  BY <1>1 DEF Init, ConfigsOK, Described
<1>3. OrderOK
  BY <1>1 DEF Init, OrderOK, Ordered
<1>4. SeenOK /\ ReadsOK
  BY DEF Init, SeenOK, ReadsOK, ReadOK
<1>. QED
  BY <1>2, <1>3, <1>4, PatchInit DEF HistoryInv

THEOREM HistoriesInvariant == Spec => []HistoryInv
BY HistoryInit, HistoryStep, PTL DEF Spec

(***************************************************************************)
(* The engines agree, and reads see the patches answered before them       *)
(***************************************************************************)
\* Of two patches one of which began after the other's answer, the later one is
\* the later one on every engine.
LEMMA LaterEverywhere ==
  ASSUME HistoryInv, NEW e \in Engines,
         NEW i \in 1..Len(applied[e]), NEW p \in seen[applied[e][i]]
  PROVE  \E j \in 1..Len(applied[e]) : j < i /\ applied[e][j] = p
BY DEF HistoryInv, OrderOK, Ordered

LEMMA HistoryAgree == HistoryInv => EnginesAgree
<1>. SUFFICES ASSUME HistoryInv, NoPatchFailed, NoPatchesOverlap, NEW d \in Engines, NEW e \in Engines
              PROVE  config[d] = config[e]
  BY DEF EnginesAgree
<1>1. \A g \in Engines : config[g] \in Configs
  BY DEF HistoryInv, PatchInv, Types
<1>2. ASSUME NEW g \in Engines, NEW i \in 1..Len(applied[g]), NEW h \in Engines
      PROVE  In(applied[g][i], applied[h])
  <2>. DEFINE c == applied[g][i]
  <2>1. c \in Calls /\ PatchOp(op[c])
    BY AppliedCalls DEF HistoryInv
  <2>2. pc[c] \in {"ok", "bad_request", "conflict"}
    BY <2>1 DEF NoPatchFailed, IsPatch, PatchOp
  <2>3. Applied(c) # {}
    BY <2>1, InToSet, AppliedCalls DEF Applied, In, HistoryInv
  <2>4. pc[c] = "ok"
    BY <2>1, <2>2, <2>3, PatchInvPrefix DEF PatchesReachPrefix, IsPatch, PatchOp, HistoryInv
  <2>. QED
    BY <2>1, <2>4, AnsweredApplied DEF HistoryInv
<1>3. ASSUME NEW g \in Engines, NEW h \in Engines, NEW f \in Fields,
             NEW m \in 1..Len(applied[g]), LastNaming(f, applied[g], op, m),
             NEW k \in 1..Len(applied[h]), LastNaming(f, applied[h], op, k),
             applied[h][k] \in seen[applied[g][m]]
      PROVE  FALSE
  <2>. DEFINE p == applied[h][k]
              c == applied[g][m]
  <2>1. PICK n \in 1..Len(applied[h]) : applied[h][n] = c
    BY <1>2 DEF In
  <2>2. PICK j \in 1..Len(applied[h]) : j < n /\ applied[h][j] = p
    <3>1. p \in seen[applied[h][n]]
      BY <1>3, <2>1
    <3>. HIDE DEF p
    <3>. QED
      BY <3>1, LaterEverywhere
  <2>3. j = k
    BY <2>2, AppliedCalls DEF Distinct, HistoryInv
  <2>4. Names(f, applied[h], op, n)
    BY <1>3, <2>1 DEF LastNaming, Names
  <2>5. n > k
    BY <2>2, <2>3
  <2>. QED
    BY <1>3, <2>4, <2>5 DEF LastNaming
<1>4. ASSUME NEW f \in Fields PROVE config[d][f] = config[e][f]
  <2>1. \A g \in Engines :
          \/ config[g][f] = Default[f] /\ \A i \in 1..Len(applied[g]) : ~Names(f, applied[g], op, i)
          \/ \E m \in 1..Len(applied[g]) :
               LastNaming(f, applied[g], op, m) /\ config[g][f] = op[applied[g][m]].patch[f]
    BY DEF HistoryInv, ConfigsOK, Described
  <2>2. ASSUME NEW g \in Engines, NEW h \in Engines,
               NEW m \in 1..Len(applied[g]), LastNaming(f, applied[g], op, m)
        PROVE  \E k \in 1..Len(applied[h]) : Names(f, applied[h], op, k)
    <3>1. PICK k \in 1..Len(applied[h]) : applied[h][k] = applied[g][m]
      BY <1>2 DEF In
    <3>. QED
      BY <2>2, <3>1 DEF LastNaming, Names
  <2>3. CASE \A i \in 1..Len(applied[d]) : ~Names(f, applied[d], op, i)
    <3>1. config[d][f] = Default[f]
      BY <2>1, <2>3 DEF LastNaming
    <3>2. \A i \in 1..Len(applied[e]) : ~LastNaming(f, applied[e], op, i)
      BY <2>2, <2>3
    <3>3. config[e][f] = Default[f]
      BY <2>1, <3>2
    <3>. QED
      BY <3>1, <3>3
  <2>4. CASE ~ \A i \in 1..Len(applied[d]) : ~Names(f, applied[d], op, i)
    <3>1. PICK m \in 1..Len(applied[d]) :
            LastNaming(f, applied[d], op, m) /\ config[d][f] = op[applied[d][m]].patch[f]
      BY <2>1, <2>4
    <3>2. PICK k \in 1..Len(applied[e]) :
            LastNaming(f, applied[e], op, k) /\ config[e][f] = op[applied[e][k]].patch[f]
      BY <2>1, <2>2, <3>1
    <3>. DEFINE c == applied[d][m]
                p == applied[e][k]
    <3>3. c \in Calls /\ p \in Calls /\ PatchOp(op[c]) /\ PatchOp(op[p])
      BY AppliedCalls DEF HistoryInv
    <3>4. c \notin seen[p] /\ p \notin seen[c]
      BY <1>3, <3>1, <3>2
    <3>5. pc[c] = "ok" /\ pc[p] = "ok"
      <4>1. Applied(c) # {} /\ Applied(p) # {}
        BY InToSet, AppliedCalls DEF Applied, In, HistoryInv
      <4>. QED
        BY <3>3, <4>1, PatchInvPrefix
        DEF PatchesReachPrefix, NoPatchFailed, IsPatch, PatchOp, HistoryInv
    <3>6. c = p
      BY <3>3, <3>4, <3>5 DEF NoPatchesOverlap, IsPatch, PatchOp
    <3>. QED
      BY <3>1, <3>2, <3>6
  <2>. QED
    BY <2>3, <2>4
<1>. QED
  BY <1>1, <1>4 DEF Configs

(* What a patch leaves behind: a prefix of the engines changed, in order, and engines that   *)
(* agree unless a patch failed part-way or two of them overlapped.                           *)
THEOREM PatchesLeaveAgreement == Spec => []PatchesApplied
<1>1. HistoryInv => PatchesApplied
  BY HistoryAgree, PatchInvPrefix DEF HistoryInv, PatchesApplied
<1>. QED
  BY <1>1, HistoriesInvariant, PTL

LEMMA HistoryReads == HistoryInv => ReadsSeePatches
<1>. SUFFICES ASSUME HistoryInv, NEW c \in Calls, NEW p \in Calls,
                     op[c].kind = "get_config", pc[c] = "ok", p \in seen[c],
                     NEW f \in DOMAIN op[p].patch
              PROVE  \/ replies[c][1].config[f] = op[p].patch[f]
                     \/ \E i \in DOMAIN applied[1] :
                          LET q == applied[1][i] IN
                          /\ i > Index(1, p) /\ f \in DOMAIN op[q].patch
                          /\ replies[c][1].config[f] = op[q].patch[f]
  BY DEF ReadsSeePatches
<1>. DEFINE s == applied[1]
            cf == replies[c][1].config
<1>1. at[c] # 1
  BY ControlConstants DEF HistoryInv, PatchInv, CallsOK, CallOK
<1>2. Shows(cf, s, op, p)
  BY <1>1 DEF HistoryInv, ReadsOK, ReadOK
<1>3. s \in Seq(Calls) /\ Distinct(s)
  BY ControlConstants DEF HistoryInv, PatchInv, Types, NoneTwice, Engines
<1>4. DOMAIN s = 1..Len(s) /\ Len(s) \in Nat
  BY <1>3, LenProperties
<1>5. PICK j \in 1..Len(s) :
        /\ s[j] = p
        /\ \E i \in 1..Len(s) : i >= j /\ Names(f, s, op, i) /\ cf[f] = op[s[i]].patch[f]
  BY <1>2 DEF Shows
<1>6. PICK i \in 1..Len(s) : i >= j /\ Names(f, s, op, i) /\ cf[f] = op[s[i]].patch[f]
  BY <1>5
<1>7. Index(1, p) = j
  BY <1>3, <1>4, <1>5 DEF Index, Distinct
<1>8. CASE i = j
  BY <1>5, <1>6, <1>8
<1>9. CASE i # j
  <2>1. i \in DOMAIN applied[1] /\ i > Index(1, p)
    BY <1>4, <1>6, <1>7, <1>9
  <2>. QED
    BY <1>6, <2>1 DEF Names
<1>. QED
  BY <1>8, <1>9

(* A configuration read that began after a patch was answered 200 shows that patch, field by *)
(* field, or a patch that the engine it asked applied later.                                 *)
THEOREM ReadsFollowPatches == Spec => []ReadsSeePatches
BY HistoriesInvariant, HistoryReads, PTL

(***************************************************************************)
(* Sums over the engines                                                   *)
(***************************************************************************)
\* A set with 0 and the successors of its numbers holds every number.
LEMMA NatInductive ==
  ASSUME NEW T, 0 \in T, \A n \in Nat : n \in T => n + 1 \in T
  PROVE  Nat \subseteq T
<1> DEFINE Less == {ss \in Nat \X Nat : ss[1] < ss[2]}
<1> SUFFICES ASSUME Nat \ T # {} PROVE FALSE
  OBVIOUS
<1>1. IsWellFoundedOn(Less, Nat)
  BY NatLessThanWellFounded DEF OpToRel
<1>2. PICK n \in Nat \ T : \A m \in Nat \ T : ~(<<m, n>> \in Less)
  BY <1>1, WFMin
<1>3. n # 0 /\ n - 1 \in Nat /\ n - 1 < n
  BY <1>2
<1>4. n - 1 \in T
  BY <1>2, <1>3
<1> QED BY <1>3, <1>4

\* The sums that Total computes on the way to its result.
Partial(f, q) ==
  /\ f[0] = 0
  /\ \A k \in 1..Len(q) : f[k] = f[k-1] + q[k]

LEMMA MaxOf ==
  ASSUME NEW n \in Nat, NEW s \in SUBSET (1..n)
  PROVE  /\ n \in s => Max(s) = n
         /\ n \in Nat \ {0} /\ n \notin s => s \in SUBSET (1..(n-1))
<1>1. ASSUME n \in s PROVE Max(s) = n
  <2>1. \E x \in s : \A y \in s : x >= y
    BY <1>1
  <2>2. Max(s) \in s /\ \A y \in s : Max(s) >= y
    BY <2>1 DEF Max
  <2>3. PICK m : m = Max(s)
    OBVIOUS
  <2>4. m \in 1..n /\ m >= n
    BY <1>1, <2>2, <2>3
  <2>5. m = n
    BY <2>4
  <2> QED BY <2>3, <2>5
<1> QED BY <1>1

\* FoldLeft is defined by recursion over the sets of positions, its last one first.
LEMMA TotalExists ==
  ASSUME NEW S, NEW q \in Seq(S)
  PROVE  \E f : Partial(f, q) /\ Total(q) = f[Len(q)]
<1> DEFINE Rec(n, g) == [s \in SUBSET (1..n) |->
                           IF s = {} THEN 0 ELSE g[s \ {Max(s)}] + q[Max(s)]]
           K == {n \in Nat : \E g : g = Rec(n, g)}
           iter == CHOOSE g : g = Rec(Len(q), g)
<1>1. 0 \in K
  <2>1. PICK g : g = [s \in SUBSET (1..0) |-> 0]
    OBVIOUS
  <2>2. SUBSET (1..0) = {{}}
    OBVIOUS
  <2>3. g = Rec(0, g)
    BY <2>1, <2>2
  <2> QED BY <2>3
<1>2. ASSUME NEW n \in Nat, n \in K PROVE n + 1 \in K
  <2>1. PICK g : g = Rec(n, g)
    BY <1>2
  <2> DEFINE h == [s \in SUBSET (1..(n+1)) |->
                     IF n + 1 \in s THEN g[s \ {n+1}] + q[n+1] ELSE g[s]]
  <2>2. ASSUME NEW s \in SUBSET (1..(n+1))
        PROVE  h[s] = Rec(n+1, h)[s]
    <3>1. CASE n + 1 \in s
      <4>1. Max(s) = n + 1 /\ s # {}
        BY <3>1, MaxOf
      <4>2. s \ {n+1} \in SUBSET (1..(n+1)) /\ n + 1 \notin s \ {n+1}
        OBVIOUS
      <4>3. h[s] = g[s \ {n+1}] + q[n+1] /\ h[s \ {n+1}] = g[s \ {n+1}]
        BY <3>1, <4>2
      <4> HIDE DEF h
      <4> QED BY <4>1, <4>3
    <3>2. CASE n + 1 \notin s
      <4>1. s \in SUBSET (1..n)
        BY <3>2
      <4>2. h[s] = g[s]
        BY <3>2
      <4>3. CASE s = {}
        <5>1. g[s] = 0
          BY <2>1, <4>1, <4>3
        <5> HIDE DEF h
        <5> QED BY <4>2, <4>3, <5>1
      <4>4. CASE s # {}
        <5>1. s \ {Max(s)} \in SUBSET (1..n) /\ s \ {Max(s)} \in SUBSET (1..(n+1))
              /\ n + 1 \notin s \ {Max(s)}
          BY <3>2, <4>1
        <5>2. h[s \ {Max(s)}] = g[s \ {Max(s)}]
          BY <5>1
        <5>3. g[s] = g[s \ {Max(s)}] + q[Max(s)]
          BY <2>1, <4>1, <4>4
        <5> HIDE DEF h
        <5> QED BY <4>2, <4>4, <5>2, <5>3
      <4> QED BY <4>3, <4>4
    <3> QED BY <3>1, <3>2
  <2>3. h = Rec(n+1, h)
    <3> DEFINE R == Rec(n+1, h)
    <3>1. DOMAIN R = SUBSET (1..(n+1)) /\ R = [s \in SUBSET (1..(n+1)) |-> R[s]]
      OBVIOUS
    <3>2. h = [s \in SUBSET (1..(n+1)) |-> h[s]]
      OBVIOUS
    <3>3. \A s \in SUBSET (1..(n+1)) : h[s] = R[s]
      BY <2>2
    <3> HIDE DEF h, R
    <3>4. h = R
      BY <3>1, <3>2, <3>3
    <3> QED BY <3>4 DEF R
  <2> HIDE DEF h
  <2>4. \E j : j = Rec(n+1, j)
    BY <2>3
  <2>5. n + 1 \in Nat
    OBVIOUS
  <2> HIDE DEF Rec
  <2> QED BY <2>4, <2>5
<1>3. \E g : g = Rec(Len(q), g)
  <2> HIDE DEF K
  <2>1. Nat \subseteq K
    BY <1>1, <1>2, NatInductive
  <2>2. Len(q) \in K
    BY <2>1
  <2> USE DEF K
  <2> QED BY <2>2
<1>4. iter = Rec(Len(q), iter)
  BY <1>3
<1>5. Total(q) = iter[1..Len(q)]
  <2>1. DOMAIN q = 1..Len(q)
    OBVIOUS
  <2> QED BY <2>1 DEF Total, FoldLeft, MapThenFoldSet
<1> HIDE DEF iter
<1> DEFINE f == [k \in 0..Len(q) |-> iter[1..k]]
<1>6. Partial(f, q)
  <2>1. f[0] = 0
    <3>1. 1..0 = {} /\ 1..0 \in SUBSET (1..Len(q))
      OBVIOUS
    <3>2. iter[1..0] = 0
      BY <1>4, <3>1
    <3> QED BY <3>2
  <2>2. ASSUME NEW k \in 1..Len(q) PROVE f[k] = f[k-1] + q[k]
    <3>1. /\ 1..k \in SUBSET (1..k) /\ k \in 1..k /\ k \in Nat
          /\ 1..k \in SUBSET (1..Len(q)) /\ (1..k) \ {k} = 1..(k-1)
      OBVIOUS
    <3>2. Max(1..k) = k
      BY <3>1, MaxOf
    <3>3. iter[1..k] = iter[1..(k-1)] + q[k]
      BY <1>4, <3>1, <3>2
    <3>4. f[k] = iter[1..k] /\ f[k-1] = iter[1..(k-1)]
      OBVIOUS
    <3> HIDE DEF f
    <3> QED BY <3>3, <3>4
  <2> QED BY <2>1, <2>2 DEF Partial
<1>7. f[Len(q)] = iter[1..Len(q)]
  OBVIOUS
<1> QED BY <1>5, <1>6, <1>7

\* Sums of numbers are numbers, and larger ones have a larger sum.
LEMMA TotalFacts ==
  ASSUME NEW s \in Seq(Nat), NEW t \in Seq(Nat), Len(s) = Len(t),
         \A i \in 1..Len(s) : s[i] <= t[i]
  PROVE  Total(s) \in Nat /\ Total(t) \in Nat /\ Total(s) <= Total(t)
<1>1. PICK f : Partial(f, s) /\ Total(s) = f[Len(s)]
  BY TotalExists
<1>2. PICK g : Partial(g, t) /\ Total(t) = g[Len(t)]
  BY TotalExists
<1> DEFINE K == {k \in Nat : k <= Len(s) => f[k] \in Nat /\ g[k] \in Nat /\ f[k] <= g[k]}
<1>3. 0 \in K
  BY <1>1, <1>2 DEF Partial
<1>4. ASSUME NEW k \in Nat, k \in K PROVE k + 1 \in K
  <2> SUFFICES ASSUME k + 1 <= Len(s)
               PROVE  f[k+1] \in Nat /\ g[k+1] \in Nat /\ f[k+1] <= g[k+1]
    OBVIOUS
  <2>1. f[k] \in Nat /\ g[k] \in Nat /\ f[k] <= g[k]
    BY <1>4
  <2>2. k + 1 \in 1..Len(s) /\ (k + 1) - 1 = k /\ s[k+1] \in Nat /\ t[k+1] \in Nat
        /\ s[k+1] <= t[k+1]
    OBVIOUS
  <2>3. f[k+1] = f[k] + s[k+1] /\ g[k+1] = g[k] + t[k+1]
    BY <1>1, <1>2, <2>2 DEF Partial
  <2>4. \A a, b, m, n \in Nat : a <= b /\ m <= n => a + m \in Nat /\ b + n \in Nat /\ a + m <= b + n
    OBVIOUS
  <2>5. f[k] + s[k+1] \in Nat /\ g[k] + t[k+1] \in Nat /\ f[k] + s[k+1] <= g[k] + t[k+1]
    BY <2>1, <2>2, <2>4, Zenon
  <2> QED BY <2>3, <2>5, Zenon
<1> HIDE DEF K
<1>5. Nat \subseteq K
  BY <1>3, <1>4, NatInductive
<1>6. Len(s) \in K
  BY <1>5
<1> QED BY <1>1, <1>2, <1>6 DEF K

(***************************************************************************)
(* The counters that GET /stats sums, engine by engine                     *)
(***************************************************************************)
\* The counts a call's sum will be made of, if nothing arrives meanwhile: those it
\* has, the one in its oneshot, and those of the engines it has not come to.
Counts(a, rs, r, rec) ==
  [e \in Engines |->
     IF e < a THEN rs[e].count
     ELSE IF e = a /\ r # {} THEN (CHOOSE x \in r : TRUE).count ELSE rec[e]]

\* Such a sum is at least the sum when the call began, and no count is ahead of its engine.
CountOK(o, p, a, rs, r, l, rec) ==
  /\ p = "new" => rs = << >>
  /\ o.kind = "get_stats" /\ p \in {"send", "wait", "ok"} =>
       /\ Len(rs) = a - 1
       /\ \A e \in 1..Len(rs) : rs[e].kind = "stats"
       /\ \A x \in r : x.kind = "stats"
       /\ \A e \in Engines : Counts(a, rs, r, rec)[e] <= rec[e]
       /\ l <= Total(Counts(a, rs, r, rec))

StatsInv ==
  /\ low \in [Calls -> Nat]
  /\ ~resets =>
       \A c \in Calls : CountOK(op[c], pc[c], at[c], replies[c], reply[c], low[c], received)

LEMMA CountsAre ==
  ASSUME NEW a \in 1..(N+1), NEW rs \in Seq(Answers), NEW r \in SUBSET Answers, NEW rec \in [Engines -> Nat],
         Len(rs) = a - 1, \A e \in 1..Len(rs) : rs[e].kind = "stats", \A x \in r : x.kind = "stats"
  PROVE  Counts(a, rs, r, rec) \in [Engines -> Nat]
<1>1. \A x \in Answers : x.kind = "stats" => x.count \in Nat
  BY DEF Answers
<1>2. ASSUME NEW e \in Engines PROVE Counts(a, rs, r, rec)[e] \in Nat
  <2>1. CASE e < a
    <3>1. e \in 1..Len(rs) /\ rs[e] \in Answers
      BY <2>1 DEF Engines
    <3>2. rs[e].count \in Nat
      BY <1>1, <3>1
    <3> QED BY <2>1, <3>2 DEF Counts
  <2>2. CASE ~(e < a) /\ e = a /\ r # {}
    <3>1. PICK x \in r : x = (CHOOSE y \in r : TRUE)
      BY <2>2
    <3>2. x.count \in Nat
      BY <1>1, <3>1
    <3> QED BY <2>2, <3>1, <3>2 DEF Counts
  <2>3. CASE ~(e < a) /\ ~(e = a /\ r # {})
    BY <2>3 DEF Counts
  <2> QED BY <2>1, <2>2, <2>3
<1> QED BY <1>2 DEF Counts

LEMMA TotalOf ==
  ASSUME NEW s \in [Engines -> Nat], NEW t \in [Engines -> Nat], \A e \in Engines : s[e] <= t[e]
  PROVE  Total(s) \in Nat /\ Total(t) \in Nat /\ Total(s) <= Total(t)
<1>1. s \in Seq(Nat) /\ t \in Seq(Nat) /\ Len(s) = N /\ Len(t) = N
  BY ControlConstants DEF Engines
<1> QED BY <1>1, TotalFacts DEF Engines

\* A call that stays where it is, while its engines may receive more.
LEMMA CountKept ==
  ASSUME PatchInv, PatchInv', NEW c \in Calls, NEW p,
         CountOK(op[c], pc[c], at[c], replies[c], reply[c], low[c], received),
         p = pc[c] \/ (pc[c] = "send" /\ p = "wait"),
         \A e \in Engines : received[e] <= received'[e], low[c] \in Nat
  PROVE  CountOK(op[c], p, at[c], replies[c], reply[c], low[c], received')
<1> SUFFICES ASSUME op[c].kind = "get_stats", p \in {"send", "wait", "ok"}
             PROVE  CountOK(op[c], p, at[c], replies[c], reply[c], low[c], received')
  BY DEF CountOK
<1> DEFINE s == Counts(at[c], replies[c], reply[c], received)
           t == Counts(at[c], replies[c], reply[c], received')
<1>1. /\ Len(replies[c]) = at[c] - 1
      /\ \A e \in 1..Len(replies[c]) : replies[c][e].kind = "stats"
      /\ \A x \in reply[c] : x.kind = "stats"
      /\ \A e \in Engines : s[e] <= received[e]
      /\ low[c] <= Total(s)
  BY DEF CountOK
<1>2. /\ at[c] \in 1..(N+1) /\ replies[c] \in Seq(Answers) /\ reply[c] \in SUBSET Answers
      /\ received \in [Engines -> Nat] /\ received' \in [Engines -> Nat]
  BY DEF PatchInv, Types
<1>3. s \in [Engines -> Nat] /\ t \in [Engines -> Nat]
  BY <1>1, <1>2, CountsAre
<1>4. \A e \in Engines : t[e] = s[e] \/ (s[e] = received[e] /\ t[e] = received'[e])
  BY DEF Counts
<1>5. \A e \in Engines : s[e] <= t[e] /\ t[e] <= received'[e]
  <2> HIDE DEF s, t
  <2> SUFFICES ASSUME NEW e \in Engines PROVE s[e] <= t[e] /\ t[e] <= received'[e]
    OBVIOUS
  <2>1. /\ s[e] \in Nat /\ t[e] \in Nat /\ received[e] \in Nat /\ received'[e] \in Nat
        /\ s[e] <= received[e] /\ received[e] <= received'[e]
    BY <1>1, <1>2, <1>3
  <2> QED BY <1>4, <2>1
<1>6. Total(s) \in Nat /\ Total(t) \in Nat /\ Total(s) <= Total(t)
  <2> HIDE DEF s, t
  <2> QED BY <1>3, <1>5, TotalOf
<1>7. low[c] <= Total(t)
  BY <1>1, <1>6
<1> QED BY <1>1, <1>5, <1>7 DEF CountOK

Received == \A e \in Engines : received[e] <= received'[e]

LEMMA CallKept ==
  ASSUME PatchInv, PatchInv', StatsInv, ~resets, Received, NEW d \in Calls,
         /\ op'[d] = op[d] /\ at'[d] = at[d] /\ replies'[d] = replies[d]
         /\ reply'[d] = reply[d] /\ low'[d] = low[d],
         pc'[d] = pc[d] \/ (pc[d] = "send" /\ pc'[d] = "wait")
  PROVE  CountOK(op'[d], pc'[d], at'[d], replies'[d], reply'[d], low'[d], received')
<1>1. CountOK(op[d], pc[d], at[d], replies[d], reply[d], low[d], received) /\ low[d] \in Nat
  BY DEF StatsInv
<1>2. PICK p : p = pc'[d]
  OBVIOUS
<1>3. CountOK(op[d], p, at[d], replies[d], reply[d], low[d], received')
  BY <1>1, <1>2, CountKept DEF Received
<1> QED BY <1>2, <1>3

\* A call that has failed or was refused.
LEMMA CallOver ==
  ASSUME NEW p, p \notin {"new", "send", "wait", "ok"}, NEW o, NEW a, NEW rs, NEW r, NEW l, NEW rec
  PROVE  CountOK(o, p, a, rs, r, l, rec)
BY DEF CountOK

\* No engine counts backwards, unless it was reset.
LEMMA NoneForgets ==
  ASSUME PatchInv, [Next]_vars, ~resets' PROVE ~resets /\ Received
<1>1. received \in [Engines -> Nat]
  BY DEF PatchInv, Types
<1>2. UNCHANGED received => Received
  BY <1>1 DEF Received
<1>3. ASSUME NEW e \in Engines, ReceiveRequest(e) PROVE Received /\ UNCHANGED resets
  BY <1>1, <1>3 DEF ReceiveRequest, Received, history
<1>4. ASSUME NEW e \in Engines, HandleControl(e) PROVE UNCHANGED <<received, resets>>
  BY <1>4 DEF HandleControl
<1>5. ASSUME NEW e \in Engines, EngineDrains(e) \/ EngineFails(e)
      PROVE  UNCHANGED <<received, resets>>
  BY <1>5 DEF EngineDrains, EngineFails, EngineExit, history
<1>6. ASSUME NEW c \in Calls, Handler(c) \/ Disconnect(c) \/ \E o \in Menu[c] : Begin(c, o)
      PROVE  UNCHANGED <<received, resets>>
  BY <1>6 DEF Handler, Send, ReplyDropped, Receive, Disconnect, Begin, history
<1>7. ASSUME Signal \/ Server \/ Join \/ Over \/ UNCHANGED vars
      PROVE  UNCHANGED <<received, resets>>
  BY <1>7 DEF Signal, Server, Bind, ServerCloses, Join, Calm, Over, vars, history
<1> QED BY <1>1, <1>2, <1>3, <1>4, <1>5, <1>6, <1>7 DEF Next, Running

LEMMA BeginCounts ==
  ASSUME PatchInv, PatchInv', StatsInv, NEW c \in Calls, NEW o \in Menu[c], Begin(c, o)
  PROVE  StatsInv'
<1>1. /\ pc[c] = "new" /\ op' = [op EXCEPT ![c] = o]
      /\ pc' = [pc EXCEPT ![c] = IF Validates(o) THEN "send" ELSE "bad_request"]
      /\ low' = [low EXCEPT ![c] = IF o.kind = "get_stats" THEN Total(received) ELSE 0]
      /\ UNCHANGED <<at, replies, reply, received, resets>>
  BY DEF Begin
<1>2. received \in [Engines -> Nat] /\ \A e \in Engines : received[e] <= received[e]
  BY DEF PatchInv, Types
<1>3. Total(received) \in Nat /\ Total(received) <= Total(received)
  BY <1>2, TotalOf
<1>4. low' \in [Calls -> Nat]
  BY <1>1, <1>3 DEF StatsInv
<1>5. ASSUME ~resets', NEW d \in Calls
      PROVE  CountOK(op'[d], pc'[d], at'[d], replies'[d], reply'[d], low'[d], received')
  <2>0. ~resets
    BY <1>1, <1>5
  <2>1. CASE d # c
    <3>1. op'[d] = op[d] /\ pc'[d] = pc[d] /\ low'[d] = low[d]
      BY <1>1, <2>1 DEF PatchInv, Types, StatsInv
    <3>2. Received
      BY <1>1, <1>2 DEF Received
    <3> QED BY <1>1, <2>0, <3>1, <3>2, CallKept
  <2>2. CASE d = c
    <3>1. /\ op'[c] = o /\ pc'[c] \in {"send", "bad_request"}
          /\ o.kind = "get_stats" => low'[c] = Total(received)
      BY <1>1 DEF PatchInv, Types, StatsInv
    <3>2. at[c] = 1 /\ reply[c] = {} /\ replies[c] = << >>
      BY <1>1, <2>0 DEF PatchInv, CallsOK, CallOK, StatsInv, CountOK
    <3>3. Counts(1, << >>, {}, received) = received
      <4>1. \A e \in Engines : ~(e < 1)
        BY DEF Engines
      <4> QED BY <1>2, <4>1 DEF Counts
    <3>4. Len(<< >>) = 0
      BY EmptySeq
    <3> QED BY <1>1, <1>2, <1>3, <2>2, <3>1, <3>2, <3>3, <3>4 DEF CountOK
  <2> QED BY <2>1, <2>2
<1> QED BY <1>4, <1>5 DEF StatsInv

LEMMA ReceiveCounts ==
  ASSUME PatchInv, PatchInv', StatsInv, NEW c \in Calls, Receive(c)
  PROVE  StatsInv'
<1>1. PICK a \in reply[c] :
        IF a.kind = "conflict"
        THEN /\ pc' = [pc EXCEPT ![c] = "conflict"]
             /\ UNCHANGED <<at, replies>>
        ELSE /\ pc' = [pc EXCEPT ![c] = IF at[c] = N THEN "ok" ELSE "send"]
             /\ at' = [at EXCEPT ![c] = @ + 1]
             /\ replies' = [replies EXCEPT ![c] = Append(@, a)]
  BY DEF Receive
<1>2. /\ pc[c] = "wait" /\ reply' = [reply EXCEPT ![c] = {}]
      /\ UNCHANGED <<op, received, low, resets>>
  BY DEF Receive, history
<1>3. SUFFICES ASSUME ~resets, NEW d \in Calls
               PROVE  CountOK(op[d], pc'[d], at'[d], replies'[d], reply'[d], low[d], received)
  BY <1>2 DEF StatsInv
<1>4. received \in [Engines -> Nat] /\ Received
  BY <1>2 DEF PatchInv, Types, Received
<1>5. CASE d # c
  <2>1. /\ pc'[d] = pc[d] /\ at'[d] = at[d] /\ replies'[d] = replies[d] /\ reply'[d] = reply[d]
    BY <1>1, <1>2, <1>5 DEF PatchInv, Types
  <2> QED BY <1>2, <1>3, <1>4, <2>1, CallKept
<1>6. CASE d = c /\ a.kind = "conflict"
  <2>1. pc'[d] = "conflict"
    BY <1>1, <1>6 DEF PatchInv, Types
  <2> QED BY <2>1, CallOver
<1>7. CASE d = c /\ a.kind # "conflict"
  <2>1. /\ pc'[c] \in {"send", "ok"} /\ at'[c] = at[c] + 1 /\ replies'[c] = Append(replies[c], a)
        /\ reply'[c] = {}
    BY <1>1, <1>2, <1>7 DEF PatchInv, Types
  <2>2. /\ replies[c] \in Seq(Answers) /\ reply[c] \in SUBSET Answers /\ a \in Answers
        /\ Len(replies[c]) \in Nat /\ at[c] \in 1..(N+1) /\ N \in Nat
    BY ControlConstants DEF PatchInv, Types
  <2> SUFFICES ASSUME op[c].kind = "get_stats"
               PROVE  CountOK(op[c], pc'[c], at'[c], replies'[c], {}, low[c], received)
    BY <1>7, <2>1 DEF CountOK
  <2>3. CountOK(op[c], pc[c], at[c], replies[c], reply[c], low[c], received)
    BY <1>3 DEF StatsInv
  <2>4. reply[c] = {a} /\ a.kind = "stats"
    <3>1. CallOK(op[c], pc[c], at[c], reply[c], Waiting(c), AppliedAt(c))
      BY DEF PatchInv, CallsOK
    <3>2. PICK x : reply[c] = {x}
      BY <1>1, <3>1 DEF CallOK
    <3> QED BY <1>1, <1>2, <2>3, <3>2 DEF CountOK
  <2>5. /\ Len(replies'[c]) = Len(replies[c]) + 1 /\ replies'[c][Len(replies[c]) + 1] = a
        /\ \A i \in 1..Len(replies[c]) : replies'[c][i] = replies[c][i]
    BY <2>1, <2>2, AppendIn
  <2>6. Len(replies[c]) = at[c] - 1
    BY <1>2, <2>3 DEF CountOK
  <2>7. Counts(at'[c], replies'[c], {}, received) = Counts(at[c], replies[c], reply[c], received)
    <3> DEFINE s == Counts(at[c], replies[c], reply[c], received)
               t == Counts(at'[c], replies'[c], {}, received)
    <3>1. ASSUME NEW e \in Engines PROVE t[e] = s[e]
      <4>1. CASE e < at[c]
        <5>1. e < at'[c] /\ e \in 1..Len(replies[c])
          BY <2>1, <2>2, <2>6, <4>1 DEF Engines
        <5>2. replies'[c][e] = replies[c][e]
          BY <2>5, <5>1
        <5>3. s[e] = replies[c][e].count /\ t[e] = replies'[c][e].count
          BY <4>1, <5>1 DEF Counts
        <5> QED BY <5>2, <5>3
      <4>2. CASE e = at[c]
        <5>1. ~(e < at[c]) /\ e < at'[c] /\ replies'[c][e] = a
          BY <2>1, <2>2, <2>5, <2>6, <4>2
        <5>2. (CHOOSE x \in reply[c] : TRUE) = a
          BY <2>4
        <5>3. s[e] = a.count
          BY <2>4, <4>2, <5>1, <5>2 DEF Counts
        <5>4. t[e] = replies'[c][e].count
          BY <5>1 DEF Counts
        <5> QED BY <5>1, <5>3, <5>4
      <4>3. CASE e > at[c]
        <5>1. ~(e < at[c]) /\ e # at[c] /\ ~(e < at'[c])
          BY <2>1, <2>2, <4>3 DEF Engines
        <5> QED BY <5>1 DEF Counts
      <4> QED BY <2>2, <4>1, <4>2, <4>3 DEF Engines
    <3> QED BY <3>1 DEF Counts
  <2>8. /\ \A e \in 1..Len(replies'[c]) : replies'[c][e].kind = "stats"
        /\ Len(replies'[c]) = at'[c] - 1
    <3>1. ASSUME NEW e \in 1..Len(replies'[c]) PROVE replies'[c][e].kind = "stats"
      <4>1. e \in 1..Len(replies[c]) \/ e = Len(replies[c]) + 1
        BY <2>2, <2>5
      <4> QED BY <1>2, <2>3, <2>4, <2>5, <4>1 DEF CountOK
    <3> QED BY <2>1, <2>2, <2>5, <2>6, <3>1
  <2> QED BY <1>2, <2>1, <2>3, <2>7, <2>8 DEF CountOK
<1> QED BY <1>5, <1>6, <1>7

LEMMA HandleCounts ==
  ASSUME PatchInv, PatchInv', StatsInv, NEW e \in Engines, HandleControl(e)
  PROVE  StatsInv'
<1> DEFINE c == Head(input_rx[e])
           x == Answer(c, config'[e], received'[e])
<1>1. /\ input_rx[e] # << >> /\ UNCHANGED <<op, pc, at, replies, low>>
      /\ \/ op[c].kind = "reset_stats" /\ resets'
         \/ op[c].kind # "reset_stats" /\ UNCHANGED <<received, resets>>
      /\ reply' = IF pc[c] = "wait" THEN [reply EXCEPT ![c] = {x}] ELSE reply
  BY DEF HandleControl, handlers
<1>2. input_rx[e] \in Seq(Calls)
  BY DEF PatchInv, Types
<1>3. c \in Calls /\ In(c, input_rx[e])
  <2>1. Distinct(input_rx[e])
    BY DEF PatchInv, NoneTwice
  <2> QED BY <1>1, <1>2, <2>1, TailIn
<1>4. at[c] = e /\ reply[c] = {}
  BY <1>3 DEF PatchInv, CallsOK, CallOK, Waiting
<1> HIDE DEF c
<1> SUFFICES ASSUME ~resets', NEW d \in Calls
             PROVE  CountOK(op[d], pc[d], at[d], replies[d], reply'[d], low[d], received')
  BY <1>1 DEF StatsInv
<1>5. ~resets /\ UNCHANGED received /\ Received
  BY <1>1 DEF PatchInv, Types, Received
<1>6. CASE reply'[d] = reply[d]
  BY <1>1, <1>5, <1>6, CallKept
<1>7. CASE d = c /\ pc[c] = "wait"
  <2> SUFFICES ASSUME op[c].kind = "get_stats"
               PROVE  CountOK(op[c], pc[c], at[c], replies[c], {x}, low[c], received)
    <3>1. reply'[c] = {x}
      BY <1>1, <1>3, <1>7 DEF PatchInv, Types
    <3> QED BY <1>5, <1>7, <3>1 DEF CountOK
  <2>1. x = [kind |-> "stats", count |-> received[e]]
    BY <1>5 DEF Answer, IsPatch
  <2> HIDE DEF x
  <2>2. CountOK(op[c], pc[c], at[c], replies[c], {}, low[c], received)
    BY <1>3, <1>4, <1>5 DEF StatsInv
  <2>3. Counts(at[c], replies[c], {x}, received) = Counts(at[c], replies[c], {}, received)
    <3>1. (CHOOSE y \in {x} : TRUE).count = received[e]
      <4>1. (CHOOSE y \in {x} : TRUE) = x
        OBVIOUS
      <4> QED BY <2>1, <4>1
    <3> QED BY <1>4, <3>1 DEF Counts
  <2>4. x.kind = "stats"
    BY <2>1
  <2> QED BY <1>7, <2>2, <2>3, <2>4 DEF CountOK
<1> QED BY <1>1, <1>3, <1>6, <1>7 DEF PatchInv, Types

LEMMA StatsStep ==
  ASSUME PatchInv, PatchInv', StatsInv, [Next]_vars PROVE StatsInv'
<1>1. ASSUME UNCHANGED <<op, at, replies, low>>,
             \A d \in Calls : \/ pc'[d] = pc[d] /\ reply'[d] = reply[d]
                              \/ pc[d] = "send" /\ pc'[d] = "wait" /\ reply'[d] = reply[d]
                              \/ pc'[d] \notin {"new", "send", "wait", "ok"}
      PROVE  StatsInv'
  <2>1. low' \in [Calls -> Nat]
    BY <1>1 DEF StatsInv
  <2>2. ASSUME ~resets', NEW d \in Calls
        PROVE  CountOK(op'[d], pc'[d], at'[d], replies'[d], reply'[d], low'[d], received')
    <3>1. ~resets /\ Received
      BY <2>2, NoneForgets
    <3>2. CASE pc'[d] \notin {"new", "send", "wait", "ok"}
      BY <3>2, CallOver
    <3>3. CASE pc'[d] \in {"new", "send", "wait", "ok"}
      BY <1>1, <3>1, <3>3, CallKept
    <3> QED BY <3>2, <3>3
  <2> QED BY <2>1, <2>2 DEF StatsInv
<1>2. ASSUME NEW c \in Calls, Send(c) \/ ReplyDropped(c) \/ Disconnect(c) PROVE StatsInv'
  <2>1. /\ UNCHANGED <<op, at, replies, low>>
        /\ \/ /\ pc[c] = "send" /\ reply' = reply
              /\ pc' = [pc EXCEPT ![c] = "wait"] \/ pc' = [pc EXCEPT ![c] = "internal"]
           \/ pc' = [pc EXCEPT ![c] = "internal"] /\ reply' = reply
           \/ pc' = [pc EXCEPT ![c] = "gone"] /\ reply' = [reply EXCEPT ![c] = {}]
    BY <1>2 DEF Send, ReplyDropped, Disconnect, history
  <2>2. \A d \in Calls : \/ pc'[d] = pc[d] /\ reply'[d] = reply[d]
                         \/ pc[d] = "send" /\ pc'[d] = "wait" /\ reply'[d] = reply[d]
                         \/ pc'[d] \notin {"new", "send", "wait", "ok"}
    BY <2>1 DEF PatchInv, Types
  <2> QED BY <1>1, <2>1, <2>2
<1>3. ASSUME NEW c \in Calls, Receive(c) \/ \E o \in Menu[c] : Begin(c, o) PROVE StatsInv'
  BY <1>3, ReceiveCounts, BeginCounts
<1>4. ASSUME NEW e \in Engines, HandleControl(e) PROVE StatsInv'
  BY <1>4, HandleCounts
<1>5. ASSUME NEW e \in Engines, ReceiveRequest(e) \/ EngineDrains(e) \/ EngineFails(e)
      PROVE  UNCHANGED <<op, at, replies, low, pc, reply>>
  BY <1>5 DEF ReceiveRequest, EngineDrains, EngineFails, EngineExit, handlers, history
<1>6. CASE Signal \/ Server \/ Join \/ Over \/ UNCHANGED vars
  <2>1. UNCHANGED <<op, at, replies, low, pc, reply>>
    BY <1>6 DEF Signal, Server, Bind, ServerCloses, Join, Calm, Over, vars, handlers, history
  <2> QED BY <1>1, <2>1
<1> QED BY <1>1, <1>2, <1>3, <1>4, <1>5, <1>6 DEF Next, Running, Handler

LEMMA StatsInit == Init => StatsInv
<1> SUFFICES ASSUME Init PROVE StatsInv
  OBVIOUS
<1>1. low \in [Calls -> Nat] /\ \A c \in Calls : op[c] = Idle /\ replies[c] = << >>
  BY DEF Init
<1> QED BY <1>1, OpFacts DEF StatsInv, CountOK, Idle

LEMMA StatsInvBracket == PatchInv /\ StatsInv => StatsBracketed
<1> SUFFICES ASSUME PatchInv, StatsInv, NEW c \in Calls, op[c].kind = "get_stats", pc[c] = "ok", ~resets
             PROVE  LET sum == Total([e \in DOMAIN replies[c] |-> replies[c][e].count])
                    IN  low[c] <= sum /\ sum <= Total(received)
  BY DEF StatsBracketed
<1> DEFINE s == Counts(at[c], replies[c], reply[c], received)
           r == [e \in DOMAIN replies[c] |-> replies[c][e].count]
<1>1. CountOK(op[c], "ok", at[c], replies[c], reply[c], low[c], received) /\ low[c] \in Nat
  BY DEF StatsInv
<1>2. at[c] = N + 1 /\ N \in Nat
  BY ControlConstants DEF PatchInv, CallsOK, CallOK
<1>3. replies[c] \in Seq(Answers) /\ reply[c] \in SUBSET Answers /\ at[c] \in 1..(N+1)
      /\ received \in [Engines -> Nat]
  BY DEF PatchInv, Types
<1>4. Len(replies[c]) = N /\ DOMAIN replies[c] = Engines
  BY <1>1, <1>2, <1>3 DEF CountOK, Engines
<1>5. s = r
  <2>1. \A e \in Engines : e < at[c]
    BY <1>2 DEF Engines
  <2> QED BY <1>4, <2>1 DEF Counts
<1>6. s \in [Engines -> Nat] /\ \A e \in Engines : s[e] <= received[e]
  BY <1>1, <1>3, CountsAre DEF CountOK
<1>7. low[c] <= Total(s)
  BY <1>1 DEF CountOK
<1> HIDE DEF s
<1>8. Total(s) <= Total(received)
  BY <1>3, <1>6, TotalOf
<1> QED BY <1>5, <1>7, <1>8

(* What a GET reports: a configuration shows the patches answered before it, and counters    *)
(* summed over the engines one by one lie between the sums at its start and at its end.       *)
THEOREM ReadsStayFaithful == Spec => []ReadsFaithful
<1>1. PatchInv /\ PatchInv' /\ StatsInv /\ [Next]_vars => StatsInv'
  BY StatsStep
<1>2. PatchInv /\ StatsInv => StatsBracketed
  BY StatsInvBracket
<1>3. ReadsSeePatches /\ StatsBracketed => ReadsFaithful
  BY DEF ReadsFaithful
<1> QED BY <1>1, <1>2, <1>3, StatsInit, CallsInvariant, ReadsFollowPatches, PTL DEF Spec
=============================================================================
