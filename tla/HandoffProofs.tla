--------------------------- MODULE HandoffProofs ---------------------------
(* What a KV pull reports, for every number of requests, prompts, slots,     *)
(* patterns and faults: success only for the request's own blocks, failure   *)
(* only where something got in the way.                                      *)
EXTENDS Handoff, SequenceTheorems, TLAPS

(***************************************************************************)
(* The invariant, one request at a time.  x is req[r]; the pool, the ghost *)
(* and the descriptor are parameters, so that a step of one request can be *)
(* told apart from what it does to the others.                             *)
(***************************************************************************)
Blocks == {Nothing} \cup UNION {ToSet(Prompt[r]) : r \in Requests}
Fill == [req : Requests, block : Blocks]
Cells == Fill \cup {Nothing}

States == {"new", "running", "gone", "advertised", "pulling", "reading", "ok", "failed"}
RequestRecord == [st : States, slots : Seq(Slots), local : Nat, landed : Seq(Cells)]

Types ==
  /\ cached \in [Slots -> Blocks] /\ bytes \in [Slots -> Cells]
  /\ req \in [Requests -> RequestRecord]
  /\ disturbed \subseteq Requests

\* The bytes r's prefill writes for the i-th block of its prompt.
Own(r, i) == [req |-> r, block |-> Prompt[r][i]]

OutStates == {"advertised", "pulling", "reading"}

Sizes(r, x) ==
  /\ Len(x.slots) <= Len(Prompt[r]) /\ x.local <= Len(x.slots)
  /\ Len(x.landed) <= Len(x.slots)
  /\ x.st \in {"new", "running", "advertised"} => x.local = 0
  /\ x.st \notin {"reading", "ok"} => x.landed = << >>
  /\ x.st = "ok" => x.local <= Len(x.landed)

\* A pinned block stays in its slot.
Held(r, x, ca) ==
  x.st = "running" => \A i \in 1..Len(x.slots) : ca[x.slots[i]] = Prompt[r][i]

\* No slot has a request's bytes before it advertises.
Unwritten(r, x, by) ==
  x.st \in {"new", "running"} => \A s \in Slots : by[s] # Nothing => by[s].req # r

\* An advertised slot holds the request's own bytes unless the request was disturbed, and
\* never the request's bytes for another block.
Written(r, x, by, di) ==
  x.st \in OutStates =>
    \A i \in 1..Len(x.slots) :
      /\ by[x.slots[i]] # Nothing /\ by[x.slots[i]].req = r => by[x.slots[i]] = Own(r, i)
      /\ r \notin di => by[x.slots[i]] = Own(r, i)

\* The same of what has landed.
Arrived(r, x, di) ==
  \A j \in 1..Len(x.landed) :
    /\ x.landed[j] # Nothing /\ x.landed[j].req = r => x.landed[j] = Own(r, j)
    /\ r \notin di => x.landed[j] = Own(r, j)

Reported(r, x, di) ==
  /\ x.st = "failed" => r \in di
  /\ x.st = "ok" => \A j \in 1..x.local :
                      x.landed[j] # Nothing /\ Pattern[x.landed[j].req] = Pattern[r]

\* A read with a descriptor from before a restart was disturbed by the restart.
Aimed(r, x, to, at, di) == x.st = "reading" /\ to # at => r \in di

RequestOK(r, x, ca, by, di, to, at) ==
  /\ Sizes(r, x) /\ Held(r, x, ca) /\ Unwritten(r, x, by) /\ Written(r, x, by, di)
  /\ Arrived(r, x, di) /\ Reported(r, x, di) /\ Aimed(r, x, to, at, di)

HandoffInv ==
  /\ Types
  /\ \A r \in Requests : RequestOK(r, req[r], cached, bytes, disturbed, peer, base)
  /\ peer # Nothing /\ peer # base => Requests \subseteq disturbed

(***************************************************************************)
(* Facts used in several places                                            *)
(***************************************************************************)
LEMMA PromptFacts ==
  ASSUME NEW r \in Requests
  PROVE  /\ Len(Prompt[r]) \in Nat
         /\ \A i \in 1..Len(Prompt[r]) : Prompt[r][i] \in Blocks /\ Own(r, i) \in Fill
         /\ \A i \in 1..Len(Prompt[r]) : Own(r, i) # Nothing /\ Own(r, i).req = r
<1>1. Prompt[r] \in Seq(ToSet(Prompt[r]))
  BY HandoffAssumption
<1>2. Len(Prompt[r]) \in Nat /\ \A i \in 1..Len(Prompt[r]) : Prompt[r][i] \in ToSet(Prompt[r])
  BY <1>1, LenProperties, ElementOfSeq
<1>3. ToSet(Prompt[r]) \subseteq Blocks
  BY DEF Blocks
<1>4. \A b \in ToSet(Prompt[r]) : Nothing # [req |-> r, block |-> b]
  BY HandoffAssumption
<1>. QED
  BY <1>2, <1>3, <1>4 DEF Own, Fill

LEMMA RecordFacts ==
  ASSUME NEW x \in RequestRecord
  PROVE  /\ x.st \in States /\ x.slots \in Seq(Slots) /\ x.local \in Nat /\ x.landed \in Seq(Cells)
         /\ Len(x.slots) \in Nat /\ Len(x.landed) \in Nat
         /\ \A i \in 1..Len(x.slots) : x.slots[i] \in Slots
         /\ DOMAIN x.slots = 1..Len(x.slots)
<1>1. x.st \in States /\ x.slots \in Seq(Slots) /\ x.local \in Nat /\ x.landed \in Seq(Cells)
  BY DEF RequestRecord
<1>. QED
  BY <1>1, LenProperties, ElementOfSeq

LEMMA NewFacts ==
  ASSUME NEW s \in States
  PROVE  /\ New \in RequestRecord /\ New.st = "new"
         /\ [New EXCEPT !.st = s] \in RequestRecord /\ [New EXCEPT !.st = s].st = s
         /\ New.slots = << >> /\ New.landed = << >> /\ New.local = 0
         /\ [New EXCEPT !.st = s].slots = << >> /\ [New EXCEPT !.st = s].landed = << >>
         /\ [New EXCEPT !.st = s].local = 0
<1>1. << >> \in Seq(Slots) /\ << >> \in Seq(Cells)
  BY EmptySeq
<1>. QED
  BY <1>1 DEF New, RequestRecord, States

\* A request without slots asks nothing of the pool.
LEMMA EmptyOK ==
  ASSUME NEW r \in Requests, NEW x, NEW ca, NEW by, NEW di, NEW to, NEW at,
         x.slots = << >>, x.landed = << >>, x.local = 0,
         x.st = "failed" => r \in di,
         x.st \notin {"new", "running", "reading"}
  PROVE  RequestOK(r, x, ca, by, di, to, at)
<1>1. Len(<< >>) = 0
  BY EmptySeq
<1>2. Len(Prompt[r]) \in Nat
  BY PromptFacts
<1>. QED
  BY <1>1, <1>2 DEF RequestOK, Sizes, Held, Unwritten, Written, Arrived, Reported, Aimed, OutStates

LEMMA HandoffInit == Init => HandoffInv
<1>. SUFFICES ASSUME Init PROVE HandoffInv
  OBVIOUS
<1>1. New \in RequestRecord /\ New.slots = << >> /\ New.landed = << >> /\ New.local = 0
      /\ New.st = "new"
  BY NewFacts DEF States
<1>. HIDE DEF New
<1>2. Types
  BY <1>1 DEF Init, Types, Blocks, Cells
<1>3. ASSUME NEW r \in Requests PROVE RequestOK(r, New, cached, bytes, disturbed, peer, base)
  <2>1. Len(<< >>) = 0 /\ Len(Prompt[r]) \in Nat
    BY EmptySeq, PromptFacts
  <2>2. \A s \in Slots : bytes[s] = Nothing
    BY DEF Init
  <2>. QED
    BY <1>1, <2>1, <2>2 DEF RequestOK, Sizes, Held, Unwritten, Written, Arrived, Reported, Aimed,
                            OutStates
<1>4. \A r \in Requests : req[r] = New
  BY DEF Init
<1>. QED
  BY <1>2, <1>3, <1>4 DEF HandoffInv, Init

(***************************************************************************)
(* The steps                                                               *)
(***************************************************************************)

\* More disturbed requests never break what is known of one.
LEMMA MoreDisturbed ==
  ASSUME NEW r, NEW x, NEW ca, NEW by, NEW di, NEW to, NEW at, NEW more, NEW ne,
         di \subseteq more, ne = to \/ ne = at,
         RequestOK(r, x, ca, by, di, to, at)
  PROVE  RequestOK(r, x, ca, by, more, ne, at)
BY DEF RequestOK, Sizes, Held, Unwritten, Written, Arrived, Reported, Aimed

\* A step of one request that does not touch the prefill engine's pool.
LEMMA OneRequest ==
  ASSUME HandoffInv, NEW r \in Requests, NEW y \in RequestRecord,
         UNCHANGED <<cached, bytes, base>>,
         req' = [req EXCEPT ![r] = y],
         disturbed' = disturbed \/ disturbed' = disturbed \cup {r},
         peer' = peer \/ peer' = base,
         RequestOK(r, y, cached, bytes, disturbed', peer', base)
  PROVE  HandoffInv'
<1>1. req' \in [Requests -> RequestRecord]
  BY DEF HandoffInv, Types
<1>2. Types'
  BY <1>1 DEF HandoffInv, Types
<1>3. ASSUME NEW q \in Requests
      PROVE  RequestOK(q, req'[q], cached, bytes, disturbed', peer', base)
  <2>1. CASE q = r
    BY <2>1 DEF HandoffInv, Types
  <2>2. CASE q # r
    <3>1. req'[q] = req[q]
      BY <2>2 DEF HandoffInv, Types
    <3>2. RequestOK(q, req[q], cached, bytes, disturbed, peer, base)
      BY DEF HandoffInv
    <3>. QED
      BY <3>1, <3>2, MoreDisturbed
  <2>. QED
    BY <2>1, <2>2
<1>4. peer' # Nothing /\ peer' # base => Requests \subseteq disturbed'
  BY DEF HandoffInv
<1>5. \A q \in Requests : RequestOK(q, req'[q], cached', bytes', disturbed', peer', base')
  BY <1>3
<1>. QED
  BY <1>2, <1>4, <1>5 DEF HandoffInv

LEMMA UnpinStep ==
  ASSUME HandoffInv, NEW r \in Requests, Unpin(r)
  PROVE  HandoffInv'
<1>. DEFINE y == [New EXCEPT !.st = "gone"]
<1>1. y \in RequestRecord /\ y.st = "gone" /\ y.slots = << >> /\ y.landed = << >> /\ y.local = 0
  BY NewFacts DEF States
<1>. HIDE DEF y
<1>2. RequestOK(r, y, cached, bytes, disturbed', peer', base)
  BY <1>1, EmptyOK
<1>3. req' = [req EXCEPT ![r] = y] /\ UNCHANGED <<cached, bytes, base, peer, disturbed>>
  BY DEF Unpin, prefill, y
<1>. QED
  BY <1>1, <1>2, <1>3, OneRequest

\* A pull that fails keeps nothing of what has landed.
LEMMA FailStep ==
  ASSUME HandoffInv, NEW r \in Requests, Ends(r, "failed"),
         UNCHANGED <<cached, bytes, base, peer>>,
         disturbed' = disturbed \/ disturbed' = disturbed \cup {r}, r \in disturbed'
  PROVE  HandoffInv'
<1>. DEFINE y == [New EXCEPT !.st = "failed"]
<1>1. /\ y \in RequestRecord /\ y.st = "failed" /\ y.slots = << >> /\ y.landed = << >>
      /\ y.local = 0
  BY NewFacts DEF States
<1>2. req' = [req EXCEPT ![r] = y]
  BY DEF Ends
<1>. HIDE DEF y
<1>3. RequestOK(r, y, cached, bytes, disturbed', peer', base)
  BY <1>1, EmptyOK
<1>. QED
  BY <1>1, <1>2, <1>3, OneRequest

LEMMA AdmitStep ==
  ASSUME HandoffInv, NEW r \in Requests, Admit(r)
  PROVE  HandoffInv'
<1>. DEFINE x == req[r]
<1>1. PICK local \in 0..Len(x.slots) : req' = [req EXCEPT ![r] = [x EXCEPT !.st = "pulling", !.local = local]]
  BY DEF Admit
<1>. DEFINE y == [x EXCEPT !.st = "pulling", !.local = local]
<1>2. x \in RequestRecord /\ RequestOK(r, x, cached, bytes, disturbed, peer, base)
  BY DEF HandoffInv, Types
<1>3. Len(x.slots) \in Nat /\ local \in Nat /\ local <= Len(x.slots)
  BY <1>2, RecordFacts
<1>4. y \in RequestRecord
  BY <1>2, <1>3 DEF RequestRecord, States
<1>5. y.st = "pulling" /\ y.local = local /\ y.slots = x.slots /\ y.landed = x.landed
  BY <1>2 DEF RequestRecord
<1>6. x.st = "advertised" /\ UNCHANGED <<cached, bytes, base, peer, disturbed>>
  BY DEF Admit, prefill
<1>. HIDE DEF y, x
<1>7. RequestOK(r, y, cached, bytes, disturbed', peer', base)
  BY <1>2, <1>3, <1>5, <1>6 DEF RequestOK, Sizes, Held, Unwritten, Written, Arrived, Reported,
                                Aimed, OutStates
<1>. QED
  BY <1>1, <1>4, <1>6, <1>7, OneRequest DEF x, y

LEMMA EnsurePeerStep ==
  ASSUME HandoffInv, NEW r \in Requests, EnsurePeer(r)
  PROVE  HandoffInv'
<1>. DEFINE x == req[r]
            y == [x EXCEPT !.st = "reading"]
<1>1. x \in RequestRecord /\ RequestOK(r, x, cached, bytes, disturbed, peer, base)
  BY DEF HandoffInv, Types
<1>2. y \in RequestRecord
  BY <1>1 DEF RequestRecord, States
<1>3. y.st = "reading" /\ y.local = x.local /\ y.slots = x.slots /\ y.landed = x.landed
  BY <1>1 DEF RequestRecord
<1>4. /\ x.st = "pulling" /\ req' = [req EXCEPT ![r] = y]
      /\ peer' = IF peer = Nothing THEN base ELSE peer
      /\ UNCHANGED <<cached, bytes, base, disturbed>>
  BY DEF EnsurePeer, prefill
<1>5. peer' # base => r \in disturbed'
  BY <1>4 DEF HandoffInv
<1>. HIDE DEF y, x
<1>6. RequestOK(r, y, cached, bytes, disturbed', peer', base)
  BY <1>1, <1>3, <1>4, <1>5 DEF RequestOK, Sizes, Held, Unwritten, Written, Arrived, Reported,
                                Aimed, OutStates
<1>. QED
  BY <1>2, <1>4, <1>6, OneRequest

LEMMA PullNothingStep ==
  ASSUME HandoffInv, NEW r \in Requests, PullNothing(r)
  PROVE  HandoffInv'
<1>. DEFINE x == req[r]
            y == [x EXCEPT !.st = "ok"]
<1>1. x \in RequestRecord /\ RequestOK(r, x, cached, bytes, disturbed, peer, base)
  BY DEF HandoffInv, Types
<1>2. y \in RequestRecord
  BY <1>1 DEF RequestRecord, States
<1>3. y.st = "ok" /\ y.local = x.local /\ y.slots = x.slots /\ y.landed = x.landed
  BY <1>1 DEF RequestRecord
<1>4. /\ x.st = "pulling" /\ x.slots = << >> /\ req' = [req EXCEPT ![r] = y]
      /\ UNCHANGED <<cached, bytes, base, peer, disturbed>>
  BY DEF PullNothing, Ends, prefill
<1>5. x.local \in Nat /\ Len(x.slots) = 0 /\ Len(x.landed) \in Nat
  BY <1>1, <1>4, RecordFacts, EmptySeq
<1>. HIDE DEF y, x
<1>6. RequestOK(r, y, cached, bytes, disturbed', peer', base)
  BY <1>1, <1>3, <1>4, <1>5 DEF RequestOK, Sizes, Held, Unwritten, Written, Arrived, Reported,
                                Aimed, OutStates
<1>. QED
  BY <1>2, <1>4, <1>6, OneRequest

LEMMA ReadBlockStep ==
  ASSUME HandoffInv, NEW r \in Requests, ReadBlock(r)
  PROVE  HandoffInv'
<1>. DEFINE x == req[r]
            n == Len(x.landed) + 1
            cell == bytes[x.slots[n]]
            y == [x EXCEPT !.landed = Append(x.landed, cell)]
<1>1. x \in RequestRecord /\ RequestOK(r, x, cached, bytes, disturbed, peer, base)
  BY DEF HandoffInv, Types
<1>2. /\ x.st = "reading" /\ Len(x.landed) < Len(x.slots) /\ peer = base
      /\ req' = [req EXCEPT ![r] = y] /\ UNCHANGED <<cached, bytes, base, peer, disturbed>>
  BY DEF ReadBlock, Landed, prefill
<1>3. n \in 1..Len(x.slots) /\ Len(x.landed) \in Nat /\ Len(x.slots) \in Nat
  BY <1>1, <1>2, RecordFacts
<1>4. cell \in Cells
  BY <1>1, <1>3, RecordFacts DEF HandoffInv, Types
<1>. HIDE DEF cell
<1>5. /\ Append(x.landed, cell) \in Seq(Cells) /\ Len(Append(x.landed, cell)) = n
      /\ \A j \in 1..Len(x.landed) : Append(x.landed, cell)[j] = x.landed[j]
      /\ Append(x.landed, cell)[n] = cell
  BY <1>1, <1>4, RecordFacts, AppendProperties
<1>6. y \in RequestRecord
  BY <1>1, <1>5 DEF RequestRecord
<1>7. /\ y.st = "reading" /\ y.local = x.local /\ y.slots = x.slots
      /\ y.landed = Append(x.landed, cell)
  BY <1>1, <1>2 DEF RequestRecord
<1>8. /\ cell # Nothing /\ cell.req = r => cell = Own(r, n)
      /\ r \notin disturbed => cell = Own(r, n)
  BY <1>1, <1>2, <1>3 DEF RequestOK, Written, OutStates, cell
<1>9. Arrived(r, y, disturbed)
  <2>. SUFFICES ASSUME NEW j \in 1..n
                PROVE  /\ y.landed[j] # Nothing /\ y.landed[j].req = r => y.landed[j] = Own(r, j)
                       /\ r \notin disturbed => y.landed[j] = Own(r, j)
    BY <1>5, <1>7 DEF Arrived
  <2>1. CASE j \in 1..Len(x.landed)
    <3>1. y.landed[j] = x.landed[j]
      BY <1>5, <1>7, <2>1
    <3>. QED
      BY <1>1, <2>1, <3>1 DEF RequestOK, Arrived
  <2>2. CASE j = n
    BY <1>5, <1>7, <1>8, <2>2
  <2>. QED
    BY <1>3, <2>1, <2>2
<1>. HIDE DEF y, x
<1>10. RequestOK(r, y, cached, bytes, disturbed', peer', base)
  <2>1. Len(y.landed) = n
    BY <1>5, <1>7
  <2>2. n <= Len(x.slots)
    BY <1>3
  <2>3. Sizes(r, y)
    BY <1>1, <1>2, <1>7, <2>1, <2>2 DEF RequestOK, Sizes
  <2>. QED
    BY <1>1, <1>2, <1>7, <1>9, <2>3 DEF RequestOK, Held, Unwritten, Written, Reported, Aimed,
                                         OutStates
<1>. QED
  BY <1>2, <1>6, <1>10, OneRequest

LEMMA VerifyStep ==
  ASSUME HandoffInv, NEW r \in Requests, Verify(r)
  PROVE  HandoffInv'
<1>. DEFINE x == req[r]
            y == [x EXCEPT !.st = "ok"]
<1>1. x \in RequestRecord /\ RequestOK(r, x, cached, bytes, disturbed, peer, base)
  BY DEF HandoffInv, Types
<1>2. /\ x.st = "reading" /\ Len(x.landed) = Len(x.slots)
      /\ Ends(r, IF Matches(r) THEN "ok" ELSE "failed")
      /\ UNCHANGED <<cached, bytes, base, peer, disturbed>>
  BY DEF Verify, Landed, prefill
<1>3. /\ x.local \in Nat /\ Len(x.landed) \in Nat /\ x.landed \in Seq(Cells)
      /\ x.local <= Len(x.landed) /\ Len(x.slots) <= Len(Prompt[r]) /\ Len(Prompt[r]) \in Nat
  BY <1>1, <1>2, RecordFacts, PromptFacts DEF RequestOK, Sizes
<1>4. CASE Matches(r)
  <2>1. y \in RequestRecord
    BY <1>1 DEF RequestRecord, States
  <2>2. y.st = "ok" /\ y.local = x.local /\ y.slots = x.slots /\ y.landed = x.landed
    BY <1>1 DEF RequestRecord
  <2>3. req' = [req EXCEPT ![r] = y]
    BY <1>2, <1>4 DEF Ends
  <2>4. \A j \in 1..x.local : x.landed[j] # Nothing /\ Pattern[x.landed[j].req] = Pattern[r]
    BY <1>4 DEF Matches
  <2>. HIDE DEF y, x
  <2>5. RequestOK(r, y, cached, bytes, disturbed', peer', base)
    BY <1>1, <1>2, <1>3, <2>2, <2>4 DEF RequestOK, Sizes, Held, Unwritten, Written, Arrived,
                                         Reported, Aimed, OutStates
  <2>. QED
    BY <1>2, <2>1, <2>3, <2>5, OneRequest
<1>5. CASE ~Matches(r)
  <2>1. PICK j \in 1..x.local :
          ~(x.landed[j] # Nothing /\ Pattern[x.landed[j].req] = Pattern[r])
    BY <1>5 DEF Matches
  <2>2. j \in 1..Len(x.landed) /\ j \in 1..Len(Prompt[r])
    BY <1>2, <1>3
  <2>3. Own(r, j) # Nothing /\ Own(r, j).req = r
    BY <2>2, PromptFacts
  <2>4. r \notin disturbed => x.landed[j] = Own(r, j)
    BY <1>1, <2>2 DEF RequestOK, Arrived
  <2>5. r \in disturbed
    BY <2>1, <2>3, <2>4
  <2>6. Ends(r, "failed")
    BY <1>2, <1>5
  <2>. QED
    BY <1>2, <2>5, <2>6, FailStep
<1>. QED
  BY <1>4, <1>5

LEMMA PullStep ==
  ASSUME HandoffInv, NEW r \in Requests, PullThread(r)
  PROVE  HandoffInv'
<1>1. CASE PullLock(r)
  BY <1>1 DEF PullLock, prefill, HandoffInv, Types
<1>2. CASE FetchFails(r)
  BY <1>2, FailStep DEF FetchFails, prefill
<1>3. CASE ReadFails(r)
  <2>1. /\ req[r].st = "reading" /\ Ends(r, "failed") /\ UNCHANGED <<cached, bytes, base, peer>>
        /\ \/ peer # base /\ disturbed' = disturbed
           \/ disturbed' = disturbed \cup {r}
    BY <1>3 DEF ReadFails, prefill
  <2>2. peer # base => r \in disturbed
    BY <2>1 DEF HandoffInv, RequestOK, Aimed
  <2>. QED
    BY <2>1, <2>2, FailStep
<1>. QED
  BY <1>1, <1>2, <1>3, PullNothingStep, EnsurePeerStep, ReadBlockStep, VerifyStep DEF PullThread

(***************************************************************************)
(* The prefill engine's steps                                              *)
(***************************************************************************)

\* The slots cache_prompt picks: all different, and either the block's own or not pinned.
LEMMA BlockIdsFacts ==
  ASSUME NEW p, Len(p) \in Nat, NEW f \in BlockIds(p)
  PROVE  /\ f \in Seq(Slots) /\ Len(f) <= Len(p) /\ Len(f) \in Nat /\ DOMAIN f = 1..Len(f)
         /\ \A i \in 1..Len(f) : cached[f[i]] = p[i] \/ f[i] \notin Pinned
         /\ \A i, j \in 1..Len(f) : f[i] = f[j] => i = j
<1>1. PICK k \in 0..Len(p) : f \in [1..k -> Slots]
  BY DEF BlockIds
<1>2. f \in Seq(Slots) /\ Len(f) = k /\ DOMAIN f = 1..k /\ k \in Nat
  BY <1>1
<1>. DEFINE taken(i) == {f[j] : j \in 1..(i - 1)}
<1>3. \A i \in 1..k : f[i] \in SlotsFor(taken(i), p[i])
  BY <1>2 DEF BlockIds
<1>4. \A t, b : \A s \in SlotsFor(t, b) : s \notin t /\ (cached[s] = b \/ s \notin Pinned)
  BY DEF SlotsFor, Victims
<1>5. \A i \in 1..k, j \in 1..k : j < i => f[j] \in taken(i)
  BY <1>2
<1>. HIDE DEF taken
<1>6. \A i \in 1..k, j \in 1..k : j < i => f[j] # f[i]
  BY <1>3, <1>4, <1>5
<1>7. \A i, j \in 1..k : f[i] = f[j] => i = j
  <2>. SUFFICES ASSUME NEW i \in 1..k, NEW j \in 1..k, f[i] = f[j] PROVE i = j
    OBVIOUS
  <2>1. ~(j < i) /\ ~(i < j)
    BY <1>6
  <2>. QED
    BY <2>1, <1>2
<1>. QED
  BY <1>1, <1>2, <1>3, <1>4, <1>7

LEMMA PrefillStep ==
  ASSUME HandoffInv, NEW r \in Requests, Prefill(r)
  PROVE  HandoffInv'
<1>. DEFINE x == req[r]
<1>1. PICK f \in BlockIds(Prompt[r]) :
        /\ cached' = [s \in Slots |->
                        IF \E i \in DOMAIN f : f[i] = s
                          THEN Prompt[r][CHOOSE i \in DOMAIN f : f[i] = s]
                          ELSE cached[s]]
        /\ req' = [req EXCEPT ![r] = [x EXCEPT !.st = "running", !.slots = f]]
  BY DEF Prefill
<1>. DEFINE y == [x EXCEPT !.st = "running", !.slots = f]
<1>2. x.st = "new" /\ UNCHANGED <<bytes, base, peer, disturbed>>
  BY DEF Prefill
<1>3. x \in RequestRecord /\ RequestOK(r, x, cached, bytes, disturbed, peer, base)
  BY DEF HandoffInv, Types
<1>4. Len(Prompt[r]) \in Nat /\ \A i \in 1..Len(Prompt[r]) : Prompt[r][i] \in Blocks
  BY PromptFacts
<1>5. /\ f \in Seq(Slots) /\ Len(f) <= Len(Prompt[r]) /\ Len(f) \in Nat /\ DOMAIN f = 1..Len(f)
      /\ \A i \in 1..Len(f) : cached[f[i]] = Prompt[r][i] \/ f[i] \notin Pinned
      /\ \A i, j \in 1..Len(f) : f[i] = f[j] => i = j
  BY <1>4, BlockIdsFacts
<1>6. \A i \in 1..Len(f) : f[i] \in Slots
  BY <1>5, ElementOfSeq
<1>7. \A i \in 1..Len(f) : cached'[f[i]] = Prompt[r][i]
  <2>. TAKE i \in 1..Len(f)
  <2>1. i = CHOOSE j \in DOMAIN f : f[j] = f[i]
    BY <1>5
  <2>. QED
    BY <1>1, <1>5, <1>6, <2>1
<1>8. \A s \in Slots : (\E i \in 1..Len(f) : f[i] = s) \/ cached'[s] = cached[s]
  BY <1>1, <1>5
<1>9. \A s \in Pinned : s \in Slots => cached'[s] = cached[s]
  BY <1>5, <1>7, <1>8
<1>10. cached' \in [Slots -> Blocks]
  <2>1. \A s \in Slots : cached'[s] \in Blocks
    BY <1>4, <1>5, <1>7, <1>8 DEF HandoffInv, Types
  <2>2. cached' = [s \in Slots |-> cached'[s]]
    BY <1>1
  <2>. QED
    BY <2>1, <2>2
<1>11. y \in RequestRecord
  BY <1>3, <1>5 DEF RequestRecord, States
<1>12. y.st = "running" /\ y.slots = f /\ y.local = x.local /\ y.landed = x.landed
  BY <1>3 DEF RequestRecord
<1>13. req' = [req EXCEPT ![r] = y]
  BY <1>1
<1>14. x.landed = << >> /\ x.local = 0 /\ Len(<< >>) = 0
  BY <1>2, <1>3, EmptySeq DEF RequestOK, Sizes
<1>. HIDE DEF y, x
<1>15. RequestOK(r, y, cached', bytes, disturbed, peer, base)
  BY <1>2, <1>3, <1>5, <1>7, <1>12, <1>14 DEF RequestOK, Sizes, Held, Unwritten, Written, Arrived,
                                              Reported, Aimed, OutStates
<1>16. ASSUME NEW q \in Requests, q # r
       PROVE  RequestOK(q, req[q], cached', bytes, disturbed, peer, base)
  <2>1. req[q] \in RequestRecord /\ RequestOK(q, req[q], cached, bytes, disturbed, peer, base)
    BY DEF HandoffInv, Types
  <2>2. ASSUME req[q].st = "running", NEW i \in 1..Len(req[q].slots)
        PROVE  cached'[req[q].slots[i]] = cached[req[q].slots[i]]
    <3>1. req[q].slots[i] \in Slots /\ i \in DOMAIN req[q].slots
      BY <2>1, RecordFacts
    <3>2. req[q].slots[i] \in Pinned
      BY <2>2, <3>1 DEF Pinned, In, ToSet
    <3>. QED
      BY <1>9, <3>1, <3>2
  <2>3. Held(q, req[q], cached')
    BY <2>1, <2>2 DEF RequestOK, Held
  <2>. QED
    BY <2>1, <2>3 DEF RequestOK
<1>17. \A q \in Requests : req'[q] = IF q = r THEN y ELSE req[q]
  BY <1>13 DEF HandoffInv, Types
<1>18. Types'
  BY <1>2, <1>10, <1>11, <1>13 DEF HandoffInv, Types
<1>19. \A q \in Requests : RequestOK(q, req'[q], cached', bytes', disturbed', peer', base')
  BY <1>2, <1>15, <1>16, <1>17
<1>. QED
  BY <1>2, <1>18, <1>19 DEF HandoffInv

LEMMA AdvertiseStep ==
  ASSUME HandoffInv, NEW r \in Requests, Advertise(r)
  PROVE  HandoffInv'
<1>. DEFINE x == req[r]
            ids == ToSet(x.slots)
            y == [x EXCEPT !.st = "advertised"]
<1>1. /\ x.st = "running" /\ req' = [req EXCEPT ![r] = y]
      /\ bytes' = [s \in Slots |-> IF s \in ids THEN [req |-> r, block |-> cached[s]] ELSE bytes[s]]
      /\ disturbed' = disturbed \cup {q \in Outstanding : ToSet(req[q].slots) \cap ids # {}}
      /\ UNCHANGED <<cached, base, peer>>
  BY DEF Advertise
<1>2. x \in RequestRecord /\ RequestOK(r, x, cached, bytes, disturbed, peer, base)
  BY DEF HandoffInv, Types
<1>3. y \in RequestRecord /\ y.st = "advertised"
      /\ y.slots = x.slots /\ y.local = x.local /\ y.landed = x.landed
  BY <1>2 DEF RequestRecord, States
<1>4. \A i \in 1..Len(x.slots) : x.slots[i] \in Slots /\ x.slots[i] \in ids
  BY <1>2, RecordFacts DEF ToSet
<1>5. Len(x.slots) \in Nat /\ Len(Prompt[r]) \in Nat /\ Len(x.slots) <= Len(Prompt[r])
  BY <1>2, RecordFacts, PromptFacts DEF RequestOK, Sizes
<1>6. \A i \in 1..Len(x.slots) : bytes'[x.slots[i]] = Own(r, i)
  BY <1>1, <1>2, <1>4 DEF RequestOK, Held, Own
<1>7. bytes' \in [Slots -> Cells]
  BY <1>1 DEF HandoffInv, Types, Cells, Fill
<1>8. \A s \in Slots : bytes'[s] = bytes[s] \/ (s \in ids /\ bytes'[s].req = r)
  BY <1>1
<1>9. \A s \in Slots : s \notin ids => bytes'[s] = bytes[s]
  BY <1>1
<1>10. x.landed = << >> /\ Len(<< >>) = 0
  BY <1>1, <1>2, EmptySeq DEF RequestOK, Sizes
<1>11. disturbed \subseteq disturbed' /\ disturbed' \subseteq Requests
  BY <1>1 DEF HandoffInv, Types, Outstanding, In
<1>12. \A q \in Requests : req[q].st \in OutStates /\ ToSet(req[q].slots) \cap ids # {} => q \in disturbed'
  BY <1>1 DEF Outstanding, In, OutStates
<1>. HIDE DEF y, x, ids
<1>13. RequestOK(r, y, cached, bytes', disturbed', peer, base)
  BY <1>1, <1>2, <1>3, <1>5, <1>6, <1>10 DEF RequestOK, Sizes, Held, Unwritten, Written, Arrived,
                                             Reported, Aimed, OutStates
<1>14. ASSUME NEW q \in Requests, q # r
       PROVE  RequestOK(q, req[q], cached, bytes', disturbed', peer, base)
  <2>. DEFINE z == req[q]
  <2>1. z \in RequestRecord /\ RequestOK(q, z, cached, bytes, disturbed, peer, base)
    BY DEF HandoffInv, Types
  <2>2. RequestOK(q, z, cached, bytes, disturbed', peer, base)
    BY <1>11, <2>1, MoreDisturbed
  <2>3. Unwritten(q, z, bytes')
    BY <1>8, <1>14, <2>2 DEF RequestOK, Unwritten
  <2>4. ASSUME z.st \in OutStates, NEW i \in 1..Len(z.slots)
        PROVE  /\ bytes'[z.slots[i]] # Nothing /\ bytes'[z.slots[i]].req = q
                    => bytes'[z.slots[i]] = Own(q, i)
               /\ q \notin disturbed' => bytes'[z.slots[i]] = Own(q, i)
    <3>1. z.slots[i] \in Slots /\ z.slots[i] \in ToSet(z.slots)
      BY <2>1, RecordFacts DEF ToSet
    <3>2. q \notin disturbed' => z.slots[i] \notin ids
      BY <1>12, <2>4, <3>1
    <3>3. bytes'[z.slots[i]] = bytes[z.slots[i]] \/ (bytes'[z.slots[i]].req = r /\ q \in disturbed')
      BY <1>8, <3>1, <3>2
    <3>4. /\ bytes[z.slots[i]] # Nothing /\ bytes[z.slots[i]].req = q
               => bytes[z.slots[i]] = Own(q, i)
          /\ q \notin disturbed' => bytes[z.slots[i]] = Own(q, i)
      BY <2>2, <2>4 DEF RequestOK, Written
    <3>. QED
      BY <1>14, <3>3, <3>4
  <2>5. Written(q, z, bytes', disturbed')
    BY <2>4 DEF Written
  <2>. QED
    BY <2>2, <2>3, <2>5 DEF RequestOK
<1>15. \A q \in Requests : req'[q] = IF q = r THEN y ELSE req[q]
  BY <1>1 DEF HandoffInv, Types
<1>16. Types'
  BY <1>1, <1>3, <1>7, <1>11 DEF HandoffInv, Types
<1>17. \A q \in Requests : RequestOK(q, req'[q], cached', bytes', disturbed', peer', base')
  BY <1>1, <1>13, <1>14, <1>15
<1>. QED
  BY <1>1, <1>11, <1>16, <1>17 DEF HandoffInv

LEMMA RestartStep ==
  ASSUME HandoffInv, Restart
  PROVE  HandoffInv'
<1>1. /\ cached' = [s \in Slots |-> Nothing] /\ bytes' = [s \in Slots |-> Nothing]
      /\ req' = [r \in Requests |-> IF r \in In("running") THEN New ELSE req[r]]
      /\ disturbed' = disturbed \cup (IF peer = Nothing THEN Outstanding ELSE Requests)
      /\ UNCHANGED peer
  BY DEF Restart
<1>2. Outstanding \subseteq disturbed' /\ disturbed \subseteq disturbed'
      /\ disturbed' \subseteq Requests
  BY <1>1 DEF HandoffInv, Types, Outstanding, In
<1>3. New \in RequestRecord /\ New.st = "new" /\ New.slots = << >> /\ New.landed = << >>
      /\ New.local = 0
  BY NewFacts DEF States
<1>. HIDE DEF New
<1>4. Types'
  BY <1>1, <1>2, <1>3 DEF HandoffInv, Types, Blocks, Cells
<1>5. \A s \in Slots : bytes'[s] = Nothing
  BY <1>1
<1>6. ASSUME NEW r \in Requests
      PROVE  RequestOK(r, req'[r], cached', bytes', disturbed', peer', base')
  <2>1. CASE r \in In("running")
    <3>1. req'[r] = New /\ Len(<< >>) = 0 /\ Len(Prompt[r]) \in Nat
      BY <1>1, <2>1, EmptySeq, PromptFacts
    <3>. QED
      BY <1>3, <1>5, <3>1 DEF RequestOK, Sizes, Held, Unwritten, Written, Arrived, Reported, Aimed,
                              OutStates
  <2>2. CASE r \notin In("running")
    <3>. DEFINE x == req[r]
    <3>1. req'[r] = x /\ x.st # "running"
      BY <1>1, <2>2 DEF In
    <3>2. x \in RequestRecord /\ RequestOK(r, x, cached, bytes, disturbed, peer, base)
      BY DEF HandoffInv, Types
    <3>3. x.st \in OutStates => r \in disturbed'
      BY <1>2 DEF Outstanding, In, OutStates
    <3>4. \A i \in 1..Len(x.slots) : bytes'[x.slots[i]] = Nothing
      BY <1>5, <3>2, RecordFacts
    <3>. HIDE DEF x
    <3>5. Written(r, x, bytes', disturbed') /\ Unwritten(r, x, bytes')
      BY <1>5, <3>3, <3>4 DEF Written, Unwritten
    <3>6. Arrived(r, x, disturbed') /\ Reported(r, x, disturbed')
      BY <1>2, <3>2 DEF RequestOK, Arrived, Reported
    <3>7. Aimed(r, x, peer', base', disturbed')
      BY <3>3 DEF Aimed, OutStates
    <3>. QED
      BY <3>1, <3>2, <3>5, <3>6, <3>7 DEF RequestOK, Held
  <2>. QED
    BY <2>1, <2>2
<1>7. peer' # Nothing => Requests \subseteq disturbed'
  BY <1>1
<1>. QED
  BY <1>4, <1>6, <1>7 DEF HandoffInv

(***************************************************************************)
(* The theorem                                                             *)
(***************************************************************************)
LEMMA HandoffStep ==
  ASSUME HandoffInv, [Next]_vars
  PROVE  HandoffInv'
<1>1. CASE UNCHANGED vars
  BY <1>1 DEF vars, HandoffInv, Types
<1>2. ASSUME NEW r \in Requests, Prefill(r) \/ Advertise(r) \/ Unpin(r) \/ Admit(r) \/ PullThread(r)
      PROVE  HandoffInv'
  BY <1>2, PrefillStep, AdvertiseStep, UnpinStep, AdmitStep, PullStep
<1>. QED
  BY <1>1, <1>2, RestartStep DEF Next

(* do_pull reports success only when every block it looked at is the request's own, written  *)
(* for its place in the prompt, or that of a request whose id folds to the same pattern and  *)
(* which took the slot since; it reports failure only where a fault, a restart or another    *)
(* request's bytes got in the way.  The slots are not pinned between the fill and the read.  *)
THEOREM PullsReportTruly == Spec => []PullOutcome
<1>1. HandoffInv => PullOutcome
  <2>. SUFFICES ASSUME HandoffInv PROVE PullOutcome
    OBVIOUS
  <2>1. FailsOnlyIfDisturbed
    BY DEF HandoffInv, RequestOK, Reported, FailsOnlyIfDisturbed, In
  <2>2. ASSUME NEW r \in In("ok"), NEW j \in 1..req[r].local
        PROVE  \/ req[r].landed[j] = [req |-> r, block |-> Prompt[r][j]]
               \/ /\ r \in disturbed
                  /\ req[r].landed[j].req \in {q \in Requests \ {r} : Pattern[q] = Pattern[r]}
    <3>. DEFINE x == req[r]
                cell == x.landed[j]
    <3>1. r \in Requests /\ x.st = "ok" /\ x \in RequestRecord
          /\ RequestOK(r, x, cached, bytes, disturbed, peer, base)
      BY <2>2 DEF HandoffInv, Types, In
    <3>2. j \in 1..Len(x.landed) /\ j \in 1..Len(Prompt[r])
      BY <2>2, <3>1, RecordFacts, PromptFacts DEF RequestOK, Sizes
    <3>3. cell \in Cells
      BY <3>1, <3>2, RecordFacts, ElementOfSeq
    <3>4. cell # Nothing /\ Pattern[cell.req] = Pattern[r]
      BY <2>2, <3>1 DEF RequestOK, Reported
    <3>5. cell.req \in Requests
      BY <3>3, <3>4 DEF Cells, Fill
    <3>6. /\ cell.req = r => cell = Own(r, j)
          /\ r \notin disturbed => cell = Own(r, j)
      BY <3>1, <3>2, <3>4 DEF RequestOK, Arrived
    <3>. QED
      BY <3>4, <3>5, <3>6 DEF Own
  <2>. QED
    BY <2>1, <2>2 DEF PullOutcome, VerifiedOwnBlocks
<1>2. HandoffInv /\ [Next]_vars => HandoffInv'
  BY HandoffStep
<1>. QED
  BY <1>1, <1>2, HandoffInit, PTL DEF Spec
=============================================================================
