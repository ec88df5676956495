-------------------------- MODULE SimEngineProofs --------------------------
(***************************************************************************)
(* Proofs about the simulated engine, for every set of ids and kinds, every*)
(* configuration and every bound.                                          *)
(***************************************************************************)
EXTENDS SimEngine, FiniteSetTheorems, SequenceTheorems, WellFoundedInduction, TLAPS

-----------------------------------------------------------------------------
(* The helpers on functions and sequences                                  *)

LEMMA PutFacts ==
  ASSUME NEW f, NEW x, NEW v
  PROVE  /\ DOMAIN Put(f, x, v) = DOMAIN f \cup {x}
         /\ Put(f, x, v)[x] = v
         /\ \A y \in DOMAIN f \ {x} : Put(f, x, v)[y] = f[y]
  BY DEF Put

LEMMA DropFacts ==
  ASSUME NEW f, NEW S
  PROVE  /\ DOMAIN Drop(f, S) = DOMAIN f \ S
         /\ \A y \in DOMAIN f \ S : Drop(f, S)[y] = f[y]
  BY DEF Drop

LEMMA AppendFacts ==
  ASSUME NEW S, NEW s \in Seq(S), NEW e \in S
  PROVE  /\ Append(s, e) \in Seq(S) /\ Len(Append(s, e)) = Len(s) + 1
         /\ DOMAIN Append(s, e) = DOMAIN s \cup {Len(s) + 1} /\ Len(s) + 1 \notin DOMAIN s
         /\ Append(s, e)[Len(s) + 1] = e
         /\ \A k \in DOMAIN s : Append(s, e)[k] = s[k]
<1>1. /\ Append(s, e) \in Seq(S) /\ Len(Append(s, e)) = Len(s) + 1
      /\ Append(s, e)[Len(s) + 1] = e
      /\ \A k \in 1..Len(s) : Append(s, e)[k] = s[k]
  BY AppendProperties
<1>2. DOMAIN Append(s, e) = 1..(Len(s) + 1) /\ DOMAIN s = 1..Len(s) /\ Len(s) \in Nat
  BY <1>1
<1> QED BY <1>1, <1>2

\* RemoveAt closes the gap.
LEMMA RemoveAtFacts ==
  ASSUME NEW S, NEW s \in Seq(S), NEW k \in 1..Len(s)
  PROVE  /\ RemoveAt(s, k) \in Seq(S)
         /\ Len(RemoveAt(s, k)) = Len(s) - 1
         /\ \A j \in 1..(Len(s) - 1) : RemoveAt(s, k)[j] = IF j < k THEN s[j] ELSE s[j + 1]
<1> DEFINE front == SubSeq(s, 1, k - 1)
           back == SubSeq(s, k + 1, Len(s))
<1>1. Len(s) \in Nat /\ k \in Nat /\ k >= 1 /\ k <= Len(s)
  OBVIOUS
<1>2. /\ front \in Seq(S)
      /\ Len(front) = k - 1
      /\ \A i \in 1..(k - 1) : front[i] = s[i]
  <2>1. \A i \in 1..(k - 1) : s[i] \in S
    BY <1>1
  <2> HIDE DEF front
  <2> QED BY <1>1, <2>1, SubSeqProperties DEF front
<1>3. /\ back \in Seq(S)
      /\ Len(back) = Len(s) - k
      /\ \A i \in 1..(Len(s) - k) : back[i] = s[k + i]
  <2>1. \A i \in (k + 1)..Len(s) : s[i] \in S
    BY <1>1
  <2> HIDE DEF back
  <2> QED BY <1>1, <2>1, SubSeqProperties DEF back
<1>4. RemoveAt(s, k) = front \o back
  BY DEF RemoveAt
<1> HIDE DEF front, back
<1>5. /\ front \o back \in Seq(S)
      /\ Len(front \o back) = Len(s) - 1
      /\ \A j \in 1..(Len(s) - 1) :
           (front \o back)[j] = IF j <= k - 1 THEN front[j] ELSE back[j - (k - 1)]
  <2>1. /\ front \o back \in Seq(S)
        /\ Len(front \o back) = Len(front) + Len(back)
        /\ \A j \in 1..(Len(front) + Len(back)) :
             (front \o back)[j] = IF j <= Len(front) THEN front[j] ELSE back[j - Len(front)]
    BY <1>2, <1>3, ConcatProperties
  <2>2. Len(front) + Len(back) = Len(s) - 1
    BY <1>1, <1>2, <1>3
  <2> QED BY <1>2, <2>1, <2>2
<1>6. ASSUME NEW j \in 1..(Len(s) - 1)
      PROVE  (front \o back)[j] = IF j < k THEN s[j] ELSE s[j + 1]
  <2>1. CASE j < k
    BY <1>1, <1>2, <1>5, <2>1
  <2>2. CASE ~(j < k)
    <3>1. j - (k - 1) \in 1..(Len(s) - k) /\ k + (j - (k - 1)) = j + 1
      BY <1>1, <2>2
    <3> QED BY <1>1, <1>3, <1>5, <2>2, <3>1
  <2> QED BY <2>1, <2>2
<1> QED BY <1>4, <1>5, <1>6

\* What is left by RemoveAt is the other elements.
LEMMA RemoveAtElements ==
  ASSUME NEW S, NEW s \in Seq(S), NEW k \in 1..Len(s)
  PROVE  /\ \A i \in DOMAIN s \ {k} : \E j \in DOMAIN RemoveAt(s, k) : RemoveAt(s, k)[j] = s[i]
         /\ \E at \in [DOMAIN RemoveAt(s, k) -> DOMAIN s \ {k}] :
              /\ \A j \in DOMAIN RemoveAt(s, k) : RemoveAt(s, k)[j] = s[at[j]]
              /\ \A i, j \in DOMAIN RemoveAt(s, k) : i # j => at[i] # at[j]
<1> DEFINE t == RemoveAt(s, k)
           up(j) == IF j < k THEN j ELSE j + 1
<1>1. /\ t \in Seq(S) /\ Len(t) = Len(s) - 1
      /\ \A j \in 1..(Len(s) - 1) : t[j] = IF j < k THEN s[j] ELSE s[j + 1]
  BY RemoveAtFacts
<1> HIDE DEF t
<1>2. Len(s) \in Nat /\ k \in Nat /\ k >= 1 /\ k <= Len(s) /\ DOMAIN s = 1..Len(s)
  OBVIOUS
<1>3. DOMAIN t = 1..(Len(s) - 1)
  BY <1>1
<1>4. \A j \in DOMAIN t : up(j) \in DOMAIN s \ {k} /\ t[j] = s[up(j)]
  BY <1>1, <1>2, <1>3
<1>5. \A i, j \in DOMAIN t : i # j => up(i) # up(j)
  BY <1>2, <1>3
<1>6. ASSUME NEW i \in DOMAIN s \ {k} PROVE \E j \in DOMAIN t : t[j] = s[i]
  <2>1. CASE i < k
    BY <1>1, <1>2, <1>3, <2>1
  <2>2. CASE i > k
    <3>1. i - 1 \in DOMAIN t /\ t[i - 1] = s[i]
      BY <1>1, <1>2, <1>3, <2>2
    <3> QED BY <3>1
  <2> QED BY <1>2, <2>1, <2>2
<1>7. \E at \in [DOMAIN t -> DOMAIN s \ {k}] :
        /\ \A j \in DOMAIN t : t[j] = s[at[j]]
        /\ \A i, j \in DOMAIN t : i # j => at[i] # at[j]
  <2> DEFINE at == [j \in DOMAIN t |-> up(j)]
  <2> HIDE DEF up
  <2>1. at \in [DOMAIN t -> DOMAIN s \ {k}]
    BY <1>4
  <2>2. \A j \in DOMAIN t : t[j] = s[at[j]]
    BY <1>4
  <2>3. \A i, j \in DOMAIN t : i # j => at[i] # at[j]
    BY <1>5
  <2> HIDE DEF at
  <2> QED BY <2>1, <2>2, <2>3
<1> QED BY <1>6, <1>7 DEF t

\* SetToSeqs(S) lists all of S.
LEMMA SetToSeqsFacts ==
  ASSUME NEW S, IsFiniteSet(S), NEW s \in SetToSeqs(S)
  PROVE  /\ s \in Seq(S)
         /\ \A x \in S : \E k \in DOMAIN s : s[k] = x
<1> DEFINE n == Cardinality(S)
<1>1. n \in Nat
  BY FS_CardinalityType
<1>2. s \in [1..n -> S] /\ \A i, j \in 1..n : i # j => s[i] # s[j]
  BY DEF SetToSeqs
<1>3. s \in Injection(1..n, S)
  BY <1>2 DEF Injection, IsInjective
<1>4. IsFiniteSet(1..n) /\ Cardinality(1..n) = n
  <2> HIDE DEF n
  <2> QED BY <1>1, FS_Interval
<1>5. s \in Surjection(1..n, S)
  BY <1>3, <1>4, FS_Injection
<1> HIDE DEF n
<1> QED BY <1>1, <1>2, <1>5 DEF Surjection

-----------------------------------------------------------------------------
(* Induction over numbers and finite sets, and sums                         *)

\* A set of numbers has a least one.
LEMMA Least ==
  ASSUME NEW T, T \subseteq Nat, T # {}
  PROVE  \E n \in T : \A m \in T : n <= m
<1> DEFINE Less == {ss \in Nat \X Nat : ss[1] < ss[2]}
<1>1. IsWellFoundedOn(Less, Nat)
  BY NatLessThanWellFounded DEF OpToRel
<1>2. PICK n \in T : \A m \in T : ~(<<m, n>> \in Less)
  BY <1>1, WFMin
<1>3. \A m \in T : ~(m < n)
  BY <1>2
<1> QED BY <1>3

\* Induction over the finite subsets of a set.
LEMMA FiniteInduction ==
  ASSUME NEW S, IsFiniteSet(S), NEW T, {} \in T,
         \A A \in SUBSET S : \A x \in S \ A : A \in T => A \cup {x} \in T
  PROVE  \A A \in SUBSET S : A \in T
<1> SUFFICES ASSUME NEW B \in SUBSET S, B \notin T PROVE FALSE
  OBVIOUS
<1> DEFINE Bad == {Cardinality(A) : A \in (SUBSET S) \ T}
<1>1. \A A \in SUBSET S : IsFiniteSet(A) /\ Cardinality(A) \in Nat
  BY FS_Subset, FS_CardinalityType
<1>2. Bad \subseteq Nat /\ Bad # {}
  BY <1>1
<1>3. PICK n \in Bad : \A m \in Bad : n <= m
  BY <1>2, Least
<1>4. PICK A \in (SUBSET S) \ T : n = Cardinality(A)
  BY <1>3
<1>5. PICK x : x \in A
  BY <1>4
<1>6. IsFiniteSet(A) /\ Cardinality(A \ {x}) = Cardinality(A) - 1
  BY <1>1, <1>5, FS_RemoveElement
<1>7. A \ {x} \in T
  <2>1. A \ {x} \in SUBSET S /\ Cardinality(A \ {x}) < n
    BY <1>1, <1>4, <1>6
  <2>2. A \ {x} \notin T => Cardinality(A \ {x}) \in Bad
    BY <2>1
  <2> HIDE DEF Bad
  <2>3. \A m \in Bad : ~(m < n)
    BY <1>2, <1>3
  <2> QED BY <2>1, <2>2, <2>3
<1>8. (A \ {x}) \cup {x} = A /\ A \ {x} \in SUBSET S /\ x \in S \ (A \ {x})
  BY <1>5
<1> QED BY <1>4, <1>7, <1>8

\* A finite set has a sum that does not depend on the order of its elements...
Totals(f, S, h) ==
  /\ h \in [SUBSET S -> Int] /\ h[{}] = 0
  /\ \A s \in SUBSET S : \A x \in s : h[s] = f[x] + h[s \ {x}]

LEMMA TotalsExist ==
  ASSUME NEW f, NEW S, IsFiniteSet(S), \A x \in S : f[x] \in Int
  PROVE  \E h : Totals(f, S, h)
<1> DEFINE T == {A \in SUBSET S : \E h : Totals(f, A, h)}
<1>1. {} \in T
  <2>1. Totals(f, {}, [s \in SUBSET {} |-> 0])
    BY DEF Totals
  <2> QED BY <2>1
<1>2. ASSUME NEW A \in SUBSET S, NEW y \in S \ A, A \in T PROVE A \cup {y} \in T
  <2>1. PICK h : Totals(f, A, h)
    BY <1>2
  <2> DEFINE g == [s \in SUBSET (A \cup {y}) |-> IF y \in s THEN f[y] + h[s \ {y}] ELSE h[s]]
  <2>2. \A s \in SUBSET (A \cup {y}) : s \ {y} \in SUBSET A /\ (y \notin s => s \in SUBSET A)
    OBVIOUS
  <2>3. g \in [SUBSET (A \cup {y}) -> Int] /\ g[{}] = 0
    BY <2>1, <2>2 DEF Totals
  <2>4. ASSUME NEW s \in SUBSET (A \cup {y}), NEW x \in s PROVE g[s] = f[x] + g[s \ {x}]
    <3>0. s \ {x} \in SUBSET (A \cup {y})
      OBVIOUS
    <3>1. CASE x = y
      <4>1. g[s] = f[y] + h[s \ {y}] /\ g[s \ {x}] = h[s \ {y}]
        BY <3>0, <3>1
      <4> QED BY <3>1, <4>1
    <3>2. CASE x # y /\ y \in s
      <4>1. g[s] = f[y] + h[s \ {y}] /\ g[s \ {x}] = f[y] + h[(s \ {x}) \ {y}]
        BY <3>0, <3>2
      <4>2. x \in s \ {y} /\ s \ {y} \in SUBSET A /\ (s \ {y}) \ {x} = (s \ {x}) \ {y}
        BY <3>2
      <4>3. h[s \ {y}] = f[x] + h[(s \ {y}) \ {x}]
        BY <2>1, <4>2 DEF Totals
      <4>4. (s \ {x}) \ {y} \in SUBSET A
        BY <4>2
      <4>5. h[(s \ {x}) \ {y}] \in Int /\ f[x] \in Int /\ f[y] \in Int
        BY <2>1, <4>4, <4>2 DEF Totals
      <4>6. h[(s \ {y}) \ {x}] = h[(s \ {x}) \ {y}]
        BY <4>2
      <4> HIDE DEF g
      <4> QED BY <4>1, <4>3, <4>5, <4>6
    <3>3. CASE x # y /\ y \notin s
      <4>1. s \in SUBSET A /\ s \ {x} \in SUBSET A
        BY <3>3
      <4>2. g[s] = h[s] /\ g[s \ {x}] = h[s \ {x}]
        BY <3>0, <3>3
      <4> QED BY <2>1, <4>1, <4>2 DEF Totals
    <3> QED BY <3>1, <3>2, <3>3
  <2>5. Totals(f, A \cup {y}, g)
    BY <2>3, <2>4 DEF Totals
  <2> QED BY <2>5
<1>3. S \in T
  <2> HIDE DEF T
  <2> QED BY <1>1, <1>2, FiniteInduction
<1> QED BY <1>3

\* ...and that is what SumFunctionOnSet computes.
LEMMA SumIsTotal ==
  ASSUME NEW f, NEW S, IsFiniteSet(S), \A x \in S : f[x] \in Int, NEW h, Totals(f, S, h)
  PROVE  SumFunctionOnSet(f, S) = h[S]
<1> DEFINE First(s) == CHOOSE x \in s : TRUE
           Rec(g) == [s \in SUBSET S |-> IF s = {} THEN 0 ELSE f[First(s)] + g[s \ {First(s)}]]
           iter == CHOOSE g : g = Rec(g)
<1>1. \A s \in SUBSET S : s # {} => First(s) \in s
  OBVIOUS
<1>2. h = Rec(h)
  <2>1. \A s \in SUBSET S : h[s] = Rec(h)[s]
    BY <1>1 DEF Totals
  <2>2. DOMAIN h = SUBSET S /\ DOMAIN Rec(h) = SUBSET S
    BY DEF Totals
  <2>3. h = [s \in SUBSET S |-> h[s]]
    BY DEF Totals
  <2> QED BY <2>1, <2>2, <2>3
<1>3. iter = Rec(iter)
  BY <1>2
<1>4. SumFunctionOnSet(f, S) = iter[S]
  BY DEF SumFunctionOnSet, FoldFunctionOnSet, MapThenFoldSet
<1> HIDE DEF iter
<1>5. \A s \in SUBSET S : iter[s] = h[s]
  <2> DEFINE Bad == {Cardinality(s) : s \in {t \in SUBSET S : iter[t] # h[t]}}
  <2>1. \A s \in SUBSET S : IsFiniteSet(s) /\ Cardinality(s) \in Nat
    BY FS_Subset, FS_CardinalityType
  <2> SUFFICES ASSUME Bad # {} PROVE FALSE
    OBVIOUS
  <2>2. PICK n \in Bad : \A m \in Bad : n <= m
    BY <2>1, Least
  <2>3. PICK s \in SUBSET S : iter[s] # h[s] /\ n = Cardinality(s)
    BY <2>2
  <2>4. iter[{}] = 0
    BY <1>3
  <2>5. s # {}
    BY <2>3, <2>4 DEF Totals
  <2>6. First(s) \in s /\ s \ {First(s)} \in SUBSET S
    BY <2>5, <1>1
  <2>7. Cardinality(s \ {First(s)}) = Cardinality(s) - 1
    BY <2>1, <2>6, FS_RemoveElement
  <2>8. iter[s \ {First(s)}] = h[s \ {First(s)}]
    BY <2>1, <2>2, <2>3, <2>6, <2>7
  <2>9. iter[s] = f[First(s)] + iter[s \ {First(s)}]
    BY <1>3, <2>5
  <2>10. h[s] = f[First(s)] + h[s \ {First(s)}]
    BY <2>6 DEF Totals
  <2> QED BY <2>3, <2>8, <2>9, <2>10
<1> QED BY <1>4, <1>5

LEMMA SumFacts ==
  ASSUME NEW f, NEW S, IsFiniteSet(S), \A x \in S : f[x] \in Int
  PROVE  /\ SumFunctionOnSet(f, S) \in Int
         /\ S = {} => SumFunctionOnSet(f, S) = 0
         /\ \A x \in S : SumFunctionOnSet(f, S) = f[x] + SumFunctionOnSet(f, S \ {x})
<1>1. PICK h : Totals(f, S, h)
  BY TotalsExist
<1>2. SumFunctionOnSet(f, S) = h[S]
  BY <1>1, SumIsTotal
<1>3. ASSUME NEW x \in S PROVE SumFunctionOnSet(f, S \ {x}) = h[S \ {x}]
  <2> DEFINE R == S \ {x}
             g == [s \in SUBSET R |-> h[s]]
  <2>1. IsFiniteSet(R) /\ R \subseteq S
    BY FS_Subset
  <2>2. Totals(f, R, g)
    BY <1>1 DEF Totals
  <2>3. SumFunctionOnSet(f, R) = g[R]
    BY <2>1, <2>2, SumIsTotal
  <2> QED BY <2>3
<1> QED BY <1>1, <1>2, <1>3 DEF Totals

\* Sums of functions that agree are equal.
LEMMA SumSame ==
  ASSUME NEW f, NEW g, NEW S, IsFiniteSet(S), \A x \in S : f[x] \in Int /\ g[x] = f[x]
  PROVE  SumFunctionOnSet(g, S) = SumFunctionOnSet(f, S)
<1>1. PICK h : Totals(f, S, h)
  BY TotalsExist
<1>2. Totals(g, S, h)
  BY <1>1 DEF Totals
<1> QED BY <1>1, <1>2, SumIsTotal

LEMMA SumBound ==
  ASSUME NEW f, NEW S, IsFiniteSet(S), NEW least \in {0, 1}, \A x \in S : f[x] \in Int /\ f[x] >= least
  PROVE  /\ SumFunctionOnSet(f, S) >= 0
         /\ least = 1 => SumFunctionOnSet(f, S) >= Cardinality(S)
<1> DEFINE T == {A \in SUBSET S : SumFunctionOnSet(f, A) >= least * Cardinality(A)}
<1>0. \A A \in SUBSET S : IsFiniteSet(A) /\ Cardinality(A) \in Nat
  BY FS_Subset, FS_CardinalityType
<1>1. {} \in T
  BY <1>0, FS_EmptySet, SumFacts
<1>2. ASSUME NEW A \in SUBSET S, NEW x \in S \ A, A \in T PROVE A \cup {x} \in T
  <2>1. /\ IsFiniteSet(A \cup {x}) /\ Cardinality(A \cup {x}) = Cardinality(A) + 1
    BY <1>0, FS_AddElement
  <2>2. (A \cup {x}) \ {x} = A
    OBVIOUS
  <2>3. SumFunctionOnSet(f, A \cup {x}) = f[x] + SumFunctionOnSet(f, (A \cup {x}) \ {x})
    <3>1. \A y \in A \cup {x} : f[y] \in Int
      OBVIOUS
    <3> QED BY <2>1, <3>1, SumFacts
  <2>4. SumFunctionOnSet(f, A) \in Int
    BY <1>0, SumFacts
  <2>5. SumFunctionOnSet(f, A \cup {x}) = f[x] + SumFunctionOnSet(f, A)
    BY <2>2, <2>3
  <2>6. least * Cardinality(A \cup {x}) = least * Cardinality(A) + least
    BY <1>0, <2>1
  <2>7. f[x] \in Int /\ f[x] >= least /\ SumFunctionOnSet(f, A) >= least * Cardinality(A)
    BY <1>2
  <2>8. least * Cardinality(A) \in Int /\ least \in Int
    BY <1>0
  <2>9. SumFunctionOnSet(f, A \cup {x}) >= least * Cardinality(A \cup {x})
    BY <2>4, <2>5, <2>6, <2>7, <2>8
  <2> QED BY <2>9
<1>3. S \in T
  <2> HIDE DEF T
  <2> QED BY <1>1, <1>2, FiniteInduction
<1>4. SumFunctionOnSet(f, S) >= least * Cardinality(S) /\ Cardinality(S) \in Nat
  BY <1>0, <1>3
<1>5. least * Cardinality(S) >= 0 /\ (least = 1 => least * Cardinality(S) = Cardinality(S))
  BY <1>4
<1>6. SumFunctionOnSet(f, S) \in Int
  BY SumFacts
<1> QED BY <1>4, <1>5, <1>6

LEMMA NatInductive ==
  ASSUME NEW T, 0 \in T, \A n \in Nat : n \in T => n + 1 \in T
  PROVE  Nat \subseteq T
<1> SUFFICES ASSUME Nat \ T # {} PROVE FALSE
  OBVIOUS
<1>1. PICK n \in Nat \ T : \A m \in Nat \ T : n <= m
  BY Least
<1>2. n # 0 /\ n - 1 \in Nat
  BY <1>1
<1>3. n - 1 \in T
  BY <1>1, <1>2
<1> QED BY <1>2, <1>3


\* One summand taken out.
LEMMA SumOut ==
  ASSUME NEW f, NEW S, IsFiniteSet(S), \A i \in S : f[i] \in Int, NEW x \in S,
         NEW R, R = S \ {x}
  PROVE  /\ SumFunctionOnSet(f, S) = f[x] + SumFunctionOnSet(f, R)
         /\ SumFunctionOnSet(f, R) \in Int
<1>1. IsFiniteSet(R) /\ \A i \in R : f[i] \in Int
  BY FS_Subset
<1> QED BY <1>1, SumFacts

LEMMA SumIsInt ==
  ASSUME NEW s \in Seq(Int) PROVE SumFunction(s) \in Int
<1>1. DOMAIN s = 1..Len(s) /\ Len(s) \in Nat /\ \A i \in DOMAIN s : s[i] \in Int
  OBVIOUS
<1>2. IsFiniteSet(DOMAIN s)
  BY <1>1, FS_Interval
<1> QED BY <1>1, <1>2, SumFacts DEF SumFunction

LEMMA SumEmpty == SumFunction(<<>>) = 0
<1>1. DOMAIN <<>> = {}
  OBVIOUS
<1> QED BY <1>1, FS_EmptySet, SumFacts DEF SumFunction

LEMMA SumAppend ==
  ASSUME NEW s \in Seq(Int), NEW x \in Int
  PROVE  SumFunction(Append(s, x)) = SumFunction(s) + x
<1> DEFINE t == Append(s, x)
           D == DOMAIN s
           E == DOMAIN t
           n == Len(s) + 1
<1>0. /\ Len(s) \in Nat /\ D = 1..Len(s) /\ t \in Seq(Int) /\ Len(t) = n
      /\ t[n] = x /\ \A i \in 1..Len(s) : t[i] = s[i] /\ s[i] \in Int
  BY AppendProperties
<1>1. n \in E /\ D = E \ {n} /\ t[n] = x /\ \A i \in D : t[i] = s[i] /\ s[i] \in Int
  <2>1. E = 1..n
    BY <1>0
  <2> HIDE DEF t
  <2> QED BY <1>0, <2>1
<1>2. IsFiniteSet(D) /\ IsFiniteSet(E)
  <2>1. /\ D = 1..Len(s) /\ Len(s) \in Nat
        /\ E = 1..(Len(s) + 1)
    BY AppendProperties
  <2> QED BY <2>1, FS_Interval
<1> HIDE DEF t, n, D, E
<1>3. \A i \in E : t[i] \in Int
  BY <1>1
<1>4. SumFunctionOnSet(t, E) = t[n] + SumFunctionOnSet(t, D)
  BY <1>1, <1>2, <1>3, SumOut
<1>5. SumFunctionOnSet(t, D) = SumFunctionOnSet(s, D) /\ SumFunctionOnSet(s, D) \in Int
  BY <1>1, <1>2, SumSame, SumFacts
<1>6. SumFunction(t) = SumFunctionOnSet(t, E) /\ SumFunction(s) = SumFunctionOnSet(s, D)
  BY DEF SumFunction, D, E
<1> QED BY <1>1, <1>4, <1>5, <1>6 DEF t

LEMMA SumTail ==
  ASSUME NEW s \in Seq(Int), s # <<>>
  PROVE  SumFunction(s) = Head(s) + SumFunction(Tail(s))
<1> DEFINE t == Tail(s)
           n == Len(t)
           A(k) == 2..(k + 1)
           B(k) == 1..k
           T == {k \in Nat : k <= n => SumFunctionOnSet(s, A(k)) = SumFunctionOnSet(t, B(k))}
<1>1. /\ n \in Nat /\ DOMAIN s = B(n + 1) /\ DOMAIN t = B(n)
      /\ Head(s) = s[1] /\ \A i \in B(n) : t[i] = s[i + 1] /\ t[i] \in Int
      /\ \A i \in B(n + 1) : s[i] \in Int
  BY HeadTailProperties
<1> HIDE DEF t, n
<1>2. \A k \in Nat : IsFiniteSet(A(k)) /\ IsFiniteSet(B(k))
  BY FS_Interval
<1>3. A(0) = {} /\ B(0) = {}
  OBVIOUS
<1>4. ASSUME NEW k \in Nat
      PROVE  /\ k + 2 \in A(k + 1) /\ A(k) = A(k + 1) \ {k + 2}
             /\ k + 1 \in B(k + 1) /\ B(k) = B(k + 1) \ {k + 1}
             /\ k + 1 <= n => /\ A(k + 1) \subseteq B(n + 1) /\ B(k + 1) \subseteq B(n)
                              /\ k <= n
  <2>1. k + 2 \in A(k + 1) /\ k + 1 \in B(k + 1)
    OBVIOUS
  <2>2. A(k) = A(k + 1) \ {k + 2}
    OBVIOUS
  <2>3. B(k) = B(k + 1) \ {k + 1}
    OBVIOUS
  <2>4. ASSUME k + 1 <= n
        PROVE  A(k + 1) \subseteq B(n + 1) /\ B(k + 1) \subseteq B(n) /\ k <= n
    BY <1>1, <2>4
  <2> QED BY <2>1, <2>2, <2>3, <2>4
<1>5. B(n + 1) \ {1} = A(n) /\ 1 \in B(n + 1)
  BY <1>1
<1> HIDE DEF A, B
<1>6. 0 \in T
  BY <1>2, <1>3, SumFacts
<1>7. ASSUME NEW k \in Nat, k \in T PROVE k + 1 \in T
  <2> SUFFICES ASSUME k + 1 <= n
               PROVE  SumFunctionOnSet(s, A(k + 1)) = SumFunctionOnSet(t, B(k + 1))
    OBVIOUS
  <2>1. /\ \A i \in A(k + 1) : s[i] \in Int
        /\ \A i \in B(k + 1) : t[i] \in Int
    BY <1>1, <1>4
  <2>2. k + 1 \in Nat /\ IsFiniteSet(A(k + 1)) /\ IsFiniteSet(B(k + 1))
    BY <1>2
  <2>3. SumFunctionOnSet(s, A(k + 1)) = s[k + 2] + SumFunctionOnSet(s, A(k))
    <3>1. k + 2 \in A(k + 1) /\ A(k) = A(k + 1) \ {k + 2}
      BY <1>4
    <3> QED BY <2>1, <2>2, <3>1, SumOut
  <2>4. SumFunctionOnSet(t, B(k + 1)) = t[k + 1] + SumFunctionOnSet(t, B(k))
    <3>1. k + 1 \in B(k + 1) /\ B(k) = B(k + 1) \ {k + 1}
      BY <1>4
    <3> QED BY <2>1, <2>2, <3>1, SumOut
  <2>5. t[k + 1] = s[k + 2]
    <3>1. k + 1 \in B(n)
      BY <1>4
    <3>2. t[k + 1] = s[(k + 1) + 1]
      BY <1>1, <3>1
    <3> QED BY <3>2
  <2>6. SumFunctionOnSet(s, A(k)) = SumFunctionOnSet(t, B(k))
    BY <1>4, <1>7
  <2> QED BY <2>3, <2>4, <2>5, <2>6
<1>8. SumFunctionOnSet(s, A(n)) = SumFunctionOnSet(t, B(n))
  <2>1. Nat \subseteq T
    <3> HIDE DEF T
    <3> QED BY <1>6, <1>7, NatInductive
  <2> QED BY <1>1, <2>1
<1>9. SumFunctionOnSet(s, B(n + 1)) = s[1] + SumFunctionOnSet(s, A(n))
  <2>1. n + 1 \in Nat
    BY <1>1
  <2> QED BY <1>1, <1>2, <1>5, <2>1, SumOut
<1>10. SumFunction(s) = SumFunctionOnSet(s, B(n + 1)) /\ SumFunction(t) = SumFunctionOnSet(t, B(n))
  BY <1>1 DEF SumFunction
<1> QED BY <1>1, <1>8, <1>9, <1>10 DEF t

-----------------------------------------------------------------------------
(* The elements of a sequence that are in a set, and what a meter hands out *)

\* The prefixes of s, filtered.
Kept(s, T, f) ==
  f = [k \in 0..Len(s) |->
         IF k = 0 THEN <<>>
         ELSE IF s[k] \in T THEN Append(f[k-1], s[k]) ELSE f[k-1]]

LEMMA KeptExists ==
  ASSUME NEW S, NEW s \in Seq(S), NEW T
  PROVE  \E f : Kept(s, T, f)
<1> DEFINE Step(g, k) == IF s[k] \in T THEN Append(g[k-1], s[k]) ELSE g[k-1]
           Upto(n, g) == g = [k \in 0..n |-> IF k = 0 THEN <<>> ELSE Step(g, k)]
           N == {n \in Nat : \E g : Upto(n, g)}
<1>1. 0 \in N
  <2>1. Upto(0, [k \in 0..0 |-> <<>>])
    OBVIOUS
  <2> QED BY <2>1
<1>2. ASSUME NEW n \in Nat, n \in N PROVE n + 1 \in N
  <2>1. PICK g : Upto(n, g)
    BY <1>2
  <2> DEFINE h == [k \in 0..(n + 1) |-> IF k <= n THEN g[k] ELSE Step(g, n + 1)]
  <2>2. ASSUME NEW k \in 0..(n + 1) PROVE h[k] = IF k = 0 THEN <<>> ELSE Step(h, k)
    <3>1. CASE k = 0
      BY <2>1, <3>1
    <3>2. CASE k # 0 /\ k <= n
      <4>1. k \in 0..n /\ k - 1 \in 0..(n + 1) /\ k - 1 <= n
        BY <3>2
      <4>2. g[k] = Step(g, k)
        BY <2>1, <3>2, <4>1
      <4>3. h[k] = g[k] /\ h[k - 1] = g[k - 1]
        BY <4>1
      <4> QED BY <3>2, <4>2, <4>3
    <3>3. CASE k = n + 1
      <4>1. h[k] = Step(g, n + 1) /\ h[k - 1] = g[k - 1]
        BY <3>3
      <4> QED BY <3>3, <4>1
    <3> QED BY <3>1, <3>2, <3>3
  <2>3. Upto(n + 1, h)
    <3>1. h = [k \in 0..(n + 1) |-> h[k]]
      OBVIOUS
    <3> HIDE DEF h, Step
    <3> QED BY <2>2, <3>1
  <2> HIDE DEF h, Upto
  <2> QED BY <2>3
<1>3. Nat \subseteq N
  <2> HIDE DEF N
  <2> QED BY <1>1, <1>2, NatInductive
<1>4. PICK g : Upto(Len(s), g)
  BY <1>3
<1>5. Kept(s, T, g)
  BY <1>4 DEF Kept
<1> QED BY <1>5

\* Keep goes through s once.
LEMMA KeepIs ==
  ASSUME NEW S, NEW s \in Seq(S), NEW T
  PROVE  \E f : Kept(s, T, f) /\ Keep(s, T) = f[Len(s)]
<1>1. \E f : Kept(s, T, f)
  BY KeptExists
<1> DEFINE f == CHOOSE g : Kept(s, T, g)
<1>2. Kept(s, T, f)
  BY <1>1
<1>3. Keep(s, T) = f[Len(s)]
  BY DEF Keep, Kept
<1> QED BY <1>2, <1>3

LEMMA FunctionIsSeq ==
  ASSUME NEW S, NEW m \in Nat, NEW q \in [1..m -> S]
  PROVE  q \in Seq(S) /\ Len(q) = m
  OBVIOUS

LEMMA KeptStep ==
  ASSUME NEW S, NEW s \in Seq(S), NEW T, NEW f, Kept(s, T, f), NEW n \in Nat, n + 1 <= Len(s)
  PROVE  f[n + 1] = IF s[n + 1] \in T THEN Append(f[n], s[n + 1]) ELSE f[n]
<1>1. Len(s) \in Nat /\ n + 1 \in 0..Len(s) /\ n + 1 # 0 /\ (n + 1) - 1 = n
  OBVIOUS
<1>2. \A k \in 0..Len(s) : f[k] = IF k = 0 THEN <<>>
                                  ELSE IF s[k] \in T THEN Append(f[k-1], s[k]) ELSE f[k-1]
  BY DEF Kept
<1>3. f[n + 1] = IF s[n + 1] \in T THEN Append(f[(n + 1) - 1], s[n + 1]) ELSE f[(n + 1) - 1]
  BY <1>1, <1>2
<1> QED BY <1>1, <1>3

\* What Keep keeps.
LEMMA KeepFacts ==
  ASSUME NEW S, NEW s \in Seq(S), NEW T
  PROVE  /\ Keep(s, T) \in Seq(S \cap T)
         /\ \A i \in DOMAIN s : s[i] \in T => \E j \in DOMAIN Keep(s, T) : Keep(s, T)[j] = s[i]
<1>1. PICK f : Kept(s, T, f) /\ Keep(s, T) = f[Len(s)]
  BY KeepIs
<1>2. Len(s) \in Nat /\ DOMAIN s = 1..Len(s) /\ \A i \in 1..Len(s) : s[i] \in S
  OBVIOUS
<1> DEFINE In(g, i) == \E j \in DOMAIN g : g[j] = s[i]
           N == {n \in Nat : n <= Len(s) =>
                   /\ f[n] \in Seq(S \cap T)
                   /\ \A i \in 1..n : s[i] \in T => In(f[n], i)}
<1>3. 0 \in N
  BY <1>1, <1>2 DEF Kept
<1>4. ASSUME NEW n \in Nat, n \in N PROVE n + 1 \in N
  <2> SUFFICES ASSUME n + 1 <= Len(s)
               PROVE  /\ f[n + 1] \in Seq(S \cap T)
                      /\ \A i \in 1..(n + 1) : s[i] \in T => In(f[n + 1], i)
    OBVIOUS
  <2>1. f[n] \in Seq(S \cap T) /\ \A i \in 1..n : s[i] \in T => In(f[n], i)
    BY <1>2, <1>4
  <2>2. f[n + 1] = IF s[n + 1] \in T THEN Append(f[n], s[n + 1]) ELSE f[n]
    BY <1>1, <1>2, KeptStep
  <2>3. n + 1 \in 1..Len(s) /\ \A i \in 1..(n + 1) : i \in 1..n \/ i = n + 1
    BY <1>2
  <2>4. CASE s[n + 1] \in T
    <3>1. s[n + 1] \in S \cap T
      BY <1>2, <2>3, <2>4
    <3>2. f[n + 1] = Append(f[n], s[n + 1])
      BY <2>2, <2>4
    <3>3. /\ f[n + 1] \in Seq(S \cap T) /\ DOMAIN f[n + 1] = DOMAIN f[n] \cup {Len(f[n]) + 1}
          /\ f[n + 1][Len(f[n]) + 1] = s[n + 1]
          /\ \A j \in DOMAIN f[n] : f[n + 1][j] = f[n][j]
      BY <2>1, <3>1, <3>2, AppendFacts
    <3> QED BY <2>1, <2>3, <3>3
  <2>5. CASE s[n + 1] \notin T
    BY <2>1, <2>2, <2>3, <2>5
  <2> QED BY <2>4, <2>5
<1>5. Nat \subseteq N
  <2> HIDE DEF N
  <2> QED BY <1>3, <1>4, NatInductive
<1>6. Len(s) \in N
  BY <1>2, <1>5
<1> QED BY <1>1, <1>2, <1>6

LEMMA KeepsAll ==
  ASSUME NEW S, NEW s \in Seq(S), NEW T, NEW i \in DOMAIN s, s[i] \in T
  PROVE  \E j \in DOMAIN Keep(s, T) : Keep(s, T)[j] = s[i]
<1>1. /\ Keep(s, T) \in Seq(S \cap T)
      /\ \A k \in DOMAIN s : s[k] \in T => \E j \in DOMAIN Keep(s, T) : Keep(s, T)[j] = s[k]
  BY KeepFacts
<1> QED BY <1>1

Chunk == [id : Ids, take : Nat]

TakeOf(c) == [k \in DOMAIN c |-> c[k].take]

LEMMA TakeOfFacts ==
  ASSUME NEW c \in Seq(Chunk) PROVE TakeOf(c) \in Seq(Int) /\ Len(TakeOf(c)) = Len(c)
<1>1. DOMAIN c = 1..Len(c) /\ Len(c) \in Nat /\ \A k \in 1..Len(c) : c[k] \in Chunk
  OBVIOUS
<1>1a. \A k \in 1..Len(c) : c[k].take \in Int
  BY <1>1 DEF Chunk
<1>2. TakeOf(c) \in [1..Len(c) -> Int]
  BY <1>1, <1>1a DEF TakeOf
<1> QED BY <1>1, <1>2, FunctionIsSeq

LEMMA TakeOfAppend ==
  ASSUME NEW c \in Seq(Chunk), NEW e \in Chunk
  PROVE  SumFunction(TakeOf(Append(c, e))) = SumFunction(TakeOf(c)) + e.take
<1>1. TakeOf(Append(c, e)) = Append(TakeOf(c), e.take)
  <2>1. Append(c, e) \in Seq(Chunk) /\ Len(Append(c, e)) = Len(c) + 1
    BY AppendFacts
  <2>2. TakeOf(c) \in Seq(Int) /\ Len(TakeOf(c)) = Len(c)
        /\ TakeOf(Append(c, e)) \in Seq(Int) /\ Len(TakeOf(Append(c, e))) = Len(c) + 1
    BY <2>1, TakeOfFacts
  <2>3. e.take \in Int
    BY DEF Chunk
  <2>4. Append(TakeOf(c), e.take) \in Seq(Int) /\ Len(Append(TakeOf(c), e.take)) = Len(c) + 1
    BY <2>2, <2>3, AppendFacts
  <2>5. ASSUME NEW k \in 1..(Len(c) + 1)
        PROVE  TakeOf(Append(c, e))[k] = Append(TakeOf(c), e.take)[k]
    <3>1. TakeOf(Append(c, e))[k] = Append(c, e)[k].take
      <4>1. k \in DOMAIN Append(c, e)
        BY <2>1
      <4> QED BY <4>1 DEF TakeOf
    <3>2. CASE k \in DOMAIN c
      <4>1. Append(c, e)[k] = c[k]
        BY <3>2, AppendFacts
      <4>2. k \in DOMAIN TakeOf(c) /\ TakeOf(c)[k] = c[k].take
        BY <3>2 DEF TakeOf
      <4>3. Append(TakeOf(c), e.take)[k] = TakeOf(c)[k]
        BY <2>2, <2>3, <4>2, AppendFacts
      <4> QED BY <3>1, <4>1, <4>2, <4>3
    <3>3. CASE k = Len(c) + 1
      <4>1. Append(c, e)[k] = e
        BY <3>3, AppendFacts
      <4>2. Append(TakeOf(c), e.take)[k] = e.take
        BY <2>2, <2>3, <3>3, AppendFacts
      <4> QED BY <3>1, <4>1, <4>2
    <3>4. k \in DOMAIN c \/ k = Len(c) + 1
      OBVIOUS
    <3> QED BY <3>2, <3>3, <3>4
  <2>6. \A a, b \in Seq(Int) : Len(a) = Len(b) /\ (\A k \in 1..Len(a) : a[k] = b[k]) => a = b
    BY SeqEqual
  <2> QED BY <2>2, <2>4, <2>5, <2>6
<1>2. e.take \in Int
  BY DEF Chunk
<1> QED BY <1>1, <1>2, TakeOfFacts, SumAppend

\* The n elements of s take what is between left[0] and left[n], those not in T
\* nothing.
Metered(s, T, n, left) ==
  /\ n \in Nat /\ left \in [0..n -> Nat] /\ s \in Seq(Chunk) /\ Len(s) = n
  /\ \A k \in 1..n : s[k].take = left[k-1] - left[k]
  /\ \A k \in 1..n : s[k] \notin T => s[k].take = 0

\* Dropping the chunks that take nothing drops nothing of the sum.
LEMMA KeepSum ==
  ASSUME NEW s, NEW T, NEW n, NEW left, Metered(s, T, n, left)
  PROVE  SumFunction(TakeOf(Keep(s, T))) = left[0] - left[n]
<1>0. n \in Nat /\ s \in Seq(Chunk) /\ Len(s) = n
  BY DEF Metered
<1>1. PICK f : Kept(s, T, f) /\ Keep(s, T) = f[n]
  BY <1>0, KeepIs
<1> DEFINE N == {k \in Nat : k <= n => /\ f[k] \in Seq(Chunk)
                                       /\ SumFunction(TakeOf(f[k])) = left[0] - left[k]}
<1>2. \A k \in 0..n : left[k] \in Nat
  BY DEF Metered
<1>3. \A k \in 1..n : /\ s[k] \in Chunk /\ s[k].take = left[k-1] - left[k]
                      /\ s[k] \notin T => s[k].take = 0
  BY <1>0 DEF Metered
<1>4. 0 \in N
  <2>1. f[0] = <<>>
    BY <1>1 DEF Kept
  <2>2. TakeOf(<<>>) = <<>> /\ left[0] - left[0] = 0
    BY <1>0, <1>2 DEF TakeOf
  <2>3. f[0] \in Seq(Chunk) /\ SumFunction(TakeOf(f[0])) = 0
    BY <2>1, <2>2, SumEmpty
  <2> QED BY <2>2, <2>3
<1>5. ASSUME NEW k \in Nat, k \in N PROVE k + 1 \in N
  <2> SUFFICES ASSUME k + 1 <= n
               PROVE  /\ f[k + 1] \in Seq(Chunk)
                      /\ SumFunction(TakeOf(f[k + 1])) = left[0] - left[k + 1]
    OBVIOUS
  <2>1. f[k] \in Seq(Chunk) /\ SumFunction(TakeOf(f[k])) = left[0] - left[k]
    BY <1>0, <1>5
  <2>2. f[k + 1] = IF s[k + 1] \in T THEN Append(f[k], s[k + 1]) ELSE f[k]
    <3>1. Kept(s, T, f) /\ s \in Seq(Chunk) /\ k + 1 <= Len(s)
      BY <1>0, <1>1
    <3> QED BY <3>1, KeptStep
  <2>3. /\ k + 1 \in 1..n /\ s[k + 1] \in Chunk /\ left[0] \in Nat /\ left[k] \in Nat
        /\ left[k + 1] \in Nat
    <3>1. k + 1 \in 1..n /\ 0 \in 0..n /\ k \in 0..n /\ k + 1 \in 0..n
      BY <1>0
    <3> QED BY <1>2, <1>3, <3>1
  <2>4. s[k + 1].take = left[k] - left[k + 1]
    <3>1. (k + 1) - 1 = k
      OBVIOUS
    <3>2. s[k + 1].take = left[(k + 1) - 1] - left[k + 1]
      BY <1>3, <2>3
    <3> QED BY <3>1, <3>2
  <2>5. CASE s[k + 1] \in T
    <3>1. f[k + 1] = Append(f[k], s[k + 1])
      BY <2>2, <2>5
    <3>2. f[k + 1] \in Seq(Chunk)
      BY <2>1, <2>3, <3>1, AppendFacts
    <3>3. SumFunction(TakeOf(f[k + 1])) = SumFunction(TakeOf(f[k])) + s[k + 1].take
      BY <2>1, <2>3, <3>1, TakeOfAppend
    <3> QED BY <2>1, <2>3, <2>4, <3>2, <3>3
  <2>6. CASE s[k + 1] \notin T
    <3>1. left[k] - left[k + 1] = 0 /\ f[k + 1] = f[k]
      BY <1>3, <2>2, <2>3, <2>4, <2>6
    <3> QED BY <2>1, <2>3, <3>1
  <2> QED BY <2>5, <2>6
<1>6. Nat \subseteq N
  <2> HIDE DEF N
  <2> QED BY <1>4, <1>5, NatInductive
<1>7. n \in N
  BY <1>0, <1>6
<1> QED BY <1>0, <1>1, <1>7

-----------------------------------------------------------------------------
(* The inductive invariant.  A request is known by its number n, its place *)
(* by its id; `out' ties the two together, so that a request in two places *)
(* would be one id in two places.                                          *)

Counters == [received : Nat, completed : Nat, failed : Nat, aborted : Nat]

Sent == [id : Ids, tokens : Int, ends : Nat]

Item == [n : Nat, id : Ids, kind : Kinds]

\* Nothing is said of `remaining' but that it is there: what a chunk takes from
\* it is the business of the budget.
ActiveOK(a) ==
  a \in [n : Nat, kind : Kinds, max_tokens : Nat, phase : {"prefill", "decode"},
         remaining : {a.remaining}, generated : Int, emitted : Int, pending_emits : Seq(Int)]

TypeInv ==
  /\ waiting \in Seq(Item)
  /\ IsFiniteSet(DOMAIN pending_pulls) /\ DOMAIN pending_pulls \subseteq Ids
  /\ \A i \in DOMAIN pending_pulls :
       pending_pulls[i].n \in Nat /\ pending_pulls[i].kind \in Kinds
  /\ IsFiniteSet(DOMAIN active_requests) /\ DOMAIN active_requests \subseteq Ids
  /\ \A i \in DOMAIN active_requests : ActiveOK(active_requests[i])
  /\ \A i \in DOMAIN current_step.decoders : current_step.decoders[i] \in Int
  /\ out \in Seq(Sent)
  /\ stats \in Counters
  /\ base \in Nat
  /\ pc \in {"idle", "schedule", "drain", "advertise", "abort"}
  /\ lifecycle \in {"running", "draining", "ended"}
  /\ pc = "abort" => todo \in Seq(Ids) /\ todo # <<>>

\* A request stands under the id it was sent with.
Linked ==
  /\ \A i \in DOMAIN active_requests :
       active_requests[i].n \in DOMAIN out /\ out[active_requests[i].n].id = i
  /\ \A i \in DOMAIN pending_pulls :
       pending_pulls[i].n \in DOMAIN out /\ out[pending_pulls[i].n].id = i
  /\ \A k \in DOMAIN waiting :
       waiting[k].n \in DOMAIN out /\ out[waiting[k].n].id = waiting[k].id

\* No id is in flight twice: what is_duplicate is for.
OnePlace ==
  /\ DOMAIN active_requests \cap DOMAIN pending_pulls = {}
  /\ \A k \in DOMAIN waiting :
       waiting[k].id \notin DOMAIN active_requests \cup DOMAIN pending_pulls
  /\ \A j, k \in DOMAIN waiting : j # k => waiting[j].id # waiting[k].id

EndsExact == \A n \in DOMAIN out : out[n].ends = IF n \in Unanswered THEN 0 ELSE 1

\* abort_all_requests has every request in flight on its list, and after it
\* nothing is left.
ShutdownInv ==
  lifecycle = "ended" =>
    /\ pc \in {"abort", "schedule", "idle"}
    /\ pc = "abort" => InFlight \subseteq {todo[k] : k \in DOMAIN todo}
    /\ pc # "abort" => InFlight = {}

EngineInv ==
  TypeInv /\ Linked /\ OnePlace /\ EndsExact /\ PinsMatchBatch /\ ShutdownInv

\* What a step may do to the requests and to the counters: nothing (or a reset of
\* the counters), take one, refuse one, or finish some.
Settled == stats.completed + stats.failed + stats.aborted

Quiet ==
  /\ Unanswered' = Unanswered /\ Len(out') = Len(out)
  /\ \/ UNCHANGED <<stats, base>>
     \/ stats' = NoStats /\ base' = NumUnfinished

Takes ==
  /\ Len(out) < MaxSends /\ Len(out') = Len(out) + 1
  /\ Unanswered' = Unanswered \cup {Len(out) + 1}
  /\ stats'.received = stats.received + 1 /\ Settled' = Settled /\ base' = base

Refuses ==
  /\ Len(out) < MaxSends /\ Len(out') = Len(out) + 1
  /\ Unanswered' = Unanswered
  /\ stats'.received = stats.received + 1 /\ Settled' = Settled + 1 /\ base' = base

Finishes(S) ==
  /\ S # {} /\ S \subseteq Unanswered /\ Len(out') = Len(out)
  /\ Unanswered' = Unanswered \ S
  /\ stats'.received = stats.received /\ base' = base
  /\ Settled' = Settled + Cardinality(S)

Effect == Quiet \/ Takes \/ Refuses \/ \E S \in SUBSET Unanswered : Finishes(S)

-----------------------------------------------------------------------------
\* What the handlers do to the counters.
LEMMA CounterFacts ==
  ASSUME NEW s \in Counters, NEW d \in Nat, NEW r
  PROVE  /\ r = [s EXCEPT !.received = @ + 1] =>
              /\ r \in Counters /\ r.received = s.received + 1 /\ r.completed = s.completed
              /\ r.failed = s.failed /\ r.aborted = s.aborted
         /\ r = [s EXCEPT !.failed = @ + d] =>
              /\ r \in Counters /\ r.received = s.received /\ r.completed = s.completed
              /\ r.failed = s.failed + d /\ r.aborted = s.aborted
         /\ r = [s EXCEPT !.completed = @ + d] =>
              /\ r \in Counters /\ r.received = s.received /\ r.completed = s.completed + d
              /\ r.failed = s.failed /\ r.aborted = s.aborted
         /\ r = [s EXCEPT !.aborted = @ + d] =>
              /\ r \in Counters /\ r.received = s.received /\ r.completed = s.completed
              /\ r.failed = s.failed /\ r.aborted = s.aborted + d
<1>1. r = [s EXCEPT !.received = @ + 1] =>
        /\ r \in Counters /\ r.received = s.received + 1 /\ r.completed = s.completed
        /\ r.failed = s.failed /\ r.aborted = s.aborted
  BY DEF Counters
<1>2. r = [s EXCEPT !.failed = @ + d] =>
        /\ r \in Counters /\ r.received = s.received /\ r.completed = s.completed
        /\ r.failed = s.failed + d /\ r.aborted = s.aborted
  BY DEF Counters
<1>3. r = [s EXCEPT !.completed = @ + d] =>
        /\ r \in Counters /\ r.received = s.received /\ r.completed = s.completed + d
        /\ r.failed = s.failed /\ r.aborted = s.aborted
  BY DEF Counters
<1>4. r = [s EXCEPT !.aborted = @ + d] =>
        /\ r \in Counters /\ r.received = s.received /\ r.completed = s.completed
        /\ r.failed = s.failed /\ r.aborted = s.aborted + d
  BY DEF Counters
<1> QED BY <1>1, <1>2, <1>3, <1>4

LEMMA ReceivedAndFacts ==
  ASSUME NEW s \in Counters, NEW r
  PROVE  /\ r = [s EXCEPT !.received = @ + 1, !.failed = @ + 1] =>
              /\ r \in Counters /\ r.received = s.received + 1 /\ r.completed = s.completed
              /\ r.failed = s.failed + 1 /\ r.aborted = s.aborted
         /\ r = [s EXCEPT !.received = @ + 1, !.aborted = @ + 1] =>
              /\ r \in Counters /\ r.received = s.received + 1 /\ r.completed = s.completed
              /\ r.failed = s.failed /\ r.aborted = s.aborted + 1
<1> DEFINE t == [s EXCEPT !.received = @ + 1]
<1>1. /\ t \in Counters /\ t.received = s.received + 1 /\ t.completed = s.completed
      /\ t.failed = s.failed /\ t.aborted = s.aborted
  BY CounterFacts
<1>2. /\ [s EXCEPT !.received = @ + 1, !.failed = @ + 1] = [t EXCEPT !.failed = @ + 1]
      /\ [s EXCEPT !.received = @ + 1, !.aborted = @ + 1] = [t EXCEPT !.aborted = @ + 1]
  BY DEF Counters
<1> HIDE DEF t
<1>3. ASSUME r = [t EXCEPT !.failed = @ + 1]
      PROVE  /\ r \in Counters /\ r.received = t.received /\ r.completed = t.completed
             /\ r.failed = t.failed + 1 /\ r.aborted = t.aborted
  BY <1>1, <1>3, CounterFacts
<1>4. ASSUME r = [t EXCEPT !.aborted = @ + 1]
      PROVE  /\ r \in Counters /\ r.received = t.received /\ r.completed = t.completed
             /\ r.failed = t.failed /\ r.aborted = t.aborted + 1
  BY <1>1, <1>4, CounterFacts
<1> QED BY <1>1, <1>2, <1>3, <1>4

LEMMA SentFacts ==
  /\ \A i \in Ids, e \in Nat : [id |-> i, tokens |-> 0, ends |-> e] \in Sent
  /\ \A s \in Sent :
       LET r == [s EXCEPT !.ends = @ + 1]
       IN  r \in Sent /\ r.id = s.id /\ r.ends = s.ends + 1
  BY DEF Sent

LEMMA SameInterval ==
  ASSUME NEW m \in Nat, NEW k \in Nat, 1..m = 1..k PROVE m = k
<1>1. ~(m < k)
  <2> SUFFICES ASSUME m < k PROVE FALSE
    OBVIOUS
  <2>1. k \in 1..k /\ k \notin 1..m
    OBVIOUS
  <2> QED BY <2>1
<1>2. ~(k < m)
  <2> SUFFICES ASSUME k < m PROVE FALSE
    OBVIOUS
  <2>1. m \in 1..m /\ m \notin 1..k
    OBVIOUS
  <2> QED BY <2>1
<1> QED BY <1>1, <1>2

LEMMA InitInv == Init => EngineInv
<1> SUFFICES ASSUME Init PROVE EngineInv
  OBVIOUS
<1>1. /\ waiting = <<>> /\ pending_pulls = <<>> /\ active_requests = <<>> /\ out = <<>>
      /\ current_step = NoStep /\ stats = NoStats /\ base = 0 /\ pins = {}
      /\ pc = "idle" /\ lifecycle = "running"
  BY DEF Init
<1>2. DOMAIN waiting = {} /\ DOMAIN pending_pulls = {} /\ DOMAIN active_requests = {}
      /\ DOMAIN out = {} /\ DOMAIN current_step.decoders = {}
  BY <1>1 DEF NoStep
<1>3. TypeInv
  BY <1>1, <1>2, FS_EmptySet DEF TypeInv, NoStats, Counters
<1>4. Linked /\ OnePlace /\ EndsExact /\ PinsMatchBatch /\ ShutdownInv
  BY <1>1, <1>2 DEF Linked, OnePlace, EndsExact, PinsMatchBatch, ShutdownInv
<1> QED BY <1>3, <1>4 DEF EngineInv

\* generate() changes neither the request nor its phase.
LEMMA GenerateFacts ==
  ASSUME NEW a, ActiveOK(a), NEW size \in Int
  PROVE  /\ ActiveOK(Generate(a, size))
         /\ Generate(a, size).n = a.n /\ Generate(a, size).kind = a.kind
         /\ Generate(a, size).phase = a.phase
<1> DEFINE len == Smaller(a.max_tokens - a.generated, size)
           g == [a EXCEPT !.generated = @ + len, !.pending_emits = Append(@, len)]
<1>1. len \in Int
  BY DEF Smaller, ActiveOK
<1> HIDE DEF len
<1>2. a.generated + len \in Int /\ Append(a.pending_emits, len) \in Seq(Int)
  BY <1>1 DEF ActiveOK
<1>3. /\ g.n = a.n /\ g.kind = a.kind /\ g.phase = a.phase /\ g.remaining = a.remaining
      /\ g \in [n : Nat, kind : Kinds, max_tokens : Nat, phase : {"prefill", "decode"},
                remaining : {a.remaining}, generated : Int, emitted : Int,
                pending_emits : Seq(Int)]
  BY <1>2 DEF ActiveOK
<1> HIDE DEF g
<1>4. ActiveOK(g) /\ g.n = a.n /\ g.kind = a.kind /\ g.phase = a.phase
  BY <1>3 DEF ActiveOK
<1>5. Generate(a, size) = IF len = 0 THEN a ELSE g
  BY DEF Generate, len, g
<1> QED BY <1>4, <1>5

\* A request that has all its tokens generates no more.
LEMMA GenerateStops ==
  ASSUME NEW a, ActiveOK(a), NEW size \in Nat,
         Generate(a, size).generated < Generate(a, size).max_tokens
  PROVE  a.generated < a.max_tokens
<1> DEFINE len == Smaller(a.max_tokens - a.generated, size)
           g == [a EXCEPT !.generated = @ + len, !.pending_emits = Append(@, len)]
<1>1. a.generated \in Int /\ a.max_tokens \in Nat
  BY DEF ActiveOK
<1>2. len \in Int /\ (a.generated >= a.max_tokens => len = a.max_tokens - a.generated)
  BY <1>1 DEF Smaller
<1>3. Generate(a, size) = IF len = 0 THEN a ELSE g
  BY DEF Generate
<1> HIDE DEF len
<1>4. g.generated = a.generated + len /\ g.max_tokens = a.max_tokens
  BY DEF ActiveOK
<1> HIDE DEF g
<1> QED BY <1>1, <1>2, <1>3, <1>4

\* The invariants about places depend only on these.
SamePlaces ==
  /\ UNCHANGED <<waiting, pending_pulls, out>>
  /\ DOMAIN active_requests' = DOMAIN active_requests
  /\ \A i \in DOMAIN active_requests : active_requests'[i].n = active_requests[i].n

LEMMA SamePlacesFacts ==
  ASSUME EngineInv, SamePlaces
  PROVE  /\ Unanswered' = Unanswered /\ InFlight' = InFlight /\ Len(out') = Len(out)
         /\ Linked' /\ OnePlace' /\ EndsExact'
         /\ pins' = pins => PinsMatchBatch'
<1>1. {active_requests'[i].n : i \in DOMAIN active_requests'}
        = {active_requests[i].n : i \in DOMAIN active_requests}
  BY DEF SamePlaces
<1>2. Unanswered' = Unanswered
  BY <1>1 DEF SamePlaces, Unanswered
<1>3. InFlight' = InFlight
  BY DEF SamePlaces, InFlight, WaitingIds
<1>4. Linked'
  BY DEF EngineInv, Linked, SamePlaces
<1>5. OnePlace'
  BY DEF EngineInv, OnePlace, SamePlaces
<1>6. EndsExact'
  BY <1>2 DEF EngineInv, EndsExact, SamePlaces
<1>7. pins' = pins => PinsMatchBatch'
  BY <1>1 DEF EngineInv, PinsMatchBatch, SamePlaces
<1> QED BY <1>2, <1>3, <1>4, <1>5, <1>6, <1>7 DEF SamePlaces

\* A step that leaves requests and counters alone.
LEMMA QuietInv ==
  ASSUME EngineInv, SamePlaces, ShutdownInv',
         \A i \in DOMAIN active_requests : ActiveOK(active_requests'[i]),
         \A i \in DOMAIN current_step'.decoders : current_step'.decoders[i] \in Int,
         UNCHANGED <<stats, base, pins>>,
         pc' \in {"idle", "schedule", "drain", "advertise", "abort"},
         lifecycle' \in {"running", "draining", "ended"},
         pc' = "abort" => todo' \in Seq(Ids) /\ todo' # <<>>
  PROVE  EngineInv' /\ Quiet
<1>1. TypeInv'
  BY DEF EngineInv, TypeInv, SamePlaces
<1>2. EngineInv'
  BY <1>1, SamePlacesFacts DEF EngineInv
<1> QED BY <1>2, SamePlacesFacts DEF Quiet

LEMMA ReadyRuns == Ready => lifecycle # "ended" /\ pc = "idle"
  BY DEF Ready, Ended

\* The request threads and the waits on the data plane's mutex.
LEMMA PlaneInv ==
  ASSUME EngineInv,
         \/ \E p \in pulls : PullLock(p)
         \/ \E p \in dp_owner, ok \in BOOLEAN : PullDone(p, ok)
         \/ DropPull \/ AdvertiseOne
  PROVE  EngineInv' /\ Quiet
<1>1. UNCHANGED <<waiting, pending_pulls, active_requests, current_step, stats, lifecycle, out,
                  base, pins>>
  BY DEF PullLock, PullDone, DropPull, AdvertiseOne, engine, history, session
<1>2. \/ UNCHANGED <<pc, todo>>
      \/ pc = "advertise" /\ pc' \in {"schedule", "advertise"}
  BY DEF PullLock, PullDone, DropPull, AdvertiseOne, Loop
<1>3. SamePlaces
  BY <1>1 DEF SamePlaces
<1>4. ShutdownInv'
  BY <1>1, <1>2 DEF EngineInv, ShutdownInv, InFlight, WaitingIds
<1> QED BY <1>1, <1>2, <1>3, <1>4, QuietInv DEF EngineInv, TypeInv

LEMMA ScheduleEndInv ==
  ASSUME EngineInv, ScheduleEnd PROVE EngineInv' /\ Quiet
<1>1. /\ UNCHANGED <<waiting, pending_pulls, active_requests, stats, lifecycle, out, base, pins>>
      /\ pc = "schedule" /\ pc' = "idle" /\ EnsureStep
  BY DEF ScheduleEnd, history, session
<1>2. SamePlaces
  BY <1>1 DEF SamePlaces
<1>3. ShutdownInv'
  BY <1>1 DEF EngineInv, ShutdownInv, InFlight, WaitingIds
<1>4. \A i \in DOMAIN current_step'.decoders : current_step'.decoders[i] \in Int
  <2>1. CASE ComposeStep
    <3>1. PICK draws \in [Decoders -> 1..MaxDraw] : current_step'.decoders = draws
      BY <2>1 DEF ComposeStep
    <3> QED BY <3>1, BoundsAssumption
  <2>2. CASE UNCHANGED current_step
    BY <2>2 DEF EngineInv, TypeInv
  <2> QED BY <1>1, <2>1, <2>2 DEF EnsureStep
<1> QED BY <1>1, <1>2, <1>3, <1>4, QuietInv DEF EngineInv, TypeInv

LEMMA CompleteStepInv ==
  ASSUME EngineInv, CompleteStep PROVE EngineInv' /\ Quiet
<1> DEFINE size(i) == IF current_step.decoders[i] > 1 THEN current_step.decoders[i] ELSE ChunkSize
<1>1. /\ UNCHANGED <<waiting, pending_pulls, stats, lifecycle, out, base, pins>>
      /\ Ready /\ current_step' = NoStep /\ pc' \in {"schedule", "drain"}
      /\ active_requests' =
           [i \in DOMAIN active_requests |->
              IF i \in DOMAIN current_step.decoders THEN Generate(active_requests[i], size(i))
              ELSE active_requests[i]]
  BY DEF CompleteStep, Loop, history, session
<1>2. \A i \in DOMAIN current_step.decoders : size(i) \in Int
  BY ConfigAssumption DEF EngineInv, TypeInv
<1> HIDE DEF size
<1>3. \A i \in DOMAIN active_requests :
        ActiveOK(active_requests'[i]) /\ active_requests'[i].n = active_requests[i].n
  <2> SUFFICES ASSUME NEW i \in DOMAIN active_requests
               PROVE  ActiveOK(active_requests'[i])
                      /\ active_requests'[i].n = active_requests[i].n
    OBVIOUS
  <2>1. ActiveOK(active_requests[i])
    BY DEF EngineInv, TypeInv
  <2> QED BY <1>1, <1>2, <2>1, GenerateFacts
<1>4. SamePlaces
  BY <1>1, <1>3 DEF SamePlaces
<1>5. ShutdownInv'
  BY <1>1, ReadyRuns DEF ShutdownInv
<1>6. DOMAIN current_step'.decoders = {}
  BY <1>1 DEF NoStep
<1> QED BY <1>1, <1>3, <1>4, <1>5, <1>6, QuietInv DEF EngineInv, TypeInv

\* What a drained chunk does to the requests of the batch.
LEMMA DrainChunkFacts ==
  ASSUME EngineInv, DrainChunk
  PROVE  /\ DOMAIN active_requests' = DOMAIN active_requests
         /\ \A i \in DOMAIN active_requests :
              /\ ActiveOK(active_requests'[i])
              /\ active_requests'[i].n = active_requests[i].n
              /\ active_requests'[i].kind = active_requests[i].kind
              /\ active_requests'[i].phase = "prefill" =>
                   active_requests[i].phase = "prefill"
                   /\ active_requests'[i].generated = active_requests[i].generated
              /\ active_requests'[i].generated < active_requests'[i].max_tokens =>
                   active_requests[i].generated < active_requests[i].max_tokens
<1> DEFINE i == Head(todo).id
           left == Larger(active_requests[i].remaining - Head(todo).take, 0)
           drained == [active_requests[i] EXCEPT !.phase = "decode", !.remaining = 0]
<1>1. \A j \in DOMAIN active_requests : ActiveOK(active_requests[j])
  BY DEF EngineInv, TypeInv
<1>2. CASE UNCHANGED active_requests
  BY <1>1, <1>2
<1>3. CASE /\ i \in Prefilling
           /\ active_requests' = [active_requests EXCEPT ![i].remaining = left]
  <2> HIDE DEF left, i
  <2>1. i \in DOMAIN active_requests
    BY <1>3 DEF Prefilling
  <2> DEFINE a == active_requests[i]
             b == [a EXCEPT !.remaining = left]
  <2>2. active_requests' = [active_requests EXCEPT ![i] = b]
    BY <1>3
  <2>3. /\ b.remaining = left
        /\ b \in [n : Nat, kind : Kinds, max_tokens : Nat, phase : {"prefill", "decode"},
                  remaining : {left}, generated : Int, emitted : Int, pending_emits : Seq(Int)]
        /\ b.n = a.n /\ b.kind = a.kind /\ b.phase = a.phase /\ b.generated = a.generated
        /\ b.max_tokens = a.max_tokens
    BY <1>1, <2>1 DEF ActiveOK
  <2> HIDE DEF b
  <2>4. ActiveOK(b)
    BY <2>3 DEF ActiveOK
  <2> QED BY <1>1, <2>1, <2>2, <2>3, <2>4
<1>4. CASE /\ i \in Prefilling
           /\ \E size \in {ChunkSize} \cup 1..MaxDraw :
                active_requests' = [active_requests EXCEPT ![i] = Generate(drained, size)]
  <2>1. PICK size \in {ChunkSize} \cup 1..MaxDraw :
          active_requests' = [active_requests EXCEPT ![i] = Generate(drained, size)]
    BY <1>4
  <2>2. size \in Nat /\ size \in Int
    BY ConfigAssumption, BoundsAssumption
  <2> HIDE DEF i
  <2>3. i \in DOMAIN active_requests
    BY <1>4 DEF Prefilling
  <2>4. /\ drained.remaining = 0
        /\ drained \in [n : Nat, kind : Kinds, max_tokens : Nat, phase : {"prefill", "decode"},
                        remaining : {0}, generated : Int, emitted : Int, pending_emits : Seq(Int)]
        /\ drained.n = active_requests[i].n /\ drained.kind = active_requests[i].kind
        /\ drained.phase = "decode" /\ drained.generated = active_requests[i].generated
        /\ drained.max_tokens = active_requests[i].max_tokens
    BY <1>1, <2>3 DEF ActiveOK
  <2> HIDE DEF drained
  <2>5. ActiveOK(drained)
    BY <2>4 DEF ActiveOK
  <2>6. /\ ActiveOK(Generate(drained, size))
        /\ Generate(drained, size).n = active_requests[i].n
        /\ Generate(drained, size).kind = active_requests[i].kind
        /\ Generate(drained, size).phase = "decode"
    BY <2>2, <2>4, <2>5, GenerateFacts
  <2>7. Generate(drained, size).generated < Generate(drained, size).max_tokens =>
          active_requests[i].generated < active_requests[i].max_tokens
    BY <2>2, <2>4, <2>5, GenerateStops
  <2> QED BY <1>1, <2>1, <2>3, <2>6, <2>7
<1>5. \/ UNCHANGED active_requests
      \/ i \in Prefilling /\ active_requests' = [active_requests EXCEPT ![i].remaining = left]
      \/ /\ i \in Prefilling
         /\ \E size \in {ChunkSize} \cup 1..MaxDraw :
              active_requests' = [active_requests EXCEPT ![i] = Generate(drained, size)]
  <2> HIDE DEF i, left, drained
  <2>1. CASE i \notin Prefilling
    BY <2>1 DEF DrainChunk, i
  <2>2. CASE i \in Prefilling /\ left > 0
    BY <2>2 DEF DrainChunk, i, left
  <2>3. CASE i \in Prefilling /\ ~(left > 0)
    BY <2>3 DEF DrainChunk, i, left, drained
  <2> QED BY <2>1, <2>2, <2>3
<1> QED BY <1>2, <1>3, <1>4, <1>5

LEMMA DrainChunkInv ==
  ASSUME EngineInv, DrainChunk PROVE EngineInv' /\ Quiet
<1>1. /\ UNCHANGED <<waiting, pending_pulls, current_step, stats, lifecycle, out, base, pins>>
      /\ pc = "drain" /\ pc' \in {"schedule", "drain"}
  BY DEF DrainChunk, Loop, history, session
<1>2. SamePlaces
  BY <1>1, DrainChunkFacts DEF SamePlaces
<1>3. ShutdownInv'
  BY <1>1 DEF EngineInv, ShutdownInv
<1> QED BY <1>1, <1>2, <1>3, DrainChunkFacts, QuietInv DEF EngineInv, TypeInv

-----------------------------------------------------------------------------
(* Messages                                                                *)

\* A request that is answered at once: a duplicate, a failure, or one that comes
\* during the drain.
LEMMA RefuseInv ==
  ASSUME EngineInv, NEW i \in Ids,
         AddDuplicate(i) \/ AddFailed(i) \/ RejectRequest(i)
  PROVE  EngineInv' /\ Refuses
<1> DEFINE new == [id |-> i, tokens |-> 0, ends |-> 1]
<1>1. /\ UNCHANGED <<engine, pc, todo, lifecycle, base, pins>>
      /\ Len(out) < MaxSends /\ out' = Append(out, new)
      /\ stats'.received = stats.received + 1 /\ Settled' = Settled + 1
      /\ stats' \in Counters
  <2>1. stats \in Counters
    BY DEF EngineInv, TypeInv
  <2>2. Receive(i, 1) /\ UNCHANGED <<engine, pc, todo, lifecycle, base, pins>>
    BY DEF AddDuplicate, AddFailed, RejectRequest, Receive, session
  <2>3. \/ stats' = [stats EXCEPT !.received = @ + 1, !.failed = @ + 1]
        \/ stats' = [stats EXCEPT !.received = @ + 1, !.aborted = @ + 1]
    BY DEF AddDuplicate, AddFailed, RejectRequest
  <2>4. /\ stats'.received = stats.received + 1 /\ Settled' = Settled + 1
        /\ stats' \in Counters
    <3>1. CASE stats' = [stats EXCEPT !.received = @ + 1, !.failed = @ + 1]
      <4>1. /\ stats' \in Counters /\ stats'.received = stats.received + 1
            /\ stats'.completed = stats.completed /\ stats'.failed = stats.failed + 1
            /\ stats'.aborted = stats.aborted
        BY <2>1, <3>1, ReceivedAndFacts
      <4> QED BY <2>1, <4>1 DEF Settled, Counters
    <3>2. CASE stats' = [stats EXCEPT !.received = @ + 1, !.aborted = @ + 1]
      <4>1. /\ stats' \in Counters /\ stats'.received = stats.received + 1
            /\ stats'.completed = stats.completed /\ stats'.failed = stats.failed
            /\ stats'.aborted = stats.aborted + 1
        BY <2>1, <3>2, ReceivedAndFacts
      <4> QED BY <2>1, <4>1 DEF Settled, Counters
    <3> QED BY <2>3, <3>1, <3>2
  <2> QED BY <2>2, <2>4 DEF Receive
<1>2. /\ out \in Seq(Sent)
      /\ new \in Sent
  BY SentFacts DEF EngineInv, TypeInv
<1>3. /\ out' \in Seq(Sent)
      /\ Len(out') = Len(out) + 1 /\ out'[Len(out) + 1] = new
      /\ DOMAIN out' = DOMAIN out \cup {Len(out) + 1} /\ Len(out) + 1 \notin DOMAIN out
      /\ \A n \in DOMAIN out : out'[n] = out[n]
  <2> HIDE DEF new
  <2> QED BY <1>1, <1>2, AppendFacts
<1>4. Unanswered' = Unanswered /\ InFlight' = InFlight
  BY <1>1 DEF engine, Unanswered, InFlight, WaitingIds
<1>5. TypeInv'
  BY <1>1, <1>3 DEF EngineInv, TypeInv, engine
<1>6. Linked' /\ OnePlace' /\ PinsMatchBatch'
  BY <1>1, <1>3 DEF EngineInv, Linked, OnePlace, PinsMatchBatch, engine
<1>7. Unanswered \subseteq DOMAIN out
  BY DEF EngineInv, Linked, Unanswered
<1>8. EndsExact'
  BY <1>3, <1>4, <1>7 DEF EngineInv, EndsExact
<1>9. ShutdownInv'
  BY <1>1, <1>4 DEF EngineInv, ShutdownInv
<1> QED BY <1>1, <1>3, <1>4, <1>5, <1>6, <1>8, <1>9 DEF EngineInv, Refuses

LEMMA QueueInv ==
  ASSUME EngineInv, NEW i \in Ids, NEW kind \in Kinds, AddQueued(i, kind)
  PROVE  EngineInv' /\ Takes
<1> DEFINE new == [id |-> i, tokens |-> 0, ends |-> 0]
           item == [n |-> Len(out) + 1, id |-> i, kind |-> kind]
<1>1. /\ UNCHANGED <<pending_pulls, active_requests, current_step, lifecycle, base, pins>>
      /\ Ready /\ i \notin InFlight /\ pc' = "schedule"
      /\ Len(out) < MaxSends /\ out' = Append(out, new) /\ waiting' = Append(waiting, item)
      /\ stats'.received = stats.received + 1 /\ Settled' = Settled
      /\ stats' \in Counters
  <2>1. stats \in Counters
    BY DEF EngineInv, TypeInv
  <2>2. /\ stats' \in Counters /\ stats'.received = stats.received + 1
        /\ stats'.completed = stats.completed /\ stats'.failed = stats.failed
        /\ stats'.aborted = stats.aborted
    BY <2>1, CounterFacts DEF AddQueued
  <2>3. Settled' = Settled
    BY <2>2 DEF Settled
  <2> QED BY <2>2, <2>3 DEF AddQueued, Receive, IsDuplicate, session
<1>2. /\ out \in Seq(Sent)
      /\ new \in Sent
      /\ waiting \in Seq(Item) /\ item \in Item
  BY SentFacts DEF EngineInv, TypeInv, Item
<1>3. /\ out' \in Seq(Sent)
      /\ Len(out') = Len(out) + 1 /\ out'[Len(out) + 1] = new
      /\ DOMAIN out' = DOMAIN out \cup {Len(out) + 1} /\ Len(out) + 1 \notin DOMAIN out
      /\ \A n \in DOMAIN out : out'[n] = out[n]
  <2>1. out' = Append(out, new)
    BY <1>1
  <2> HIDE DEF new, item
  <2> QED BY <1>2, <2>1, AppendFacts
<1>4. /\ waiting' \in Seq(Item)
      /\ DOMAIN waiting' = DOMAIN waiting \cup {Len(waiting) + 1}
      /\ waiting'[Len(waiting) + 1] = item /\ Len(waiting) + 1 \notin DOMAIN waiting
      /\ \A k \in DOMAIN waiting : waiting'[k] = waiting[k]
  <2>1. waiting' = Append(waiting, item)
    BY <1>1
  <2> HIDE DEF new, item
  <2> QED BY <1>2, <2>1, AppendFacts
<1>5. Unanswered' = Unanswered \cup {Len(out) + 1}
  BY <1>1, <1>4 DEF Unanswered
<1>6. TypeInv'
  BY <1>1, <1>3, <1>4 DEF EngineInv, TypeInv
<1>7. Linked'
  <2>1. /\ \A j \in DOMAIN active_requests : active_requests[j].n \in DOMAIN out
        /\ \A j \in DOMAIN pending_pulls : pending_pulls[j].n \in DOMAIN out
        /\ \A k \in DOMAIN waiting : waiting[k].n \in DOMAIN out
    BY DEF EngineInv, Linked
  <2>2. ASSUME NEW k \in DOMAIN waiting'
        PROVE  waiting'[k].n \in DOMAIN out' /\ out'[waiting'[k].n].id = waiting'[k].id
    BY <1>3, <1>4, <2>1 DEF EngineInv, Linked
  <2>3. \A n \in DOMAIN out : n \in DOMAIN out' /\ out'[n] = out[n]
    BY <1>3
  <2>4. \A j \in DOMAIN active_requests' :
          active_requests'[j].n \in DOMAIN out' /\ out'[active_requests'[j].n].id = j
    BY <1>1, <2>1, <2>3 DEF EngineInv, Linked
  <2>5. \A j \in DOMAIN pending_pulls' :
          pending_pulls'[j].n \in DOMAIN out' /\ out'[pending_pulls'[j].n].id = j
    BY <1>1, <2>1, <2>3 DEF EngineInv, Linked
  <2> QED BY <2>2, <2>4, <2>5 DEF Linked
<1>8. OnePlace'
  BY <1>1, <1>4 DEF EngineInv, OnePlace, InFlight, WaitingIds
<1>9. PinsMatchBatch'
  BY <1>1 DEF EngineInv, PinsMatchBatch
<1>10. Unanswered \subseteq DOMAIN out
  BY DEF EngineInv, Linked, Unanswered
<1>11. EndsExact'
  BY <1>3, <1>5, <1>10 DEF EngineInv, EndsExact
<1>12. ShutdownInv'
  BY <1>1, ReadyRuns DEF ShutdownInv
<1> QED BY <1>1, <1>3, <1>5, <1>6, <1>7, <1>8, <1>9, <1>11, <1>12 DEF EngineInv, Takes

\* Every id in flight is on the list of abort_all_requests.
LEMMA AbortAllComplete ==
  ASSUME EngineInv, NEW a \in SetToSeqs(DOMAIN active_requests),
         NEW p \in SetToSeqs(DOMAIN pending_pulls), NEW s, s = AbortAllIds(a, p)
  PROVE  s \in Seq(Ids) /\ InFlight \subseteq {s[k] : k \in DOMAIN s}
<1> DEFINE w == [k \in DOMAIN waiting |-> waiting[k].id]
<1>2. /\ a \in Seq(Ids) /\ \A x \in DOMAIN active_requests : \E k \in DOMAIN a : a[k] = x
      /\ p \in Seq(Ids) /\ \A x \in DOMAIN pending_pulls : \E k \in DOMAIN p : p[k] = x
  <2>1. /\ IsFiniteSet(DOMAIN active_requests) /\ DOMAIN active_requests \subseteq Ids
        /\ IsFiniteSet(DOMAIN pending_pulls) /\ DOMAIN pending_pulls \subseteq Ids
    BY DEF EngineInv, TypeInv
  <2>2. /\ a \in Seq(DOMAIN active_requests)
        /\ \A x \in DOMAIN active_requests : \E k \in DOMAIN a : a[k] = x
    BY <2>1, SetToSeqsFacts
  <2>3. /\ p \in Seq(DOMAIN pending_pulls)
        /\ \A x \in DOMAIN pending_pulls : \E k \in DOMAIN p : p[k] = x
    BY <2>1, SetToSeqsFacts
  <2> QED BY <2>1, <2>2, <2>3, SeqMonotonic
<1>3. w \in Seq(Ids) /\ DOMAIN w = DOMAIN waiting /\ \A k \in DOMAIN w : w[k] = waiting[k].id
  <2>1. waiting \in Seq(Item) /\ DOMAIN waiting = 1..Len(waiting) /\ Len(waiting) \in Nat
    BY DEF EngineInv, TypeInv
  <2>2. \A k \in 1..Len(waiting) : waiting[k].id \in Ids
    <3>1. \A k \in 1..Len(waiting) : waiting[k] \in Item
      BY <2>1
    <3> QED BY <3>1 DEF Item
  <2>3. w = [k \in 1..Len(waiting) |-> waiting[k].id]
    BY <2>1
  <2> HIDE DEF w
  <2> QED BY <2>1, <2>2, <2>3
<1> HIDE DEF w
<1>4. /\ a \o p \in Seq(Ids) /\ Len(a \o p) = Len(a) + Len(p)
      /\ \A k \in 1..Len(a) : (a \o p)[k] = a[k]
      /\ \A k \in 1..Len(p) : (a \o p)[Len(a) + k] = p[k]
  BY <1>2
<1> DEFINE ap == a \o p
<1> HIDE DEF ap
<1>5. /\ ap \o w \in Seq(Ids) /\ Len(ap \o w) = Len(ap) + Len(w)
      /\ \A k \in 1..Len(ap) : (ap \o w)[k] = ap[k]
      /\ \A k \in 1..Len(w) : (ap \o w)[Len(ap) + k] = w[k]
  BY <1>3, <1>4 DEF ap
<1>6. s = ap \o w
  BY DEF ap, w, AbortAllIds
<1>7. /\ Len(a) \in Nat /\ Len(p) \in Nat /\ Len(w) \in Nat /\ Len(ap) = Len(a) + Len(p)
      /\ DOMAIN a = 1..Len(a) /\ DOMAIN p = 1..Len(p) /\ DOMAIN w = 1..Len(w)
      /\ DOMAIN s = 1..(Len(a) + Len(p) + Len(w))
  BY <1>2, <1>3, <1>4, <1>5, <1>6 DEF ap
<1>8. ASSUME NEW k \in DOMAIN a PROVE k \in DOMAIN s /\ s[k] = a[k]
  BY <1>4, <1>5, <1>6, <1>7 DEF ap
<1>9. ASSUME NEW k \in DOMAIN p PROVE Len(a) + k \in DOMAIN s /\ s[Len(a) + k] = p[k]
  <2>1. Len(a) + k \in 1..Len(ap) /\ Len(a) + k \in DOMAIN s
    BY <1>7
  <2> QED BY <1>4, <1>5, <1>6, <1>7, <2>1 DEF ap
<1>10. ASSUME NEW k \in DOMAIN w PROVE Len(ap) + k \in DOMAIN s /\ s[Len(ap) + k] = w[k]
  BY <1>5, <1>6, <1>7
<1>11. \A x \in DOMAIN active_requests : \E k \in DOMAIN s : s[k] = x
  BY <1>2, <1>8
<1>12. \A x \in DOMAIN pending_pulls : \E k \in DOMAIN s : s[k] = x
  BY <1>2, <1>9
<1>13. \A j \in DOMAIN waiting : \E k \in DOMAIN s : s[k] = waiting[j].id
  BY <1>3, <1>10
<1>14. ASSUME NEW x \in InFlight PROVE \E k \in DOMAIN s : s[k] = x
  BY <1>11, <1>12, <1>13 DEF InFlight, WaitingIds
<1> QED BY <1>5, <1>6, <1>14

\* The messages that only set the handler going or change the configuration.
LEMMA InputInv ==
  ASSUME EngineInv,
         \/ \E s \in AbortLists : Abort(s)
         \/ \E c \in Configs : PatchConfig(c)
         \/ StartDrain
  PROVE  EngineInv' /\ Quiet
<1>1. /\ UNCHANGED <<engine, stats, history>>
      /\ Ready /\ lifecycle' \in {lifecycle, "draining"}
  BY DEF Abort, PatchConfig, StartDrain, Input
<1>2. pc' \in {"idle", "schedule", "abort"}
  BY <1>1, ReadyRuns DEF Abort, PatchConfig, StartDrain, Loop
<1>3. pc' = "abort" => todo' \in Seq(Ids) /\ todo' # <<>>
  <2> SUFFICES ASSUME pc' = "abort" PROVE todo' \in Seq(Ids) /\ todo' # <<>>
    OBVIOUS
  <2>1. CASE \E s \in AbortLists : Abort(s)
    <3>0. PICK s \in AbortLists : Abort(s)
      BY <2>1
    <3>1. PICK k \in 1..MaxAbort : s \in [1..k -> Ids]
      BY DEF AbortLists
    <3>2. todo' = s
      BY <3>0 DEF Abort, Loop
    <3>3. k \in Nat /\ k > 0
      BY BoundsAssumption
    <3>4. s \in Seq(Ids) /\ Len(s) = k
      BY <3>1, <3>3
    <3> QED BY <3>2, <3>3, <3>4
  <2>2. CASE \E c \in Configs : PatchConfig(c)
    BY <2>2 DEF PatchConfig
  <2>3. CASE StartDrain
    BY <2>3, ReadyRuns DEF StartDrain
  <2> QED BY <2>1, <2>2, <2>3
<1>4. SamePlaces
  BY <1>1 DEF SamePlaces, engine, history
<1>5. ShutdownInv'
  BY <1>1, ReadyRuns DEF ShutdownInv
<1>6. \A i \in DOMAIN active_requests : ActiveOK(active_requests'[i])
  BY <1>1 DEF EngineInv, TypeInv, engine
<1>7. \A i \in DOMAIN current_step'.decoders : current_step'.decoders[i] \in Int
  BY <1>1 DEF EngineInv, TypeInv, engine
<1>8. lifecycle' \in {"running", "draining", "ended"}
  BY <1>1 DEF EngineInv, TypeInv
<1>9. UNCHANGED <<stats, base, pins>>
  BY <1>1 DEF history
<1> QED BY <1>2, <1>3, <1>4, <1>5, <1>6, <1>7, <1>8, <1>9, QuietInv

LEMMA AbortAllInv ==
  ASSUME EngineInv, AbortAll PROVE EngineInv' /\ Quiet
<1>1. PICK a \in SetToSeqs(DOMAIN active_requests), p \in SetToSeqs(DOMAIN pending_pulls) :
        Loop("abort", AbortAllIds(a, p))
  BY DEF AbortAll
<1>2. PICK s : s = AbortAllIds(a, p)
  OBVIOUS
<1>3. s \in Seq(Ids) /\ InFlight \subseteq {s[k] : k \in DOMAIN s}
  BY <1>2, AbortAllComplete
<1>4. todo' = s /\ pc' = IF s = <<>> THEN "schedule" ELSE "abort"
  BY <1>1, <1>2 DEF Loop
<1>5. UNCHANGED <<engine, stats, history>> /\ lifecycle' = "ended"
  BY DEF AbortAll
<1>6. SamePlaces
  BY <1>5 DEF SamePlaces, engine, history
<1>7. InFlight' = InFlight
  BY <1>6, SamePlacesFacts
<1>8. ShutdownInv'
  <2>1. CASE s = <<>>
    <3>1. DOMAIN s = {}
      BY <2>1
    <3> QED BY <1>3, <1>4, <1>7, <2>1, <3>1 DEF ShutdownInv
  <2>2. CASE s # <<>>
    BY <1>3, <1>4, <1>7, <2>2 DEF ShutdownInv
  <2> QED BY <2>1, <2>2
<1>9. /\ \A i \in DOMAIN active_requests : ActiveOK(active_requests'[i])
      /\ \A i \in DOMAIN current_step'.decoders : current_step'.decoders[i] \in Int
  BY <1>5 DEF EngineInv, TypeInv, engine
<1>10. UNCHANGED <<stats, base, pins>>
  BY <1>5 DEF history
<1> QED BY <1>3, <1>4, <1>5, <1>6, <1>8, <1>9, <1>10, QuietInv

LEMMA CountsAreNat ==
  ASSUME EngineInv
  PROVE  /\ Cardinality(DOMAIN active_requests) \in Nat
         /\ Cardinality(DOMAIN pending_pulls) \in Nat
         /\ Len(waiting) \in Nat /\ NumUnfinished \in Nat
<1>1. IsFiniteSet(DOMAIN active_requests) /\ IsFiniteSet(DOMAIN pending_pulls)
      /\ Len(waiting) \in Nat
  BY DEF EngineInv, TypeInv
<1>2. Cardinality(DOMAIN active_requests) \in Nat /\ Cardinality(DOMAIN pending_pulls) \in Nat
  BY <1>1, FS_CardinalityType
<1> QED BY <1>1, <1>2 DEF NumUnfinished

\* The two resets of the control API.
LEMMA ResetInv ==
  ASSUME EngineInv, ResetStats \/ ResetPrefixCache PROVE EngineInv' /\ Quiet
<1>1. UNCHANGED <<engine, pc, todo, lifecycle, out>>
  BY DEF ResetStats, ResetPrefixCache, Input
<1>2. \/ stats' = NoStats /\ base' = NumUnfinished /\ pins' = pins
      \/ /\ UNCHANGED <<stats, base>>
         /\ \/ pins' = pins
            \/ DOMAIN active_requests = {} /\ DOMAIN pending_pulls = {} /\ pins' = {}
  BY DEF ResetStats, ResetPrefixCache
<1>3. SamePlaces
  BY <1>1 DEF SamePlaces, engine
<1>4. Unanswered' = Unanswered /\ InFlight' = InFlight /\ Len(out') = Len(out)
      /\ Linked' /\ OnePlace' /\ EndsExact'
  BY <1>3, SamePlacesFacts
<1>5. PinsMatchBatch'
  <2>1. CASE pins' = pins
    BY <1>3, <2>1, SamePlacesFacts
  <2>2. CASE DOMAIN active_requests = {} /\ DOMAIN pending_pulls = {} /\ pins' = {}
    BY <1>1, <2>2 DEF PinsMatchBatch, engine
  <2> QED BY <1>2, <2>1, <2>2
<1>6. stats' \in Counters /\ base' \in Nat
  BY <1>2, CountsAreNat DEF EngineInv, TypeInv, NoStats, Counters
<1>7. TypeInv'
  BY <1>1, <1>6 DEF EngineInv, TypeInv, engine
<1>8. ShutdownInv'
  BY <1>1, <1>4 DEF EngineInv, ShutdownInv
<1>9. EngineInv'
  BY <1>4, <1>5, <1>7, <1>8 DEF EngineInv
<1> QED BY <1>2, <1>4, <1>9 DEF Quiet

-----------------------------------------------------------------------------
(* Requests that change place                                              *)

\* A number tells where its request is: no two requests in flight share it.
LEMMA NumbersDistinct ==
  ASSUME EngineInv
  PROVE  /\ \A i, j \in DOMAIN active_requests :
              active_requests[i].n = active_requests[j].n => i = j
         /\ \A i, j \in DOMAIN pending_pulls : pending_pulls[i].n = pending_pulls[j].n => i = j
         /\ \A j, k \in DOMAIN waiting : waiting[j].n = waiting[k].n => j = k
         /\ \A i \in DOMAIN active_requests, j \in DOMAIN pending_pulls :
              active_requests[i].n # pending_pulls[j].n
         /\ \A i \in DOMAIN active_requests, k \in DOMAIN waiting :
              active_requests[i].n # waiting[k].n
         /\ \A i \in DOMAIN pending_pulls, k \in DOMAIN waiting :
              pending_pulls[i].n # waiting[k].n
<1>1. /\ \A i \in DOMAIN active_requests : out[active_requests[i].n].id = i
      /\ \A i \in DOMAIN pending_pulls : out[pending_pulls[i].n].id = i
      /\ \A k \in DOMAIN waiting : out[waiting[k].n].id = waiting[k].id
  BY DEF EngineInv, Linked
<1>2. /\ DOMAIN active_requests \cap DOMAIN pending_pulls = {}
      /\ \A k \in DOMAIN waiting :
           waiting[k].id \notin DOMAIN active_requests \cup DOMAIN pending_pulls
      /\ \A j, k \in DOMAIN waiting : j # k => waiting[j].id # waiting[k].id
  BY DEF EngineInv, OnePlace
<1>3. /\ \A i, j \in DOMAIN active_requests :
           active_requests[i].n = active_requests[j].n => i = j
      /\ \A i, j \in DOMAIN pending_pulls : pending_pulls[i].n = pending_pulls[j].n => i = j
  BY <1>1
<1>4. \A j, k \in DOMAIN waiting : waiting[j].n = waiting[k].n => j = k
  BY <1>1, <1>2
<1>5. \A i \in DOMAIN active_requests, j \in DOMAIN pending_pulls :
        active_requests[i].n # pending_pulls[j].n
  BY <1>1, <1>2
<1>6. \A i \in DOMAIN active_requests, k \in DOMAIN waiting : active_requests[i].n # waiting[k].n
  BY <1>1, <1>2
<1>7. \A i \in DOMAIN pending_pulls, k \in DOMAIN waiting : pending_pulls[i].n # waiting[k].n
  BY <1>1, <1>2
<1> QED BY <1>3, <1>4, <1>5, <1>6, <1>7

WaitingNs == {waiting[k].n : k \in DOMAIN waiting}

PullNs == {pending_pulls[i].n : i \in DOMAIN pending_pulls}

ActiveNs == {active_requests[i].n : i \in DOMAIN active_requests}

\* The pulls without the one of i.
LEMMA PullsWithout ==
  ASSUME EngineInv, NEW i \in DOMAIN pending_pulls,
         DOMAIN pending_pulls' = DOMAIN pending_pulls \ {i},
         \A j \in DOMAIN pending_pulls' : pending_pulls'[j] = pending_pulls[j]
  PROVE  PullNs' = PullNs \ {pending_pulls[i].n}
<1>1. \A j \in DOMAIN pending_pulls : pending_pulls[j].n = pending_pulls[i].n => j = i
  BY NumbersDistinct
<1>2. PullNs' = {pending_pulls[j].n : j \in DOMAIN pending_pulls \ {i}}
  BY DEF PullNs
<1> QED BY <1>1, <1>2 DEF PullNs

\* q has been taken from the queue or from the pending pulls.
Taken(q) ==
  /\ q \in Item /\ q.n \in DOMAIN out /\ out[q.n].id = q.id
  /\ q.n \in Unanswered \ ActiveNs /\ q.id \notin DOMAIN active_requests
  /\ waiting' \in Seq(Item)
  /\ \A k \in DOMAIN waiting' : \E j \in DOMAIN waiting :
       waiting'[k] = waiting[j] /\ waiting[j].id # q.id
  /\ \A j, k \in DOMAIN waiting' : j # k => waiting'[j].id # waiting'[k].id
  /\ DOMAIN pending_pulls' = DOMAIN pending_pulls \ {q.id}
  /\ \A i \in DOMAIN pending_pulls' : pending_pulls'[i] = pending_pulls[i]
  /\ WaitingNs' = WaitingNs \ {q.n}
  /\ PullNs' = PullNs \ {q.n}

\* The queue without its k-th request.
LEMMA QueueWithout ==
  ASSUME EngineInv, NEW k \in DOMAIN waiting, waiting' = RemoveAt(waiting, k)
  PROVE  /\ waiting[k] \in Item /\ waiting[k].n \in DOMAIN out
         /\ out[waiting[k].n].id = waiting[k].id
         /\ waiting[k].n \in Unanswered \ (ActiveNs \cup PullNs)
         /\ waiting[k].id \notin DOMAIN active_requests \cup DOMAIN pending_pulls
         /\ waiting' \in Seq(Item)
         /\ \A i \in DOMAIN waiting' : \E j \in DOMAIN waiting :
              waiting'[i] = waiting[j] /\ waiting[j].id # waiting[k].id
         /\ \A i, j \in DOMAIN waiting' : i # j => waiting'[i].id # waiting'[j].id
         /\ WaitingNs' = WaitingNs \ {waiting[k].n}
         /\ Len(waiting') = Len(waiting) - 1
<1> DEFINE w == RemoveAt(waiting, k)
<1>1. waiting \in Seq(Item) /\ k \in 1..Len(waiting) /\ DOMAIN waiting = 1..Len(waiting)
  BY DEF EngineInv, TypeInv
<1>2. w \in Seq(Item) /\ Len(w) = Len(waiting) - 1
  BY <1>1, RemoveAtFacts
<1>3. \A i \in DOMAIN waiting \ {k} : \E j \in DOMAIN w : w[j] = waiting[i]
  BY <1>1, RemoveAtElements
<1>3a. \E at \in [DOMAIN w -> DOMAIN waiting \ {k}] :
         /\ \A j \in DOMAIN w : w[j] = waiting[at[j]]
         /\ \A i, j \in DOMAIN w : i # j => at[i] # at[j]
  BY <1>1, RemoveAtElements
<1>3b. PICK at \in [DOMAIN w -> DOMAIN waiting \ {k}] :
         /\ \A j \in DOMAIN w : w[j] = waiting[at[j]]
         /\ \A i, j \in DOMAIN w : i # j => at[i] # at[j]
  BY <1>3a
<1>4. waiting' = w
  OBVIOUS
<1> HIDE DEF w
<1>5. \A i, j \in DOMAIN waiting : i # j => waiting[i].id # waiting[j].id
  BY DEF EngineInv, OnePlace
<1>6. waiting[k] \in Item
  BY <1>1
<1>7. waiting[k].n \in DOMAIN out /\ out[waiting[k].n].id = waiting[k].id
  BY DEF EngineInv, Linked
<1>8. waiting[k].n \in Unanswered \ (ActiveNs \cup PullNs)
  BY NumbersDistinct DEF Unanswered, ActiveNs, PullNs
<1>9. waiting[k].id \notin DOMAIN active_requests \cup DOMAIN pending_pulls
  BY DEF EngineInv, OnePlace
<1>10. \A i \in DOMAIN w : \E j \in DOMAIN waiting : w[i] = waiting[j] /\ waiting[j].id # waiting[k].id
  BY <1>3b, <1>5
<1>11. \A i, j \in DOMAIN w : i # j => w[i].id # w[j].id
  BY <1>3b, <1>5
<1>12. WaitingNs' = {w[j].n : j \in DOMAIN w}
  BY <1>4 DEF WaitingNs
<1>13. {w[j].n : j \in DOMAIN w} = WaitingNs \ {waiting[k].n}
  <2>1. ASSUME NEW j \in DOMAIN w PROVE w[j].n \in WaitingNs \ {waiting[k].n}
    <3>1. PICK i \in DOMAIN waiting \ {k} : w[j] = waiting[i]
      BY <1>3b
    <3> QED BY <3>1, NumbersDistinct DEF WaitingNs
  <2>2. ASSUME NEW n \in WaitingNs \ {waiting[k].n} PROVE \E j \in DOMAIN w : w[j].n = n
    <3>1. PICK i \in DOMAIN waiting \ {k} : n = waiting[i].n
      BY DEF WaitingNs
    <3>2. PICK j \in DOMAIN w : w[j] = waiting[i]
      BY <1>3
    <3> QED BY <3>1, <3>2
  <2> QED BY <2>1, <2>2
<1> QED BY <1>2, <1>4, <1>6, <1>7, <1>8, <1>9, <1>10, <1>11, <1>12, <1>13

LEMMA TakenFromQueue ==
  ASSUME EngineInv, NEW k \in DOMAIN waiting, waiting' = RemoveAt(waiting, k),
         UNCHANGED pending_pulls
  PROVE  Taken(waiting[k])
<1>1. PullNs' = PullNs \ {waiting[k].n}
  BY QueueWithout DEF PullNs
<1>2. DOMAIN pending_pulls' = DOMAIN pending_pulls \ {waiting[k].id}
  BY DEF EngineInv, OnePlace
<1> QED BY <1>1, <1>2, QueueWithout DEF Taken

LEMMA TakenFromPulls ==
  ASSUME EngineInv, NEW i \in DOMAIN pending_pulls, UNCHANGED waiting,
         pending_pulls' = Drop(pending_pulls, {i}),
         NEW q, q = [n |-> pending_pulls[i].n, id |-> i, kind |-> pending_pulls[i].kind]
  PROVE  Taken(q)
<1>1. /\ q \in Item /\ q.n \in DOMAIN out /\ out[q.n].id = q.id /\ q.n \in Unanswered
      /\ q.n = pending_pulls[i].n /\ q.id = i
  BY DEF EngineInv, TypeInv, Linked, Item, Unanswered
<1>2. q.id \notin DOMAIN active_requests /\ \A k \in DOMAIN waiting : waiting[k].id # q.id
  BY <1>1 DEF EngineInv, OnePlace
<1>3. /\ waiting' \in Seq(Item)
      /\ \A j, k \in DOMAIN waiting' : j # k => waiting'[j].id # waiting'[k].id
  BY DEF EngineInv, TypeInv, OnePlace
<1>4. /\ DOMAIN pending_pulls' = DOMAIN pending_pulls \ {i}
      /\ \A j \in DOMAIN pending_pulls' : pending_pulls'[j] = pending_pulls[j]
  BY DEF Drop
<1>5. PullNs' = PullNs \ {q.n}
  BY <1>1, <1>4, PullsWithout
<1>6. WaitingNs' = WaitingNs \ {q.n}
  BY <1>1, NumbersDistinct DEF WaitingNs
<1>7. q.n \notin ActiveNs
  BY <1>1, NumbersDistinct DEF ActiveNs
<1> QED BY <1>1, <1>2, <1>3, <1>4, <1>5, <1>6, <1>7 DEF Taken

\* The request joins the batch.
LEMMA ActivateInv ==
  ASSUME EngineInv, NEW q, Taken(q), Activate(q), UNCHANGED <<current_step, lifecycle, base>>,
         pc' = "schedule", lifecycle # "ended"
  PROVE  EngineInv' /\ Quiet
<1> DEFINE local == q.kind.mode \in {"local", "advertise"}
<1>1. PICK max_tokens \in Lengths(q.kind), remaining \in 1..MaxPrompt :
        active_requests' =
          Put(active_requests, q.id,
              [n |-> q.n, kind |-> q.kind, max_tokens |-> max_tokens,
               phase |-> IF local THEN "prefill" ELSE "decode",
               remaining |-> IF local THEN remaining ELSE 0,
               generated |-> 0, emitted |-> 0, pending_emits |-> <<>>])
  BY DEF Activate
<1> DEFINE a == [n |-> q.n, kind |-> q.kind, max_tokens |-> max_tokens,
                 phase |-> IF local THEN "prefill" ELSE "decode",
                 remaining |-> IF local THEN remaining ELSE 0,
                 generated |-> 0, emitted |-> 0, pending_emits |-> <<>>]
<1>2. q \in Item /\ q.n \in Nat /\ q.id \in Ids /\ q.kind \in Kinds
  BY DEF Taken, Item
<1>3. ActiveOK(a) /\ a.n = q.n
  <2>1. max_tokens \in Nat
    BY <1>2, KindsAssumption DEF Lengths
  <2> HIDE DEF local
  <2> QED BY <1>2, <2>1 DEF ActiveOK
<1>4. active_requests' = Put(active_requests, q.id, a)
  BY <1>1
<1> HIDE DEF a
<1>5. /\ DOMAIN active_requests' = DOMAIN active_requests \cup {q.id}
      /\ active_requests'[q.id] = a
      /\ \A i \in DOMAIN active_requests : active_requests'[i] = active_requests[i]
      /\ q.id \notin DOMAIN active_requests
  <2>1. q.id \notin DOMAIN active_requests
    BY DEF Taken
  <2>2. DOMAIN active_requests' = DOMAIN active_requests \cup {q.id}
    BY <1>4 DEF Put
  <2>3. active_requests'[q.id] = a
    BY <1>4 DEF Put
  <2>4. \A i \in DOMAIN active_requests : active_requests'[i] = active_requests[i]
    BY <1>4, <2>1 DEF Put
  <2> QED BY <2>1, <2>2, <2>3, <2>4
<1>6. UNCHANGED <<stats, out>> /\ pins' = pins \cup {q.n}
  BY DEF Activate
<1>7. ActiveNs' = ActiveNs \cup {q.n}
  BY <1>3, <1>5 DEF ActiveNs
<1>8. Unanswered' = Unanswered
  BY <1>7 DEF Unanswered, ActiveNs, WaitingNs, PullNs, Taken
<1>9. TypeInv'
  <2>1. /\ IsFiniteSet(DOMAIN active_requests') /\ DOMAIN active_requests' \subseteq Ids
        /\ \A i \in DOMAIN active_requests' : ActiveOK(active_requests'[i])
    BY <1>2, <1>3, <1>5, FS_AddElement DEF EngineInv, TypeInv
  <2>2. /\ IsFiniteSet(DOMAIN pending_pulls') /\ DOMAIN pending_pulls' \subseteq Ids
        /\ \A i \in DOMAIN pending_pulls' :
             pending_pulls'[i].n \in Nat /\ pending_pulls'[i].kind \in Kinds
    BY FS_Subset DEF EngineInv, TypeInv, Taken
  <2> QED BY <1>6, <2>1, <2>2 DEF EngineInv, TypeInv, Taken
<1>10. Linked'
  <2>1. \A i \in DOMAIN active_requests' :
          active_requests'[i].n \in DOMAIN out' /\ out'[active_requests'[i].n].id = i
    BY <1>3, <1>5, <1>6 DEF EngineInv, Linked, Taken
  <2>2. \A i \in DOMAIN pending_pulls' :
          pending_pulls'[i].n \in DOMAIN out' /\ out'[pending_pulls'[i].n].id = i
    BY <1>6 DEF EngineInv, Linked, Taken
  <2>3. \A k \in DOMAIN waiting' :
          waiting'[k].n \in DOMAIN out' /\ out'[waiting'[k].n].id = waiting'[k].id
    BY <1>6 DEF EngineInv, Linked, Taken
  <2> QED BY <2>1, <2>2, <2>3 DEF Linked
<1>11. OnePlace'
  BY <1>5 DEF EngineInv, OnePlace, Taken
<1>12. EndsExact'
  BY <1>6, <1>8 DEF EngineInv, EndsExact
<1>13. PinsMatchBatch'
  BY <1>6, <1>7 DEF EngineInv, PinsMatchBatch, Taken, PullNs, ActiveNs
<1>14. ShutdownInv'
  BY DEF ShutdownInv
<1> QED BY <1>6, <1>8, <1>9, <1>10, <1>11, <1>12, <1>13, <1>14 DEF EngineInv, Quiet

\* What an answer to the requests in S does to `out'.
LEMMA AnswerFacts ==
  ASSUME EngineInv, NEW S, S \subseteq Unanswered, Unanswered' = Unanswered \ S,
         out' \in Seq(Sent), DOMAIN out' = DOMAIN out,
         \A n \in DOMAIN out :
           /\ out'[n].id = out[n].id
           /\ out'[n].ends = IF n \in S THEN out[n].ends + 1 ELSE out[n].ends
  PROVE  EndsExact' /\ Len(out') = Len(out)
<1>1. EndsExact'
  <2> SUFFICES ASSUME NEW n \in DOMAIN out
               PROVE  out'[n].ends = IF n \in Unanswered' THEN 0 ELSE 1
    BY DEF EndsExact
  <2>1. out[n].ends = IF n \in Unanswered THEN 0 ELSE 1
    BY DEF EngineInv, EndsExact
  <2> QED BY <2>1
<1>2. Len(out') = Len(out)
  <2>1. /\ DOMAIN out' = 1..Len(out') /\ DOMAIN out = 1..Len(out)
        /\ Len(out') \in Nat /\ Len(out) \in Nat
    BY DEF EngineInv, TypeInv
  <2> QED BY <2>1, SameInterval
<1> QED BY <1>1, <1>2

\* An invalid request is answered.
LEMMA RejectInv ==
  ASSUME EngineInv, NEW q, Taken(q), RejectInvalid(q), UNCHANGED <<current_step, lifecycle, base>>,
         pc' = "schedule", lifecycle # "ended"
  PROVE  EngineInv' /\ Finishes({q.n})
<1>1. /\ UNCHANGED active_requests /\ pins' = pins \ {q.n}
      /\ stats' = [stats EXCEPT !.failed = @ + 1] /\ out' = [out EXCEPT ![q.n].ends = @ + 1]
  BY DEF RejectInvalid
<1>2. q.n \in Unanswered /\ q.n \in DOMAIN out /\ q.n \notin ActiveNs
  BY DEF Taken
<1>3. Unanswered' = Unanswered \ {q.n}
  <2>1. ActiveNs' = ActiveNs
    BY <1>1 DEF ActiveNs
  <2> QED BY <1>2, <2>1 DEF Unanswered, ActiveNs, WaitingNs, PullNs, Taken
<1>4. /\ out' \in Seq(Sent) /\ DOMAIN out' = DOMAIN out
      /\ \A n \in DOMAIN out :
           /\ out'[n].id = out[n].id
           /\ out'[n].ends = IF n \in {q.n} THEN out[n].ends + 1 ELSE out[n].ends
  <2> DEFINE r == [out[q.n] EXCEPT !.ends = @ + 1]
  <2>1. out \in Seq(Sent) /\ out[q.n] \in Sent
    BY <1>2, ElementOfSeq DEF EngineInv, TypeInv
  <2>2. r \in Sent /\ r.id = out[q.n].id /\ r.ends = out[q.n].ends + 1
    BY <2>1, SentFacts
  <2>3. out' = [out EXCEPT ![q.n] = r]
    BY <1>1
  <2> HIDE DEF r
  <2>4. out' \in Seq(Sent) /\ DOMAIN out' = DOMAIN out
    BY <1>2, <2>1, <2>2, <2>3
  <2> QED BY <1>2, <2>2, <2>3, <2>4
<1>5. EndsExact' /\ Len(out') = Len(out)
  BY <1>2, <1>3, <1>4, AnswerFacts
<1>6. stats' \in Counters /\ stats'.received = stats.received /\ Settled' = Settled + 1
  <2>0. stats \in Counters
    BY DEF EngineInv, TypeInv
  <2>1. /\ stats' \in Counters /\ stats'.received = stats.received
        /\ stats'.completed = stats.completed /\ stats'.failed = stats.failed + 1
        /\ stats'.aborted = stats.aborted
    BY <1>1, <2>0, CounterFacts
  <2> QED BY <2>0, <2>1 DEF Settled, Counters
<1>7. TypeInv'
  <2>1. /\ IsFiniteSet(DOMAIN pending_pulls') /\ DOMAIN pending_pulls' \subseteq Ids
        /\ \A i \in DOMAIN pending_pulls' :
             pending_pulls'[i].n \in Nat /\ pending_pulls'[i].kind \in Kinds
    BY FS_Subset DEF EngineInv, TypeInv, Taken
  <2> QED BY <1>1, <1>4, <1>6, <2>1 DEF EngineInv, TypeInv, Taken
<1>8. Linked'
  <2>0. \A n \in DOMAIN out : n \in DOMAIN out' /\ out'[n].id = out[n].id
    BY <1>4
  <2>1. \A i \in DOMAIN active_requests' :
          active_requests'[i].n \in DOMAIN out' /\ out'[active_requests'[i].n].id = i
    BY <1>1, <2>0 DEF EngineInv, Linked
  <2>2. \A i \in DOMAIN pending_pulls' :
          pending_pulls'[i].n \in DOMAIN out' /\ out'[pending_pulls'[i].n].id = i
    BY <2>0 DEF EngineInv, Linked, Taken
  <2>3. \A k \in DOMAIN waiting' :
          waiting'[k].n \in DOMAIN out' /\ out'[waiting'[k].n].id = waiting'[k].id
    BY <2>0 DEF EngineInv, Linked, Taken
  <2> QED BY <2>1, <2>2, <2>3 DEF Linked
<1>9. OnePlace'
  BY <1>1 DEF EngineInv, OnePlace, Taken
<1>10. PinsMatchBatch'
  <2>1. pins = PullNs \cup ActiveNs
    BY DEF EngineInv, PinsMatchBatch, PullNs, ActiveNs
  <2>2. ActiveNs' = ActiveNs /\ PullNs' = PullNs \ {q.n}
    BY <1>1 DEF ActiveNs, Taken
  <2>3. pins' = PullNs' \cup ActiveNs'
    BY <1>1, <1>2, <2>1, <2>2
  <2> QED BY <2>3 DEF PinsMatchBatch, PullNs, ActiveNs
<1>11. ShutdownInv'
  BY DEF ShutdownInv
<1>12. Cardinality({q.n}) = 1
  BY FS_Singleton
<1> QED BY <1>2, <1>3, <1>5, <1>6, <1>7, <1>8, <1>9, <1>10, <1>11, <1>12 DEF EngineInv, Finishes

\* The request leaves the queue for the pending pulls.
LEMMA AdmitPullInv ==
  ASSUME EngineInv, NEW k \in DOMAIN waiting, waiting' = RemoveAt(waiting, k),
         AdmitPull(waiting[k]), UNCHANGED <<current_step, lifecycle, base, pc>>,
         pc = "schedule", lifecycle # "ended"
  PROVE  EngineInv' /\ Quiet
<1> DEFINE q == waiting[k]
           p == [n |-> q.n, kind |-> q.kind]
<1>1. /\ q \in Item /\ q.n \in DOMAIN out /\ out[q.n].id = q.id
      /\ q.id \notin DOMAIN active_requests \cup DOMAIN pending_pulls
      /\ waiting' \in Seq(Item) /\ WaitingNs' = WaitingNs \ {q.n} /\ q.n \in WaitingNs
      /\ \A i \in DOMAIN waiting' : \E j \in DOMAIN waiting :
           waiting'[i] = waiting[j] /\ waiting[j].id # q.id
      /\ \A i, j \in DOMAIN waiting' : i # j => waiting'[i].id # waiting'[j].id
  BY QueueWithout DEF WaitingNs
<1>2. /\ pending_pulls' = Put(pending_pulls, q.id, p) /\ pins' = pins \cup {q.n}
      /\ UNCHANGED <<active_requests, stats, out>>
  BY DEF AdmitPull
<1>3. p.n = q.n /\ p.kind = q.kind /\ q.n \in Nat /\ q.kind \in Kinds /\ q.id \in Ids
  BY <1>1 DEF Item
<1> HIDE DEF p, q
<1>4. /\ DOMAIN pending_pulls' = DOMAIN pending_pulls \cup {q.id}
      /\ pending_pulls'[q.id] = p
      /\ \A i \in DOMAIN pending_pulls : pending_pulls'[i] = pending_pulls[i]
  <2>1. DOMAIN pending_pulls' = DOMAIN pending_pulls \cup {q.id} /\ pending_pulls'[q.id] = p
    BY <1>2 DEF Put
  <2>2. \A i \in DOMAIN pending_pulls : pending_pulls'[i] = pending_pulls[i]
    BY <1>1, <1>2 DEF Put
  <2> QED BY <2>1, <2>2
<1>5. PullNs' = PullNs \cup {q.n} /\ ActiveNs' = ActiveNs
  BY <1>2, <1>3, <1>4 DEF PullNs, ActiveNs
<1>6. Unanswered' = Unanswered
  BY <1>1, <1>5 DEF Unanswered, ActiveNs, WaitingNs, PullNs
<1>7. TypeInv'
  <2>1. /\ IsFiniteSet(DOMAIN pending_pulls') /\ DOMAIN pending_pulls' \subseteq Ids
        /\ \A i \in DOMAIN pending_pulls' :
             pending_pulls'[i].n \in Nat /\ pending_pulls'[i].kind \in Kinds
    <3>1. /\ IsFiniteSet(DOMAIN pending_pulls) /\ DOMAIN pending_pulls \subseteq Ids
          /\ \A i \in DOMAIN pending_pulls :
               pending_pulls[i].n \in Nat /\ pending_pulls[i].kind \in Kinds
      BY DEF EngineInv, TypeInv
    <3>2. IsFiniteSet(DOMAIN pending_pulls \cup {q.id})
      BY <3>1, FS_AddElement
    <3> QED BY <1>3, <1>4, <3>1, <3>2
  <2> QED BY <1>1, <1>2, <2>1 DEF EngineInv, TypeInv
<1>8. Linked'
  <2>1. \A i \in DOMAIN active_requests' :
          active_requests'[i].n \in DOMAIN out' /\ out'[active_requests'[i].n].id = i
    BY <1>2 DEF EngineInv, Linked
  <2>2. \A i \in DOMAIN pending_pulls' :
          pending_pulls'[i].n \in DOMAIN out' /\ out'[pending_pulls'[i].n].id = i
    BY <1>1, <1>2, <1>3, <1>4 DEF EngineInv, Linked
  <2>3. \A j \in DOMAIN waiting' :
          waiting'[j].n \in DOMAIN out' /\ out'[waiting'[j].n].id = waiting'[j].id
    BY <1>1, <1>2 DEF EngineInv, Linked
  <2> QED BY <2>1, <2>2, <2>3 DEF Linked
<1>9. OnePlace'
  BY <1>1, <1>2, <1>4 DEF EngineInv, OnePlace
<1>10. EndsExact'
  BY <1>2, <1>6 DEF EngineInv, EndsExact
<1>11. PinsMatchBatch'
  <2>1. pins = PullNs \cup ActiveNs
    BY DEF EngineInv, PinsMatchBatch, PullNs, ActiveNs
  <2>2. pins' = PullNs' \cup ActiveNs'
    BY <1>2, <1>5, <2>1
  <2> QED BY <2>2 DEF PinsMatchBatch, PullNs, ActiveNs
<1>12. ShutdownInv'
  BY DEF ShutdownInv
<1> QED BY <1>2, <1>6, <1>7, <1>8, <1>9, <1>10, <1>11, <1>12 DEF EngineInv, Quiet

\* One admission, and the end of a pull.
LEMMA AdmitInv ==
  ASSUME EngineInv, Admit
  PROVE  EngineInv' /\ (Quiet \/ \E S \in SUBSET Unanswered : Finishes(S))
<1>1. PICK k \in NextAdmissible :
        /\ waiting' = RemoveAt(waiting, k)
        /\ \/ AdmitPull(waiting[k])
           \/ AdmitDirect(waiting[k]) /\ UNCHANGED pending_pulls
  BY DEF Admit
<1>2. k \in DOMAIN waiting
  BY DEF NextAdmissible, Admissible
<1>3. pc = "schedule" /\ UNCHANGED <<current_step, lifecycle, base, pc>>
  BY DEF Admit, session
<1>4. lifecycle # "ended"
  <2>1. waiting[k].id \in InFlight
    BY <1>2 DEF InFlight, WaitingIds
  <2> QED BY <1>3, <2>1 DEF EngineInv, ShutdownInv
<1>5. CASE AdmitPull(waiting[k])
  BY <1>1, <1>2, <1>3, <1>4, <1>5, AdmitPullInv
<1>6. CASE AdmitDirect(waiting[k]) /\ UNCHANGED pending_pulls
  <2>1. Taken(waiting[k])
    BY <1>1, <1>2, <1>6, TakenFromQueue
  <2>2. CASE Activate(waiting[k])
    BY <1>3, <1>4, <2>1, <2>2, ActivateInv
  <2>3. CASE RejectInvalid(waiting[k])
    <3>1. EngineInv' /\ Finishes({waiting[k].n})
      BY <1>3, <1>4, <2>1, <2>3, RejectInv
    <3> QED BY <3>1 DEF Finishes
  <2> QED BY <1>6, <2>2, <2>3 DEF AdmitDirect
<1> QED BY <1>1, <1>5, <1>6

LEMMA FinishPullInv ==
  ASSUME EngineInv, FinishPull
  PROVE  EngineInv' /\ (Quiet \/ \E S \in SUBSET Unanswered : Finishes(S))
<1>1. PICK i \in PullTarget(Head(completions)) :
        /\ pending_pulls' = Drop(pending_pulls, {i})
        /\ AdmitDirect([n |-> pending_pulls[i].n, id |-> i, kind |-> pending_pulls[i].kind])
  BY DEF FinishPull
<1>2. PICK q : q = [n |-> pending_pulls[i].n, id |-> i, kind |-> pending_pulls[i].kind]
  OBVIOUS
<1>3. i \in DOMAIN pending_pulls
  BY DEF PullTarget
<1>4. pc' = "schedule" /\ UNCHANGED <<waiting, current_step, lifecycle, base>>
      /\ lifecycle # "ended"
  BY ReadyRuns DEF FinishPull, session
<1>5. Taken(q)
  BY <1>1, <1>2, <1>3, <1>4, TakenFromPulls
<1>6. CASE Activate(q)
  BY <1>4, <1>5, <1>6, ActivateInv
<1>7. CASE RejectInvalid(q)
  <2>1. EngineInv' /\ Finishes({q.n})
    BY <1>4, <1>5, <1>7, RejectInv
  <2> QED BY <2>1 DEF Finishes
<1> QED BY <1>1, <1>2, <1>6, <1>7 DEF AdmitDirect

\* A map that gives no number twice gives as many as it has places.
LEMMA ImageCount ==
  ASSUME NEW I, IsFiniteSet(I), NEW V, NEW m \in [I -> V],
         \A i, j \in I : m[i] = m[j] => i = j, \A v \in V : \E i \in I : m[i] = v
  PROVE  IsFiniteSet(V) /\ Cardinality(V) = Cardinality(I)
<1>1. m \in Bijection(I, V)
  BY DEF Bijection, Injection, Surjection, IsInjective
<1>2. ExistsBijection(I, V)
  BY <1>1 DEF ExistsBijection
<1> QED BY <1>2, FS_Bijection

LEMMA UpTo ==
  ASSUME NEW k \in Nat PROVE IsFiniteSet(1..k) /\ Cardinality(1..k) = k
  BY FS_Interval

LEMMA DisjointUnion ==
  ASSUME NEW S, NEW T, IsFiniteSet(S), IsFiniteSet(T), S \cap T = {}
  PROVE  /\ IsFiniteSet(S \cup T)
         /\ Cardinality(S \cup T) = Cardinality(S) + Cardinality(T)
<1>1. Cardinality(S) \in Nat /\ Cardinality(T) \in Nat
  BY FS_CardinalityType
<1>2. Cardinality(S \cap T) = 0
  BY FS_EmptySet
<1>3. /\ IsFiniteSet(S \cup T)
      /\ Cardinality(S \cup T) = Cardinality(S) + Cardinality(T) - Cardinality(S \cap T)
  BY FS_Union
<1> QED BY <1>1, <1>2, <1>3

\* What one emission does to the requests of the batch.
LEMMA EmitFacts ==
  ASSUME EngineInv, NEW R \in SUBSET DOMAIN active_requests, Emit(R)
  PROVE  \E finished \in SUBSET R :
           /\ DOMAIN active_requests' = DOMAIN active_requests \ finished
           /\ \A i \in DOMAIN active_requests' :
                /\ ActiveOK(active_requests'[i])
                /\ active_requests'[i].n = active_requests[i].n
                /\ active_requests'[i].kind = active_requests[i].kind
                /\ active_requests'[i].phase = active_requests[i].phase
                /\ active_requests'[i].generated = active_requests[i].generated
                /\ active_requests'[i].max_tokens = active_requests[i].max_tokens
           /\ out' \in Seq(Sent) /\ DOMAIN out' = DOMAIN out
           /\ \A n \in DOMAIN out :
                /\ out'[n].id = out[n].id
                /\ out'[n].ends = IF n \in {active_requests[i].n : i \in finished}
                                    THEN out[n].ends + 1 ELSE out[n].ends
           /\ pins' = pins \ {active_requests[i].n : i \in finished}
           /\ stats' = [stats EXCEPT !.completed = @ + Cardinality(finished)]
           /\ pc' \in {"schedule", "advertise"}
<1> DEFINE sent(i) == Head(active_requests[i].pending_emits)
           finished == {i \in R : active_requests[i].emitted + sent(i)
                                    >= active_requests[i].max_tokens}
<1>1. /\ active_requests' =
           [i \in DOMAIN active_requests \ finished |->
              IF i \in R
                THEN [active_requests[i] EXCEPT !.emitted = @ + sent(i), !.pending_emits = Tail(@)]
                ELSE active_requests[i]]
      /\ out' = [n \in DOMAIN out |->
                   IF \E i \in R : active_requests[i].n = n
                     THEN LET i == CHOOSE j \in R : active_requests[j].n = n
                          IN  [out[n] EXCEPT !.tokens = @ + sent(i),
                                             !.ends = IF i \in finished THEN @ + 1 ELSE @]
                     ELSE out[n]]
      /\ pins' = pins \ {active_requests[i].n : i \in finished}
      /\ stats' = [stats EXCEPT !.completed = @ + Cardinality(finished)]
      /\ \A i \in R : active_requests[i].pending_emits # <<>>
  BY DEF Emit
<1>2. pc' \in {"schedule", "advertise"}
  BY DEF Emit, Loop
<1>3. \A i \in DOMAIN active_requests : ActiveOK(active_requests[i])
  BY DEF EngineInv, TypeInv
<1>4. \A i \in R : sent(i) \in Int /\ Tail(active_requests[i].pending_emits) \in Seq(Int)
  <2> SUFFICES ASSUME NEW i \in R
               PROVE  sent(i) \in Int /\ Tail(active_requests[i].pending_emits) \in Seq(Int)
    OBVIOUS
  <2>1. active_requests[i].pending_emits \in Seq(Int)
        /\ active_requests[i].pending_emits # <<>>
    BY <1>1, <1>3 DEF ActiveOK
  <2> QED BY <2>1, HeadTailProperties
<1>5. finished \in SUBSET R
  OBVIOUS
<1> HIDE DEF sent, finished
<1>6. DOMAIN active_requests' = DOMAIN active_requests \ finished
  BY <1>1
<1>7. ASSUME NEW i \in DOMAIN active_requests'
      PROVE  /\ ActiveOK(active_requests'[i])
             /\ active_requests'[i].n = active_requests[i].n
             /\ active_requests'[i].kind = active_requests[i].kind
             /\ active_requests'[i].phase = active_requests[i].phase
             /\ active_requests'[i].generated = active_requests[i].generated
             /\ active_requests'[i].max_tokens = active_requests[i].max_tokens
  <2> DEFINE a == active_requests[i]
             b == [a EXCEPT !.emitted = @ + sent(i), !.pending_emits = Tail(@)]
  <2>1. active_requests'[i] = IF i \in R THEN b ELSE a
    BY <1>1, <1>6
  <2>2. ActiveOK(a)
    BY <1>3, <1>6
  <2>3. ASSUME i \in R
        PROVE  ActiveOK(b) /\ b.n = a.n /\ b.kind = a.kind /\ b.phase = a.phase
               /\ b.generated = a.generated /\ b.max_tokens = a.max_tokens
    <3>1. a.emitted + sent(i) \in Int /\ Tail(a.pending_emits) \in Seq(Int)
      BY <1>4, <2>2, <2>3 DEF ActiveOK
    <3>2. /\ b.n = a.n /\ b.kind = a.kind /\ b.phase = a.phase /\ b.generated = a.generated /\ b.max_tokens = a.max_tokens
          /\ b.remaining = a.remaining
          /\ b \in [n : Nat, kind : Kinds, max_tokens : Nat, phase : {"prefill", "decode"},
                    remaining : {a.remaining}, generated : Int, emitted : Int,
                    pending_emits : Seq(Int)]
      <4> HIDE DEF a
      <4> QED BY <2>2, <3>1 DEF ActiveOK
    <3> HIDE DEF a, b
    <3> QED BY <3>2 DEF ActiveOK
  <2> HIDE DEF a, b
  <2>4. /\ ActiveOK(active_requests'[i]) /\ active_requests'[i].n = a.n
        /\ active_requests'[i].kind = a.kind /\ active_requests'[i].phase = a.phase
        /\ active_requests'[i].generated = a.generated
        /\ active_requests'[i].max_tokens = a.max_tokens
    BY <2>1, <2>2, <2>3
  <2> QED BY <2>4 DEF a
<1>8. ASSUME NEW n \in DOMAIN out
      PROVE  /\ out'[n] \in Sent /\ out'[n].id = out[n].id
             /\ out'[n].ends = IF n \in {active_requests[i].n : i \in finished}
                                 THEN out[n].ends + 1 ELSE out[n].ends
  <2>1. out[n] \in Sent
    BY DEF EngineInv, TypeInv
  <2>2. CASE \E i \in R : active_requests[i].n = n
    <3> DEFINE i == CHOOSE j \in R : active_requests[j].n = n
               s == [out[n] EXCEPT !.tokens = @ + sent(i),
                                   !.ends = IF i \in finished THEN @ + 1 ELSE @]
    <3>1. i \in R /\ active_requests[i].n = n
      BY <2>2
    <3>2. out'[n] = s
      BY <1>1, <2>2
    <3> HIDE DEF i
    <3>3. out[n].tokens + sent(i) \in Int
          /\ (IF i \in finished THEN out[n].ends + 1 ELSE out[n].ends) \in Nat
      BY <1>4, <2>1, <3>1 DEF Sent
    <3>4. s \in Sent /\ s.id = out[n].id
          /\ s.ends = IF i \in finished THEN out[n].ends + 1 ELSE out[n].ends
      BY <2>1, <3>3 DEF Sent
    <3>5. i \in finished <=> n \in {active_requests[j].n : j \in finished}
      BY <1>5, <3>1, NumbersDistinct
    <3> HIDE DEF s
    <3> QED BY <3>2, <3>4, <3>5
  <2>3. CASE ~(\E i \in R : active_requests[i].n = n)
    <3>1. out'[n] = out[n] /\ n \notin {active_requests[i].n : i \in finished}
      BY <1>1, <1>5, <2>3
    <3> QED BY <2>1, <3>1
  <2> QED BY <2>2, <2>3
<1>9. out' \in Seq(Sent) /\ DOMAIN out' = DOMAIN out
  <2>0. out \in Seq(Sent)
    BY DEF EngineInv, TypeInv
  <2>a. DOMAIN out' = DOMAIN out
    BY <1>1
  <2>1. DOMAIN out' = DOMAIN out /\ DOMAIN out = 1..Len(out) /\ Len(out) \in Nat
    BY <2>0, <2>a
  <2>2. out' = [n \in 1..Len(out) |-> out'[n]]
    BY <1>1, <2>1
  <2> QED BY <1>8, <2>1, <2>2
<1>10. /\ pins' = pins \ {active_requests[i].n : i \in finished}
       /\ stats' = [stats EXCEPT !.completed = @ + Cardinality(finished)]
  BY <1>1
<1> QED BY <1>2, <1>5, <1>6, <1>7, <1>8, <1>9, <1>10

LEMMA EmitInv ==
  ASSUME EngineInv, NEW R \in SUBSET DOMAIN active_requests, Emit(R)
  PROVE  EngineInv' /\ (Quiet \/ \E S \in SUBSET Unanswered : Finishes(S))
<1>1. PICK finished \in SUBSET R :
           /\ DOMAIN active_requests' = DOMAIN active_requests \ finished
           /\ \A i \in DOMAIN active_requests' :
                /\ ActiveOK(active_requests'[i])
                /\ active_requests'[i].n = active_requests[i].n
                /\ active_requests'[i].kind = active_requests[i].kind
                /\ active_requests'[i].phase = active_requests[i].phase
                /\ active_requests'[i].generated = active_requests[i].generated
                /\ active_requests'[i].max_tokens = active_requests[i].max_tokens
           /\ out' \in Seq(Sent) /\ DOMAIN out' = DOMAIN out
           /\ \A n \in DOMAIN out :
                /\ out'[n].id = out[n].id
                /\ out'[n].ends = IF n \in {active_requests[i].n : i \in finished}
                                    THEN out[n].ends + 1 ELSE out[n].ends
           /\ pins' = pins \ {active_requests[i].n : i \in finished}
           /\ stats' = [stats EXCEPT !.completed = @ + Cardinality(finished)]
           /\ pc' \in {"schedule", "advertise"}
  BY EmitFacts
<1> DEFINE S == {active_requests[i].n : i \in finished}
<1>2. /\ UNCHANGED <<waiting, pending_pulls, current_step, lifecycle, base>>
      /\ lifecycle # "ended"
  BY ReadyRuns DEF Emit, session
<1>3. IsFiniteSet(finished) /\ Cardinality(finished) \in Nat
  BY FS_Subset, FS_CardinalityType DEF EngineInv, TypeInv
<1>4. Cardinality(S) = Cardinality(finished)
  <2> DEFINE m == [i \in finished |-> active_requests[i].n]
  <2>1. m \in [finished -> S] /\ \A v \in S : \E i \in finished : m[i] = v
    OBVIOUS
  <2>2. \A i, j \in finished : m[i] = m[j] => i = j
    BY NumbersDistinct
  <2> HIDE DEF m, S
  <2> QED BY <1>3, <2>1, <2>2, ImageCount
<1>5. S \subseteq ActiveNs /\ ActiveNs' = ActiveNs \ S
  <2>1. ActiveNs' = {active_requests[i].n : i \in DOMAIN active_requests \ finished}
    BY <1>1 DEF ActiveNs
  <2>2. {active_requests[i].n : i \in DOMAIN active_requests \ finished} = ActiveNs \ S
    BY <1>1, NumbersDistinct DEF ActiveNs
  <2> QED BY <2>1, <2>2 DEF ActiveNs
<1>6. WaitingNs' = WaitingNs /\ PullNs' = PullNs /\ WaitingNs \cap S = {} /\ PullNs \cap S = {}
  BY <1>2, NumbersDistinct DEF WaitingNs, PullNs
<1> HIDE DEF S
<1>7. S \subseteq Unanswered /\ Unanswered' = Unanswered \ S
  BY <1>5, <1>6 DEF Unanswered, WaitingNs, PullNs, ActiveNs
<1>8. EndsExact' /\ Len(out') = Len(out)
  BY <1>1, <1>7, AnswerFacts DEF S
<1>9. stats' \in Counters /\ stats'.received = stats.received
      /\ Settled' = Settled + Cardinality(S)
  <2>0. stats \in Counters
    BY DEF EngineInv, TypeInv
  <2>1. /\ stats' \in Counters /\ stats'.received = stats.received
        /\ stats'.completed = stats.completed + Cardinality(finished)
        /\ stats'.failed = stats.failed /\ stats'.aborted = stats.aborted
    BY <1>1, <1>3, <2>0, CounterFacts
  <2> QED BY <1>3, <1>4, <2>0, <2>1 DEF Settled, Counters
<1>10. TypeInv'
  <2>1. /\ IsFiniteSet(DOMAIN active_requests') /\ DOMAIN active_requests' \subseteq Ids
        /\ \A i \in DOMAIN active_requests' : ActiveOK(active_requests'[i])
    BY <1>1, FS_Subset DEF EngineInv, TypeInv
  <2> QED BY <1>1, <1>2, <1>9, <2>1 DEF EngineInv, TypeInv
<1>11. Linked'
  <2>0. \A n \in DOMAIN out : n \in DOMAIN out' /\ out'[n].id = out[n].id
    BY <1>1
  <2>1. \A i \in DOMAIN active_requests' :
          active_requests'[i].n \in DOMAIN out' /\ out'[active_requests'[i].n].id = i
    BY <1>1, <2>0 DEF EngineInv, Linked
  <2>2. \A i \in DOMAIN pending_pulls' :
          pending_pulls'[i].n \in DOMAIN out' /\ out'[pending_pulls'[i].n].id = i
    BY <1>2, <2>0 DEF EngineInv, Linked
  <2>3. \A k \in DOMAIN waiting' :
          waiting'[k].n \in DOMAIN out' /\ out'[waiting'[k].n].id = waiting'[k].id
    BY <1>2, <2>0 DEF EngineInv, Linked
  <2> QED BY <2>1, <2>2, <2>3 DEF Linked
<1>12. OnePlace'
  BY <1>1, <1>2 DEF EngineInv, OnePlace
<1>13. PinsMatchBatch'
  <2>1. pins = PullNs \cup ActiveNs
    BY DEF EngineInv, PinsMatchBatch, PullNs, ActiveNs
  <2>2. pins' = PullNs' \cup ActiveNs'
    BY <1>1, <1>5, <1>6, <2>1 DEF S
  <2> QED BY <2>2 DEF PinsMatchBatch, PullNs, ActiveNs
<1>14. ShutdownInv'
  BY <1>2 DEF ShutdownInv
<1>15. EngineInv'
  BY <1>8, <1>10, <1>11, <1>12, <1>13, <1>14 DEF EngineInv
<1>16. CASE S # {}
  <2>1. Finishes(S)
    BY <1>2, <1>7, <1>8, <1>9, <1>16 DEF Finishes
  <2> QED BY <1>7, <1>15, <2>1
<1>17. CASE S = {}
  <2>1. Cardinality(finished) = 0
    BY <1>4, <1>17, FS_EmptySet
  <2>2. stats' = stats
    BY <1>1, <2>1 DEF EngineInv, TypeInv, Counters
  <2> QED BY <1>2, <1>7, <1>8, <1>15, <1>17, <2>2 DEF Quiet
<1> QED BY <1>16, <1>17

\* Removing the one waiting request with an id.
LEMMA RemoveWaitingFacts ==
  ASSUME EngineInv, NEW i
  PROVE  /\ \A k \in DOMAIN waiting : waiting[k].id = i => RemoveWaiting(i) = RemoveAt(waiting, k)
         /\ (\A k \in DOMAIN waiting : waiting[k].id # i) => RemoveWaiting(i) = waiting
<1>1. waiting \in Seq(Item) /\ DOMAIN waiting = 1..Len(waiting) /\ Len(waiting) \in Nat
  BY DEF EngineInv, TypeInv
<1> DEFINE I == {k \in 1..Len(waiting) : waiting[k].id = i}
<1>2. RemoveWaiting(i) =
        IF \E k \in 1..Len(waiting) : waiting[k].id = i
          THEN RemoveAt(waiting, IF I # {} THEN CHOOSE x \in I : \A y \in I : x =< y ELSE 0)
          ELSE waiting
  BY DEF RemoveWaiting, RemoveFirstMatch, SelectInSeq, Min
<1>3. ASSUME NEW k \in DOMAIN waiting, waiting[k].id = i
      PROVE  RemoveWaiting(i) = RemoveAt(waiting, k)
  <2>1. I = {k}
    BY <1>1, <1>3 DEF EngineInv, OnePlace
  <2> HIDE DEF I
  <2>2. (CHOOSE x \in I : \A y \in I : x =< y) = k
    BY <1>1, <2>1
  <2> QED BY <1>1, <1>2, <1>3, <2>1, <2>2
<1>4. ASSUME \A k \in DOMAIN waiting : waiting[k].id # i
      PROVE  RemoveWaiting(i) = waiting
  BY <1>1, <1>2, <1>4
<1> QED BY <1>3, <1>4

\* What is left of the three places once request i is gone from wherever it was.
Removed(i) ==
  /\ DOMAIN active_requests' \subseteq DOMAIN active_requests \ {i}
  /\ \A j \in DOMAIN active_requests' : active_requests'[j] = active_requests[j]
  /\ DOMAIN pending_pulls' \subseteq DOMAIN pending_pulls \ {i}
  /\ \A j \in DOMAIN pending_pulls' : pending_pulls'[j] = pending_pulls[j]
  /\ waiting' \in Seq(Item)
  /\ \A k \in DOMAIN waiting' : \E j \in DOMAIN waiting :
       waiting'[k] = waiting[j] /\ waiting[j].id # i
  /\ \A j, k \in DOMAIN waiting' : j # k => waiting'[j].id # waiting'[k].id
  /\ ActiveNs' = ActiveNs \ Holder(i) /\ PullNs' = PullNs \ Holder(i)
  /\ WaitingNs' = WaitingNs \ Holder(i)
  /\ Holder(i) \subseteq Unanswered /\ IsFiniteSet(Holder(i))

LEMMA RemovedFacts ==
  ASSUME EngineInv, NEW i,
         \/ /\ i \in DOMAIN active_requests
            /\ active_requests' = Drop(active_requests, {i})
            /\ UNCHANGED <<pending_pulls, waiting>>
         \/ /\ i \in DOMAIN pending_pulls \ DOMAIN active_requests
            /\ pending_pulls' = Drop(pending_pulls, {i})
            /\ UNCHANGED <<active_requests, waiting>>
         \/ /\ i \notin DOMAIN active_requests \cup DOMAIN pending_pulls
            /\ waiting' = RemoveWaiting(i)
            /\ UNCHANGED <<active_requests, pending_pulls>>
  PROVE  Removed(i)
<1>1. /\ DOMAIN active_requests \cap DOMAIN pending_pulls = {}
      /\ \A k \in DOMAIN waiting :
           waiting[k].id \notin DOMAIN active_requests \cup DOMAIN pending_pulls
      /\ \A j, k \in DOMAIN waiting : j # k => waiting[j].id # waiting[k].id
      /\ waiting \in Seq(Item)
  BY DEF EngineInv, OnePlace, TypeInv
<1>2. CASE /\ i \in DOMAIN active_requests
           /\ active_requests' = Drop(active_requests, {i})
           /\ UNCHANGED <<pending_pulls, waiting>>
  <2>1. Holder(i) = {active_requests[i].n}
    BY <1>2 DEF Holder
  <2>2. /\ DOMAIN active_requests' = DOMAIN active_requests \ {i}
        /\ \A j \in DOMAIN active_requests' : active_requests'[j] = active_requests[j]
    BY <1>2 DEF Drop
  <2>3. ActiveNs' = ActiveNs \ Holder(i)
    <3>1. ActiveNs' = {active_requests[j].n : j \in DOMAIN active_requests \ {i}}
      BY <2>2 DEF ActiveNs
    <3>2. {active_requests[j].n : j \in DOMAIN active_requests \ {i}}
            = ActiveNs \ {active_requests[i].n}
      BY <1>2, NumbersDistinct DEF ActiveNs
    <3> QED BY <2>1, <3>1, <3>2
  <2>4. PullNs' = PullNs \ Holder(i) /\ WaitingNs' = WaitingNs \ Holder(i)
    BY <1>2, <2>1, NumbersDistinct DEF PullNs, WaitingNs
  <2>5. Holder(i) \subseteq Unanswered /\ IsFiniteSet(Holder(i))
    <3>1. IsFiniteSet({active_requests[i].n})
      BY FS_Singleton
    <3> QED BY <1>2, <2>1, <3>1 DEF Unanswered
  <2>6. /\ DOMAIN pending_pulls' \subseteq DOMAIN pending_pulls \ {i}
        /\ \A j \in DOMAIN pending_pulls' : pending_pulls'[j] = pending_pulls[j]
        /\ waiting' \in Seq(Item)
        /\ \A k \in DOMAIN waiting' : \E j \in DOMAIN waiting :
             waiting'[k] = waiting[j] /\ waiting[j].id # i
        /\ \A j, k \in DOMAIN waiting' : j # k => waiting'[j].id # waiting'[k].id
    BY <1>1, <1>2
  <2> QED BY <2>2, <2>3, <2>4, <2>5, <2>6 DEF Removed
<1>3. CASE /\ i \in DOMAIN pending_pulls \ DOMAIN active_requests
           /\ pending_pulls' = Drop(pending_pulls, {i})
           /\ UNCHANGED <<active_requests, waiting>>
  <2>1. Holder(i) = {pending_pulls[i].n}
    BY <1>3 DEF Holder
  <2>2. /\ DOMAIN pending_pulls' = DOMAIN pending_pulls \ {i}
        /\ \A j \in DOMAIN pending_pulls' : pending_pulls'[j] = pending_pulls[j]
    BY <1>3 DEF Drop
  <2>3. PullNs' = PullNs \ Holder(i)
    BY <1>3, <2>1, <2>2, PullsWithout
  <2>4. ActiveNs' = ActiveNs \ Holder(i) /\ WaitingNs' = WaitingNs \ Holder(i)
    BY <1>3, <2>1, NumbersDistinct DEF ActiveNs, WaitingNs
  <2>5. Holder(i) \subseteq Unanswered /\ IsFiniteSet(Holder(i))
    <3>1. IsFiniteSet({pending_pulls[i].n})
      BY FS_Singleton
    <3> QED BY <1>3, <2>1, <3>1 DEF Unanswered
  <2>6. /\ DOMAIN active_requests' \subseteq DOMAIN active_requests \ {i}
        /\ \A j \in DOMAIN active_requests' : active_requests'[j] = active_requests[j]
        /\ waiting' \in Seq(Item)
        /\ \A k \in DOMAIN waiting' : \E j \in DOMAIN waiting :
             waiting'[k] = waiting[j] /\ waiting[j].id # i
        /\ \A j, k \in DOMAIN waiting' : j # k => waiting'[j].id # waiting'[k].id
    BY <1>1, <1>3
  <2> QED BY <2>2, <2>3, <2>4, <2>5, <2>6 DEF Removed
<1>4. CASE /\ i \notin DOMAIN active_requests \cup DOMAIN pending_pulls
           /\ waiting' = RemoveWaiting(i)
           /\ UNCHANGED <<active_requests, pending_pulls>>
  <2>1. Holder(i) = {waiting[k].n : k \in {j \in DOMAIN waiting : waiting[j].id = i}}
    BY <1>4 DEF Holder
  <2>2. /\ DOMAIN active_requests' \subseteq DOMAIN active_requests \ {i}
        /\ \A j \in DOMAIN active_requests' : active_requests'[j] = active_requests[j]
        /\ DOMAIN pending_pulls' \subseteq DOMAIN pending_pulls \ {i}
        /\ \A j \in DOMAIN pending_pulls' : pending_pulls'[j] = pending_pulls[j]
    BY <1>4
  <2>3. ActiveNs' = ActiveNs \ Holder(i) /\ PullNs' = PullNs \ Holder(i)
    BY <1>4, <2>1, NumbersDistinct DEF ActiveNs, PullNs
  <2>4. CASE \E k \in DOMAIN waiting : waiting[k].id = i
    <3>1. PICK k \in DOMAIN waiting : waiting[k].id = i
      BY <2>4
    <3>2. waiting' = RemoveAt(waiting, k)
      BY <1>4, <3>1, RemoveWaitingFacts
    <3>3. Holder(i) = {waiting[k].n}
      BY <1>1, <2>1, <3>1
    <3>4. /\ waiting[k].n \in Unanswered \ (ActiveNs \cup PullNs)
          /\ waiting' \in Seq(Item)
          /\ \A l \in DOMAIN waiting' : \E j \in DOMAIN waiting :
               waiting'[l] = waiting[j] /\ waiting[j].id # waiting[k].id
          /\ \A l, j \in DOMAIN waiting' : l # j => waiting'[l].id # waiting'[j].id
          /\ WaitingNs' = WaitingNs \ {waiting[k].n}
      BY <3>2, QueueWithout
    <3>5. IsFiniteSet(Holder(i)) /\ Holder(i) \subseteq Unanswered
      <4>1. IsFiniteSet({waiting[k].n})
        BY FS_Singleton
      <4> QED BY <3>3, <3>4, <4>1
    <3> QED BY <2>2, <2>3, <3>1, <3>3, <3>4, <3>5 DEF Removed
  <2>5. CASE \A k \in DOMAIN waiting : waiting[k].id # i
    <3>1. waiting' = waiting
      BY <1>4, <2>5, RemoveWaitingFacts
    <3>2. Holder(i) = {}
      BY <2>1, <2>5
    <3>3. WaitingNs' = WaitingNs \ Holder(i)
      BY <3>1, <3>2 DEF WaitingNs
    <3>4. /\ waiting' \in Seq(Item)
          /\ \A k \in DOMAIN waiting' : \E j \in DOMAIN waiting :
               waiting'[k] = waiting[j] /\ waiting[j].id # i
          /\ \A j, k \in DOMAIN waiting' : j # k => waiting'[j].id # waiting'[k].id
      BY <1>1, <2>5, <3>1
    <3>5. IsFiniteSet(Holder(i)) /\ Holder(i) \subseteq Unanswered
      BY <3>2, FS_EmptySet
    <3> QED BY <2>2, <2>3, <3>3, <3>4, <3>5 DEF Removed
  <2> QED BY <2>4, <2>5
<1> QED BY <1>2, <1>3, <1>4

LEMMA AbortOneInv ==
  ASSUME EngineInv, AbortOne
  PROVE  EngineInv' /\ (Quiet \/ \E S \in SUBSET Unanswered : Finishes(S))
<1> DEFINE i == Head(todo)
           H == Holder(i)
<1>1. /\ pc = "abort" /\ UNCHANGED <<current_step, lifecycle, base>>
      /\ stats' = [stats EXCEPT !.aborted = @ + Cardinality(H)]
      /\ out' = [n \in DOMAIN out |-> IF n \in H THEN [out[n] EXCEPT !.ends = @ + 1] ELSE out[n]]
      /\ pins' = pins \ H
      /\ todo' = Tail(todo) /\ pc' = IF Tail(todo) = <<>> THEN "schedule" ELSE "abort"
  BY DEF AbortOne, Loop, session
<1>2. \/ /\ i \in DOMAIN active_requests
         /\ active_requests' = Drop(active_requests, {i})
         /\ UNCHANGED <<pending_pulls, waiting>>
      \/ /\ i \in DOMAIN pending_pulls \ DOMAIN active_requests
         /\ pending_pulls' = Drop(pending_pulls, {i})
         /\ UNCHANGED <<active_requests, waiting>>
      \/ /\ i \notin DOMAIN active_requests \cup DOMAIN pending_pulls
         /\ waiting' = RemoveWaiting(i)
         /\ UNCHANGED <<active_requests, pending_pulls>>
  BY DEF AbortOne
<1>3. todo \in Seq(Ids) /\ todo # <<>>
  BY <1>1 DEF EngineInv, TypeInv
<1> HIDE DEF i
<1>4. Removed(i)
  BY <1>2, RemovedFacts
<1>5. /\ ActiveNs' = ActiveNs \ H /\ PullNs' = PullNs \ H /\ WaitingNs' = WaitingNs \ H
      /\ H \subseteq Unanswered /\ IsFiniteSet(H)
  BY <1>4 DEF Removed
<1> HIDE DEF H
<1>6. Unanswered' = Unanswered \ H
  BY <1>5 DEF Unanswered, ActiveNs, PullNs, WaitingNs
<1>7. /\ out' \in Seq(Sent) /\ DOMAIN out' = DOMAIN out
      /\ \A n \in DOMAIN out : /\ out'[n].id = out[n].id
                               /\ out'[n].ends = IF n \in H THEN out[n].ends + 1 ELSE out[n].ends
  <2>0. out \in Seq(Sent)
    BY DEF EngineInv, TypeInv
  <2>1. DOMAIN out' = DOMAIN out
    BY <1>1
  <2>2. DOMAIN out = 1..Len(out) /\ Len(out) \in Nat
    BY <2>0
  <2>3. ASSUME NEW n \in DOMAIN out
        PROVE  /\ out'[n] \in Sent /\ out'[n].id = out[n].id
               /\ out'[n].ends = IF n \in H THEN out[n].ends + 1 ELSE out[n].ends
    <3> DEFINE s == [out[n] EXCEPT !.ends = @ + 1]
    <3>1. out[n] \in Sent
      BY <2>0
    <3>2. s \in Sent /\ s.id = out[n].id /\ s.ends = out[n].ends + 1
      BY <3>1, SentFacts
    <3>3. out'[n] = IF n \in H THEN s ELSE out[n]
      BY <1>1
    <3> HIDE DEF s
    <3> QED BY <3>1, <3>2, <3>3
  <2>4. out' = [n \in 1..Len(out) |-> out'[n]]
    BY <1>1, <2>1, <2>2
  <2> QED BY <2>1, <2>2, <2>3, <2>4
<1>8. EndsExact' /\ Len(out') = Len(out)
  BY <1>5, <1>6, <1>7, AnswerFacts
<1>9. Cardinality(H) \in Nat
  BY <1>5, FS_CardinalityType
<1>10. stats' \in Counters /\ stats'.received = stats.received
       /\ Settled' = Settled + Cardinality(H)
  <2>0. stats \in Counters
    BY DEF EngineInv, TypeInv
  <2>1. /\ stats' \in Counters /\ stats'.received = stats.received
        /\ stats'.completed = stats.completed /\ stats'.failed = stats.failed
        /\ stats'.aborted = stats.aborted + Cardinality(H)
    BY <1>1, <1>9, <2>0, CounterFacts
  <2> QED BY <1>9, <2>0, <2>1 DEF Settled, Counters
<1>11. /\ Tail(todo) \in Seq(Ids) /\ todo[1] = i /\ DOMAIN todo = 1..Len(todo)
       /\ \A k \in DOMAIN todo : k # 1 => k - 1 \in DOMAIN Tail(todo) /\ Tail(todo)[k - 1] = todo[k]
  <2>1. /\ Tail(todo) \in Seq(Ids) /\ Len(Tail(todo)) = Len(todo) - 1
        /\ \A k \in 1..Len(Tail(todo)) : Tail(todo)[k] = todo[k + 1]
        /\ Len(todo) \in Nat /\ DOMAIN todo = 1..Len(todo)
    BY <1>3, HeadTailProperties
  <2>2. todo[1] = i
    BY DEF i
  <2>3. ASSUME NEW k \in DOMAIN todo, k # 1
        PROVE  k - 1 \in DOMAIN Tail(todo) /\ Tail(todo)[k - 1] = todo[k]
    <3>1. k - 1 \in 1..Len(Tail(todo)) /\ (k - 1) + 1 = k
      BY <2>1, <2>3
    <3> QED BY <2>1, <3>1
  <2> QED BY <2>1, <2>2, <2>3
<1>12. TypeInv'
  <2>1. /\ IsFiniteSet(DOMAIN active_requests') /\ DOMAIN active_requests' \subseteq Ids
        /\ \A j \in DOMAIN active_requests' : ActiveOK(active_requests'[j])
    BY <1>4, FS_Subset DEF EngineInv, TypeInv, Removed
  <2>2. /\ IsFiniteSet(DOMAIN pending_pulls') /\ DOMAIN pending_pulls' \subseteq Ids
        /\ \A j \in DOMAIN pending_pulls' :
             pending_pulls'[j].n \in Nat /\ pending_pulls'[j].kind \in Kinds
    BY <1>4, FS_Subset DEF EngineInv, TypeInv, Removed
  <2>3. waiting' \in Seq(Item)
    BY <1>4 DEF Removed
  <2>4. pc' \in {"schedule", "abort"} /\ (pc' = "abort" => todo' \in Seq(Ids) /\ todo' # <<>>)
    BY <1>1, <1>11
  <2> QED BY <1>1, <1>7, <1>10, <2>1, <2>2, <2>3, <2>4 DEF EngineInv, TypeInv
<1>13. Linked'
  <2>0. \A n \in DOMAIN out : n \in DOMAIN out' /\ out'[n].id = out[n].id
    BY <1>7
  <2>1. \A j \in DOMAIN active_requests' :
          active_requests'[j].n \in DOMAIN out' /\ out'[active_requests'[j].n].id = j
    BY <1>4, <2>0 DEF EngineInv, Linked, Removed
  <2>2. \A j \in DOMAIN pending_pulls' :
          pending_pulls'[j].n \in DOMAIN out' /\ out'[pending_pulls'[j].n].id = j
    BY <1>4, <2>0 DEF EngineInv, Linked, Removed
  <2>3. \A k \in DOMAIN waiting' :
          waiting'[k].n \in DOMAIN out' /\ out'[waiting'[k].n].id = waiting'[k].id
    BY <1>4, <2>0 DEF EngineInv, Linked, Removed
  <2> QED BY <2>1, <2>2, <2>3 DEF Linked
<1>14. OnePlace'
  BY <1>4 DEF EngineInv, OnePlace, Removed
<1>15. PinsMatchBatch'
  <2>1. pins = PullNs \cup ActiveNs
    BY DEF EngineInv, PinsMatchBatch, PullNs, ActiveNs
  <2>2. pins' = PullNs' \cup ActiveNs'
    BY <1>1, <1>5, <2>1
  <2> QED BY <2>2 DEF PinsMatchBatch, PullNs, ActiveNs
<1>16. InFlight' \subseteq InFlight \ {i}
  BY <1>4 DEF Removed, InFlight, WaitingIds
<1>17. ShutdownInv'
  <2> SUFFICES ASSUME lifecycle = "ended"
               PROVE  /\ pc' \in {"abort", "schedule", "idle"}
                      /\ InFlight' \subseteq {Tail(todo)[k] : k \in DOMAIN Tail(todo)}
                      /\ pc' # "abort" => InFlight' = {}
    BY <1>1 DEF ShutdownInv
  <2>1. InFlight \subseteq {todo[k] : k \in DOMAIN todo}
    BY <1>1 DEF EngineInv, ShutdownInv
  <2>2. InFlight' \subseteq {Tail(todo)[k] : k \in DOMAIN Tail(todo)}
    <3> SUFFICES ASSUME NEW x \in InFlight' PROVE \E k \in DOMAIN Tail(todo) : Tail(todo)[k] = x
      OBVIOUS
    <3>1. PICK k \in DOMAIN todo : todo[k] = x /\ x # i
      BY <1>16, <2>1
    <3> QED BY <1>11, <3>1
  <2>3. pc' # "abort" => DOMAIN Tail(todo) = {}
    <3>1. pc' # "abort" => Tail(todo) = <<>>
      BY <1>1
    <3> QED BY <3>1
  <2> QED BY <1>1, <2>2, <2>3
<1>18. EngineInv'
  BY <1>8, <1>12, <1>13, <1>14, <1>15, <1>17 DEF EngineInv
<1>19. CASE H # {}
  <2>1. Finishes(H)
    BY <1>1, <1>5, <1>6, <1>8, <1>10, <1>19 DEF Finishes
  <2> QED BY <1>5, <1>18, <2>1
<1>20. CASE H = {}
  <2>1. Cardinality(H) = 0
    BY <1>20, FS_EmptySet
  <2>2. stats' = stats
    BY <1>1, <2>1 DEF EngineInv, TypeInv, Counters
  <2> QED BY <1>1, <1>6, <1>8, <1>18, <1>20, <2>2 DEF Quiet
<1> QED BY <1>19, <1>20

-----------------------------------------------------------------------------
(* Every step                                                              *)

\* One step keeps the invariant, and takes, refuses or finishes requests, or does
\* nothing to them.
LEMMA StepEffect == EngineInv /\ [Next]_vars => EngineInv' /\ Effect
<1> SUFFICES ASSUME EngineInv, [Next]_vars PROVE EngineInv' /\ Effect
  OBVIOUS
<1>1. CASE \E i \in Ids : AddDuplicate(i) \/ AddFailed(i) \/ RejectRequest(i)
  BY <1>1, RefuseInv DEF Effect
<1>2. CASE \E i \in Ids, kind \in Kinds : AddQueued(i, kind)
  BY <1>2, QueueInv DEF Effect
<1>3. CASE \/ \E s \in AbortLists : Abort(s)
           \/ \E c \in Configs : PatchConfig(c)
           \/ StartDrain
  BY <1>3, InputInv DEF Effect
<1>4. CASE ResetStats \/ ResetPrefixCache
  BY <1>4, ResetInv DEF Effect
<1>5. CASE AbortAll
  BY <1>5, AbortAllInv DEF Effect
<1>6. CASE Admit
  BY <1>6, AdmitInv DEF Effect
<1>7. CASE ScheduleEnd
  BY <1>7, ScheduleEndInv DEF Effect
<1>8. CASE CompleteStep
  BY <1>8, CompleteStepInv DEF Effect
<1>9. CASE DrainChunk
  BY <1>9, DrainChunkInv DEF Effect
<1>10. CASE \E R \in SUBSET DOMAIN active_requests : Emit(R)
  BY <1>10, EmitInv DEF Effect
<1>11. CASE \/ \E p \in pulls : PullLock(p)
            \/ \E p \in dp_owner, ok \in BOOLEAN : PullDone(p, ok)
            \/ DropPull \/ AdvertiseOne
  BY <1>11, PlaneInv DEF Effect
<1>12. CASE FinishPull
  BY <1>12, FinishPullInv DEF Effect
<1>13. CASE AbortOne
  BY <1>13, AbortOneInv DEF Effect
<1>14. CASE UNCHANGED vars
  <2>1. UNCHANGED <<waiting, pending_pulls, active_requests, current_step, stats, lifecycle, out,
                    base, pins, pc, todo>>
    BY <1>14 DEF vars, engine, history, session
  <2>2. SamePlaces
    BY <2>1 DEF SamePlaces
  <2>3. ShutdownInv'
    BY <2>1, <2>2, SamePlacesFacts DEF EngineInv, ShutdownInv
  <2>4. EngineInv' /\ Quiet
    BY <2>1, <2>2, <2>3, QuietInv DEF EngineInv, TypeInv
  <2> QED BY <2>4 DEF Effect
<1> QED BY <1>1, <1>2, <1>3, <1>4, <1>5, <1>6, <1>7, <1>8, <1>9, <1>10, <1>11, <1>12, <1>13, <1>14
        DEF Next, Message, Work

\* The engine's type correctness, the places of its requests and its pins, and
\* that abort_all_requests leaves nothing behind.
THEOREM EngineInvariant == Spec => []EngineInv
<1>1. Init => EngineInv
  BY InitInv
<1>2. EngineInv /\ [Next]_vars => EngineInv'
  BY StepEffect
<1> QED BY <1>1, <1>2, PTL DEF Spec

\* num_unfinished_requests counts the unanswered requests, and after the end of
\* run_loop there are none.
LEMMA UnansweredCount ==
  ASSUME EngineInv
  PROVE  /\ IsFiniteSet(Unanswered) /\ Cardinality(Unanswered) = NumUnfinished
         /\ Cardinality(InFlight) = NumUnfinished
         /\ Unanswered \subseteq DOMAIN out
         /\ Ended /\ pc = "idle" => Unanswered = {}
<1>1. /\ waiting \in Seq(Item) /\ IsFiniteSet(DOMAIN active_requests)
      /\ IsFiniteSet(DOMAIN pending_pulls)
  BY DEF EngineInv, TypeInv
<1>2. /\ DOMAIN waiting = 1..Len(waiting) /\ Len(waiting) \in Nat
      /\ IsFiniteSet(DOMAIN waiting) /\ Cardinality(DOMAIN waiting) = Len(waiting)
  <2>1. DOMAIN waiting = 1..Len(waiting) /\ Len(waiting) \in Nat
    BY <1>1
  <2> QED BY <2>1, UpTo
<1>3. IsFiniteSet(ActiveNs) /\ Cardinality(ActiveNs) = Cardinality(DOMAIN active_requests)
  <2> DEFINE m == [i \in DOMAIN active_requests |-> active_requests[i].n]
  <2>1. m \in [DOMAIN active_requests -> ActiveNs]
        /\ \A v \in ActiveNs : \E i \in DOMAIN active_requests : m[i] = v
    BY DEF ActiveNs
  <2>2. \A i, j \in DOMAIN active_requests : m[i] = m[j] => i = j
    BY NumbersDistinct
  <2> HIDE DEF m
  <2> QED BY <1>1, <2>1, <2>2, ImageCount
<1>4. IsFiniteSet(PullNs) /\ Cardinality(PullNs) = Cardinality(DOMAIN pending_pulls)
  <2> DEFINE m == [i \in DOMAIN pending_pulls |-> pending_pulls[i].n]
  <2>1. m \in [DOMAIN pending_pulls -> PullNs]
        /\ \A v \in PullNs : \E i \in DOMAIN pending_pulls : m[i] = v
    BY DEF PullNs
  <2>2. \A i, j \in DOMAIN pending_pulls : m[i] = m[j] => i = j
    BY NumbersDistinct
  <2> HIDE DEF m
  <2> QED BY <1>1, <2>1, <2>2, ImageCount
<1>5. IsFiniteSet(WaitingNs) /\ Cardinality(WaitingNs) = Len(waiting)
  <2> DEFINE m == [k \in DOMAIN waiting |-> waiting[k].n]
  <2>1. m \in [DOMAIN waiting -> WaitingNs]
        /\ \A v \in WaitingNs : \E k \in DOMAIN waiting : m[k] = v
    BY DEF WaitingNs
  <2>2. \A j, k \in DOMAIN waiting : m[j] = m[k] => j = k
    BY NumbersDistinct
  <2> HIDE DEF m
  <2> QED BY <1>2, <2>1, <2>2, ImageCount
<1>6. IsFiniteSet(WaitingIds) /\ Cardinality(WaitingIds) = Len(waiting)
  <2> DEFINE m == [k \in DOMAIN waiting |-> waiting[k].id]
  <2>1. m \in [DOMAIN waiting -> WaitingIds]
        /\ \A v \in WaitingIds : \E k \in DOMAIN waiting : m[k] = v
    BY DEF WaitingIds
  <2>2. \A j, k \in DOMAIN waiting : m[j] = m[k] => j = k
    BY DEF EngineInv, OnePlace
  <2> HIDE DEF m
  <2> QED BY <1>2, <2>1, <2>2, ImageCount
<1>7. /\ Cardinality(DOMAIN active_requests) \in Nat
      /\ Cardinality(DOMAIN pending_pulls) \in Nat
  BY <1>1, FS_CardinalityType
<1>8. IsFiniteSet(Unanswered) /\ Cardinality(Unanswered) = NumUnfinished
  <2>1. WaitingNs \cap PullNs = {} /\ (WaitingNs \cup PullNs) \cap ActiveNs = {}
    BY NumbersDistinct DEF ActiveNs, PullNs, WaitingNs
  <2>2. IsFiniteSet(WaitingNs \cup PullNs)
        /\ Cardinality(WaitingNs \cup PullNs) = Len(waiting) + Cardinality(DOMAIN pending_pulls)
    <3>1. IsFiniteSet(WaitingNs \cup PullNs)
          /\ Cardinality(WaitingNs \cup PullNs) = Cardinality(WaitingNs) + Cardinality(PullNs)
      BY <1>4, <1>5, <2>1, DisjointUnion
    <3> QED BY <1>4, <1>5, <3>1
  <2>3. IsFiniteSet((WaitingNs \cup PullNs) \cup ActiveNs)
        /\ Cardinality((WaitingNs \cup PullNs) \cup ActiveNs) = NumUnfinished
    <3>1. IsFiniteSet((WaitingNs \cup PullNs) \cup ActiveNs)
          /\ Cardinality((WaitingNs \cup PullNs) \cup ActiveNs)
               = Cardinality(WaitingNs \cup PullNs) + Cardinality(ActiveNs)
      BY <1>3, <2>1, <2>2, DisjointUnion
    <3> QED BY <1>2, <1>3, <1>7, <2>2, <3>1 DEF NumUnfinished
  <2>4. Unanswered = (WaitingNs \cup PullNs) \cup ActiveNs
    BY DEF Unanswered, ActiveNs, PullNs, WaitingNs
  <2> QED BY <2>3, <2>4
<1>9. Cardinality(InFlight) = NumUnfinished
  <2>1. DOMAIN active_requests \cap DOMAIN pending_pulls = {}
        /\ (DOMAIN active_requests \cup DOMAIN pending_pulls) \cap WaitingIds = {}
    BY DEF EngineInv, OnePlace, WaitingIds
  <2>2. IsFiniteSet(DOMAIN active_requests \cup DOMAIN pending_pulls)
        /\ Cardinality(DOMAIN active_requests \cup DOMAIN pending_pulls)
             = Cardinality(DOMAIN active_requests) + Cardinality(DOMAIN pending_pulls)
    BY <1>1, <2>1, DisjointUnion
  <2>3. Cardinality((DOMAIN active_requests \cup DOMAIN pending_pulls) \cup WaitingIds)
          = Cardinality(DOMAIN active_requests \cup DOMAIN pending_pulls) + Cardinality(WaitingIds)
    BY <1>6, <2>1, <2>2, DisjointUnion
  <2> QED BY <1>2, <1>6, <1>7, <2>2, <2>3 DEF NumUnfinished, InFlight
<1>10. Unanswered \subseteq DOMAIN out
  BY DEF EngineInv, Linked, Unanswered
<1>11. ASSUME Ended, pc = "idle" PROVE Unanswered = {}
  <2>1. CASE lifecycle = "ended"
    <3>1. InFlight = {}
      BY <1>11, <2>1 DEF EngineInv, ShutdownInv
    <3>2. DOMAIN active_requests = {} /\ DOMAIN pending_pulls = {} /\ DOMAIN waiting = {}
      BY <3>1 DEF InFlight, WaitingIds
    <3> QED BY <3>2 DEF Unanswered
  <2>2. CASE NumUnfinished = 0
    BY <1>8, <2>2, FS_EmptySet
  <2> QED BY <1>11, <2>1, <2>2 DEF Ended
<1> QED BY <1>8, <1>9, <1>10, <1>11

\* Every request received is answered exactly once, or is in exactly one of the
\* queue, the pending pulls and the batch; none is left once run_loop has ended.
THEOREM EveryRequestAnsweredOnce == Spec => []AnsweredOnce
<1>1. EngineInv => AnsweredOnce
  BY UnansweredCount DEF AnsweredOnce, EngineInv, EndsExact
<1> QED BY <1>1, EngineInvariant, PTL

\* What was received and what was in flight at the last reset is settled or still
\* in flight.
Balanced == stats.received + base = Settled + Cardinality(Unanswered)

LEMMA StepBalanced == EngineInv /\ Balanced /\ [Next]_vars => Balanced'
<1> SUFFICES ASSUME EngineInv, Balanced, [Next]_vars PROVE Balanced'
  OBVIOUS
<1>1. EngineInv' /\ Effect
  BY StepEffect
<1>2. /\ IsFiniteSet(Unanswered) /\ Cardinality(Unanswered) \in Nat
      /\ Cardinality(Unanswered) = NumUnfinished /\ Unanswered \subseteq DOMAIN out
  BY UnansweredCount, FS_CardinalityType
<1>3. /\ stats.received \in Nat /\ base \in Nat /\ Settled \in Nat
      /\ Len(out) \in Nat /\ DOMAIN out = 1..Len(out)
  BY DEF EngineInv, TypeInv, Settled, Counters
<1>4. CASE Quiet
  <2>1. CASE UNCHANGED <<stats, base>>
    BY <1>4, <2>1 DEF Quiet, Balanced, Settled
  <2>2. CASE stats' = NoStats /\ base' = NumUnfinished
    <3>1. stats'.received = 0 /\ Settled' = 0
      BY <2>2 DEF NoStats, Settled
    <3> QED BY <1>2, <1>4, <2>2, <3>1 DEF Quiet, Balanced
  <2> QED BY <1>4, <2>1, <2>2 DEF Quiet
<1>5. CASE Takes
  <2>1. Len(out) + 1 \notin Unanswered
    BY <1>2, <1>3
  <2>2. Cardinality(Unanswered \cup {Len(out) + 1}) = Cardinality(Unanswered) + 1
    BY <1>2, <2>1, FS_AddElement
  <2> QED BY <1>2, <1>3, <1>5, <2>2 DEF Takes, Balanced
<1>6. CASE Refuses
  <2>1. /\ Cardinality(Unanswered') = Cardinality(Unanswered)
        /\ stats'.received = stats.received + 1 /\ Settled' = Settled + 1 /\ base' = base
    BY <1>6 DEF Refuses
  <2> QED BY <1>2, <1>3, <2>1 DEF Balanced
<1>7. CASE \E S \in SUBSET Unanswered : Finishes(S)
  <2>1. PICK S \in SUBSET Unanswered : Finishes(S)
    BY <1>7
  <2>2. IsFiniteSet(S) /\ IsFiniteSet(Unanswered \ S)
    BY <1>2, FS_Subset
  <2>3. Cardinality(S) \in Nat /\ Cardinality(Unanswered \ S) \in Nat
    BY <2>2, FS_CardinalityType
  <2>4. Cardinality((Unanswered \ S) \cup S) = Cardinality(Unanswered \ S) + Cardinality(S)
    BY <2>2, DisjointUnion
  <2>5. (Unanswered \ S) \cup S = Unanswered
    OBVIOUS
  <2>6. /\ Cardinality(Unanswered') = Cardinality(Unanswered \ S)
        /\ Cardinality(Unanswered) = Cardinality(Unanswered \ S) + Cardinality(S)
        /\ stats'.received = stats.received /\ base' = base
        /\ Settled' = Settled + Cardinality(S)
    BY <2>1, <2>4, <2>5 DEF Finishes
  <2> QED BY <1>2, <1>3, <2>3, <2>6 DEF Balanced
<1> QED BY <1>1, <1>4, <1>5, <1>6, <1>7 DEF Effect

\* The counters of GET /stats balance at every moment, whatever the aborts, the
\* finishes and the resets in between.
THEOREM CountersAlwaysBalance == Spec => []CountersBalance
<1>1. Init => Balanced
  <2> SUFFICES ASSUME Init PROVE Balanced
    OBVIOUS
  <2>1. Unanswered = {}
    <3>1. DOMAIN waiting = {} /\ DOMAIN pending_pulls = {} /\ DOMAIN active_requests = {}
      BY DEF Init
    <3> QED BY <3>1 DEF Unanswered
  <2> QED BY <2>1, FS_EmptySet DEF Init, Balanced, Settled, NoStats
<1>2. EngineInv /\ Balanced /\ [Next]_vars => Balanced'
  BY StepBalanced
<1>3. EngineInv /\ Balanced => CountersBalance
  BY UnansweredCount DEF Balanced, CountersBalance, Settled
<1> QED BY <1>1, <1>2, <1>3, EngineInvariant, PTL DEF Spec

-----------------------------------------------------------------------------
(* No token is lost or sent twice                                           *)

\* What TokensConserved says of one request of the batch.
Conserves(a) ==
  /\ a.emitted + SumFunction(a.pending_emits) = a.generated
  /\ a.generated <= a.max_tokens
  /\ a.emitted < a.max_tokens

\* Nothing was emitted yet of a request that waits or pulls.
Unstreamed == \A n \in WaitingNs \cup PullNs : out[n].tokens = 0

\* Every token generated becomes part of one chunk.
LEMMA GenerateConserves ==
  ASSUME NEW a, ActiveOK(a), Conserves(a), NEW size \in Int
  PROVE  /\ Conserves(Generate(a, size)) /\ Generate(a, size).emitted = a.emitted
<1> DEFINE len == Smaller(a.max_tokens - a.generated, size)
           g == [a EXCEPT !.generated = @ + len, !.pending_emits = Append(@, len)]
<1>1. /\ len \in Int /\ len <= a.max_tokens - a.generated
      /\ a.generated \in Int /\ a.emitted \in Int /\ a.max_tokens \in Nat
      /\ a.pending_emits \in Seq(Int)
  BY DEF Smaller, ActiveOK
<1>2. Generate(a, size) = IF len = 0 THEN a ELSE g
  BY DEF Generate
<1> HIDE DEF len
<1>3. SumFunction(Append(a.pending_emits, len)) = SumFunction(a.pending_emits) + len
  BY <1>1, SumAppend
<1>4. /\ g.generated = a.generated + len /\ g.pending_emits = Append(a.pending_emits, len)
      /\ g.max_tokens = a.max_tokens /\ g.emitted = a.emitted
  BY DEF ActiveOK
<1> HIDE DEF g
<1>5. SumFunction(a.pending_emits) \in Int
  BY <1>1, SumIsInt
<1>6. Conserves(g)
  BY <1>1, <1>3, <1>4, <1>5 DEF Conserves
<1> QED BY <1>2, <1>4, <1>6

\* What a step must do to the streams to keep them: what it emits of a request is
\* what `out' gets, and a request joins the batch with nothing emitted.
Streamed ==
  /\ \A i \in DOMAIN active_requests' :
       /\ Conserves(active_requests'[i])
       /\ out'[active_requests'[i].n].tokens = active_requests'[i].emitted
  /\ Unstreamed'

\* The places change, but not what the frontend was sent.
LEMMA StreamsKept ==
  ASSUME EngineInv, TokensConserved, Unstreamed,
         \A n \in DOMAIN out : out'[n].tokens = out[n].tokens,
         \A i \in DOMAIN active_requests' :
           /\ i \in DOMAIN active_requests /\ active_requests'[i].n = active_requests[i].n
           /\ active_requests'[i].emitted = active_requests[i].emitted
           /\ Conserves(active_requests[i]) => Conserves(active_requests'[i]),
         \A n \in (WaitingNs \cup PullNs)' :
           n \in WaitingNs \cup PullNs \/ out'[n].tokens = 0
  PROVE  Streamed
<1>1. \A i \in DOMAIN active_requests :
        /\ Conserves(active_requests[i]) /\ active_requests[i].n \in DOMAIN out
        /\ out[active_requests[i].n].tokens = active_requests[i].emitted
  BY DEF TokensConserved, Conserves, EngineInv, Linked
<1>2. WaitingNs \cup PullNs \subseteq DOMAIN out
  BY DEF EngineInv, Linked, WaitingNs, PullNs
<1>3. Unstreamed'
  BY <1>2 DEF Unstreamed
<1> QED BY <1>1, <1>3 DEF Streamed

LEMMA OutsideBatch ==
  EngineInv => WaitingNs \cup PullNs = Unanswered \ ActiveNs
<1> SUFFICES ASSUME EngineInv PROVE WaitingNs \cup PullNs = Unanswered \ ActiveNs
  OBVIOUS
<1>1. (WaitingNs \cup PullNs) \cap ActiveNs = {}
  BY NumbersDistinct DEF WaitingNs, PullNs, ActiveNs
<1>2. Unanswered = WaitingNs \cup PullNs \cup ActiveNs
  BY DEF Unanswered, WaitingNs, PullNs, ActiveNs
<1> QED BY <1>1, <1>2

\* A new request starts with nothing sent.
LEMMA ReceiveStreams ==
  ASSUME EngineInv, TokensConserved, Unstreamed, NEW i \in Ids, NEW e \in Nat, Receive(i, e),
         UNCHANGED <<pending_pulls, active_requests>>,
         \/ UNCHANGED waiting
         \/ \E kind \in Kinds :
              waiting' = Append(waiting, [n |-> Len(out) + 1, id |-> i, kind |-> kind])
  PROVE  Streamed
<1> DEFINE new == [id |-> i, tokens |-> 0, ends |-> e]
<1>1. out' = Append(out, new) /\ new \in Sent /\ out \in Seq(Sent) /\ new.tokens = 0
  BY SentFacts DEF Receive, EngineInv, TypeInv
<1> HIDE DEF new
<1>2. /\ out'[Len(out) + 1].tokens = 0 /\ \A n \in DOMAIN out : out'[n] = out[n]
  BY <1>1, AppendFacts
<1>3. WaitingNs' \subseteq WaitingNs \cup {Len(out) + 1}
  <2>1. CASE UNCHANGED waiting
    BY <2>1 DEF WaitingNs
  <2>2. ASSUME NEW kind \in Kinds,
               waiting' = Append(waiting, [n |-> Len(out) + 1, id |-> i, kind |-> kind])
        PROVE  WaitingNs' \subseteq WaitingNs \cup {Len(out) + 1}
    <3> DEFINE item == [n |-> Len(out) + 1, id |-> i, kind |-> kind]
    <3>1. waiting \in Seq(Item) /\ item \in Item /\ item.n = Len(out) + 1
      BY DEF EngineInv, TypeInv, Item
    <3>2. waiting' = Append(waiting, item)
      BY <2>2
    <3> HIDE DEF item
    <3> QED BY <3>1, <3>2, AppendFacts DEF WaitingNs
  <2> QED BY <2>1, <2>2
<1>4. PullNs' = PullNs
  BY DEF PullNs
<1> QED BY <1>2, <1>3, <1>4, StreamsKept

\* A request that joins the batch owes all its tokens.
LEMMA AdmissionStreams ==
  ASSUME EngineInv, TokensConserved, Unstreamed, Admit \/ FinishPull
  PROVE  Streamed
<1>1. /\ EngineInv'
      /\ Unanswered' \subseteq Unanswered
  BY AdmitInv, FinishPullInv DEF Quiet, Finishes
<1>2. ASSUME NEW q, Taken(q), AdmitDirect(q), ActiveNs \subseteq ActiveNs' => 
               (WaitingNs \cup PullNs)' \subseteq WaitingNs \cup PullNs
      PROVE  Streamed
  <2>0. q.id \notin DOMAIN active_requests /\ q.n \in WaitingNs \cup PullNs /\ q \in Item
        /\ q.n \in DOMAIN out
    BY <1>2, OutsideBatch DEF Taken
  <2>1. CASE RejectInvalid(q)
    <3>1. UNCHANGED active_requests /\ out' = [out EXCEPT ![q.n].ends = @ + 1]
      BY <2>1 DEF RejectInvalid
    <3>2. \A n \in DOMAIN out : out[n] \in Sent
      BY DEF EngineInv, TypeInv
    <3>3. \A n \in DOMAIN out : out'[n].tokens = out[n].tokens
      BY <3>1, <3>2 DEF Sent
    <3>4. ActiveNs' = ActiveNs
      BY <3>1 DEF ActiveNs
    <3> QED BY <1>2, <3>1, <3>3, <3>4, StreamsKept
  <2>2. CASE Activate(q) /\ q.kind.max_tokens > 0
    <3>1. UNCHANGED out
      BY <2>2 DEF Activate
    <3>2. PICK a : /\ active_requests' = Put(active_requests, q.id, a) /\ a.n = q.n
                   /\ a.max_tokens \in Lengths(q.kind)
                   /\ a.generated = 0 /\ a.emitted = 0 /\ a.pending_emits = <<>>
      BY <2>2 DEF Activate
    <3>3. a.max_tokens \in Nat /\ a.max_tokens > 0
      BY <2>0, <3>2, KindsAssumption DEF Lengths, Item
    <3>4. SumFunction(<<>>) = 0
      BY SumEmpty
    <3>5. Conserves(a)
      BY <3>2, <3>3, <3>4 DEF Conserves
    <3>6. /\ DOMAIN active_requests' = DOMAIN active_requests \cup {q.id}
          /\ active_requests'[q.id] = a
          /\ \A i \in DOMAIN active_requests : active_requests'[i] = active_requests[i]
      <4>1. DOMAIN active_requests' = DOMAIN active_requests \cup {q.id}
        BY <3>2 DEF Put
      <4>2. active_requests'[q.id] = a
        BY <3>2 DEF Put
      <4>3. \A i \in DOMAIN active_requests : active_requests'[i] = active_requests[i]
        BY <2>0, <3>2 DEF Put
      <4> QED BY <4>1, <4>2, <4>3
    <3>7. ActiveNs \subseteq ActiveNs'
      BY <3>6 DEF ActiveNs
    <3>8. Unstreamed'
      BY <1>2, <3>1, <3>7 DEF Unstreamed
    <3>9. ASSUME NEW i \in DOMAIN active_requests'
          PROVE  /\ Conserves(active_requests'[i])
                 /\ out'[active_requests'[i].n].tokens = active_requests'[i].emitted
      <4>1. CASE i = q.id
        BY <2>0, <3>1, <3>2, <3>5, <3>6, <4>1 DEF Unstreamed
      <4>2. CASE i # q.id
        BY <3>1, <3>6, <4>2 DEF TokensConserved, Conserves
      <4> QED BY <4>1, <4>2
    <3> QED BY <3>8, <3>9 DEF Streamed
  <2> QED BY <1>2, <2>1, <2>2 DEF AdmitDirect
<1>3. ActiveNs \subseteq ActiveNs' => (WaitingNs \cup PullNs)' \subseteq WaitingNs \cup PullNs
  <2>1. (WaitingNs \cup PullNs)' = Unanswered' \ ActiveNs'
    <3>1. EngineInv' => (WaitingNs \cup PullNs = Unanswered \ ActiveNs)'
      BY OutsideBatch, PTL
    <3> QED BY <1>1, <3>1
  <2> QED BY <1>1, <2>1, OutsideBatch
<1>4. CASE Admit
  <2>1. PICK k \in NextAdmissible :
          /\ waiting' = RemoveAt(waiting, k)
          /\ \/ AdmitPull(waiting[k])
             \/ AdmitDirect(waiting[k]) /\ UNCHANGED pending_pulls
    BY <1>4 DEF Admit
  <2>2. k \in DOMAIN waiting
    BY DEF NextAdmissible, Admissible
  <2>3. CASE AdmitPull(waiting[k])
    <3>1. UNCHANGED <<active_requests, out>>
      BY <2>3 DEF AdmitPull
    <3>2. ActiveNs' = ActiveNs
      BY <3>1 DEF ActiveNs
    <3> QED BY <1>3, <3>1, <3>2, StreamsKept
  <2>4. CASE AdmitDirect(waiting[k]) /\ UNCHANGED pending_pulls
    BY <1>2, <1>3, <2>1, <2>2, <2>4, TakenFromQueue
  <2> QED BY <2>1, <2>3, <2>4
<1>5. CASE FinishPull
  <2>1. PICK i \in PullTarget(Head(completions)) :
          /\ pending_pulls' = Drop(pending_pulls, {i})
          /\ AdmitDirect([n |-> pending_pulls[i].n, id |-> i, kind |-> pending_pulls[i].kind])
    BY <1>5 DEF FinishPull
  <2>2. PICK q : q = [n |-> pending_pulls[i].n, id |-> i, kind |-> pending_pulls[i].kind]
    OBVIOUS
  <2>3. i \in DOMAIN pending_pulls /\ UNCHANGED waiting
    BY <1>5 DEF PullTarget, FinishPull
  <2>4. Taken(q)
    BY <2>1, <2>2, <2>3, TakenFromPulls
  <2> QED BY <1>2, <1>3, <2>1, <2>2, <2>4
<1> QED BY <1>4, <1>5

\* The step's draws and chunks become tokens.
LEMMA StepStreams ==
  ASSUME EngineInv, TokensConserved, Unstreamed, CompleteStep \/ DrainChunk
  PROVE  Streamed
<1>1. UNCHANGED <<waiting, pending_pulls, out>>
  BY DEF CompleteStep, DrainChunk, history
<1>2. WaitingNs' = WaitingNs /\ PullNs' = PullNs
  BY <1>1 DEF WaitingNs, PullNs
<1>3. \A i \in DOMAIN active_requests :
        ActiveOK(active_requests[i]) /\ Conserves(active_requests[i])
  BY DEF EngineInv, TypeInv, TokensConserved, Conserves
<1>4. CASE CompleteStep
  <2> DEFINE size(i) == IF current_step.decoders[i] > 1 THEN current_step.decoders[i] ELSE ChunkSize
  <2>1. active_requests' =
             [i \in DOMAIN active_requests |->
                IF i \in DOMAIN current_step.decoders THEN Generate(active_requests[i], size(i))
                ELSE active_requests[i]]
    BY <1>4 DEF CompleteStep
  <2>2. \A i \in DOMAIN current_step.decoders : size(i) \in Int
    BY ConfigAssumption DEF EngineInv, TypeInv
  <2> HIDE DEF size
  <2>3. ASSUME NEW i \in DOMAIN active_requests'
        PROVE  /\ i \in DOMAIN active_requests /\ active_requests'[i].n = active_requests[i].n
               /\ active_requests'[i].emitted = active_requests[i].emitted
               /\ Conserves(active_requests'[i])
    <3>1. i \in DOMAIN active_requests
      BY <2>1
    <3> QED BY <1>3, <2>1, <2>2, <3>1, GenerateFacts, GenerateConserves
  <2> QED BY <1>1, <1>2, <2>3, StreamsKept
<1>5. CASE DrainChunk
  <2> DEFINE i == Head(todo).id
             left == Larger(active_requests[i].remaining - Head(todo).take, 0)
             drained == [active_requests[i] EXCEPT !.phase = "decode", !.remaining = 0]
  <2>1. \/ UNCHANGED active_requests
        \/ i \in Prefilling /\ active_requests' = [active_requests EXCEPT ![i].remaining = left]
        \/ /\ i \in Prefilling
           /\ \E size \in {ChunkSize} \cup 1..MaxDraw :
                active_requests' = [active_requests EXCEPT ![i] = Generate(drained, size)]
    <3> HIDE DEF i, left, drained
    <3>1. CASE i \notin Prefilling
      BY <1>5, <3>1 DEF DrainChunk, i
    <3>2. CASE i \in Prefilling /\ left > 0
      BY <1>5, <3>2 DEF DrainChunk, i, left
    <3>3. CASE i \in Prefilling /\ ~(left > 0)
      BY <1>5, <3>3 DEF DrainChunk, i, left, drained
    <3> QED BY <3>1, <3>2, <3>3
  <2> HIDE DEF i, left
  <2>2. ASSUME i \in Prefilling, NEW b, active_requests' = [active_requests EXCEPT ![i] = b],
               b.n = active_requests[i].n, b.emitted = active_requests[i].emitted, Conserves(b)
        PROVE  Streamed
    <3>1. \A j \in DOMAIN active_requests' :
            /\ j \in DOMAIN active_requests
            /\ active_requests'[j] = IF j = i THEN b ELSE active_requests[j]
      BY <2>2
    <3> QED BY <1>1, <1>2, <2>2, <3>1, StreamsKept
  <2>3. CASE UNCHANGED active_requests
    BY <1>1, <1>2, <2>3, StreamsKept
  <2>4. CASE i \in Prefilling /\ active_requests' = [active_requests EXCEPT ![i].remaining = left]
    <3>1. i \in DOMAIN active_requests
      BY <2>4 DEF Prefilling
    <3> DEFINE a == active_requests[i]
               b == [a EXCEPT !.remaining = left]
    <3>2. active_requests' = [active_requests EXCEPT ![i] = b]
      BY <2>4
    <3>3. /\ b.n = a.n /\ b.emitted = a.emitted /\ b.generated = a.generated
          /\ b.max_tokens = a.max_tokens /\ b.pending_emits = a.pending_emits
      BY <1>3, <3>1 DEF ActiveOK
    <3> HIDE DEF b
    <3>4. Conserves(b)
      BY <1>3, <3>1, <3>3 DEF Conserves
    <3> QED BY <2>2, <2>4, <3>2, <3>3, <3>4
  <2>5. CASE /\ i \in Prefilling
             /\ \E size \in {ChunkSize} \cup 1..MaxDraw :
                  active_requests' = [active_requests EXCEPT ![i] = Generate(drained, size)]
    <3>1. PICK size \in {ChunkSize} \cup 1..MaxDraw :
            active_requests' = [active_requests EXCEPT ![i] = Generate(drained, size)]
      BY <2>5
    <3>2. size \in Int
      BY ConfigAssumption, BoundsAssumption
    <3>3. i \in DOMAIN active_requests
      BY <2>5 DEF Prefilling
    <3>4. /\ drained.remaining = 0
          /\ drained \in [n : Nat, kind : Kinds, max_tokens : Nat, phase : {"prefill", "decode"},
                          remaining : {0}, generated : Int, emitted : Int, pending_emits : Seq(Int)]
          /\ drained.n = active_requests[i].n /\ drained.emitted = active_requests[i].emitted
          /\ drained.generated = active_requests[i].generated
          /\ drained.max_tokens = active_requests[i].max_tokens
          /\ drained.pending_emits = active_requests[i].pending_emits
      BY <1>3, <3>3 DEF ActiveOK
    <3> HIDE DEF drained
    <3>5. ActiveOK(drained) /\ Conserves(drained)
      BY <1>3, <3>3, <3>4 DEF ActiveOK, Conserves
    <3>6. /\ Conserves(Generate(drained, size))
          /\ Generate(drained, size).emitted = active_requests[i].emitted
          /\ Generate(drained, size).n = active_requests[i].n
      BY <3>2, <3>4, <3>5, GenerateFacts, GenerateConserves
    <3> QED BY <2>2, <2>5, <3>1, <3>6
  <2> QED BY <2>1, <2>3, <2>4, <2>5
<1> QED BY <1>4, <1>5

\* The chunk at the head of the queue goes out, and is what the frontend gets.
LEMMA EmitStreams ==
  ASSUME EngineInv, TokensConserved, Unstreamed, NEW R \in SUBSET DOMAIN active_requests, Emit(R)
  PROVE  Streamed
<1> DEFINE sent(i) == Head(active_requests[i].pending_emits)
           finished == {i \in R : active_requests[i].emitted + sent(i)
                                    >= active_requests[i].max_tokens}
<1>1. /\ active_requests' =
           [i \in DOMAIN active_requests \ finished |->
              IF i \in R
                THEN [active_requests[i] EXCEPT !.emitted = @ + sent(i), !.pending_emits = Tail(@)]
                ELSE active_requests[i]]
      /\ out' = [n \in DOMAIN out |->
                   IF \E i \in R : active_requests[i].n = n
                     THEN LET i == CHOOSE j \in R : active_requests[j].n = n
                          IN  [out[n] EXCEPT !.tokens = @ + sent(i),
                                             !.ends = IF i \in finished THEN @ + 1 ELSE @]
                     ELSE out[n]]
      /\ \A i \in R : active_requests[i].pending_emits # <<>>
      /\ UNCHANGED <<waiting, pending_pulls>>
  BY DEF Emit
<1>2. \A i \in DOMAIN active_requests :
        /\ ActiveOK(active_requests[i]) /\ Conserves(active_requests[i])
        /\ active_requests[i].n \in DOMAIN out
        /\ out[active_requests[i].n].tokens = active_requests[i].emitted
        /\ out[active_requests[i].n] \in Sent
  BY DEF EngineInv, TypeInv, Linked, TokensConserved, Conserves
<1>3. ASSUME NEW i \in R
      PROVE  /\ sent(i) \in Int /\ Tail(active_requests[i].pending_emits) \in Seq(Int)
             /\ SumFunction(active_requests[i].pending_emits)
                  = sent(i) + SumFunction(Tail(active_requests[i].pending_emits))
  <2>1. active_requests[i].pending_emits \in Seq(Int)
        /\ active_requests[i].pending_emits # <<>>
    BY <1>1, <1>2 DEF ActiveOK
  <2> QED BY <2>1, HeadTailProperties, SumTail
<1>4. \A i \in DOMAIN active_requests \ finished :
        i \in R => ~(active_requests[i].emitted + sent(i) >= active_requests[i].max_tokens)
  OBVIOUS
<1> HIDE DEF sent, finished
<1>5. ASSUME NEW i \in R
      PROVE  out'[active_requests[i].n].tokens = active_requests[i].emitted + sent(i)
  <2> DEFINE n == active_requests[i].n
             j == CHOOSE k \in R : active_requests[k].n = n
  <2>1. j \in R /\ active_requests[j].n = n
    OBVIOUS
  <2>2. j = i
    BY <2>1, NumbersDistinct
  <2>3. n \in DOMAIN out /\ out[n] \in Sent /\ out[n].tokens = active_requests[i].emitted
    BY <1>2
  <2>4. out'[n] = [out[n] EXCEPT !.tokens = @ + sent(j),
                                 !.ends = IF j \in finished THEN @ + 1 ELSE @]
    BY <1>1, <2>3
  <2> HIDE DEF n, j
  <2>5. out'[n].tokens = out[n].tokens + sent(j)
    BY <2>3, <2>4 DEF Sent
  <2> QED BY <2>2, <2>3, <2>5 DEF n
<1>6. \A n \in DOMAIN out : (\A i \in R : active_requests[i].n # n) => out'[n] = out[n]
  BY <1>1
<1>7. ASSUME NEW i \in DOMAIN active_requests'
      PROVE  /\ Conserves(active_requests'[i])
             /\ out'[active_requests'[i].n].tokens = active_requests'[i].emitted
  <2>1. i \in DOMAIN active_requests \ finished
    BY <1>1
  <2> DEFINE a == active_requests[i]
             b == [a EXCEPT !.emitted = @ + sent(i), !.pending_emits = Tail(@)]
  <2>2. CASE i \in R
    <3>1. active_requests'[i] = b
      BY <1>1, <2>1, <2>2
    <3>2. /\ b.emitted = a.emitted + sent(i) /\ b.pending_emits = Tail(a.pending_emits)
          /\ b.generated = a.generated /\ b.max_tokens = a.max_tokens /\ b.n = a.n
      BY <1>2, <2>1 DEF ActiveOK
    <3>3. /\ a.emitted \in Int /\ a.max_tokens \in Nat /\ a.generated \in Int
          /\ a.pending_emits \in Seq(Int)
      BY <1>2, <2>1 DEF ActiveOK
    <3>4. /\ sent(i) \in Int /\ SumFunction(Tail(a.pending_emits)) \in Int
          /\ SumFunction(a.pending_emits) = sent(i) + SumFunction(Tail(a.pending_emits))
      BY <1>3, <2>2, SumIsInt
    <3>5. /\ a.emitted + SumFunction(a.pending_emits) = a.generated /\ a.generated <= a.max_tokens
          /\ ~(a.emitted + sent(i) >= a.max_tokens)
      BY <1>2, <1>4, <2>1, <2>2 DEF Conserves
    <3>6. out'[a.n].tokens = a.emitted + sent(i)
      BY <1>5, <2>2
    <3> HIDE DEF a, b
    <3>7. Conserves(b)
      BY <3>2, <3>3, <3>4, <3>5 DEF Conserves
    <3> QED BY <3>1, <3>2, <3>6, <3>7
  <2>3. CASE i \notin R
    <3>1. active_requests'[i] = active_requests[i]
      BY <1>1, <2>1, <2>3
    <3>2. \A j \in R : active_requests[j].n # active_requests[i].n
      BY <2>1, <2>3, NumbersDistinct
    <3> QED BY <1>2, <1>6, <2>1, <3>1, <3>2
  <2> QED BY <2>2, <2>3
<1>8. Unstreamed'
  <2>1. (WaitingNs \cup PullNs)' = WaitingNs \cup PullNs
    BY <1>1 DEF WaitingNs, PullNs
  <2>2. \A n \in WaitingNs \cup PullNs :
          n \in DOMAIN out /\ \A i \in R : active_requests[i].n # n
    BY NumbersDistinct DEF EngineInv, Linked, WaitingNs, PullNs
  <2> QED BY <1>6, <2>1, <2>2 DEF Unstreamed
<1> QED BY <1>7, <1>8 DEF Streamed

LEMMA AbortStreams ==
  ASSUME EngineInv, TokensConserved, Unstreamed, AbortOne PROVE Streamed
<1> DEFINE i == Head(todo)
<1>1. Removed(i)
  BY RemovedFacts DEF AbortOne
<1>2. out' = [n \in DOMAIN out |->
                IF n \in Holder(i) THEN [out[n] EXCEPT !.ends = @ + 1] ELSE out[n]]
  BY DEF AbortOne
<1> HIDE DEF i
<1>3. \A n \in DOMAIN out : out'[n].tokens = out[n].tokens
  <2>1. \A n \in DOMAIN out : out[n] \in Sent
    BY DEF EngineInv, TypeInv
  <2> QED BY <1>2, <2>1 DEF Sent
<1>4. (WaitingNs \cup PullNs)' \subseteq WaitingNs \cup PullNs
  BY <1>1 DEF Removed
<1>5. \A j \in DOMAIN active_requests' :
        j \in DOMAIN active_requests /\ active_requests'[j] = active_requests[j]
  BY <1>1 DEF Removed
<1> QED BY <1>3, <1>4, <1>5, StreamsKept

LEMMA StreamStep ==
  ASSUME EngineInv, TokensConserved, Unstreamed, [Next]_vars PROVE Streamed
<1>1. CASE UNCHANGED <<waiting, pending_pulls, active_requests, out>>
  <2>1. WaitingNs' = WaitingNs /\ PullNs' = PullNs
    BY <1>1 DEF WaitingNs, PullNs
  <2> QED BY <1>1, <2>1, StreamsKept
<1>2. CASE \E i \in Ids : AddDuplicate(i) \/ AddFailed(i) \/ RejectRequest(i)
  BY <1>2, ReceiveStreams DEF AddDuplicate, AddFailed, RejectRequest, engine
<1>3. CASE \E i \in Ids, kind \in Kinds : AddQueued(i, kind)
  BY <1>3, ReceiveStreams DEF AddQueued
<1>4. CASE \E R \in SUBSET DOMAIN active_requests : Emit(R)
  BY <1>4, EmitStreams
<1>5. CASE \/ \E s \in AbortLists : Abort(s)
           \/ \E c \in Configs : PatchConfig(c)
           \/ ResetStats \/ ResetPrefixCache \/ StartDrain \/ AbortAll
           \/ (\E p \in pulls : PullLock(p))
           \/ (\E p \in dp_owner, ok \in BOOLEAN : PullDone(p, ok))
           \/ DropPull \/ AdvertiseOne \/ ScheduleEnd
  BY <1>1, <1>5 DEF Abort, PatchConfig, ResetStats, ResetPrefixCache, StartDrain, AbortAll,
                    PullLock, PullDone, DropPull, AdvertiseOne, ScheduleEnd, engine, history
<1>6. CASE UNCHANGED vars
  BY <1>1, <1>6 DEF vars, engine, history
<1> QED BY <1>2, <1>3, <1>4, <1>5, <1>6, AdmissionStreams, StepStreams, AbortStreams
        DEF Next, Message, Work

\* Nothing is lost or counted twice: the counters of GET /stats balance, and every
\* request has been sent exactly what it generated less the chunks still due, never
\* more than its max_tokens.
THEOREM NothingLostOrCountedTwice == Spec => []Conserved
<1>1. Init => TokensConserved /\ Unstreamed
  <2> SUFFICES ASSUME Init PROVE TokensConserved /\ Unstreamed
    OBVIOUS
  <2>1. DOMAIN waiting = {} /\ DOMAIN pending_pulls = {} /\ DOMAIN active_requests = {}
    BY DEF Init
  <2> QED BY <2>1 DEF TokensConserved, Unstreamed, WaitingNs, PullNs
<1>2. EngineInv /\ TokensConserved /\ Unstreamed /\ [Next]_vars => (TokensConserved /\ Unstreamed)'
  BY StreamStep DEF Streamed, TokensConserved, Conserves
<1>3. CountersBalance /\ TokensConserved => Conserved
  BY DEF Conserved
<1> QED BY <1>1, <1>2, <1>3, EngineInvariant, CountersAlwaysBalance, PTL DEF Spec

-----------------------------------------------------------------------------
(* The engine implements its contract                                      *)

LEMMA AnsweredExactly ==
  ASSUME EngineInv
  PROVE  /\ Unanswered \subseteq DOMAIN out /\ Answered = DOMAIN out \ Unanswered
         /\ DOMAIN out = 1..Len(out) /\ Len(out) \in Nat
<1>1. Unanswered \subseteq DOMAIN out
  BY DEF EngineInv, Linked, Unanswered
<1>2. \A n \in DOMAIN out : out[n].ends = IF n \in Unanswered THEN 0 ELSE 1
  BY DEF EngineInv, EndsExact
<1>3. out \in Seq(Sent)
  BY DEF EngineInv, TypeInv
<1> QED BY <1>1, <1>2, <1>3 DEF Answered

LEMMA ContractStep == EngineInv /\ [Next]_vars => [Contract!Next]_<<Unanswered, Answered>>
<1> SUFFICES ASSUME EngineInv, [Next]_vars
             PROVE  Contract!Next \/ UNCHANGED <<Unanswered, Answered>>
  OBVIOUS
<1>1. EngineInv' /\ Effect
  BY StepEffect
<1>2. /\ Unanswered \subseteq DOMAIN out /\ Answered = DOMAIN out \ Unanswered
      /\ DOMAIN out = 1..Len(out) /\ Len(out) \in Nat
  BY AnsweredExactly
<1>3. Answered' = DOMAIN out' \ Unanswered' /\ DOMAIN out' = 1..Len(out')
  <2>1. out' \in Seq(Sent)
    BY <1>1 DEF EngineInv, TypeInv
  <2>2. \A n \in DOMAIN out' : out'[n].ends = IF n \in Unanswered' THEN 0 ELSE 1
    BY <1>1 DEF EngineInv, EndsExact
  <2>3. Answered' = DOMAIN out' \ Unanswered'
    BY <2>2 DEF Answered
  <2> QED BY <2>1, <2>3
<1>4. MaxSends \in Nat
  BY BoundsAssumption
<1> DEFINE r == Len(out) + 1
<1>5. Len(out) < MaxSends => r \in 1..MaxSends /\ r \notin Unanswered \cup Answered
  BY <1>2, <1>4
<1>6. Len(out') = Len(out) + 1 => DOMAIN out' = DOMAIN out \cup {r}
  BY <1>2, <1>3
<1>7. Len(out') = Len(out) => DOMAIN out' = DOMAIN out
  BY <1>2, <1>3
<1>8. r \notin DOMAIN out
  BY <1>2
<1> HIDE DEF r
<1>9. CASE Quiet
  BY <1>2, <1>3, <1>7, <1>9 DEF Quiet
<1>10. CASE Takes
  <2>1. r \in (1..MaxSends) \ (Unanswered \cup Answered) /\ Unanswered' = Unanswered \cup {r}
    BY <1>5, <1>10 DEF Takes, r
  <2>2. Answered' = Answered
    BY <1>2, <1>3, <1>6, <1>8, <1>10, <2>1 DEF Takes
  <2>3. Contract!Accept(r)
    BY <2>1, <2>2 DEF Contract!Accept
  <2> QED BY <2>1, <2>3 DEF Contract!Next
<1>11. CASE Refuses
  <2>1. r \in (1..MaxSends) \ (Unanswered \cup Answered) /\ Unanswered' = Unanswered
    BY <1>5, <1>11 DEF Refuses
  <2>2. Answered' = Answered \cup {r}
    BY <1>2, <1>3, <1>6, <1>8, <1>11, <2>1 DEF Refuses
  <2>3. Contract!Refuse(r)
    BY <2>1, <2>2 DEF Contract!Refuse
  <2> QED BY <2>1, <2>3 DEF Contract!Next
<1>12. CASE \E S \in SUBSET Unanswered : Finishes(S)
  <2>1. PICK S \in SUBSET Unanswered : Finishes(S)
    BY <1>12
  <2>2. Answered' = Answered \cup S
    BY <1>2, <1>3, <1>7, <2>1 DEF Finishes
  <2>3. Contract!Finish(S)
    BY <2>1, <2>2 DEF Finishes, Contract!Finish
  <2> QED BY <2>3 DEF Contract!Next
<1> QED BY <1>1, <1>9, <1>10, <1>11, <1>12 DEF Effect

\* The engine keeps the promise of the EngineCore trait: each request it is handed
\* is refused at once or counted as unfinished until its one terminal output.
THEOREM EngineKeepsContract == Spec => KeepsContract
<1>1. Init => Contract!Init
  <2> SUFFICES ASSUME Init PROVE Contract!Init
    OBVIOUS
  <2>1. /\ DOMAIN waiting = {} /\ DOMAIN pending_pulls = {} /\ DOMAIN active_requests = {}
        /\ DOMAIN out = {}
    BY DEF Init
  <2> QED BY <2>1 DEF Contract!Init, Unanswered, Answered
<1>2. EngineInv /\ [Next]_vars => [Contract!Next]_<<Unanswered, Answered>>
  BY ContractStep
<1> QED BY <1>1, <1>2, EngineInvariant, PTL DEF Spec, KeepsContract, Contract!Spec, Contract!contract

-----------------------------------------------------------------------------
(* No request generates before its prompt is computed                      *)

\* A request's id, once it was sent, is in `out' for good.
IdsKept == \A n \in DOMAIN out : n \in DOMAIN out' /\ out'[n].id = out[n].id

LEMMA StepKeepsIds == EngineInv /\ [Next]_vars => IdsKept
<1> SUFFICES ASSUME EngineInv, [Next]_vars PROVE IdsKept
  OBVIOUS
<1>0. out \in Seq(Sent)
  BY DEF EngineInv, TypeInv
<1>1. CASE UNCHANGED out
  BY <1>1 DEF IdsKept
<1>2. ASSUME NEW i \in Ids, NEW e \in Nat, Receive(i, e) PROVE IdsKept
  <2> DEFINE new == [id |-> i, tokens |-> 0, ends |-> e]
  <2>1. out' = Append(out, new) /\ new \in Sent
    BY <1>2, SentFacts DEF Receive
  <2> HIDE DEF new
  <2>2. /\ DOMAIN out' = DOMAIN out \cup {Len(out) + 1}
        /\ \A n \in DOMAIN out : out'[n] = out[n]
    BY <1>0, <2>1, AppendFacts
  <2> QED BY <2>2 DEF IdsKept
<1>3. ASSUME NEW q, RejectInvalid(q) PROVE IdsKept
  <2>1. out' = [out EXCEPT ![q.n].ends = @ + 1]
    BY <1>3 DEF RejectInvalid
  <2>2. DOMAIN out' = DOMAIN out
    BY <2>1
  <2>3. ASSUME NEW n \in DOMAIN out PROVE out'[n].id = out[n].id
    <3>1. out[n] \in Sent
      BY <1>0
    <3>2. out'[n] = IF n = q.n THEN [out[n] EXCEPT !.ends = @ + 1] ELSE out[n]
      BY <2>1
    <3> QED BY <3>1, <3>2, SentFacts
  <2> QED BY <2>2, <2>3 DEF IdsKept
<1>4. ASSUME NEW q, AdmitDirect(q) PROVE IdsKept
  BY <1>1, <1>3, <1>4 DEF AdmitDirect, Activate
<1>5. CASE \E R \in SUBSET DOMAIN active_requests : Emit(R)
  BY <1>5, EmitFacts DEF IdsKept
<1>6. CASE AbortOne
  <2>1. out' = [n \in DOMAIN out |->
                  IF n \in Holder(Head(todo)) THEN [out[n] EXCEPT !.ends = @ + 1] ELSE out[n]]
    BY <1>6 DEF AbortOne
  <2>2. DOMAIN out' = DOMAIN out
    BY <2>1
  <2>3. ASSUME NEW n \in DOMAIN out PROVE out'[n].id = out[n].id
    <3>1. out[n] \in Sent
      BY <1>0
    <3> QED BY <2>1, <3>1, SentFacts
  <2> QED BY <2>2, <2>3 DEF IdsKept
<1>7. CASE Admit
  <2>1. PICK k \in NextAdmissible :
          IF waiting[k].kind.mode = "remote"
            THEN AdmitPull(waiting[k])
            ELSE AdmitDirect(waiting[k]) /\ UNCHANGED <<pending_pulls, pulls, completions>>
    BY <1>7 DEF Admit
  <2>2. AdmitPull(waiting[k]) \/ AdmitDirect(waiting[k])
    BY <2>1
  <2>3. CASE AdmitPull(waiting[k])
    BY <1>1, <2>3 DEF AdmitPull
  <2> QED BY <1>4, <2>2, <2>3
<1>8. CASE FinishPull
  BY <1>4, <1>8 DEF FinishPull
<1>9. CASE Message
  <2>1. CASE \E i \in Ids : AddDuplicate(i) \/ AddFailed(i) \/ RejectRequest(i)
    BY <1>2, <2>1 DEF AddDuplicate, AddFailed, RejectRequest
  <2>2. CASE \E i \in Ids, kind \in Kinds : AddQueued(i, kind)
    BY <1>2, <2>2 DEF AddQueued
  <2>3. CASE \/ \E s \in AbortLists : Abort(s)
             \/ \E c \in Configs : PatchConfig(c)
             \/ ResetStats \/ ResetPrefixCache \/ StartDrain \/ AbortAll
    BY <1>1, <2>3 DEF Abort, PatchConfig, ResetStats, ResetPrefixCache, StartDrain, AbortAll, history
  <2> QED BY <1>9, <2>1, <2>2, <2>3 DEF Message
<1>10. CASE ScheduleEnd \/ CompleteStep \/ DrainChunk \/ AdvertiseOne \/ DropPull
            \/ (\E p \in pulls : PullLock(p))
            \/ \E p \in dp_owner, ok \in BOOLEAN : PullDone(p, ok)
  BY <1>1, <1>10 DEF ScheduleEnd, CompleteStep, DrainChunk, AdvertiseOne, DropPull, PullLock,
                     PullDone, history
<1>11. CASE UNCHANGED vars
  BY <1>1, <1>11 DEF vars, history
<1> QED BY <1>5, <1>6, <1>7, <1>8, <1>9, <1>10, <1>11 DEF Next, Work

\* The decoders of the composed step are ids that were sent, that are not queued
\* or pulling and, if they still run, past their prompt: with ids never reused no
\* other request can come to stand under one of them.
FreshInv ==
  /\ \A i \in DOMAIN current_step.decoders :
       /\ \E n \in DOMAIN out : out[n].id = i
       /\ i \notin WaitingIds \cup DOMAIN pending_pulls
       /\ i \in DOMAIN active_requests => active_requests[i].phase # "prefill"
  /\ PrefillBeforeTokens

\* What a step must do to the engine to keep FreshInv: no new decoders, nothing
\* new queued, and a request is prefilling only if it was, without generating, or
\* if it just joined the batch.
Progress ==
  /\ DOMAIN current_step'.decoders \subseteq DOMAIN current_step.decoders
  /\ (WaitingIds \cup DOMAIN pending_pulls)' \subseteq WaitingIds \cup DOMAIN pending_pulls
  /\ \A i \in DOMAIN active_requests' : active_requests'[i].phase = "prefill" =>
       \/ /\ i \in DOMAIN active_requests
          /\ active_requests[i].phase = "prefill"
          /\ active_requests'[i].generated = active_requests[i].generated
       \/ /\ i \in WaitingIds \cup DOMAIN pending_pulls
          /\ active_requests'[i].generated = 0

LEMMA ProgressFresh ==
  ASSUME FreshInv, IdsKept, Progress PROVE FreshInv'
<1>1. ASSUME NEW i \in DOMAIN current_step'.decoders
      PROVE  /\ \E n \in DOMAIN out' : out'[n].id = i
             /\ i \notin (WaitingIds \cup DOMAIN pending_pulls)'
             /\ i \in DOMAIN active_requests' => active_requests'[i].phase # "prefill"
  <2>1. /\ \E n \in DOMAIN out : out[n].id = i
        /\ i \notin WaitingIds \cup DOMAIN pending_pulls
        /\ i \in DOMAIN active_requests => active_requests[i].phase # "prefill"
    BY DEF FreshInv, Progress
  <2> QED BY <2>1 DEF IdsKept, Progress
<1>2. PrefillBeforeTokens'
  BY DEF FreshInv, PrefillBeforeTokens, Prefilling, Progress
<1> QED BY <1>1, <1>2 DEF FreshInv

\* The request that joins the batch comes from the queue or the pending pulls.
LEMMA AdmissionProgress ==
  ASSUME EngineInv, Admit \/ FinishPull PROVE Progress
<1>1. UNCHANGED current_step
  BY DEF Admit, FinishPull
<1>2. ASSUME NEW q, q.id \in WaitingIds \cup DOMAIN pending_pulls, AdmitDirect(q)
      PROVE  \A i \in DOMAIN active_requests' : active_requests'[i].phase = "prefill" =>
               \/ /\ i \in DOMAIN active_requests
                  /\ active_requests[i].phase = "prefill"
                  /\ active_requests'[i].generated = active_requests[i].generated
               \/ /\ i \in WaitingIds \cup DOMAIN pending_pulls
                  /\ active_requests'[i].generated = 0
  <2>1. CASE UNCHANGED active_requests
    BY <2>1
  <2>2. CASE Activate(q)
    <3>1. PICK a : active_requests' = Put(active_requests, q.id, a) /\ a.generated = 0
      BY <2>2 DEF Activate
    <3>2. ASSUME NEW i \in DOMAIN active_requests'
          PROVE  \/ i = q.id /\ active_requests'[i] = a
                 \/ i \in DOMAIN active_requests /\ active_requests'[i] = active_requests[i]
      BY <3>1 DEF Put
    <3> QED BY <1>2, <3>1, <3>2
  <2> QED BY <1>2, <2>1, <2>2 DEF AdmitDirect, RejectInvalid
<1>3. CASE Admit
  <2>1. PICK k \in NextAdmissible :
          /\ waiting' = RemoveAt(waiting, k)
          /\ \/ AdmitPull(waiting[k])
             \/ AdmitDirect(waiting[k]) /\ UNCHANGED pending_pulls
    BY <1>3 DEF Admit
  <2>2. k \in DOMAIN waiting
    BY DEF NextAdmissible, Admissible
  <2>3. WaitingIds' \subseteq WaitingIds
    BY <2>1, <2>2, QueueWithout DEF WaitingIds
  <2>4. waiting[k].id \in WaitingIds
    BY <2>2 DEF WaitingIds
  <2>5. CASE AdmitPull(waiting[k])
    <3>1. UNCHANGED active_requests
          /\ DOMAIN pending_pulls' = DOMAIN pending_pulls \cup {waiting[k].id}
      BY <2>5 DEF AdmitPull, Put
    <3> QED BY <1>1, <2>3, <2>4, <3>1 DEF Progress
  <2>6. CASE AdmitDirect(waiting[k]) /\ UNCHANGED pending_pulls
    BY <1>1, <1>2, <2>3, <2>4, <2>6 DEF Progress
  <2> QED BY <2>1, <2>5, <2>6
<1>4. CASE FinishPull
  <2>1. PICK i \in PullTarget(Head(completions)) :
          /\ pending_pulls' = Drop(pending_pulls, {i})
          /\ AdmitDirect([n |-> pending_pulls[i].n, id |-> i, kind |-> pending_pulls[i].kind])
    BY <1>4 DEF FinishPull
  <2>2. PICK q : q = [n |-> pending_pulls[i].n, id |-> i, kind |-> pending_pulls[i].kind]
    OBVIOUS
  <2>3. q.id \in DOMAIN pending_pulls /\ AdmitDirect(q)
    BY <2>1, <2>2 DEF PullTarget
  <2>4. UNCHANGED waiting /\ DOMAIN pending_pulls' \subseteq DOMAIN pending_pulls
    BY <1>4, <2>1 DEF FinishPull, Drop
  <2> QED BY <1>1, <1>2, <2>3, <2>4 DEF Progress, WaitingIds
<1> QED BY <1>3, <1>4

LEMMA FreshStep ==
  ASSUME IdPolicy = "fresh", EngineInv, FreshInv, [Next]_vars
  PROVE  FreshInv'
<1>0. IdsKept /\ EngineInv'
  BY StepKeepsIds, StepEffect
<1>1. CASE UNCHANGED engine
  BY <1>0, <1>1, ProgressFresh DEF Progress, engine, WaitingIds
<1>2. CASE \E i \in Ids, kind \in Kinds : AddQueued(i, kind)
  <2>1. PICK i \in Ids, kind \in Kinds : AddQueued(i, kind)
    BY <1>2
  <2>2. /\ \A n \in DOMAIN out : out[n].id # i
        /\ UNCHANGED <<pending_pulls, active_requests, current_step>>
        /\ waiting' = Append(waiting, [n |-> Len(out) + 1, id |-> i, kind |-> kind])
    BY <2>1 DEF AddQueued, Receive, MayUse
  <2>3. WaitingIds' \subseteq WaitingIds \cup {i}
    <3> DEFINE item == [n |-> Len(out) + 1, id |-> i, kind |-> kind]
    <3>1. waiting \in Seq(Item) /\ item \in Item
      BY DEF EngineInv, TypeInv, Item
    <3>2. waiting' = Append(waiting, item) /\ item.id = i
      BY <2>2
    <3> HIDE DEF item
    <3> QED BY <3>1, <3>2, AppendFacts DEF WaitingIds
  <2>4. ASSUME NEW j \in DOMAIN current_step'.decoders
        PROVE  /\ \E n \in DOMAIN out' : out'[n].id = j
               /\ j \notin (WaitingIds \cup DOMAIN pending_pulls)'
               /\ j \in DOMAIN active_requests' => active_requests'[j].phase # "prefill"
    <3>1. /\ \E n \in DOMAIN out : out[n].id = j
          /\ j \notin WaitingIds \cup DOMAIN pending_pulls
          /\ j \in DOMAIN active_requests => active_requests[j].phase # "prefill"
      BY <2>2, <2>4 DEF FreshInv
    <3> QED BY <1>0, <2>2, <2>3, <3>1 DEF IdsKept
  <2>5. PrefillBeforeTokens'
    BY <2>2 DEF FreshInv, PrefillBeforeTokens, Prefilling
  <2> QED BY <2>4, <2>5 DEF FreshInv
<1>3. CASE Admit \/ FinishPull
  BY <1>0, <1>3, AdmissionProgress, ProgressFresh
<1>4. CASE ScheduleEnd
  <2>1. UNCHANGED <<waiting, pending_pulls, active_requests, out>>
    BY <1>4 DEF ScheduleEnd, history
  <2>2. CASE UNCHANGED current_step
    BY <1>0, <2>1, <2>2, ProgressFresh DEF Progress, WaitingIds
  <2>3. CASE ComposeStep
    <3>1. PICK draws \in [Decoders -> 1..MaxDraw] : current_step'.decoders = draws
      BY <2>3 DEF ComposeStep
    <3>2. ASSUME NEW i \in DOMAIN current_step'.decoders
          PROVE  /\ \E n \in DOMAIN out' : out'[n].id = i
                 /\ i \notin (WaitingIds \cup DOMAIN pending_pulls)'
                 /\ i \in DOMAIN active_requests' => active_requests'[i].phase # "prefill"
      <4>1. i \in DOMAIN active_requests /\ active_requests[i].phase # "prefill"
        BY <3>1 DEF Decoders, Generating, Prefilling
      <4>2. active_requests[i].n \in DOMAIN out /\ out[active_requests[i].n].id = i
        BY <4>1 DEF EngineInv, Linked
      <4>3. i \notin WaitingIds \cup DOMAIN pending_pulls
        BY <4>1 DEF EngineInv, OnePlace, WaitingIds
      <4> QED BY <2>1, <4>1, <4>2, <4>3 DEF WaitingIds
    <3>3. PrefillBeforeTokens'
      BY <2>1 DEF FreshInv, PrefillBeforeTokens, Prefilling
    <3> QED BY <3>2, <3>3 DEF FreshInv
  <2> QED BY <1>4, <2>2, <2>3 DEF ScheduleEnd, EnsureStep
<1>5. CASE CompleteStep
  <2> DEFINE size(i) == IF current_step.decoders[i] > 1 THEN current_step.decoders[i] ELSE ChunkSize
  <2>1. /\ UNCHANGED <<waiting, pending_pulls>> /\ current_step' = NoStep
        /\ active_requests' =
             [i \in DOMAIN active_requests |->
                IF i \in DOMAIN current_step.decoders THEN Generate(active_requests[i], size(i))
                ELSE active_requests[i]]
    BY <1>5 DEF CompleteStep
  <2>2. \A i \in DOMAIN current_step.decoders : size(i) \in Int
    BY ConfigAssumption DEF EngineInv, TypeInv
  <2> HIDE DEF size
  <2>3. ASSUME NEW i \in DOMAIN active_requests', active_requests'[i].phase = "prefill"
        PROVE  /\ i \in DOMAIN active_requests
               /\ active_requests[i].phase = "prefill"
               /\ active_requests'[i].generated = active_requests[i].generated
    <3>1. ActiveOK(active_requests[i]) /\ i \in DOMAIN active_requests
      BY <2>1 DEF EngineInv, TypeInv
    <3>2. i \in DOMAIN current_step.decoders => active_requests'[i].phase = active_requests[i].phase
      BY <2>1, <2>2, <3>1, GenerateFacts
    <3>3. i \notin DOMAIN current_step.decoders
      BY <2>3, <3>1, <3>2 DEF FreshInv
    <3> QED BY <2>1, <2>3, <3>1, <3>3
  <2>4. DOMAIN current_step'.decoders = {}
    BY <2>1 DEF NoStep
  <2> QED BY <1>0, <2>1, <2>3, <2>4, ProgressFresh DEF Progress, WaitingIds
<1>6. CASE DrainChunk
  <2>1. UNCHANGED <<waiting, pending_pulls, current_step>>
    BY <1>6 DEF DrainChunk
  <2> QED BY <1>0, <1>6, <2>1, DrainChunkFacts, ProgressFresh DEF Progress, WaitingIds
<1>7. CASE \E R \in SUBSET DOMAIN active_requests : Emit(R)
  <2>1. PICK R \in SUBSET DOMAIN active_requests : Emit(R)
    BY <1>7
  <2>2. UNCHANGED <<waiting, pending_pulls, current_step>>
    BY <2>1 DEF Emit
  <2>3. \A i \in DOMAIN active_requests' :
          /\ i \in DOMAIN active_requests
          /\ active_requests'[i].phase = active_requests[i].phase
          /\ active_requests'[i].generated = active_requests[i].generated
    BY <2>1, EmitFacts
  <2> QED BY <1>0, <2>2, <2>3, ProgressFresh DEF Progress, WaitingIds
<1>8. CASE AbortOne
  <2>1. UNCHANGED current_step /\ Removed(Head(todo))
    BY <1>8, RemovedFacts DEF AbortOne
  <2>2. (WaitingIds \cup DOMAIN pending_pulls)' \subseteq WaitingIds \cup DOMAIN pending_pulls
    BY <2>1 DEF Removed, WaitingIds
  <2>3. \A i \in DOMAIN active_requests' :
          i \in DOMAIN active_requests /\ active_requests'[i] = active_requests[i]
    BY <2>1 DEF Removed
  <2> QED BY <1>0, <2>1, <2>2, <2>3, ProgressFresh DEF Progress
<1>9. CASE UNCHANGED vars
  BY <1>1, <1>9 DEF vars
<1>10. CASE \/ \E i \in Ids : AddDuplicate(i) \/ AddFailed(i) \/ RejectRequest(i)
            \/ \E s \in AbortLists : Abort(s)
            \/ \E c \in Configs : PatchConfig(c)
            \/ ResetStats \/ ResetPrefixCache \/ StartDrain \/ AbortAll
            \/ (\E p \in pulls : PullLock(p))
            \/ (\E p \in dp_owner, ok \in BOOLEAN : PullDone(p, ok))
            \/ DropPull \/ AdvertiseOne
  BY <1>1, <1>10 DEF AddDuplicate, AddFailed, RejectRequest, Abort, PatchConfig, ResetStats,
                     ResetPrefixCache, StartDrain, AbortAll, PullLock, PullDone, DropPull,
                     AdvertiseOne
<1> QED BY <1>2, <1>3, <1>4, <1>5, <1>6, <1>7, <1>8, <1>9, <1>10 DEF Next, Message, Work

\* With ids never reused: the pool's pins are the batch's, and no request generates
\* before its prompt is computed.
THEOREM BatchStaysSound == IdPolicy = "fresh" => (Spec => []BatchSound)
<1> SUFFICES ASSUME IdPolicy = "fresh" PROVE Spec => []BatchSound
  OBVIOUS
<1>1. Init => FreshInv
  <2> SUFFICES ASSUME Init PROVE FreshInv
    OBVIOUS
  <2>1. DOMAIN current_step.decoders = {} /\ DOMAIN active_requests = {}
    BY DEF Init, NoStep
  <2> QED BY <2>1 DEF FreshInv, PrefillBeforeTokens, Prefilling
<1>2. EngineInv /\ FreshInv /\ [Next]_vars => FreshInv'
  BY FreshStep
<1>3. EngineInv /\ FreshInv => BatchSound
  BY DEF EngineInv, FreshInv, BatchSound
<1> QED BY <1>1, <1>2, <1>3, EngineInvariant, PTL DEF Spec

-----------------------------------------------------------------------------
(* The cap on adapters                                                     *)

LoraInv == IsFiniteSet(ResidentLoras) /\ LoraCapRespected

\* Fewer adapters are as good.
LEMMA FewerLoras ==
  ASSUME LoraInv, ResidentLoras' \subseteq ResidentLoras PROVE LoraInv'
<1>1. IsFiniteSet(ResidentLoras') /\ Cardinality(ResidentLoras') <= Cardinality(ResidentLoras)
  BY FS_Subset DEF LoraInv
<1>2. Cardinality(ResidentLoras') \in Nat /\ Cardinality(ResidentLoras) \in Nat
  BY <1>1, FS_CardinalityType DEF LoraInv
<1> QED BY <1>1, <1>2, BoundsAssumption DEF LoraInv, LoraCapRespected

\* The adapter of each running or pulling request is resident.
LEMMA ResidentFacts ==
  /\ \A i \in DOMAIN active_requests : active_requests[i].kind.lora \subseteq ResidentLoras
  /\ \A i \in DOMAIN pending_pulls : pending_pulls[i].kind.lora \subseteq ResidentLoras
  BY DEF ResidentLoras

LEMMA LoraStep == EngineInv /\ LoraInv /\ [Next]_vars => LoraInv'
<1> SUFFICES ASSUME EngineInv, LoraInv, [Next]_vars PROVE LoraInv'
  OBVIOUS
\* What a request of the batch had before, or a pulling one.
<1>0. ASSUME \A i \in DOMAIN active_requests' :
               active_requests'[i].kind.lora \subseteq ResidentLoras,
             \A i \in DOMAIN pending_pulls' : pending_pulls'[i].kind.lora \subseteq ResidentLoras
      PROVE  LoraInv'
  <2>1. ResidentLoras' \subseteq ResidentLoras
    BY <1>0 DEF ResidentLoras
  <2> QED BY <2>1, FewerLoras
<1>1. CASE UNCHANGED <<active_requests, pending_pulls>>
  BY <1>0, <1>1, ResidentFacts
<1>2. ASSUME NEW q, AdmitDirect(q)
      PROVE  \A i \in DOMAIN active_requests' :
               active_requests'[i].kind.lora \subseteq ResidentLoras \cup q.kind.lora
  <2>1. CASE UNCHANGED active_requests
    BY <2>1, ResidentFacts
  <2>2. CASE Activate(q)
    <3>1. PICK a : active_requests' = Put(active_requests, q.id, a) /\ a.kind = q.kind
      BY <2>2 DEF Activate
    <3>2. ASSUME NEW i \in DOMAIN active_requests'
          PROVE  \/ i = q.id /\ active_requests'[i] = a
                 \/ i \in DOMAIN active_requests /\ active_requests'[i] = active_requests[i]
      BY <3>1 DEF Put
    <3> QED BY <3>1, <3>2, ResidentFacts
  <2> QED BY <1>2, <2>1, <2>2 DEF AdmitDirect, RejectInvalid
<1>3. CASE Admit
  <2>1. PICK k \in NextAdmissible :
          \/ AdmitPull(waiting[k])
          \/ AdmitDirect(waiting[k]) /\ UNCHANGED pending_pulls
    BY <1>3 DEF Admit
  <2> DEFINE lora == waiting[k].kind.lora
  <2>2. /\ MaxLoras = 0 \/ lora \subseteq ResidentLoras \/ Cardinality(ResidentLoras) < MaxLoras
        /\ k \in DOMAIN waiting
    BY DEF NextAdmissible, Admissible, LoraAdmits
  <2>3. IsFiniteSet(lora) /\ Cardinality(lora) <= 1
    <3>1. waiting[k] \in Item
      BY <2>2 DEF EngineInv, TypeInv
    <3> QED BY <3>1, KindsAssumption DEF Item
  <2>4. /\ \A i \in DOMAIN active_requests' :
             active_requests'[i].kind.lora \subseteq ResidentLoras \cup lora
        /\ \A i \in DOMAIN pending_pulls' :
             pending_pulls'[i].kind.lora \subseteq ResidentLoras \cup lora
    <3>1. CASE AdmitPull(waiting[k])
      <4>1. PICK p : pending_pulls' = Put(pending_pulls, waiting[k].id, p)
                     /\ p.kind = waiting[k].kind
        BY <3>1 DEF AdmitPull
      <4>2. ASSUME NEW i \in DOMAIN pending_pulls'
            PROVE  \/ pending_pulls'[i] = p
                   \/ i \in DOMAIN pending_pulls /\ pending_pulls'[i] = pending_pulls[i]
        BY <4>1 DEF Put
      <4>3. UNCHANGED active_requests
        BY <3>1 DEF AdmitPull
      <4> QED BY <4>1, <4>2, <4>3, ResidentFacts
    <3>2. CASE AdmitDirect(waiting[k]) /\ UNCHANGED pending_pulls
      BY <1>2, <3>2, ResidentFacts
    <3> QED BY <2>1, <3>1, <3>2
  <2> HIDE DEF lora
  <2>5. CASE lora \subseteq ResidentLoras
    BY <1>0, <2>4, <2>5
  <2>6. CASE ~(lora \subseteq ResidentLoras)
    <3>1. ResidentLoras' \subseteq ResidentLoras \cup lora
      BY <2>4 DEF ResidentLoras
    <3>2. /\ IsFiniteSet(ResidentLoras \cup lora)
          /\ Cardinality(ResidentLoras \cup lora) <= Cardinality(ResidentLoras) + 1
      <4>1. /\ IsFiniteSet(ResidentLoras \cup lora)
            /\ Cardinality(ResidentLoras \cup lora)
                 = Cardinality(ResidentLoras) + Cardinality(lora)
                     - Cardinality(ResidentLoras \cap lora)
        BY <2>3, FS_Union DEF LoraInv
      <4>2. IsFiniteSet(ResidentLoras \cap lora)
        BY <2>3, FS_Subset
      <4>3. /\ Cardinality(ResidentLoras) \in Nat /\ Cardinality(lora) \in Nat
            /\ Cardinality(ResidentLoras \cap lora) \in Nat
        BY <2>3, <4>2, FS_CardinalityType DEF LoraInv
      <4> QED BY <2>3, <4>1, <4>3
    <3>3. IsFiniteSet(ResidentLoras')
          /\ Cardinality(ResidentLoras') <= Cardinality(ResidentLoras \cup lora)
      BY <3>1, <3>2, FS_Subset
    <3>4. /\ Cardinality(ResidentLoras) \in Nat /\ Cardinality(ResidentLoras') \in Nat
          /\ Cardinality(ResidentLoras \cup lora) \in Nat
      BY <3>2, <3>3, FS_CardinalityType DEF LoraInv
    <3> QED BY <2>2, <2>6, <3>2, <3>3, <3>4, BoundsAssumption DEF LoraInv, LoraCapRespected
  <2> QED BY <2>5, <2>6
<1>4. CASE FinishPull
  <2>1. PICK i \in PullTarget(Head(completions)) :
          /\ pending_pulls' = Drop(pending_pulls, {i})
          /\ AdmitDirect([n |-> pending_pulls[i].n, id |-> i, kind |-> pending_pulls[i].kind])
    BY <1>4 DEF FinishPull
  <2>2. PICK q : q = [n |-> pending_pulls[i].n, id |-> i, kind |-> pending_pulls[i].kind]
    OBVIOUS
  <2>3. q.kind.lora \subseteq ResidentLoras /\ AdmitDirect(q)
    BY <2>1, <2>2, ResidentFacts DEF PullTarget
  <2>4. \A j \in DOMAIN pending_pulls' : pending_pulls'[j].kind.lora \subseteq ResidentLoras
    BY <2>1, ResidentFacts DEF Drop
  <2>5. \A j \in DOMAIN active_requests' : active_requests'[j].kind.lora \subseteq ResidentLoras
    BY <1>2, <2>3
  <2> QED BY <1>0, <2>4, <2>5
<1>5. CASE CompleteStep
  <2> DEFINE size(i) == IF current_step.decoders[i] > 1 THEN current_step.decoders[i] ELSE ChunkSize
  <2>1. /\ UNCHANGED pending_pulls
        /\ active_requests' =
             [i \in DOMAIN active_requests |->
                IF i \in DOMAIN current_step.decoders THEN Generate(active_requests[i], size(i))
                ELSE active_requests[i]]
    BY <1>5 DEF CompleteStep
  <2>2. \A i \in DOMAIN current_step.decoders : size(i) \in Int
    BY ConfigAssumption DEF EngineInv, TypeInv
  <2> HIDE DEF size
  <2>3. ASSUME NEW i \in DOMAIN active_requests'
        PROVE  i \in DOMAIN active_requests /\ active_requests'[i].kind = active_requests[i].kind
    <3>1. ActiveOK(active_requests[i]) /\ i \in DOMAIN active_requests
      BY <2>1 DEF EngineInv, TypeInv
    <3> QED BY <2>1, <2>2, <3>1, GenerateFacts
  <2> QED BY <1>0, <2>1, <2>3, ResidentFacts
<1>6. CASE DrainChunk
  <2>1. UNCHANGED pending_pulls
    BY <1>6 DEF DrainChunk
  <2> QED BY <1>0, <1>6, <2>1, DrainChunkFacts, ResidentFacts
<1>7. CASE \E R \in SUBSET DOMAIN active_requests : Emit(R)
  <2>1. PICK R \in SUBSET DOMAIN active_requests : Emit(R)
    BY <1>7
  <2>2. \A i \in DOMAIN active_requests' :
          i \in DOMAIN active_requests /\ active_requests'[i].kind = active_requests[i].kind
    BY <2>1, EmitFacts
  <2>3. UNCHANGED pending_pulls
    BY <2>1 DEF Emit
  <2> QED BY <1>0, <2>2, <2>3, ResidentFacts
<1>8. CASE AbortOne
  <2>1. Removed(Head(todo))
    BY <1>8, RemovedFacts DEF AbortOne
  <2>2. /\ \A i \in DOMAIN active_requests' :
             i \in DOMAIN active_requests /\ active_requests'[i] = active_requests[i]
        /\ \A i \in DOMAIN pending_pulls' :
             i \in DOMAIN pending_pulls /\ pending_pulls'[i] = pending_pulls[i]
    BY <2>1 DEF Removed
  <2> QED BY <1>0, <2>2, ResidentFacts
<1>9. CASE ScheduleEnd \/ UNCHANGED vars \/ \E i \in Ids, kind \in Kinds : AddQueued(i, kind)
  BY <1>1, <1>9 DEF ScheduleEnd, AddQueued, vars, engine
<1>10. CASE \/ \E i \in Ids : AddDuplicate(i) \/ AddFailed(i) \/ RejectRequest(i)
            \/ \E s \in AbortLists : Abort(s)
            \/ \E c \in Configs : PatchConfig(c)
            \/ ResetStats \/ ResetPrefixCache \/ StartDrain \/ AbortAll
            \/ (\E p \in pulls : PullLock(p))
            \/ (\E p \in dp_owner, ok \in BOOLEAN : PullDone(p, ok))
            \/ DropPull \/ AdvertiseOne
  BY <1>1, <1>10 DEF AddDuplicate, AddFailed, RejectRequest, Abort, PatchConfig, ResetStats,
                     ResetPrefixCache, StartDrain, AbortAll, PullLock, PullDone, DropPull,
                     AdvertiseOne, engine
<1> QED BY <1>3, <1>4, <1>5, <1>6, <1>7, <1>8, <1>9, <1>10 DEF Next, Message, Work

\* The adapters of the running and pulling requests stay within max_loras, whatever
\* the order of admissions, pull completions and aborts.
THEOREM LoraCapAlwaysRespected == Spec => []LoraCapRespected
<1>1. Init => LoraInv
  <2> SUFFICES ASSUME Init PROVE LoraInv
    OBVIOUS
  <2>1. ResidentLoras = {}
    <3>1. DOMAIN active_requests = {} /\ DOMAIN pending_pulls = {}
      BY DEF Init
    <3> QED BY <3>1 DEF ResidentLoras
  <2> QED BY <2>1, FS_EmptySet, BoundsAssumption DEF LoraInv, LoraCapRespected
<1>2. EngineInv /\ LoraInv /\ [Next]_vars => LoraInv'
  BY LoraStep
<1>3. LoraInv => LoraCapRespected
  BY DEF LoraInv
<1> QED BY <1>1, <1>2, <1>3, EngineInvariant, PTL DEF Spec

-----------------------------------------------------------------------------
(* The step clock runs while there is something to compute.  A step that   *)
(* would be empty composes no chunk and no decoder, so that the engine is  *)
(* never idle with a step still owed, and never with a request that waits  *)
(* behind nothing.                                                         *)

\* Every prefill is on the list that claims the budget, with prompt tokens left to
\* compute, and a chunk takes a number of tokens.
ClockInv ==
  /\ cfg \in Configs
  /\ prefill_order \in Seq(Ids)
  /\ \A i \in Prefilling :
       /\ active_requests[i].remaining \in Nat \ {0}
       /\ \E k \in DOMAIN prefill_order : prefill_order[k] = i
  /\ current_step.chunks \in Seq(Chunk)
  /\ pc = "drain" => todo \in Seq(Chunk) /\ todo # <<>>

\* Between handlers the clock stands only if there is nothing to compute, and a
\* request waits only if another runs or pulls.
Awake ==
  pc = "idle" =>
    /\ current_step = NoStep => Prefilling \cup Generating = {}
    /\ waiting # <<>> => DOMAIN active_requests # {} \/ DOMAIN pending_pulls # {}

LEMMA BudgetFacts ==
  ASSUME ClockInv PROVE Budget \in Nat \ {0} /\ RunningCapacity \in Nat \ {0}
<1>1. cfg.max_num_seqs \in Nat /\ cfg.budget \in Nat
  BY ConfigAssumption DEF ClockInv, Configs
<1> QED BY <1>1 DEF Budget, RunningCapacity, Larger

\* The numbers drawn for the decoders have a sum.
LEMMA DrawsFacts ==
  ASSUME EngineInv, NEW draws \in [Decoders -> 1..MaxDraw]
  PROVE  /\ IsFiniteSet(Decoders) /\ SumFunction(draws) \in Nat
         /\ Decoders = {} => SumFunction(draws) = 0
<1>1. IsFiniteSet(Decoders)
  BY FS_Subset DEF EngineInv, TypeInv, Decoders, Generating
<1>2. DOMAIN draws = Decoders /\ \A i \in Decoders : draws[i] \in Int /\ draws[i] >= 1
  BY BoundsAssumption
<1>3. SumFunctionOnSet(draws, Decoders) \in Int
      /\ (Decoders = {} => SumFunctionOnSet(draws, Decoders) = 0)
  BY <1>1, <1>2, SumFacts
<1>4. SumFunctionOnSet(draws, Decoders) >= 0
  <2>1. 1 \in {0, 1}
    OBVIOUS
  <2> QED BY <1>1, <1>2, <2>1, SumBound
<1>5. SumFunction(draws) = SumFunctionOnSet(draws, Decoders)
  BY <1>2 DEF SumFunction
<1> QED BY <1>1, <1>3, <1>4, <1>5

\* compose_step: what the prefills get, and that it gets something.
LEMMA ComposeFacts ==
  ASSUME EngineInv, ClockInv, ComposeStep
  PROVE  /\ prefill_order' \in Seq(Ids)
         /\ \A i \in Prefilling : \E k \in DOMAIN prefill_order' : prefill_order'[k] = i
         /\ current_step'.chunks \in Seq([id : Ids, take : 1..Budget])
         /\ current_step' = NoStep => Prefilling \cup Generating = {}
         /\ current_step'.chunks # <<>> =>
              SumFunction(current_step'.decoders) + SumFunction(TakeOf(current_step'.chunks))
                <= Budget
<1> DEFINE order == Keep(prefill_order, Prefilling)
           n == Len(order)
           T == [id : Ids, take : 1..Budget]
           Wanted(k) == IF Threshold > 0
                          THEN Smaller(active_requests[order[k]].remaining, Threshold)
                          ELSE active_requests[order[k]].remaining
<1>1. PICK draws \in [Decoders -> 1..MaxDraw], left \in [0..n -> 0..Budget] :
        /\ left[0] = PrefillBudget(draws)
        /\ \A k \in 1..n : left[k] = left[k-1] - Smaller(Wanted(k), left[k-1])
        /\ prefill_order' = order
        /\ current_step' =
             [decoders |-> draws,
              chunks |-> Keep([k \in 1..n |-> [id |-> order[k], take |-> left[k-1] - left[k]]], T)]
  BY DEF ComposeStep
<1> DEFINE s == [k \in 1..n |-> [id |-> order[k], take |-> left[k-1] - left[k]]]
<1>2. /\ order \in Seq(Ids \cap Prefilling)
      /\ \A k \in DOMAIN prefill_order :
           prefill_order[k] \in Prefilling => \E j \in DOMAIN order : order[j] = prefill_order[k]
  BY KeepFacts DEF ClockInv
<1>3. Budget \in Nat \ {0}
  BY BudgetFacts
<1>4. /\ current_step'.decoders = draws /\ current_step'.chunks = Keep(s, T)
      /\ prefill_order' = order
  BY <1>1
<1> HIDE DEF order
<1>5. n \in Nat /\ DOMAIN order = 1..n /\ \A k \in 1..n : order[k] \in Ids \cap Prefilling
  BY <1>2
<1>6. \A k \in 1..n : Wanted(k) \in Nat \ {0}
  <2> SUFFICES ASSUME NEW k \in 1..n PROVE Wanted(k) \in Nat \ {0}
    OBVIOUS
  <2>1. active_requests[order[k]].remaining \in Nat \ {0}
    BY <1>5 DEF ClockInv
  <2> QED BY <2>1, ConfigAssumption DEF Smaller
<1> HIDE DEF Wanted, n
<1>7. ASSUME NEW k \in 1..n
      PROVE  /\ left[k-1] \in 0..Budget /\ left[k] \in 0..Budget
             /\ left[k-1] - left[k] \in 0..Budget
             /\ left[k-1] # 0 => left[k-1] - left[k] \in 1..Budget
  <2>1. k - 1 \in 0..n /\ k \in 0..n
    BY <1>5
  <2>2. left[k-1] \in 0..Budget /\ left[k] \in 0..Budget
    BY <2>1
  <2>3. left[k] = left[k-1] - Smaller(Wanted(k), left[k-1])
    BY <1>1
  <2>4. Wanted(k) \in Nat \ {0}
    BY <1>6
  <2> QED BY <1>3, <2>2, <2>3, <2>4 DEF Smaller
<1>8. \A k \in 1..n : /\ s[k] \in Chunk /\ s[k].take = left[k-1] - left[k]
                      /\ s[k] \notin T => s[k].take = 0
  <2> SUFFICES ASSUME NEW k \in 1..n
               PROVE  /\ s[k] \in Chunk /\ s[k].take = left[k-1] - left[k]
                      /\ s[k] \notin T => s[k].take = 0
    OBVIOUS
  <2>1. s[k] = [id |-> order[k], take |-> left[k-1] - left[k]]
    OBVIOUS
  <2>2. order[k] \in Ids
    BY <1>5
  <2>3. left[k-1] - left[k] \in 0..Budget /\ left[k-1] - left[k] \in Nat
    BY <1>3, <1>7
  <2> HIDE DEF s
  <2>4. left[k-1] - left[k] # 0 => left[k-1] - left[k] \in 1..Budget
    BY <1>3, <2>3
  <2> QED BY <2>1, <2>2, <2>3, <2>4 DEF Chunk
<1>9. s \in Seq(Chunk) /\ Len(s) = n /\ DOMAIN s = 1..n
  <2>1. s \in [1..n -> Chunk]
    BY <1>8
  <2> HIDE DEF s
  <2> QED BY <1>5, <2>1, FunctionIsSeq
<1> HIDE DEF s
<1> HIDE DEF T
<1>10. /\ Keep(s, T) \in Seq(T)
       /\ \A k \in 1..n : s[k] \in T => \E j \in DOMAIN Keep(s, T) : Keep(s, T)[j] = s[k]
  <2>0. s \in Seq(Chunk)
    BY <1>9
  <2>1. Keep(s, T) \in Seq(Chunk \cap T)
    BY <2>0, KeepFacts
  <2>2. \A k \in DOMAIN s : s[k] \in T => \E j \in DOMAIN Keep(s, T) : Keep(s, T)[j] = s[k]
    BY <2>0, KeepsAll
  <2>3. Chunk \cap T \subseteq T
    OBVIOUS
  <2>4. Keep(s, T) \in Seq(T)
    BY <2>1, <2>3, SeqMonotonic
  <2> QED BY <1>9, <2>2, <2>4
<1>11. /\ SumFunction(draws) \in Nat /\ (Decoders = {} => SumFunction(draws) = 0)
  BY DrawsFacts
<1>12. left[0] \in 0..Budget /\ left[n] \in 0..Budget
       /\ (Budget >= SumFunction(draws) => left[0] = Budget - SumFunction(draws))
       /\ (Budget < SumFunction(draws) => left[0] = 0)
  <2>1. 0 \in 0..n /\ n \in 0..n
    BY <1>5
  <2>2. left[0] = Larger(Budget - SumFunction(draws), 0)
    BY <1>1 DEF PrefillBudget
  <2>3. left[0] \in 0..Budget /\ left[n] \in 0..Budget
    BY <2>1
  <2> QED BY <1>3, <1>11, <2>2, <2>3 DEF Larger
<1>13. \A i \in Prefilling : \E k \in DOMAIN order : order[k] = i
  BY <1>2 DEF ClockInv
<1>14. ASSUME current_step' = NoStep PROVE Prefilling \cup Generating = {}
  <2>1. draws = <<>> /\ Keep(s, T) = <<>>
    BY <1>4, <1>14 DEF NoStep
  <2>2. Decoders = {}
    BY <2>1
  <2>3. left[0] # 0
    BY <1>3, <1>11, <1>12, <2>2
  <2>4. Prefilling = {}
    <3> SUFFICES ASSUME Prefilling # {} PROVE FALSE
      OBVIOUS
    <3>1. 1 \in 1..n /\ 1 - 1 = 0
      BY <1>5, <1>13
    <3>2. left[0] - left[1] \in 1..Budget
      BY <1>7, <2>3, <3>1
    <3>3. s[1] \in Chunk /\ s[1].take = left[0] - left[1]
      BY <1>8, <3>1
    <3>4. s[1] \in T
      <4>1. s[1].take # 0
        BY <1>3, <3>2, <3>3
      <4> QED BY <1>8, <3>1, <4>1
    <3>5. DOMAIN Keep(s, T) # {}
      BY <1>10, <3>1, <3>4
    <3>6. DOMAIN Keep(s, T) = {}
      BY <2>1
    <3> QED BY <3>5, <3>6
  <2> QED BY <2>2, <2>4 DEF Decoders
<1>15. ASSUME Keep(s, T) # <<>>
       PROVE  SumFunction(draws) + SumFunction(TakeOf(Keep(s, T))) <= Budget
  <2>1. SumFunction(TakeOf(Keep(s, T))) = left[0] - left[n]
    <3>1. left \in [0..n -> Nat]
      BY <1>3
    <3>2. Metered(s, T, n, left)
      BY <1>5, <1>8, <1>9, <3>1 DEF Metered
    <3> QED BY <3>2, KeepSum
  <2>2. SumFunction(TakeOf(Keep(s, T))) >= 1
    <3> DEFINE c == Keep(s, T)
               D == DOMAIN c
    <3>0. c \in Seq(T) /\ c # <<>>
      BY <1>10, <1>15
    <3>1. D = 1..Len(c) /\ Len(c) \in Nat /\ Len(c) # 0 /\ \A k \in D : c[k] \in T
      <4> HIDE DEF c
      <4> QED BY <3>0, EmptySeq
    <3> HIDE DEF c
    <3>2. IsFiniteSet(D) /\ Cardinality(D) = Len(c)
      BY <3>1, FS_Interval
    <3>3. DOMAIN TakeOf(c) = D /\ \A k \in D : TakeOf(c)[k] \in Int /\ TakeOf(c)[k] >= 1
      <4>1. DOMAIN TakeOf(c) = D /\ \A k \in D : TakeOf(c)[k] = c[k].take
        BY DEF TakeOf
      <4>2. \A k \in D : c[k].take \in 1..Budget
        BY <3>1 DEF T
      <4> HIDE DEF D
      <4> QED BY <1>3, <4>1, <4>2
    <3> HIDE DEF D
    <3>4. SumFunctionOnSet(TakeOf(c), D) >= Cardinality(D)
      <4>1. 1 \in {0, 1}
        OBVIOUS
      <4> QED BY <3>2, <3>3, <4>1, SumBound
    <3>5. SumFunctionOnSet(TakeOf(c), D) \in Int
      BY <3>2, <3>3, SumFacts
    <3> QED BY <3>1, <3>2, <3>3, <3>4, <3>5 DEF SumFunction, c
  <2> QED BY <1>3, <1>11, <1>12, <2>1, <2>2
<1>16. order \in Seq(Ids)
  BY <1>2, SeqMonotonic
<1>17. current_step'.chunks \in Seq([id : Ids, take : 1..Budget])
  BY <1>4, <1>10 DEF T
<1> QED BY <1>4, <1>13, <1>14, <1>15, <1>16, <1>17

\* generate() leaves the prompt alone.
LEMMA GenerateRemaining ==
  ASSUME NEW a, ActiveOK(a), NEW size
  PROVE  Generate(a, size).remaining = a.remaining /\ Generate(a, size).max_tokens = a.max_tokens
<1> DEFINE len == Smaller(a.max_tokens - a.generated, size)
<1>1. Generate(a, size) = IF len = 0 THEN a
                          ELSE [a EXCEPT !.generated = @ + len, !.pending_emits = Append(@, len)]
  BY DEF Generate
<1> HIDE DEF len
<1> QED BY <1>1 DEF ActiveOK

LEMMA StaysAwake ==
  ASSUME Awake, UNCHANGED engine, pc' = "idle" => pc = "idle" PROVE Awake'
  BY DEF Awake, engine, Prefilling, Generating, IsGenerating

\* A step that leaves the prefills and the clock alone.
LEMMA ClockKept ==
  ASSUME ClockInv,
         cfg' \in Configs, UNCHANGED <<prefill_order, current_step>>,
         pc' = "drain" => UNCHANGED <<pc, todo>>,
         \A i \in DOMAIN active_requests' : active_requests'[i].phase = "prefill" =>
           /\ i \in DOMAIN active_requests /\ active_requests[i].phase = "prefill"
           /\ active_requests'[i].remaining = active_requests[i].remaining
  PROVE  ClockInv'
<1>1. \A i \in Prefilling' :
        i \in Prefilling /\ active_requests'[i].remaining = active_requests[i].remaining
  BY DEF Prefilling
<1> QED BY <1>1 DEF ClockInv

\* The admissions.
LEMMA ActivateClock ==
  ASSUME EngineInv, ClockInv, NEW q \in Item, q.id \notin DOMAIN active_requests, AdmitDirect(q),
         UNCHANGED <<cfg, current_step>>, pc' = "schedule"
  PROVE  ClockInv'
<1>1. CASE RejectInvalid(q)
  <2>1. UNCHANGED <<active_requests, prefill_order>>
    BY <1>1 DEF RejectInvalid
  <2> QED BY <2>1, ClockKept DEF ClockInv
<1>2. CASE Activate(q)
  <2>1. PICK a :
          /\ active_requests' = Put(active_requests, q.id, a)
          /\ \/ /\ a.phase = "prefill" /\ a.remaining \in 1..MaxPrompt
                /\ prefill_order' = Append(prefill_order, q.id)
             \/ a.phase = "decode" /\ prefill_order' = prefill_order
    BY <1>2 DEF Activate
  <2>2. /\ DOMAIN active_requests' = DOMAIN active_requests \cup {q.id}
        /\ active_requests'[q.id] = a
        /\ \A i \in DOMAIN active_requests : active_requests'[i] = active_requests[i]
    <3>1. DOMAIN active_requests' = DOMAIN active_requests \cup {q.id}
      BY <2>1 DEF Put
    <3>2. active_requests'[q.id] = a
      BY <2>1 DEF Put
    <3>3. \A i \in DOMAIN active_requests : active_requests'[i] = active_requests[i]
      BY <2>1 DEF Put
    <3> QED BY <3>1, <3>2, <3>3
  <2>3. /\ prefill_order' \in Seq(Ids)
        /\ \A k \in DOMAIN prefill_order :
             k \in DOMAIN prefill_order' /\ prefill_order'[k] = prefill_order[k]
        /\ a.phase = "prefill" => \E k \in DOMAIN prefill_order' : prefill_order'[k] = q.id
    <3>1. prefill_order \in Seq(Ids) /\ q.id \in Ids
      BY DEF ClockInv, Item
    <3>2. CASE prefill_order' = Append(prefill_order, q.id)
      BY <3>1, <3>2, AppendFacts
    <3>3. CASE prefill_order' = prefill_order /\ a.phase = "decode"
      BY <3>1, <3>3
    <3> QED BY <2>1, <3>2, <3>3
  <2>4. ASSUME NEW i \in Prefilling'
        PROVE  /\ active_requests'[i].remaining \in Nat \ {0}
               /\ \E k \in DOMAIN prefill_order' : prefill_order'[k] = i
    <3>1. CASE i = q.id
      <4>1. a.phase = "prefill"
        BY <2>2, <2>4, <3>1 DEF Prefilling
      <4>2. a.remaining \in Nat \ {0}
        BY <2>1, <4>1, BoundsAssumption
      <4> QED BY <2>2, <2>3, <3>1, <4>1, <4>2
    <3>2. CASE i # q.id
      <4>1. i \in Prefilling /\ active_requests'[i] = active_requests[i]
        BY <2>2, <2>4, <3>2 DEF Prefilling
      <4> QED BY <2>3, <4>1 DEF ClockInv
    <3> QED BY <3>1, <3>2
  <2> QED BY <2>3, <2>4 DEF ClockInv
<1> QED BY <1>1, <1>2 DEF AdmitDirect

LEMMA AdmissionClock ==
  ASSUME EngineInv, ClockInv, Admit \/ FinishPull PROVE ClockInv'
<1>1. CASE Admit
  <2>1. PICK k \in NextAdmissible :
          /\ waiting' = RemoveAt(waiting, k)
          /\ \/ AdmitPull(waiting[k])
             \/ AdmitDirect(waiting[k]) /\ UNCHANGED pending_pulls
    BY <1>1 DEF Admit
  <2>2. k \in DOMAIN waiting /\ pc' = "schedule" /\ UNCHANGED <<cfg, current_step>>
    BY <1>1 DEF NextAdmissible, Admissible, Admit
  <2>3. CASE AdmitPull(waiting[k])
    <3>1. UNCHANGED <<active_requests, prefill_order>>
      BY <2>3 DEF AdmitPull
    <3> QED BY <2>2, <3>1, ClockKept DEF ClockInv
  <2>4. CASE AdmitDirect(waiting[k])
    BY <2>1, <2>2, <2>4, QueueWithout, ActivateClock
  <2> QED BY <2>1, <2>3, <2>4
<1>2. CASE FinishPull
  <2>1. PICK i \in PullTarget(Head(completions)) :
          /\ pending_pulls' = Drop(pending_pulls, {i})
          /\ AdmitDirect([n |-> pending_pulls[i].n, id |-> i, kind |-> pending_pulls[i].kind])
    BY <1>2 DEF FinishPull
  <2>2. PICK q : q = [n |-> pending_pulls[i].n, id |-> i, kind |-> pending_pulls[i].kind]
    OBVIOUS
  <2>3. i \in DOMAIN pending_pulls /\ UNCHANGED <<waiting, cfg, current_step>> /\ pc' = "schedule"
    BY <1>2 DEF PullTarget, FinishPull
  <2>4. q \in Item /\ q.id \notin DOMAIN active_requests
    BY <2>1, <2>2, <2>3, TakenFromPulls DEF Taken
  <2> QED BY <2>1, <2>2, <2>3, <2>4, ActivateClock
<1> QED BY <1>1, <1>2

\* The step clock.
LEMMA ScheduleEndClock ==
  ASSUME EngineInv, ClockInv, ScheduleEnd PROVE ClockInv' /\ Awake'
<1>1. /\ UNCHANGED <<waiting, pending_pulls, active_requests, cfg>> /\ ~CanAdmit /\ EnsureStep
      /\ pc' = "idle"
  BY DEF ScheduleEnd
<1>2. Prefilling' = Prefilling /\ Generating' = Generating /\ Budget' = Budget
  BY <1>1 DEF Prefilling, Generating, IsGenerating, Budget
<1>3. /\ ClockInv'
      /\ current_step' = NoStep => Prefilling \cup Generating = {}
  <2>1. CASE ComposeStep
    <3>1. current_step'.chunks \in Seq(Chunk)
      <4>1. current_step'.chunks \in Seq([id : Ids, take : 1..Budget])
        BY <2>1, ComposeFacts
      <4>2. [id : Ids, take : 1..Budget] \subseteq Chunk
        BY BudgetFacts DEF Chunk
      <4> QED BY <4>1, <4>2, SeqMonotonic
    <3>2. /\ prefill_order' \in Seq(Ids)
          /\ \A i \in Prefilling : \E k \in DOMAIN prefill_order' : prefill_order'[k] = i
          /\ current_step' = NoStep => Prefilling \cup Generating = {}
      BY <2>1, ComposeFacts
    <3> QED BY <1>1, <1>2, <3>1, <3>2 DEF ClockInv
  <2>2. CASE current_step # NoStep /\ UNCHANGED <<current_step, prefill_order>>
    BY <1>1, <1>2, <2>2 DEF ClockInv
  <2> QED BY <1>1, <2>1, <2>2 DEF EnsureStep
<1>4. waiting # <<>> => DOMAIN active_requests # {} \/ DOMAIN pending_pulls # {}
  <2> SUFFICES ASSUME waiting # <<>>, DOMAIN active_requests = {}, DOMAIN pending_pulls = {}
               PROVE  CanAdmit
    BY <1>1
  <2>1. Generating = {} /\ Prefilling = {} /\ Decoders = {}
    BY DEF Generating, Prefilling, Decoders
  <2>2. BatchSize = 0
    BY <2>1, FS_EmptySet DEF BatchSize
  <2>3. StepTokenBacklog = 0
    <3> DEFINE f == [i \in Prefilling |-> active_requests[i].remaining]
    <3>1. DOMAIN f = {}
      BY <2>1
    <3> HIDE DEF f
    <3>2. SumFunction(f) = 0
      BY <3>1, FS_EmptySet, SumFacts DEF SumFunction
    <3> QED BY <2>1, <3>2, FS_EmptySet DEF StepTokenBacklog, f
  <2>4. ResidentLoras = {}
    BY DEF ResidentLoras
  <2>5. \A kind : LoraAdmits(kind)
    BY <2>4, FS_EmptySet, BoundsAssumption DEF LoraAdmits
  <2>6. Admissible # {}
    <3>1. waiting \in Seq(Item)
      BY DEF EngineInv, TypeInv
    <3>2. 1 \in DOMAIN waiting
      BY <3>1, EmptySeq
    <3> QED BY <2>5, <3>2 DEF Admissible
  <2> QED BY <2>2, <2>3, <2>6, BudgetFacts DEF CanAdmit
<1> QED BY <1>1, <1>2, <1>3, <1>4 DEF Awake

LEMMA CompleteStepClock ==
  ASSUME EngineInv, ClockInv, CompleteStep PROVE ClockInv' /\ pc' # "idle"
<1> DEFINE size(i) == IF current_step.decoders[i] > 1 THEN current_step.decoders[i] ELSE ChunkSize
<1>1. /\ active_requests' =
           [i \in DOMAIN active_requests |->
              IF i \in DOMAIN current_step.decoders THEN Generate(active_requests[i], size(i))
              ELSE active_requests[i]]
      /\ current_step' = NoStep /\ UNCHANGED <<prefill_order, cfg>>
      /\ todo' = current_step.chunks /\ pc' = IF todo' = <<>> THEN "schedule" ELSE "drain"
  BY DEF CompleteStep, Loop
<1>2. \A i \in DOMAIN current_step.decoders : size(i) \in Int
  BY ConfigAssumption DEF EngineInv, TypeInv
<1> HIDE DEF size
<1>3. ASSUME NEW i \in Prefilling'
      PROVE  i \in Prefilling /\ active_requests'[i].remaining = active_requests[i].remaining
  <2>1. i \in DOMAIN active_requests /\ active_requests'[i].phase = "prefill"
    BY <1>1 DEF Prefilling
  <2>2. ActiveOK(active_requests[i])
    BY <2>1 DEF EngineInv, TypeInv
  <2>3. CASE i \in DOMAIN current_step.decoders
    BY <1>1, <1>2, <2>1, <2>2, <2>3, GenerateFacts, GenerateRemaining DEF Prefilling
  <2>4. CASE i \notin DOMAIN current_step.decoders
    BY <1>1, <2>1, <2>4 DEF Prefilling
  <2> QED BY <2>3, <2>4
<1>4. current_step'.chunks = <<>> /\ <<>> \in Seq(Chunk)
  BY <1>1 DEF NoStep
<1>5. ClockInv'
  BY <1>1, <1>3, <1>4 DEF ClockInv
<1> QED BY <1>1, <1>5

LEMMA DrainChunkClock ==
  ASSUME EngineInv, ClockInv, DrainChunk PROVE ClockInv' /\ pc' # "idle"
<1> DEFINE i == Head(todo).id
           take == Head(todo).take
           left == Larger(active_requests[i].remaining - take, 0)
           drained == [active_requests[i] EXCEPT !.phase = "decode", !.remaining = 0]
<1>1. /\ UNCHANGED <<prefill_order, cfg, current_step>> /\ pc = "drain"
      /\ todo' = Tail(todo) /\ pc' = IF todo' = <<>> THEN "schedule" ELSE "drain"
  BY DEF DrainChunk, Loop
<1>2. todo \in Seq(Chunk) /\ todo # <<>>
  BY <1>1 DEF ClockInv
<1>3. Head(todo) \in Chunk /\ Tail(todo) \in Seq(Chunk)
  BY <1>2, HeadTailProperties
<1>4. take \in Nat
  BY <1>3 DEF Chunk
<1>5. \/ UNCHANGED active_requests
      \/ i \in Prefilling /\ left > 0
         /\ active_requests' = [active_requests EXCEPT ![i].remaining = left]
      \/ /\ i \in Prefilling
         /\ \E size \in {ChunkSize} \cup 1..MaxDraw :
              active_requests' = [active_requests EXCEPT ![i] = Generate(drained, size)]
  <2> HIDE DEF i, left, drained
  <2>1. CASE i \notin Prefilling
    BY <2>1 DEF DrainChunk, i
  <2>2. CASE i \in Prefilling /\ left > 0
    BY <2>2 DEF DrainChunk, i, left, take
  <2>3. CASE i \in Prefilling /\ ~(left > 0)
    BY <2>3 DEF DrainChunk, i, left, drained, take
  <2> QED BY <2>1, <2>2, <2>3
<1> HIDE DEF i, take
<1>6. \A j \in DOMAIN active_requests : ActiveOK(active_requests[j])
  BY DEF EngineInv, TypeInv
<1>7. ASSUME NEW j \in Prefilling'
      PROVE  j \in Prefilling /\ active_requests'[j].remaining \in Nat \ {0}
  <2>1. CASE UNCHANGED active_requests
    BY <2>1 DEF Prefilling, ClockInv
  <2>2. CASE i \in Prefilling /\ left > 0
             /\ active_requests' = [active_requests EXCEPT ![i].remaining = left]
    <3>1. left \in Nat \ {0}
      BY <1>4, <2>2 DEF ClockInv, Larger
    <3> HIDE DEF left
    <3>2. i \in DOMAIN active_requests /\ j \in DOMAIN active_requests
      BY <2>2 DEF Prefilling
    <3>3. CASE j = i
      <4>1. active_requests'[i] = [active_requests[i] EXCEPT !.remaining = left]
        BY <2>2, <3>2
      <4>2. active_requests'[i].remaining = left
        BY <1>6, <3>2, <4>1 DEF ActiveOK
      <4> QED BY <2>2, <3>1, <3>3, <4>2
    <3>4. CASE j # i
      BY <2>2, <3>2, <3>4 DEF Prefilling, ClockInv
    <3> QED BY <3>3, <3>4
  <2>3. CASE /\ i \in Prefilling
             /\ \E size \in {ChunkSize} \cup 1..MaxDraw :
                  active_requests' = [active_requests EXCEPT ![i] = Generate(drained, size)]
    <3>1. PICK size \in {ChunkSize} \cup 1..MaxDraw :
            active_requests' = [active_requests EXCEPT ![i] = Generate(drained, size)]
      BY <2>3
    <3>2. size \in Int
      BY ConfigAssumption, BoundsAssumption
    <3>3. i \in DOMAIN active_requests /\ j \in DOMAIN active_requests
      BY <2>3, <3>1 DEF Prefilling
    <3>4. /\ drained.remaining = 0 /\ drained.phase = "decode"
          /\ drained \in [n : Nat, kind : Kinds, max_tokens : Nat, phase : {"prefill", "decode"},
                          remaining : {0}, generated : Int, emitted : Int, pending_emits : Seq(Int)]
      BY <1>6, <3>3 DEF ActiveOK
    <3> HIDE DEF drained
    <3>5. ActiveOK(drained)
      BY <3>4 DEF ActiveOK
    <3>6. Generate(drained, size).phase = "decode"
      BY <3>2, <3>4, <3>5, GenerateFacts
    <3>7. j # i
      <4>1. active_requests'[j].phase = "prefill"
        BY DEF Prefilling
      <4> QED BY <3>1, <3>3, <3>6, <4>1
    <3> QED BY <3>1, <3>3, <3>7 DEF Prefilling, ClockInv
  <2> QED BY <1>5, <2>1, <2>2, <2>3
<1>8. ClockInv'
  BY <1>1, <1>3, <1>7 DEF ClockInv
<1> QED BY <1>1, <1>8

LEMMA EmitClock ==
  ASSUME EngineInv, ClockInv, NEW R \in SUBSET DOMAIN active_requests, Emit(R)
  PROVE  ClockInv' /\ pc' # "idle"
<1> DEFINE sent(i) == Head(active_requests[i].pending_emits)
           finished == {i \in R : active_requests[i].emitted + sent(i)
                                    >= active_requests[i].max_tokens}
<1>1. active_requests' =
           [i \in DOMAIN active_requests \ finished |->
              IF i \in R
                THEN [active_requests[i] EXCEPT !.emitted = @ + sent(i), !.pending_emits = Tail(@)]
                ELSE active_requests[i]]
  BY DEF Emit
<1>2. UNCHANGED <<prefill_order, current_step, cfg>> /\ pc' \in {"schedule", "advertise"}
  BY DEF Emit, Loop
<1> HIDE DEF sent, finished
<1>3. ASSUME NEW i \in DOMAIN active_requests'
      PROVE  /\ i \in DOMAIN active_requests
             /\ active_requests'[i].phase = active_requests[i].phase
             /\ active_requests'[i].remaining = active_requests[i].remaining
  <2>1. i \in DOMAIN active_requests \ finished
    BY <1>1
  <2>2. ActiveOK(active_requests[i])
    BY <2>1 DEF EngineInv, TypeInv
  <2>3. active_requests'[i] =
          IF i \in R
            THEN [active_requests[i] EXCEPT !.emitted = @ + sent(i), !.pending_emits = Tail(@)]
            ELSE active_requests[i]
    BY <1>1, <2>1
  <2> QED BY <2>1, <2>2, <2>3 DEF ActiveOK
<1>4. cfg' \in Configs
  BY <1>2 DEF ClockInv
<1> QED BY <1>2, <1>3, <1>4, ClockKept

LEMMA ClockStep ==
  ASSUME EngineInv, ClockInv, Awake, [Next]_vars PROVE ClockInv' /\ Awake'
<1>1. ASSUME UNCHANGED engine, cfg' = cfg, pc' \in {"idle", "drain"} => UNCHANGED <<pc, todo>>
      PROVE  ClockInv' /\ Awake'
  <2>1. ClockInv'
    BY <1>1, ClockKept DEF engine, ClockInv
  <2> QED BY <1>1, <2>1, StaysAwake
<1>2. CASE \E i \in Ids : AddDuplicate(i) \/ AddFailed(i) \/ RejectRequest(i)
  BY <1>1, <1>2 DEF AddDuplicate, AddFailed, RejectRequest
<1>3. ASSUME ClockInv', pc' # "idle" PROVE ClockInv' /\ Awake'
  BY <1>3 DEF Awake
<1>4. CASE \E i \in Ids, kind \in Kinds : AddQueued(i, kind)
  <2>1. UNCHANGED <<active_requests, prefill_order, current_step, cfg>> /\ pc' = "schedule"
    BY <1>4 DEF AddQueued
  <2> QED BY <1>3, <2>1, ClockKept DEF ClockInv
<1>5. CASE \E s \in AbortLists : Abort(s)
  <2>1. UNCHANGED <<engine, cfg>> /\ pc' \in {"schedule", "abort"}
    BY <1>5 DEF Abort, Loop
  <2> QED BY <1>1, <2>1
<1>6. CASE \E c \in Configs : PatchConfig(c)
  <2>1. UNCHANGED engine /\ cfg' \in Configs /\ pc' = "schedule"
    BY <1>6 DEF PatchConfig
  <2>2. ClockInv'
    BY <2>1, ClockKept DEF engine
  <2> QED BY <1>3, <2>1, <2>2
<1>7. CASE AbortAll
  <2>1. UNCHANGED <<engine, cfg>> /\ pc' \in {"schedule", "abort"}
    BY <1>7 DEF AbortAll, Loop
  <2> QED BY <1>1, <2>1
<1>8. CASE \/ ResetStats \/ ResetPrefixCache \/ StartDrain \/ DropPull
           \/ \E p \in pulls : PullLock(p)
           \/ \E p \in dp_owner, ok \in BOOLEAN : PullDone(p, ok)
  BY <1>1, <1>8 DEF ResetStats, ResetPrefixCache, StartDrain, DropPull, PullLock, PullDone
<1>9. CASE AdvertiseOne
  <2>1. UNCHANGED <<engine, cfg>> /\ pc' \in {"schedule", "advertise"}
    BY <1>9 DEF AdvertiseOne, Loop
  <2> QED BY <1>1, <2>1
<1>10. CASE Admit \/ FinishPull
  <2>1. pc' = "schedule"
    BY <1>10 DEF Admit, FinishPull
  <2> QED BY <1>3, <1>10, <2>1, AdmissionClock
<1>11. CASE ScheduleEnd
  BY <1>11, ScheduleEndClock
<1>12. CASE CompleteStep
  BY <1>3, <1>12, CompleteStepClock
<1>13. CASE DrainChunk
  BY <1>3, <1>13, DrainChunkClock
<1>14. CASE \E R \in SUBSET DOMAIN active_requests : Emit(R)
  BY <1>3, <1>14, EmitClock
<1>15. CASE AbortOne
  <2>1. /\ UNCHANGED <<prefill_order, current_step, cfg>> /\ pc' \in {"schedule", "abort"}
        /\ Removed(Head(todo))
    BY <1>15, RemovedFacts DEF AbortOne, Loop
  <2>2. \A j \in DOMAIN active_requests' :
          j \in DOMAIN active_requests /\ active_requests'[j] = active_requests[j]
    BY <2>1 DEF Removed
  <2>3. ClockInv'
    BY <2>1, <2>2, ClockKept DEF ClockInv
  <2> QED BY <1>3, <2>1, <2>3
<1>16. CASE UNCHANGED vars
  BY <1>1, <1>16 DEF vars
<1> QED BY <1>2, <1>4, <1>5, <1>6, <1>7, <1>8, <1>9, <1>10, <1>11, <1>12, <1>13, <1>14, <1>15, <1>16
        DEF Next, Message, Work

\* A request that is not to compute or generate has chunks to emit.
LEMMA OwedChunks ==
  ASSUME EngineInv, TokensConserved, NEW i \in DOMAIN active_requests, i \notin Generating
  PROVE  active_requests[i].pending_emits # <<>>
<1> DEFINE a == active_requests[i]
<1>1. a.emitted \in Int /\ a.generated \in Int /\ a.max_tokens \in Nat
  BY DEF EngineInv, TypeInv, ActiveOK
<1>2. ~(a.generated < a.max_tokens)
  BY DEF Generating, IsGenerating
<1>3. /\ a.emitted + SumFunction(a.pending_emits) = a.generated
      /\ a.emitted < a.max_tokens
  BY DEF TokensConserved
<1> HIDE DEF a
<1>4. a.pending_emits # <<>>
  <2> SUFFICES ASSUME a.pending_emits = <<>> PROVE FALSE
    OBVIOUS
  <2> QED BY <1>1, <1>2, <1>3, SumEmpty
<1> QED BY <1>4 DEF a

LEMMA InitClock == Init => ClockInv /\ Awake
<1> SUFFICES ASSUME Init PROVE ClockInv /\ Awake
  OBVIOUS
<1>1. /\ DOMAIN active_requests = {} /\ waiting = <<>> /\ prefill_order = <<>>
      /\ current_step.chunks = <<>> /\ cfg \in Configs /\ pc = "idle"
  BY DEF Init, NoStep, Configs
<1> QED BY <1>1 DEF ClockInv, Awake, Prefilling, Generating

\* Admission errs on neither side: between handlers the clock runs whenever there is
\* something to compute, a request without anything to compute has chunks to emit, a
\* request waits only while another runs or pulls; and the adapters stay within
\* max_loras.
THEOREM AdmissionStaysSound == Spec => []AdmissionSound
<1>1. Init => ClockInv /\ Awake
  BY InitClock
<1>2. EngineInv /\ (ClockInv /\ Awake) /\ [Next]_vars => (ClockInv /\ Awake)'
  BY ClockStep
<1>3. EngineInv /\ TokensConserved /\ Awake => NoStall
  <2> SUFFICES ASSUME EngineInv, TokensConserved, Awake, pc = "idle"
               PROVE  NoStall
    BY DEF NoStall
  <2>1. \A i \in DOMAIN active_requests :
          /\ i \in Prefilling \cup Generating => current_step # NoStep
          /\ active_requests[i].pending_emits # <<>> \/ i \in Prefilling \cup Generating
    BY OwedChunks DEF Awake
  <2> QED BY <2>1 DEF NoStall, Awake
<1>4. Conserved => TokensConserved
  BY DEF Conserved
<1>5. NoStall /\ LoraCapRespected => AdmissionSound
  BY DEF AdmissionSound
<1> QED BY <1>1, <1>2, <1>3, <1>4, <1>5, EngineInvariant, NothingLostOrCountedTwice,
           LoraCapAlwaysRespected, PTL DEF Spec

-----------------------------------------------------------------------------
(* The limits on the batch and on a step                                   *)

LEMMA BatchFinite ==
  EngineInv => /\ IsFiniteSet(Generating) /\ IsFiniteSet(DOMAIN pending_pulls)
               /\ Cardinality(Generating) \in Nat /\ Cardinality(DOMAIN pending_pulls) \in Nat
<1> SUFFICES ASSUME EngineInv
             PROVE  IsFiniteSet(Generating) /\ IsFiniteSet(DOMAIN pending_pulls)
  BY FS_CardinalityType
<1>1. IsFiniteSet(DOMAIN active_requests) /\ Generating \subseteq DOMAIN active_requests
  BY DEF EngineInv, TypeInv, Generating
<1> QED BY <1>1, FS_Subset DEF EngineInv, TypeInv

\* Every request of the batch demands at least one token of the next step.
LEMMA BatchWithinBacklog ==
  ASSUME EngineInv, ClockInv
  PROVE  StepTokenBacklog \in Nat /\ BatchSize <= StepTokenBacklog
<1> DEFINE f == [i \in Prefilling |-> active_requests[i].remaining]
<1>1. /\ IsFiniteSet(DOMAIN active_requests)
      /\ Prefilling \subseteq DOMAIN active_requests /\ Decoders \subseteq Generating
  BY DEF EngineInv, TypeInv, Prefilling, Decoders
<1>2. IsFiniteSet(Prefilling) /\ IsFiniteSet(Generating) /\ IsFiniteSet(DOMAIN pending_pulls)
  BY <1>1, FS_Subset, BatchFinite
<1>3. IsFiniteSet(Decoders) /\ IsFiniteSet(Generating \cap Prefilling)
  BY <1>1, <1>2, FS_Subset
<1>4. /\ Cardinality(Prefilling) \in Nat /\ Cardinality(Generating) \in Nat
      /\ Cardinality(Decoders) \in Nat /\ Cardinality(Generating \cap Prefilling) \in Nat
      /\ Cardinality(DOMAIN pending_pulls) \in Nat
  BY <1>2, <1>3, FS_CardinalityType
<1>5. Cardinality(Generating \cap Prefilling) <= Cardinality(Prefilling)
  BY <1>2, FS_Subset
<1>6. Cardinality(Generating) = Cardinality(Decoders) + Cardinality(Generating \cap Prefilling)
  <2>1. Generating = Decoders \cup (Generating \cap Prefilling)
        /\ Decoders \cap (Generating \cap Prefilling) = {}
    BY DEF Decoders
  <2> QED BY <1>3, <2>1, DisjointUnion
<1>7. DOMAIN f = Prefilling /\ \A i \in Prefilling : f[i] \in Int /\ f[i] >= 1
  BY DEF ClockInv
<1> HIDE DEF f
<1>8. SumFunctionOnSet(f, Prefilling) >= Cardinality(Prefilling)
  <2>1. 1 \in {0, 1}
    OBVIOUS
  <2> QED BY <1>2, <1>7, <2>1, SumBound
<1>9. SumFunctionOnSet(f, Prefilling) \in Int
  BY <1>2, <1>7, SumFacts
<1>10. StepTokenBacklog = SumFunctionOnSet(f, Prefilling)
         + Cardinality(Decoders) + Cardinality(DOMAIN pending_pulls)
  BY <1>7 DEF StepTokenBacklog, SumFunction, f
<1> QED BY <1>4, <1>5, <1>6, <1>8, <1>9, <1>10 DEF BatchSize

LEMMA GainsAtMost ==
  ASSUME NEW S, NEW T, NEW A, IsFiniteSet(S), IsFiniteSet(A), T \subseteq S \cup A
  PROVE  /\ Cardinality(T) \in Nat /\ IsFiniteSet(T)
         /\ Cardinality(T) <= Cardinality(S) + Cardinality(A)
<1>1. /\ IsFiniteSet(S \cup A) /\ IsFiniteSet(S \cap A)
      /\ Cardinality(S \cup A) = Cardinality(S) + Cardinality(A) - Cardinality(S \cap A)
  BY FS_Union, FS_Intersection
<1>2. IsFiniteSet(T) /\ Cardinality(T) <= Cardinality(S \cup A)
  BY <1>1, FS_Subset
<1>3. /\ Cardinality(S) \in Nat /\ Cardinality(A) \in Nat /\ Cardinality(S \cap A) \in Nat
      /\ Cardinality(T) \in Nat /\ Cardinality(S \cup A) \in Nat
  BY <1>1, <1>2, FS_CardinalityType
<1> QED BY <1>1, <1>2, <1>3

\* The batch as a step leaves it, if it gains the requests in A and the pulls in P.
LEMMA BatchGains ==
  ASSUME EngineInv, EngineInv', NEW A, NEW P, IsFiniteSet(A), IsFiniteSet(P),
         Generating' \subseteq Generating \cup A,
         DOMAIN pending_pulls' \subseteq DOMAIN pending_pulls \cup P
  PROVE  /\ BatchSize \in Nat /\ BatchSize' \in Nat
         /\ BatchSize' <= BatchSize + Cardinality(A) + Cardinality(P)
<1>1. /\ IsFiniteSet(Generating) /\ IsFiniteSet(DOMAIN pending_pulls)
      /\ Cardinality(Generating) \in Nat /\ Cardinality(DOMAIN pending_pulls) \in Nat
  BY BatchFinite
<1>2. /\ IsFiniteSet(Generating') /\ IsFiniteSet(DOMAIN pending_pulls')
      /\ Cardinality(Generating') \in Nat /\ Cardinality(DOMAIN pending_pulls') \in Nat
  <2>1. EngineInv' => (/\ IsFiniteSet(Generating) /\ IsFiniteSet(DOMAIN pending_pulls)
                       /\ Cardinality(Generating) \in Nat
                       /\ Cardinality(DOMAIN pending_pulls) \in Nat)'
    BY BatchFinite, PTL
  <2> QED BY <2>1
<1>3. Cardinality(A) \in Nat /\ Cardinality(P) \in Nat
  BY FS_CardinalityType
<1>4. Cardinality(Generating') <= Cardinality(Generating) + Cardinality(A)
  BY <1>1, <1>2, <1>3, GainsAtMost
<1>5. Cardinality(DOMAIN pending_pulls') <= Cardinality(DOMAIN pending_pulls) + Cardinality(P)
  BY <1>1, <1>2, <1>3, GainsAtMost
<1> QED BY <1>1, <1>2, <1>3, <1>4, <1>5 DEF BatchSize

\* Which requests generate after a step: those that did, less some, and the one
\* that joins the batch.
LEMMA GeneratingFalls ==
  ASSUME EngineInv, CompleteStep \/ DrainChunk \/ \E R \in SUBSET DOMAIN active_requests : Emit(R)
  PROVE  Generating' \subseteq Generating
<1>1. CASE CompleteStep
  <2> DEFINE size(i) == IF current_step.decoders[i] > 1 THEN current_step.decoders[i] ELSE ChunkSize
  <2>1. active_requests' =
             [i \in DOMAIN active_requests |->
                IF i \in DOMAIN current_step.decoders THEN Generate(active_requests[i], size(i))
                ELSE active_requests[i]]
    BY <1>1 DEF CompleteStep
  <2>2. \A i \in DOMAIN current_step.decoders : size(i) \in Nat
    BY ConfigAssumption DEF EngineInv, TypeInv
  <2> HIDE DEF size
  <2>3. ASSUME NEW i \in DOMAIN active_requests',
               active_requests'[i].generated < active_requests'[i].max_tokens
        PROVE  /\ i \in DOMAIN active_requests
               /\ active_requests[i].generated < active_requests[i].max_tokens
    <3>1. i \in DOMAIN active_requests /\ ActiveOK(active_requests[i])
      BY <2>1 DEF EngineInv, TypeInv
    <3>2. CASE i \in DOMAIN current_step.decoders
      <4>1. active_requests'[i] = Generate(active_requests[i], size(i)) /\ size(i) \in Nat
        BY <2>1, <2>2, <3>1, <3>2
      <4> QED BY <2>3, <3>1, <4>1, GenerateStops
    <3>3. CASE i \notin DOMAIN current_step.decoders
      BY <2>1, <2>3, <3>1, <3>3
    <3> QED BY <3>1, <3>2, <3>3
  <2> QED BY <2>3 DEF Generating, IsGenerating
<1>2. CASE DrainChunk
  BY <1>2, DrainChunkFacts DEF Generating, IsGenerating
<1>3. CASE \E R \in SUBSET DOMAIN active_requests : Emit(R)
  <2>1. PICK R \in SUBSET DOMAIN active_requests : Emit(R)
    BY <1>3
  <2>2. \A i \in DOMAIN active_requests' :
          /\ i \in DOMAIN active_requests
          /\ active_requests'[i].generated = active_requests[i].generated
          /\ active_requests'[i].max_tokens = active_requests[i].max_tokens
    BY <2>1, EmitFacts
  <2> QED BY <2>2 DEF Generating, IsGenerating
<1> QED BY <1>1, <1>2, <1>3

LEMMA AdmitGains ==
  ASSUME NEW q, AdmitDirect(q) PROVE Generating' \subseteq Generating \cup {q.id}
<1>1. CASE UNCHANGED active_requests
  BY <1>1 DEF Generating, IsGenerating
<1>2. CASE Activate(q)
  <2>1. PICK a : active_requests' = Put(active_requests, q.id, a)
    BY <1>2 DEF Activate
  <2>2. \A i \in DOMAIN active_requests' :
          \/ i = q.id
          \/ (i \in DOMAIN active_requests /\ active_requests'[i] = active_requests[i])
    BY <2>1 DEF Put
  <2> QED BY <2>2 DEF Generating, IsGenerating
<1> QED BY <1>1, <1>2 DEF AdmitDirect, RejectInvalid

BatchLimit == BatchSize' > BatchSize => BatchSize' <= RunningCapacity /\ BatchSize' <= Budget

StepLimit ==
  current_step'.chunks \notin {<<>>, current_step.chunks} =>
    SumFunction(current_step'.decoders)
      + SumFunction([k \in DOMAIN current_step'.chunks |-> current_step'.chunks[k].take])
      <= Budget

LEMMA BatchLimitStep ==
  ASSUME EngineInv, ClockInv, EngineInv', [Next]_vars PROVE BatchLimit
<1>0. IsFiniteSet({}) /\ Cardinality({}) = 0 /\ \A x : IsFiniteSet({x}) /\ Cardinality({x}) = 1
  BY FS_EmptySet, FS_Singleton
<1>1. ASSUME Generating' \subseteq Generating,
             DOMAIN pending_pulls' \subseteq DOMAIN pending_pulls
      PROVE  BatchLimit
  <2>1. BatchSize \in Nat /\ BatchSize' \in Nat /\ BatchSize' <= BatchSize + 0 + 0
    BY <1>0, <1>1, BatchGains
  <2> QED BY <2>1 DEF BatchLimit
<1>2. CASE Admit
  <2>1. PICK k \in NextAdmissible :
          /\ waiting' = RemoveAt(waiting, k)
          /\ \/ AdmitPull(waiting[k])
             \/ AdmitDirect(waiting[k]) /\ UNCHANGED pending_pulls
    BY <1>2 DEF Admit
  <2>2. BatchSize < RunningCapacity /\ StepTokenBacklog < Budget
    BY <1>2 DEF Admit, CanAdmit
  <2>3. BatchSize \in Nat /\ BatchSize' \in Nat /\ BatchSize' <= BatchSize + 1
    <3>1. CASE AdmitPull(waiting[k])
      <4>1. /\ Generating' \subseteq Generating \cup {}
            /\ DOMAIN pending_pulls' \subseteq DOMAIN pending_pulls \cup {waiting[k].id}
        BY <3>1 DEF AdmitPull, Put, Generating, IsGenerating
      <4>2. BatchSize \in Nat /\ BatchSize' \in Nat /\ BatchSize' <= BatchSize + 0 + 1
        BY <1>0, <4>1, BatchGains
      <4> QED BY <4>2
    <3>2. CASE AdmitDirect(waiting[k]) /\ UNCHANGED pending_pulls
      <4>1. /\ Generating' \subseteq Generating \cup {waiting[k].id}
            /\ DOMAIN pending_pulls' \subseteq DOMAIN pending_pulls \cup {}
        BY <3>2, AdmitGains
      <4>2. BatchSize \in Nat /\ BatchSize' \in Nat /\ BatchSize' <= BatchSize + 1 + 0
        BY <1>0, <4>1, BatchGains
      <4> QED BY <4>2
    <3> QED BY <2>1, <3>1, <3>2
  <2> QED BY <2>2, <2>3, BatchWithinBacklog, BudgetFacts DEF BatchLimit
<1>3. CASE FinishPull
  <2>1. PICK i \in PullTarget(Head(completions)) :
          /\ pending_pulls' = Drop(pending_pulls, {i})
          /\ AdmitDirect([n |-> pending_pulls[i].n, id |-> i, kind |-> pending_pulls[i].kind])
    BY <1>3 DEF FinishPull
  <2>2. i \in DOMAIN pending_pulls /\ DOMAIN pending_pulls' = DOMAIN pending_pulls \ {i}
    BY <2>1 DEF PullTarget, Drop
  <2>3. Generating' \subseteq Generating \cup {i}
    <3>1. PICK q : q = [n |-> pending_pulls[i].n, id |-> i, kind |-> pending_pulls[i].kind]
      OBVIOUS
    <3>2. q.id = i /\ AdmitDirect(q)
      BY <2>1, <3>1
    <3> QED BY <3>2, AdmitGains
  <2>4. /\ IsFiniteSet(Generating) /\ IsFiniteSet(DOMAIN pending_pulls)
        /\ Cardinality(Generating) \in Nat /\ Cardinality(DOMAIN pending_pulls) \in Nat
    BY BatchFinite
  <2>5. Cardinality(DOMAIN pending_pulls') = Cardinality(DOMAIN pending_pulls) - 1
    BY <2>2, <2>4, FS_RemoveElement
  <2>6. /\ Cardinality(Generating') \in Nat
        /\ Cardinality(Generating') <= Cardinality(Generating) + 1
    <3>1. IsFiniteSet({i}) /\ Cardinality({i}) = 1
      BY <1>0
    <3>2. Cardinality(Generating') \in Nat
          /\ Cardinality(Generating') <= Cardinality(Generating) + Cardinality({i})
      BY <2>3, <2>4, <3>1, GainsAtMost
    <3> QED BY <3>1, <3>2
  <2> QED BY <2>4, <2>5, <2>6 DEF BatchLimit, BatchSize
<1>4. CASE CompleteStep \/ DrainChunk \/ \E R \in SUBSET DOMAIN active_requests : Emit(R)
  <2>1. UNCHANGED pending_pulls
    BY <1>4 DEF CompleteStep, DrainChunk, Emit
  <2> QED BY <1>1, <1>4, <2>1, GeneratingFalls
<1>5. CASE AbortOne
  <2>1. Removed(Head(todo))
    BY <1>5, RemovedFacts DEF AbortOne
  <2> QED BY <1>1, <2>1 DEF Removed, Generating, IsGenerating
<1>6. CASE UNCHANGED <<active_requests, pending_pulls>>
  BY <1>1, <1>6 DEF Generating, IsGenerating
<1>7. CASE Message
  <2>1. UNCHANGED <<active_requests, pending_pulls>>
    BY <1>7 DEF Message, AddDuplicate, AddFailed, AddQueued, Abort, PatchConfig, ResetStats,
                ResetPrefixCache, StartDrain, RejectRequest, AbortAll, engine
  <2> QED BY <1>6, <2>1
<1>8. CASE \/ ScheduleEnd \/ AdvertiseOne \/ DropPull
           \/ (\E p \in pulls : PullLock(p))
           \/ \E p \in dp_owner, ok \in BOOLEAN : PullDone(p, ok)
  BY <1>6, <1>8 DEF ScheduleEnd, AdvertiseOne, DropPull, PullLock, PullDone, engine
<1>9. CASE UNCHANGED vars
  BY <1>6, <1>9 DEF vars, engine
<1> QED BY <1>2, <1>3, <1>4, <1>5, <1>7, <1>8, <1>9 DEF Next, Work

LEMMA StepLimitStep ==
  ASSUME EngineInv, ClockInv, [Next]_vars PROVE StepLimit
<1>1. CASE UNCHANGED current_step \/ current_step' = NoStep
  BY <1>1 DEF StepLimit, NoStep
<1>2. CASE ScheduleEnd
  <2>1. CASE ComposeStep
    BY <2>1, ComposeFacts DEF StepLimit, TakeOf
  <2>2. CASE UNCHANGED current_step
    BY <1>1, <2>2
  <2> QED BY <1>2, <2>1, <2>2 DEF ScheduleEnd, EnsureStep
<1>3. CASE Message
  BY <1>1, <1>3 DEF Message, AddDuplicate, AddFailed, AddQueued, Abort, PatchConfig, ResetStats,
                    ResetPrefixCache, StartDrain, RejectRequest, AbortAll, engine
<1>4. CASE \/ Admit \/ CompleteStep \/ DrainChunk \/ AdvertiseOne \/ FinishPull \/ DropPull \/ AbortOne
           \/ (\E R \in SUBSET DOMAIN active_requests : Emit(R))
           \/ (\E p \in pulls : PullLock(p))
           \/ \E p \in dp_owner, ok \in BOOLEAN : PullDone(p, ok)
  BY <1>1, <1>4 DEF Admit, CompleteStep, DrainChunk, AdvertiseOne, FinishPull, DropPull, AbortOne,
                    Emit, PullLock, PullDone, engine
<1>5. CASE UNCHANGED vars
  BY <1>1, <1>5 DEF vars, engine
<1> QED BY <1>2, <1>3, <1>4, <1>5 DEF Next, Work

\* The batch grows only within max_num_seqs and the token budget, and a step that
\* computes prompt tokens stays within the budget.
THEOREM LimitsAlwaysRespected == Spec => WithinLimits
<1>1. EngineInv /\ (ClockInv /\ Awake) /\ [Next]_vars => BatchLimit /\ StepLimit
  BY StepEffect, BatchLimitStep, StepLimitStep
<1>2. EngineInv /\ (ClockInv /\ Awake) /\ [Next]_vars => (ClockInv /\ Awake)'
  BY ClockStep
<1>3. Init => ClockInv /\ Awake
  BY InitClock
<1>4. BatchLimit => [BatchSize' > BatchSize =>
                       BatchSize' <= RunningCapacity /\ BatchSize' <= Budget]_vars
  BY DEF BatchLimit
<1>5. StepLimit => [current_step'.chunks \notin {<<>>, current_step.chunks} =>
       SumFunction(current_step'.decoders)
         + SumFunction([k \in DOMAIN current_step'.chunks |-> current_step'.chunks[k].take])
         <= Budget]_vars
  BY DEF StepLimit
<1> QED BY <1>1, <1>2, <1>3, <1>4, <1>5, EngineInvariant, PTL
        DEF Spec, WithinLimits, BatchGrowsWithinLimits, StepWithinBudget
=============================================================================
