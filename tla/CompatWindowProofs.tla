------------------------- MODULE CompatWindowProofs -------------------------
(* The support window, for all the versions upstream may publish and in any order, every    *)
(* first table, fork and size of the window: the table stays sound, and no merge takes it   *)
(* back.                                                                                    *)
EXTENDS CompatWindow, SequenceTheorems, FiniteSetTheorems, TLAPS

(***************************************************************************)
(* Versions are totally ordered                                            *)
(***************************************************************************)
LEMMA OlderTotal ==
  ASSUME NEW v \in Versions, NEW w \in Versions
  PROVE  v = w \/ Older(v, w) \/ Older(w, v)
<1>1. v.minor = w.minor /\ v.patch = w.patch /\ v.rc = w.rc => v = w
  BY DEF Versions
<1>2. {v.minor, v.patch, v.rc, w.minor, w.patch, w.rc} \subseteq Nat
  BY DEF Versions
<1>. QED
  BY <1>1, <1>2 DEF Older, Final

LEMMA OlderTransitive ==
  ASSUME NEW u \in Versions, NEW v \in Versions, NEW w \in Versions, Older(u, v), Older(v, w)
  PROVE  Older(u, w)
<1>1. {u.minor, u.patch, u.rc, v.minor, v.patch, v.rc, w.minor, w.patch, w.rc} \subseteq Nat
  BY DEF Versions
<1>. QED
  BY <1>1 DEF Older, Final

LEMMA OlderStrict ==
  ASSUME NEW v \in Versions, NEW w \in Versions
  PROVE  /\ ~Older(v, v)
         /\ Older(v, w) => ~Older(w, v) /\ v.minor <= w.minor
         /\ v.minor < w.minor => Older(v, w)
<1>1. {v.minor, v.patch, v.rc, w.minor, w.patch, w.rc} \subseteq Nat
  BY DEF Versions
<1>. QED
  BY <1>1 DEF Older, Final

(***************************************************************************)
(* Tables of stable lines                                                  *)
(***************************************************************************)
Releases == {v \in Versions : v.rc = Final}

Rows == [tag : Releases, rev : {Commit(v) : v \in Versions}, fork : BOOLEAN, default : BOOLEAN]

(* At most MaxStable lines, newest first, the first one the default, each pinned to the      *)
(* commit of its tag.                                                                        *)
Table(s) ==
  /\ s \in Seq(Rows) /\ Len(s) \in 1..MaxStable
  /\ \A i \in 1..Len(s) : s[i].rev = Commit(s[i].tag) /\ (s[i].default <=> i = 1)
  /\ \A i, j \in 1..Len(s) : i < j => s[j].tag.minor < s[i].tag.minor

LEMMA TableFacts ==
  ASSUME NEW s, Table(s)
  PROVE  /\ Len(s) \in Nat \ {0} /\ 1 \in 1..Len(s) /\ DOMAIN s = 1..Len(s)
         /\ \A i \in 1..Len(s) : s[i] \in Rows /\ s[i].tag \in Versions /\ s[i].tag.minor \in Nat
         /\ DefaultLine(s) = s[1]
         /\ Validate(s)
         /\ Lines(s) = {s[i].tag.minor : i \in 1..Len(s)}
<1>1. Len(s) \in Nat \ {0} /\ 1 \in 1..Len(s) /\ DOMAIN s = 1..Len(s)
  BY LenProperties, WindowAssumption DEF Table
<1>2. \A i \in 1..Len(s) : s[i] \in Rows
  BY ElementOfSeq DEF Table
<1>3. {i \in DOMAIN s : s[i].default} = {1}
  BY <1>1 DEF Table
<1>4. Min({1}) = 1
  BY DEF Min
<1>5. Cardinality({1}) = 1
  BY FS_Singleton
<1>. QED
  BY <1>1, <1>2, <1>3, <1>4, <1>5 DEF Rows, Releases, Versions, DefaultLine, Validate, Lines, Minor

\* The line of a minor is the only one.
LEMMA IndexFacts ==
  ASSUME NEW s, Table(s), NEW l \in Lines(s)
  PROVE  /\ IndexOf(s, l) \in 1..Len(s) /\ s[IndexOf(s, l)].tag.minor = l
         /\ \A i \in 1..Len(s) : s[i].tag.minor = l => i = IndexOf(s, l)
<1>1. PICK k \in 1..Len(s) : s[k].tag.minor = l
  BY TableFacts
<1>2. DOMAIN s = 1..Len(s)
  BY TableFacts
<1>3. IndexOf(s, l) \in 1..Len(s) /\ s[IndexOf(s, l)].tag.minor = l
  BY <1>1, <1>2 DEF IndexOf, Minor
<1>4. \A i, j \in 1..Len(s) : s[i].tag.minor = s[j].tag.minor => i = j
  <2>1. \A i, j \in 1..Len(s) : i \in Int /\ j \in Int /\ s[i].tag.minor \in Nat /\ s[j].tag.minor \in Nat
    BY TableFacts
  <2>2. \A i, j \in 1..Len(s) : i < j => s[j].tag.minor < s[i].tag.minor
    BY DEF Table
  <2>. QED
    BY <2>1, <2>2
<1>. QED
  BY <1>3, <1>4

(* No line of t, and not its default, is older than that of s.                               *)
Forward(s, t) ==
  /\ ~Older(t[1].tag, s[1].tag)
  /\ \A i \in 1..Len(s) : \A j \in 1..Len(t) :
       s[i].tag.minor = t[j].tag.minor => ~Older(t[j].tag, s[i].tag)

\* A line set to a newer tag of its own minor.
LEMMA SetLineTable ==
  ASSUME NEW s, Table(s), NEW v \in Releases, Minor(v) \in Lines(s),
         Older(s[IndexOf(s, Minor(v))].tag, v), NEW t, t = ApplySetLine(s, v, Commit(v))
  PROVE  /\ Table(t) /\ Forward(s, t)
         /\ IndexOf(s, Minor(v)) # 1 => t[1] = s[1]
         /\ IndexOf(t, Minor(v)) = IndexOf(s, Minor(v))
<1>. DEFINE k == IndexOf(s, Minor(v))
            row == [s[k] EXCEPT !.tag = v, !.rev = Commit(v)]
<1>1. k \in 1..Len(s) /\ s[k].tag.minor = v.minor /\ DOMAIN s = 1..Len(s)
  BY IndexFacts, TableFacts DEF Minor
<1>. HIDE DEF k
<1>2. s[k] \in Rows /\ v \in Versions
  BY <1>1, TableFacts DEF Releases
<1>3. /\ row \in Rows /\ row.tag = v /\ row.rev = Commit(v) /\ row.default = s[k].default
  BY <1>2 DEF Rows
<1>4. t = [s EXCEPT ![k] = row]
  BY <1>1 DEF ApplySetLine, k
<1>. HIDE DEF row
<1>5. /\ t \in Seq(Rows) /\ Len(t) = Len(s)
      /\ \A j \in 1..Len(s) : t[j] = IF j = k THEN row ELSE s[j]
  BY <1>1, <1>3, <1>4, ExceptSeq DEF Table
<1>6. \A i \in 1..Len(s) : /\ t[i].tag.minor = s[i].tag.minor /\ t[i].default = s[i].default
                           /\ t[i].rev = Commit(t[i].tag)
  BY <1>1, <1>3, <1>5 DEF Table
<1>7. Table(t)
  BY <1>5, <1>6 DEF Table
<1>8. \A i \in 1..Len(s) : ~Older(t[i].tag, s[i].tag)
  <2>1. ASSUME NEW i \in 1..Len(s) PROVE ~Older(t[i].tag, s[i].tag)
    <3>1. s[i].tag \in Versions
      BY TableFacts
    <3>2. CASE i = k
      <4>1. t[i].tag = v /\ Older(s[i].tag, v)
        BY <1>3, <1>5, <2>1, <3>2 DEF k
      <4>. QED
        BY <1>2, <3>1, <4>1, OlderStrict
    <3>3. CASE i # k
      BY <1>5, <2>1, <3>1, <3>3, OlderStrict
    <3>. QED
      BY <3>2, <3>3
  <2>. QED
    BY <2>1
<1>9. \A i, j \in 1..Len(s) : s[i].tag.minor = t[j].tag.minor => i = j
  <2>1. \A i, j \in 1..Len(s) : s[i].tag.minor = s[j].tag.minor => i = j
    <3>1. \A i \in 1..Len(s) : s[i].tag.minor \in Lines(s)
      BY TableFacts
    <3>. QED
      BY <3>1, IndexFacts
  <2>. QED
    BY <1>6, <2>1
<1>10. Forward(s, t)
  BY <1>5, <1>8, <1>9, TableFacts DEF Forward
<1>11. IndexOf(t, Minor(v)) = k
  <2>1. t[k].tag.minor = Minor(v) /\ Minor(v) \in Lines(t)
    BY <1>1, <1>5, <1>6, <1>7, TableFacts DEF Minor
  <2>. QED
    BY <1>1, <1>5, <1>7, <2>1, IndexFacts
<1>. QED
  BY <1>5, <1>7, <1>10, <1>11, TableFacts DEF k

LEMMA MinOfTwo ==
  ASSUME NEW a \in Nat, NEW b \in Nat
  PROVE  Min({a, b}) \in {a, b} /\ Min({a, b}) <= a /\ Min({a, b}) <= b
<1>1. \E x \in {a, b} : \A y \in {a, b} : x <= y
  BY a <= b \/ b <= a
<1>. QED
  BY <1>1 DEF Min

\* A new line takes the first place, the default, and the last one may go.
LEMMA RollTable ==
  ASSUME NEW s, Table(s), NEW v \in Releases, Minor(v) \notin Lines(s), Older(s[1].tag, v),
         NEW t, t = ApplyRollStable(s, v, Commit(v))
  PROVE  /\ Table(t) /\ Forward(s, t)
         /\ IndexOf(t, Minor(v)) = 1
<1>. DEFINE demoted == [i \in DOMAIN s |-> [s[i] EXCEPT !.default = FALSE]]
            row == VllmLine(v, Commit(v), FALSE, TRUE)
            grown == <<row>> \o demoted
            n == Len(s)
            k == Min({n + 1, MaxStable})
<1>1. n \in Nat \ {0} /\ 1 \in 1..n /\ DOMAIN s = 1..n /\ \A i \in 1..n : s[i] \in Rows
  BY TableFacts
<1>2. v \in Versions /\ v.minor \in Nat /\ \A i \in 1..n : s[i].tag \in Versions /\ s[i].tag.minor \in Nat
  BY TableFacts DEF Releases, Versions
<1>3. row \in Rows /\ row.tag = v /\ row.rev = Commit(v) /\ row.default
  BY <1>2 DEF VllmLine, Rows
<1>4. \A i \in 1..n : /\ demoted[i] \in Rows /\ demoted[i].tag = s[i].tag
                      /\ demoted[i].rev = s[i].rev /\ ~demoted[i].default
  <2>1. ASSUME NEW i \in 1..n, NEW r \in Rows
        PROVE  /\ [r EXCEPT !.default = FALSE] \in Rows
               /\ [r EXCEPT !.default = FALSE].tag = r.tag
               /\ [r EXCEPT !.default = FALSE].rev = r.rev
               /\ ~[r EXCEPT !.default = FALSE].default
    BY DEF Rows
  <2>2. \A i \in 1..n : demoted[i] = [s[i] EXCEPT !.default = FALSE]
    BY <1>1
  <2>. HIDE DEF demoted
  <2>. QED
    BY <1>1, <2>1, <2>2
<1>5. demoted \in Seq(Rows) /\ Len(demoted) = n
  <2>1. demoted \in [1..n -> Rows]
    <3>1. demoted = [i \in 1..n |-> demoted[i]]
      BY <1>1
    <3>. HIDE DEF demoted
    <3>. QED
      BY <1>4, <3>1
  <2>. HIDE DEF demoted
  <2>2. demoted \in Seq(Rows)
    BY <1>1, <2>1, SeqDef
  <2>3. DOMAIN demoted = 1..n /\ DOMAIN demoted = 1..Len(demoted) /\ Len(demoted) \in Nat
    BY <2>1, <2>2, LenProperties
  <2>. QED
    BY <1>1, <2>2, <2>3
<1>6. <<row>> \in Seq(Rows) /\ Len(<<row>>) = 1 /\ <<row>>[1] = row
  <2>. HIDE DEF row
  <2>. QED
    BY <1>3
<1>. HIDE DEF row, demoted
<1>7. /\ Len(grown) = n + 1 /\ grown \in Seq(Rows)
      /\ \A i \in 1..(n + 1) : grown[i] = IF i = 1 THEN row ELSE demoted[i - 1]
  <2>1. /\ grown \in Seq(Rows) /\ Len(grown) = 1 + n
        /\ \A i \in 1..(1 + n) : grown[i] = IF i <= 1 THEN <<row>>[i] ELSE demoted[i - 1]
    BY <1>5, <1>6, ConcatProperties
  <2>2. \A i \in 1..(n + 1) : i <= 1 <=> i = 1
    OBVIOUS
  <2>. QED
    BY <1>1, <1>6, <2>1, <2>2
<1>8. k \in 1..(n + 1) /\ k <= MaxStable
  BY <1>1, MinOfTwo, WindowAssumption
<1>9. t = SubSeq(grown, 1, k)
  BY <1>7 DEF ApplyRollStable, row, demoted
<1>. HIDE DEF grown, k
<1>10. \A i \in 1..k : grown[i] \in Rows
  BY <1>7, <1>8, ElementOfSeq
<1>11. /\ t \in Seq(Rows) /\ Len(t) = k
       /\ \A i \in 1..k : t[i] = grown[i]
  <2>1. 1 \in Int /\ k \in Int /\ 1 <= k /\ k - 1 + 1 = k
    BY <1>8
  <2>2. /\ SubSeq(grown, 1, k) \in Seq(Rows)
        /\ Len(SubSeq(grown, 1, k)) = k
        /\ \A i \in 1..k : SubSeq(grown, 1, k)[i] = grown[1 + i - 1]
    BY <1>10, <2>1, SubSeqProperties
  <2>. QED
    BY <1>8, <1>9, <2>2
<1>12. t[1] = row /\ \A i \in 2..k : i - 1 \in 1..n /\ t[i] = demoted[i - 1]
  BY <1>7, <1>8, <1>11
<1>13. \A i \in 1..k : t[i].rev = Commit(t[i].tag) /\ (t[i].default <=> i = 1)
  <2>1. ASSUME NEW i \in 1..k, i # 1 PROVE i \in 2..k
    BY <1>8, <2>1
  <2>2. \A i \in 1..n : s[i].rev = Commit(s[i].tag)
    BY DEF Table
  <2>. QED
    BY <1>3, <1>4, <1>12, <2>1, <2>2
<1>14. \A i \in 1..n : s[i].tag.minor < v.minor
  <2>1. s[1].tag.minor <= v.minor /\ s[1].tag.minor # v.minor
    BY <1>1, <1>2, OlderStrict, TableFacts DEF Minor
  <2>2. \A i \in 1..n : i # 1 => s[i].tag.minor < s[1].tag.minor
    BY <1>1 DEF Table
  <2>. QED
    BY <1>1, <1>2, <2>1, <2>2
<1>15. \A i, j \in 1..k : i < j => t[j].tag.minor < t[i].tag.minor
  <2>1. ASSUME NEW i \in 1..k, NEW j \in 1..k, i < j PROVE t[j].tag.minor < t[i].tag.minor
    <3>1. j \in 2..k /\ j - 1 \in 1..n /\ t[j].tag = s[j - 1].tag
      BY <1>4, <1>8, <1>12, <2>1
    <3>2. CASE i = 1
      BY <1>3, <1>12, <1>14, <3>1, <3>2
    <3>3. CASE i # 1
      <4>1. i \in 2..k /\ i - 1 \in 1..n /\ i - 1 < j - 1 /\ t[i].tag = s[i - 1].tag
        BY <1>4, <1>8, <1>12, <2>1, <3>3
      <4>. QED
        BY <3>1, <4>1 DEF Table
    <3>. QED
      BY <3>2, <3>3
  <2>. QED
    BY <2>1
<1>16. Table(t)
  BY <1>8, <1>11, <1>13, <1>15 DEF Table
<1>17. Forward(s, t)
  <2>1. ~Older(t[1].tag, s[1].tag)
    BY <1>1, <1>2, <1>3, <1>12, OlderStrict
  <2>2. ASSUME NEW i \in 1..n, NEW j \in 1..k, s[i].tag.minor = t[j].tag.minor
        PROVE  ~Older(t[j].tag, s[i].tag)
    <3>1. j # 1
      BY <1>2, <1>3, <1>12, <1>14, <2>2
    <3>2. j \in 2..k
      BY <1>8, <3>1
    <3>3. j - 1 \in 1..n /\ t[j].tag = s[j - 1].tag
      BY <1>4, <1>12, <3>2
    <3>4. s[i].tag.minor \in Lines(s) /\ s[j - 1].tag.minor = s[i].tag.minor
      BY <2>2, <3>3, TableFacts
    <3>5. i = j - 1
      BY <3>3, <3>4, IndexFacts
    <3>. QED
      BY <1>2, <3>3, <3>5, OlderStrict
  <2>. QED
    BY <1>11, <2>1, <2>2 DEF Forward
<1>18. IndexOf(t, Minor(v)) = 1
  <2>1. 1 \in 1..Len(t) /\ t[1].tag.minor = Minor(v) /\ Minor(v) \in Lines(t)
    BY <1>3, <1>12, <1>16, TableFacts DEF Minor
  <2>. QED
    BY <1>16, <2>1, IndexFacts
<1>. QED
  BY <1>16, <1>17, <1>18

(***************************************************************************)
(* Reading upstream                                                        *)
(***************************************************************************)
\* The commit of a tag, annotated or not.
LEMMA ParseFacts ==
  ASSUME NEW v \in upstream.tags
  PROVE  ParseLsRemote(v) = Commit(v)
<1>. DEFINE Good(l) == l.tag = v /\ (l.deref \/ \A k \in LsRemote : k.tag = v => ~k.deref)
<1>1. \A l \in LsRemote : l.deref => l.sha = Commit(l.tag)
  BY DEF LsRemote
<1>2. \A l \in LsRemote : ~l.deref /\ l.tag \notin Annotated => l.sha = Commit(l.tag)
  BY DEF LsRemote
<1>3. CASE v \in Annotated
  <2>. DEFINE d == [tag |-> v, deref |-> TRUE, sha |-> Commit(v)]
  <2>1. d \in LsRemote
    BY <1>3 DEF LsRemote
  <2>2. \A l \in LsRemote : Good(l) => l.deref
    BY <2>1
  <2>3. Good(d)
    OBVIOUS
  <2>. HIDE DEF d, Good
  <2>4. (CHOOSE l \in LsRemote : Good(l)) \in LsRemote /\ Good(CHOOSE l \in LsRemote : Good(l))
    BY <2>1, <2>3
  <2>5. (CHOOSE l \in LsRemote : Good(l)).tag = v
    BY <2>4 DEF Good
  <2>6. (CHOOSE l \in LsRemote : Good(l)).sha = Commit(v)
    BY <1>1, <2>2, <2>4, <2>5
  <2>. QED
    BY <2>6 DEF ParseLsRemote, Good
<1>4. CASE v \notin Annotated
  <2>. DEFINE d == [tag |-> v, deref |-> FALSE, sha |-> Commit(v)]
  <2>1. d \in LsRemote
    BY <1>4 DEF LsRemote
  <2>2. \A l \in LsRemote : l.tag = v => ~l.deref
    BY <1>4 DEF LsRemote
  <2>3. Good(d)
    BY <2>2
  <2>. HIDE DEF d
  <2>4. \A l \in LsRemote : Good(l) => l.tag = v
    OBVIOUS
  <2>. HIDE DEF Good
  <2>5. (CHOOSE l \in LsRemote : Good(l)) \in LsRemote /\ Good(CHOOSE l \in LsRemote : Good(l))
    BY <2>1, <2>3
  <2>6. (CHOOSE l \in LsRemote : Good(l)).tag = v
    BY <2>4, <2>5
  <2>7. (CHOOSE l \in LsRemote : Good(l)).sha = Commit(v)
    BY <1>2, <1>4, <2>2, <2>5, <2>6
  <2>. QED
    BY <2>7 DEF ParseLsRemote, Good
<1>. QED
  BY <1>3, <1>4

(* Upstream lists releases and candidates, has a latest release, and has a newest candidate. *)
UpstreamOK ==
  /\ upstream.tags \subseteq Versions
  /\ upstream.latest \in upstream.tags /\ upstream.latest.rc = Final
  /\ \E m \in upstream.tags :
       m.rc # Final /\ \A w \in upstream.tags : w.rc # Final => w = m \/ Older(w, m)

\* The watcher's pick is not older than a candidate the tracker was on before.
LEMMA PickFacts ==
  ASSUME UpstreamOK, Candidates # {}, NEW c \in upstream.tags, c.rc # Final
  PROVE  /\ PickLatestRc \in upstream.tags /\ PickLatestRc.rc # Final
         /\ ~Older(PickLatestRc, c)
<1>. DEFINE Best(v) == \A w \in Candidates : w = v \/ Older(w, v)
<1>1. /\ upstream.tags \subseteq Versions /\ upstream.latest \in Versions
      /\ Candidates \subseteq upstream.tags
      /\ \A w \in Candidates : w.rc # Final /\ Older(upstream.latest, w)
      /\ \A w \in upstream.tags : w.rc # Final /\ Older(upstream.latest, w) => w \in Candidates
  BY DEF UpstreamOK, Candidates
<1>2. PICK m \in upstream.tags :
        m.rc # Final /\ \A w \in upstream.tags : w.rc # Final => w = m \/ Older(w, m)
  BY DEF UpstreamOK
<1>3. m \in Candidates
  <2>1. PICK w \in Candidates : w = m \/ Older(w, m)
    BY <1>1, <1>2
  <2>2. Older(upstream.latest, m)
    BY <1>1, <1>2, <2>1, OlderTransitive
  <2>. QED
    BY <1>1, <1>2, <2>2
<1>4. Best(m)
  BY <1>1, <1>2
<1>. HIDE DEF Best
<1>. DEFINE p == CHOOSE v \in Candidates : Best(v)
<1>5. p \in Candidates /\ Best(p)
  BY <1>3, <1>4
<1>6. PickLatestRc = p
  BY DEF PickLatestRc, Best
<1>. HIDE DEF p
<1>7. ~Older(p, c)
  <2>1. p \in Versions /\ c \in Versions
    BY <1>1, <1>5
  <2>2. CASE c \in Candidates
    BY <1>5, <2>1, <2>2, OlderStrict DEF Best
  <2>3. CASE c \notin Candidates
    <3>1. ~Older(upstream.latest, c) /\ Older(upstream.latest, p)
      BY <1>1, <1>5, <2>3
    <3>. QED
      BY <1>1, <2>1, <3>1, OlderTransitive
  <2>. QED
    BY <2>2, <2>3
<1>. QED
  BY <1>1, <1>5, <1>6, <1>7

(***************************************************************************)
(* The invariant                                                           *)
(***************************************************************************)
PinOf(s) == [rev |-> s[1].rev, fork |-> s[1].fork]
OneEach(G) == \A g, h \in G : Minor(g) = Minor(h) => g = h

MainOK ==
  /\ DOMAIN main = {"rc", "stable", "goldens", "pin", "simver"}
  /\ main.rc \in upstream.tags /\ main.rc.rc # Final
  /\ Table(main.stable) /\ main.pin = PinOf(main.stable) /\ OneEach(main.goldens)

(* A pull request for the tracker moves it on from rc.                                       *)
RcPrOK(q, rc) == q = NoPr \/ (q.tag \in upstream.tags /\ q.tag.rc # Final /\ ~Older(q.tag, rc))

(* The pull request p of a roll was made on the table s that main still has; it says what    *)
(* becomes of the pin, and carries its goldens once a capture c of this head pushed them.    *)
RollOK(p, s, c) ==
  /\ DOMAIN p = {"tag", "stable", "pin", "goldens", "seen", "auto", "carried"}
  /\ p.tag \in Versions
  /\ Table(p.stable) /\ p.pin = PinOf(p.stable) /\ OneEach(p.goldens) /\ Forward(s, p.stable)
  /\ p.auto /\ ~p.carried => p.stable[1].tag \in p.goldens
  /\ c # NoCapture /\ p.seen /\ p.tag = c.head => c.tag = p.stable[1].tag

PrOK ==
  /\ pr = [rc |-> pr.rc, stable |-> pr.stable, release |-> pr.release]
  /\ RcPrOK(pr.rc, main.rc)
  /\ pr.stable = NoPr \/ RollOK(pr.stable, main.stable, capture)

WindowInv == UpstreamOK /\ MainOK /\ PrOK

LEMMA WindowInit == Init => WindowInv
<1>. SUFFICES ASSUME Init PROVE WindowInv
  OBVIOUS
<1>. DEFINE n == Len(FirstWindow)
            s == main.stable
<1>1. /\ upstream = [tags |-> ToSet(FirstWindow) \cup {FirstRc}, latest |-> FirstWindow[1]]
      /\ main.rc = FirstRc /\ main.goldens = ToSet(FirstWindow)
      /\ s = [i \in DOMAIN FirstWindow |->
               VllmLine(FirstWindow[i], Commit(FirstWindow[i]), Minor(FirstWindow[i]) \in Forked, i = 1)]
      /\ main.pin = [rev |-> Commit(FirstWindow[1]), fork |-> Minor(FirstWindow[1]) \in Forked]
      /\ DOMAIN main = {"rc", "stable", "goldens", "pin", "simver"}
      /\ pr = [rc |-> NoPr, stable |-> NoPr, release |-> 0]
  BY DEF Init
<1>2. /\ n \in 1..MaxStable /\ n \in Nat \ {0} /\ 1 \in 1..n /\ DOMAIN FirstWindow = 1..n
      /\ ToSet(FirstWindow) = {FirstWindow[i] : i \in 1..n}
      /\ \A i \in 1..n : FirstWindow[i] \in Releases /\ FirstWindow[i] \in Versions
      /\ \A i, j \in 1..n : i < j => FirstWindow[j].minor < FirstWindow[i].minor
  <2>1. DOMAIN FirstWindow = 1..n /\ n \in Nat \ {0} /\ n \in 1..MaxStable
    BY WindowAssumption, LenProperties
  <2>2. \A i \in 1..n : FirstWindow[i] \in Versions
    BY WindowAssumption, ElementOfSeq
  <2>. QED
    BY <2>1, <2>2, WindowAssumption DEF ToSet, Releases
<1>3. UpstreamOK
  <2>1. FirstRc \in Versions /\ FirstRc.rc # Final
    BY WindowAssumption
  <2>2. \A w \in upstream.tags : w.rc # Final => w = FirstRc
    BY <1>1, <1>2 DEF Releases
  <2>. QED
    BY <1>1, <1>2, <2>1, <2>2 DEF UpstreamOK, Releases
<1>4. \A i \in 1..n : /\ s[i] \in Rows /\ s[i].tag = FirstWindow[i] /\ s[i].rev = Commit(s[i].tag)
                      /\ (s[i].default <=> i = 1) /\ s[i].fork = (Minor(FirstWindow[i]) \in Forked)
  <2>1. ASSUME NEW i \in 1..n, NEW f \in BOOLEAN, NEW d \in BOOLEAN, NEW v \in Releases, v \in Versions
        PROVE  VllmLine(v, Commit(v), f, d) \in Rows
    BY <2>1 DEF VllmLine, Rows
  <2>2. \A i \in 1..n : s[i] = VllmLine(FirstWindow[i], Commit(FirstWindow[i]),
                                        Minor(FirstWindow[i]) \in Forked, i = 1)
    BY <1>1, <1>2
  <2>. HIDE DEF s
  <2>3. ASSUME NEW i \in 1..n
        PROVE  /\ s[i] \in Rows /\ s[i].tag = FirstWindow[i] /\ s[i].rev = Commit(s[i].tag)
               /\ (s[i].default <=> i = 1) /\ s[i].fork = (Minor(FirstWindow[i]) \in Forked)
    <3>. DEFINE f == Minor(FirstWindow[i]) \in Forked
                d == i = 1
    <3>1. f \in BOOLEAN /\ d \in BOOLEAN
      OBVIOUS
    <3>2. s[i] = VllmLine(FirstWindow[i], Commit(FirstWindow[i]), f, d)
      BY <2>2
    <3>. HIDE DEF f, d
    <3>3. s[i] \in Rows
      BY <1>2, <2>1, <3>1, <3>2
    <3>4. s[i].tag = FirstWindow[i] /\ s[i].rev = Commit(s[i].tag) /\ s[i].fork = f /\ s[i].default = d
      BY <3>2 DEF VllmLine
    <3>. QED
      BY <3>3, <3>4 DEF f, d
  <2>. QED
    BY <2>3
<1>5. s \in Seq(Rows) /\ Len(s) = n
  <2>1. s = [i \in 1..n |-> s[i]]
    BY <1>1, <1>2
  <2>. HIDE DEF s
  <2>2. s \in [1..n -> Rows]
    BY <1>4, <2>1
  <2>3. s \in Seq(Rows)
    BY <1>2, <2>2, SeqDef
  <2>4. DOMAIN s = 1..n /\ DOMAIN s = 1..Len(s) /\ Len(s) \in Nat
    BY <2>2, <2>3, LenProperties
  <2>. QED
    BY <1>2, <2>3, <2>4
<1>6. Table(s)
  <2>. HIDE DEF s
  <2>. QED
    BY <1>2, <1>4, <1>5 DEF Table
<1>7. OneEach(main.goldens)
  <2>1. ASSUME NEW i \in 1..n, NEW j \in 1..n, FirstWindow[i].minor = FirstWindow[j].minor PROVE i = j
    <3>1. FirstWindow[i].minor \in Nat /\ FirstWindow[j].minor \in Nat
      BY <1>2 DEF Versions
    <3>. QED
      BY <1>2, <2>1, <3>1
  <2>. QED
    BY <1>1, <1>2, <2>1 DEF OneEach, Minor
<1>8. main.pin = PinOf(s)
  BY <1>1, <1>2, <1>4 DEF PinOf
<1>9. MainOK
  BY <1>1, <1>6, <1>7, <1>8, WindowAssumption DEF MainOK
<1>10. PrOK
  BY <1>1 DEF PrOK, RcPrOK
<1>. QED
  BY <1>3, <1>9, <1>10 DEF WindowInv

(***************************************************************************)
(* The steps                                                               *)
(***************************************************************************)
LEMMA PublishStep ==
  ASSUME WindowInv, NEW v \in Upstream, Publish(v)
  PROVE  WindowInv'
<1>1. PICK latest \in {v, upstream.latest} :
        /\ v.rc # Final => latest = upstream.latest
        /\ upstream' = [tags |-> upstream.tags \cup {v}, latest |-> latest]
  BY DEF Publish
<1>2. v \notin upstream.tags /\ v \in Versions /\ UNCHANGED <<main, pr, capture>>
  BY WindowAssumption DEF Publish
<1>3. UpstreamOK'
  <2>1. PICK m \in upstream.tags :
          m.rc # Final /\ \A w \in upstream.tags : w.rc # Final => w = m \/ Older(w, m)
    BY DEF WindowInv, UpstreamOK
  <2>2. m \in Versions /\ upstream.tags \subseteq Versions
    BY <2>1 DEF WindowInv, UpstreamOK
  <2>3. \E x \in upstream'.tags :
          x.rc # Final /\ \A w \in upstream'.tags : w.rc # Final => w = x \/ Older(w, x)
    <3>1. CASE v.rc # Final /\ Older(m, v)
      <4>1. \A w \in upstream.tags : w.rc # Final => Older(w, v)
        BY <1>2, <2>1, <2>2, <3>1, OlderTransitive
      <4>. QED
        BY <1>1, <3>1, <4>1
    <3>2. CASE v.rc = Final \/ Older(v, m)
      BY <1>1, <2>1, <3>2
    <3>. QED
      BY <1>2, <2>1, <2>2, <3>1, <3>2, OlderTotal
  <2>. QED
    BY <1>1, <1>2, <2>2, <2>3 DEF WindowInv, UpstreamOK
<1>4. upstream.tags \subseteq upstream'.tags
  BY <1>1
<1>5. MainOK'
  BY <1>2, <1>4 DEF WindowInv, MainOK
<1>6. PrOK'
  BY <1>2, <1>4 DEF WindowInv, PrOK, RcPrOK
<1>. QED
  BY <1>3, <1>5, <1>6 DEF WindowInv

LEMMA WatchRcStep ==
  ASSUME WindowInv, WatchRc
  PROVE  WindowInv'
<1>1. /\ Candidates # {} /\ pr' = [pr EXCEPT !.rc = [tag |-> PickLatestRc]]
      /\ UNCHANGED <<upstream, main, capture>>
  BY DEF WatchRc
<1>2. /\ PickLatestRc \in upstream.tags /\ PickLatestRc.rc # Final /\ ~Older(PickLatestRc, main.rc)
  BY <1>1, PickFacts DEF WindowInv, MainOK
<1>3. pr' = [rc |-> [tag |-> PickLatestRc], stable |-> pr.stable, release |-> pr.release]
  BY <1>1 DEF WindowInv, PrOK
<1>4. PrOK'
  BY <1>1, <1>2, <1>3 DEF WindowInv, PrOK, RcPrOK
<1>. QED
  BY <1>1, <1>4 DEF WindowInv, UpstreamOK, MainOK

\* The head of a new pull request for the latest release.
LEMMA Proposed ==
  ASSUME WindowInv, NEW t, Table(t), Forward(main.stable, t), NEW pin, pin = PinOf(t),
         pr' = [pr EXCEPT !.stable = RollPr(t, pin)], UNCHANGED <<upstream, main, capture>>
  PROVE  WindowInv'
<1>. DEFINE p == RollPr(t, pin)
<1>1. /\ p.tag = upstream.latest /\ p.stable = t /\ p.pin = pin /\ p.goldens = main.goldens /\ p.seen = FALSE
      /\ p.auto = p.carried
      /\ DOMAIN p = {"tag", "stable", "pin", "goldens", "seen", "auto", "carried"}
  BY DEF RollPr
<1>. HIDE DEF p
<1>2. RollOK(p, main.stable, capture)
  BY <1>1 DEF RollOK, WindowInv, UpstreamOK, MainOK
<1>3. pr' = [rc |-> pr.rc, stable |-> p, release |-> pr.release]
  BY DEF WindowInv, PrOK, p
<1>4. PrOK'
  BY <1>2, <1>3 DEF WindowInv, PrOK, RcPrOK
<1>. QED
  BY <1>4 DEF WindowInv, UpstreamOK, MainOK

LEMMA WatchStableStep ==
  ASSUME WindowInv, WatchStable
  PROVE  WindowInv'
<1>. DEFINE s == main.stable
            v == upstream.latest
            patched == ApplySetLine(s, v, Commit(v))
            rolled == ApplyRollStable(s, v, Commit(v))
            Pin(t) == ApplyPin(main.pin, t[IndexOf(t, Minor(v))])
<1>1. Table(s) /\ main.pin = PinOf(s) /\ v \in Releases /\ v \in upstream.tags
  BY DEF WindowInv, MainOK, UpstreamOK, Releases
<1>2. ParseLsRemote(v) = Commit(v) /\ DefaultLine(s) = s[1]
  BY <1>1, ParseFacts, TableFacts
<1>3. UNCHANGED <<upstream, main, capture>>
  BY DEF WatchStable
<1>4. \/ /\ Minor(v) \in Lines(s) /\ Older(s[IndexOf(s, Minor(v))].tag, v)
         /\ pr' = [pr EXCEPT !.stable = RollPr(patched, IF s[IndexOf(s, Minor(v))].default THEN Pin(patched)
                                                        ELSE main.pin)]
      \/ /\ Minor(v) \notin Lines(s) /\ Older(s[1].tag, v)
         /\ pr' = [pr EXCEPT !.stable = RollPr(rolled, Pin(rolled))]
  BY <1>2 DEF WatchStable, RollsIn
<1>. HIDE DEF s, v
<1>5. CASE Minor(v) \in Lines(s) /\ Older(s[IndexOf(s, Minor(v))].tag, v)
  <2>1. /\ Table(patched) /\ Forward(s, patched)
        /\ IndexOf(s, Minor(v)) # 1 => patched[1] = s[1]
        /\ IndexOf(patched, Minor(v)) = IndexOf(s, Minor(v))
    BY <1>1, <1>5, SetLineTable
  <2>2. IndexOf(s, Minor(v)) \in 1..Len(s) /\ (s[IndexOf(s, Minor(v))].default <=> IndexOf(s, Minor(v)) = 1)
    BY <1>1, <1>5, IndexFacts DEF Table
  <2>. DEFINE pin == IF s[IndexOf(s, Minor(v))].default THEN Pin(patched) ELSE main.pin
  <2>3. pr' = [pr EXCEPT !.stable = RollPr(patched, pin)]
    BY <1>4, <1>5
  <2>. HIDE DEF patched
  <2>4. pin = PinOf(patched)
    BY <1>1, <2>1, <2>2 DEF ApplyPin, PinOf
  <2>. HIDE DEF pin
  <2>. QED
    BY <1>3, <2>1, <2>3, <2>4, Proposed DEF s
<1>6. CASE Minor(v) \notin Lines(s) /\ Older(s[1].tag, v)
  <2>1. Table(rolled) /\ Forward(s, rolled) /\ IndexOf(rolled, Minor(v)) = 1
    BY <1>1, <1>6, RollTable
  <2>. DEFINE pin == Pin(rolled)
  <2>2. pr' = [pr EXCEPT !.stable = RollPr(rolled, pin)]
    BY <1>4, <1>6
  <2>. HIDE DEF rolled
  <2>3. pin = PinOf(rolled)
    BY <2>1 DEF ApplyPin, PinOf
  <2>. HIDE DEF pin
  <2>. QED
    BY <1>3, <2>1, <2>2, <2>3, Proposed DEF s
<1>. QED
  BY <1>4, <1>5, <1>6

LEMMA PrHead ==
  ASSUME WindowInv, pr.stable # NoPr
  PROVE  RollOK(pr.stable, main.stable, capture) /\ DefaultLine(pr.stable.stable) = pr.stable.stable[1]
<1>1. RollOK(pr.stable, main.stable, capture)
  BY DEF WindowInv, PrOK
<1>. QED
  BY <1>1, TableFacts DEF RollOK

LEMMA CaptureBeginStep ==
  ASSUME WindowInv, CaptureBegin
  PROVE  WindowInv'
<1>. DEFINE p == pr.stable
            q == [p EXCEPT !.seen = TRUE]
            d == p.stable[1].tag
<1>1. /\ p # NoPr /\ capture = NoCapture /\ pr' = [pr EXCEPT !.stable.seen = TRUE]
      /\ UNCHANGED <<upstream, main>>
  BY DEF CaptureBegin
<1>2. RollOK(p, main.stable, capture) /\ DefaultLine(p.stable) = p.stable[1]
  BY <1>1, PrHead
<1>3. capture' = IF d \in p.goldens THEN NoCapture ELSE [tag |-> d, head |-> p.tag]
  BY <1>2 DEF CaptureBegin
<1>4. /\ q.tag = p.tag /\ q.stable = p.stable /\ q.pin = p.pin /\ q.goldens = p.goldens
      /\ q.auto = p.auto /\ q.carried = p.carried /\ q.seen = TRUE
      /\ DOMAIN q = DOMAIN p
  <2>. HIDE DEF p
  <2>. QED
    BY <1>2 DEF RollOK
<1>5. pr' = [rc |-> pr.rc, stable |-> q, release |-> pr.release]
  BY <1>1 DEF WindowInv, PrOK
<1>. HIDE DEF q
<1>6. capture' # NoCapture => capture'.tag = d
  BY <1>3
<1>8. RollOK(q, main.stable, capture')
  <2>. HIDE DEF p
  <2>. QED
    BY <1>2, <1>4, <1>6 DEF RollOK
<1>9. PrOK'
  <2>1. pr'.rc = pr.rc /\ pr'.stable = q /\ pr'.release = pr.release
    BY <1>5
  <2>2. RcPrOK(pr.rc, main.rc)' /\ RollOK(pr'.stable, main'.stable, capture')
    BY <1>1, <1>8, <2>1 DEF WindowInv, PrOK, RcPrOK
  <2>. QED
    BY <1>5, <2>1, <2>2 DEF PrOK
<1>. QED
  BY <1>1, <1>9 DEF WindowInv, UpstreamOK, MainOK

LEMMA CaptureEndStep ==
  ASSUME WindowInv, CaptureEnd
  PROVE  WindowInv'
<1>. DEFINE p == pr.stable
            G == SetGoldens(p.goldens, capture.tag)
            q == [p EXCEPT !.goldens = G, !.auto = TRUE, !.carried = FALSE]
<1>1. capture # NoCapture /\ capture' = NoCapture /\ UNCHANGED <<upstream, main>>
  BY DEF CaptureEnd
<1>2. CASE p # NoPr /\ p.seen /\ p.tag = capture.head
  <2>1. RollOK(p, main.stable, capture)
    BY <1>2, PrHead
  <2>2. pr' = [pr EXCEPT !.stable.goldens = SetGoldens(@, capture.tag), !.stable.auto = TRUE,
                         !.stable.carried = FALSE]
    BY <1>2 DEF CaptureEnd
  <2>3. /\ q.tag = p.tag /\ q.stable = p.stable /\ q.pin = p.pin /\ q.goldens = G
        /\ DOMAIN q = DOMAIN p
    <3>. HIDE DEF p, G
    <3>. QED
      BY <2>1 DEF RollOK
  <2>4. pr' = [rc |-> pr.rc, stable |-> q, release |-> pr.release]
    BY <2>1, <2>2 DEF WindowInv, PrOK, RollOK
  <2>5. OneEach(G) /\ capture.tag \in G
    BY <2>1 DEF RollOK, OneEach, SetGoldens
  <2>6. capture.tag = p.stable[1].tag
    BY <1>1, <1>2, <2>1 DEF RollOK
  <2>. HIDE DEF q, G
  <2>8. RollOK(q, main.stable, NoCapture)
    <3>. HIDE DEF p
    <3>. QED
      BY <2>1, <2>3, <2>5, <2>6 DEF RollOK
  <2>9. PrOK'
    BY <1>1, <2>4, <2>8 DEF WindowInv, PrOK, RcPrOK
  <2>. QED
    BY <1>1, <2>9 DEF WindowInv, UpstreamOK, MainOK
<1>3. CASE ~(p # NoPr /\ p.seen /\ p.tag = capture.head)
  <2>1. pr' = pr
    BY <1>3 DEF CaptureEnd
  <2>2. PrOK'
    BY <1>1, <2>1 DEF WindowInv, PrOK, RcPrOK, RollOK
  <2>. QED
    BY <1>1, <2>2 DEF WindowInv, UpstreamOK, MainOK
<1>. QED
  BY <1>2, <1>3

LEMMA MergeRcStep ==
  ASSUME WindowInv, MergeRc
  PROVE  WindowInv' /\ main'.stable = main.stable /\ main'.goldens = main.goldens
         /\ ~Older(main'.rc, main.rc)
<1>1. /\ pr.rc # NoPr /\ main' = [main EXCEPT !.rc = pr.rc.tag] /\ pr' = [pr EXCEPT !.rc = NoPr]
      /\ UNCHANGED <<upstream, capture>>
  BY DEF MergeRc
<1>2. /\ main'.rc = pr.rc.tag /\ main'.stable = main.stable /\ main'.goldens = main.goldens
      /\ main'.pin = main.pin /\ DOMAIN main' = DOMAIN main
  BY <1>1 DEF WindowInv, MainOK
<1>3. pr' = [rc |-> NoPr, stable |-> pr.stable, release |-> pr.release]
  BY <1>1 DEF WindowInv, PrOK
<1>4. pr.rc.tag \in upstream.tags /\ pr.rc.tag.rc # Final /\ ~Older(pr.rc.tag, main.rc)
  BY <1>1 DEF WindowInv, PrOK, RcPrOK
<1>5. MainOK'
  BY <1>1, <1>2, <1>4 DEF WindowInv, MainOK
<1>6. PrOK'
  BY <1>1, <1>2, <1>3 DEF WindowInv, PrOK, RcPrOK
<1>. QED
  BY <1>1, <1>2, <1>4, <1>5, <1>6 DEF WindowInv, UpstreamOK

\* A roll that is merged takes over its table, and keeps one set of goldens for each line.
LEMMA MergeRollStep ==
  ASSUME WindowInv, pr.stable # NoPr, MergeRoll
  PROVE  /\ WindowInv' /\ main'.rc = main.rc
         /\ Forward(main.stable, main'.stable)
         /\ pr.stable.auto /\ ~pr.stable.carried => main'.stable[1].tag \in main'.goldens
<1>. DEFINE p == pr.stable
            added == p.goldens \ main.goldens
            G == {g \in main.goldens : g \in p.goldens \/ \A a \in added : Minor(g) # Minor(a)} \cup added
<1>1. /\ main' = [main EXCEPT !.stable = p.stable, !.pin = p.pin, !.goldens = G]
      /\ pr' = [pr EXCEPT !.stable = NoPr] /\ UNCHANGED <<upstream, capture>>
  BY DEF MergeRoll
<1>2. RollOK(p, main.stable, capture)
  BY PrHead
<1>. HIDE DEF G
<1>3. /\ main'.rc = main.rc /\ main'.stable = p.stable /\ main'.goldens = G
      /\ main'.pin = p.pin /\ DOMAIN main' = DOMAIN main
  BY <1>1 DEF WindowInv, MainOK
<1>4. pr' = [rc |-> pr.rc, stable |-> NoPr, release |-> pr.release]
  BY <1>1 DEF WindowInv, PrOK
<1>5. OneEach(G) /\ p.goldens \subseteq G
  BY <1>2 DEF G, OneEach, RollOK, WindowInv, MainOK
<1>6. MainOK'
  BY <1>1, <1>2, <1>3, <1>5 DEF WindowInv, MainOK, RollOK
<1>7. PrOK'
  BY <1>1, <1>3, <1>4 DEF WindowInv, PrOK, RcPrOK
<1>8. Forward(main.stable, main'.stable)
  BY <1>2, <1>3 DEF RollOK
<1>9. p.auto /\ ~p.carried => main'.stable[1].tag \in main'.goldens
  BY <1>2, <1>3, <1>5 DEF RollOK
<1>. QED
  BY <1>1, <1>3, <1>6, <1>7, <1>8, <1>9 DEF WindowInv, UpstreamOK

\* The release jobs leave the window alone.
LEMMA ReleaseSteps ==
  ASSUME WindowInv, ReleasePr \/ MergeRelease \/ UNCHANGED vars
  PROVE  WindowInv' /\ main'.rc = main.rc /\ main'.stable = main.stable /\ main'.goldens = main.goldens
<1>1. /\ UNCHANGED <<upstream, capture>>
      /\ main' = main \/ main' = [main EXCEPT !.simver = pr.release]
      /\ pr' = pr \/ \E n : pr' = [pr EXCEPT !.release = n]
  BY DEF ReleasePr, MergeRelease, vars
<1>2. /\ main'.rc = main.rc /\ main'.stable = main.stable /\ main'.goldens = main.goldens
      /\ main'.pin = main.pin /\ DOMAIN main' = DOMAIN main
  BY <1>1 DEF WindowInv, MainOK
<1>3. pr' = [rc |-> pr.rc, stable |-> pr.stable, release |-> pr'.release]
  BY <1>1 DEF WindowInv, PrOK
<1>4. MainOK'
  BY <1>1, <1>2 DEF WindowInv, MainOK
<1>5. PrOK'
  <2>1. pr'.rc = pr.rc /\ pr'.stable = pr.stable
    BY <1>3
  <2>2. RcPrOK(pr.rc, main.rc)' /\ (pr'.stable = NoPr \/ RollOK(pr'.stable, main'.stable, capture'))
    BY <1>1, <1>2, <2>1 DEF WindowInv, PrOK, RcPrOK
  <2>. QED
    BY <1>3, <2>1, <2>2 DEF PrOK
<1>. QED
  BY <1>1, <1>2, <1>4, <1>5 DEF WindowInv, UpstreamOK

\* What a step does to main: nothing, or a merge of one of the pull requests.
LEMMA WindowStep ==
  ASSUME WindowInv, [Next]_vars
  PROVE  /\ WindowInv'
         /\ \/ main'.rc = main.rc /\ main'.stable = main.stable
            \/ main'.stable = main.stable /\ ~Older(main'.rc, main.rc)
            \/ /\ main'.rc = main.rc /\ Forward(main.stable, main'.stable)
               /\ pr.stable.auto /\ ~pr.stable.carried => main'.stable[1].tag \in main'.goldens
<1>1. ASSUME NEW v \in Upstream, Publish(v) PROVE WindowInv' /\ main' = main
  BY <1>1, PublishStep DEF Publish
<1>2. CASE WatchRc
  BY <1>2, WatchRcStep DEF WatchRc
<1>3. CASE WatchStable
  BY <1>3, WatchStableStep DEF WatchStable
<1>4. CASE CaptureBegin
  BY <1>4, CaptureBeginStep DEF CaptureBegin
<1>5. CASE CaptureEnd
  BY <1>5, CaptureEndStep DEF CaptureEnd
<1>6. CASE MergeRc
  BY <1>6, MergeRcStep
<1>7. CASE AutoMergeRoll \/ MergeByHand
  BY <1>7, MergeRollStep DEF AutoMergeRoll, MergeByHand
<1>8. CASE ReleasePr \/ MergeRelease \/ UNCHANGED vars
  BY <1>8, ReleaseSteps
<1>. QED
  BY <1>1, <1>2, <1>3, <1>4, <1>5, <1>6, <1>7, <1>8 DEF Next

(***************************************************************************)
(* The theorems                                                            *)
(***************************************************************************)
THEOREM WindowInvariant == Spec => []WindowInv
BY WindowInit, WindowStep, PTL DEF Spec

(* Whatever upstream publishes and whatever is merged, in any order and however late: one    *)
(* default line, the newest; lines newest first and no more than the window holds, each      *)
(* pinned to its tag's commit; the committed pin is the default's; one set of goldens each.  *)
THEOREM WindowStaysSound == Spec => []WindowSound
<1>1. WindowInv => WindowSound
  <2>. SUFFICES ASSUME WindowInv PROVE WindowSound
    OBVIOUS
  <2>. DEFINE s == main.stable
  <2>1. Table(s) /\ main.pin = PinOf(s) /\ OneEach(main.goldens)
    BY DEF WindowInv, MainOK
  <2>. HIDE DEF s
  <2>2. /\ DOMAIN s = 1..Len(s) /\ 1 \in 1..Len(s) /\ DefaultLine(s) = s[1] /\ Validate(s)
        /\ \A i \in 1..Len(s) : s[i].tag.rc = Final
    BY <2>1, TableFacts DEF Rows, Releases
  <2>3. s[1].default /\ Len(s) <= MaxStable
    BY <2>1, <2>2, WindowAssumption DEF Table
  <2>4. \A i, j \in DOMAIN s : i < j => Minor(s[j].tag) < Minor(s[i].tag)
    BY <2>1, <2>2 DEF Table, Minor
  <2>5. \A i \in DOMAIN s : s[i].rev = Commit(s[i].tag) /\ s[i].tag.rc = Final
    BY <2>1, <2>2 DEF Table
  <2>. QED
    BY <2>1, <2>2, <2>3, <2>4, <2>5 DEF WindowSound, PinOf, OneEach, s
<1>. QED
  BY <1>1, WindowInvariant, PTL

\* What NeverBack says of one step.
LEMMA ForwardStep ==
  ASSUME WindowInv, WindowInv',
         main'.stable = main.stable \/ Forward(main.stable, main'.stable)
  PROVE  /\ ~Older(DefaultLine(main'.stable).tag, DefaultLine(main.stable).tag)
         /\ \A l \in Lines(main.stable) \cap Lines(main'.stable) :
              ~Older(main'.stable[IndexOf(main'.stable, l)].tag, main.stable[IndexOf(main.stable, l)].tag)
<1>. DEFINE s == main.stable
            t == main'.stable
<1>1. Table(s) /\ Table(t)
  BY DEF WindowInv, MainOK
<1>2. t = s \/ Forward(s, t)
  OBVIOUS
<1>. HIDE DEF s, t
<1>3. DefaultLine(s) = s[1] /\ DefaultLine(t) = t[1] /\ s[1].tag \in Versions
  BY <1>1, TableFacts
<1>4. ~Older(DefaultLine(t).tag, DefaultLine(s).tag)
  BY <1>2, <1>3, OlderStrict DEF Forward
<1>5. ASSUME NEW l \in Lines(s) \cap Lines(t)
      PROVE  ~Older(t[IndexOf(t, l)].tag, s[IndexOf(s, l)].tag)
  <2>1. /\ IndexOf(s, l) \in 1..Len(s) /\ s[IndexOf(s, l)].tag.minor = l
        /\ IndexOf(t, l) \in 1..Len(t) /\ t[IndexOf(t, l)].tag.minor = l
    BY <1>1, <1>5, IndexFacts
  <2>2. s[IndexOf(s, l)].tag \in Versions
    BY <1>1, <2>1, TableFacts
  <2>. QED
    BY <1>2, <2>1, <2>2, OlderStrict DEF Forward
<1>. QED
  BY <1>4, <1>5 DEF s, t

(* Nothing the automation or a maintainer merges takes a line, the default or the tracker    *)
(* back to an older tag, and a default line that is merged without hands has its goldens,    *)
(* unless its branch was made again with auto-merge on.                                      *)
THEOREM MergesNeverGoBack == Spec => MergesSound
<1>1. WindowInv /\ WindowInv' /\ [Next]_vars =>
        [/\ ~Older(main'.rc, main.rc)
         /\ ~Older(DefaultLine(main'.stable).tag, DefaultLine(main.stable).tag)
         /\ \A l \in Lines(main.stable) \cap Lines(main'.stable) :
              ~Older(main'.stable[IndexOf(main'.stable, l)].tag, main.stable[IndexOf(main.stable, l)].tag)]_vars
  <2>. SUFFICES ASSUME WindowInv, WindowInv', [Next]_vars
                PROVE  /\ ~Older(main'.rc, main.rc)
                       /\ ~Older(DefaultLine(main'.stable).tag, DefaultLine(main.stable).tag)
                       /\ \A l \in Lines(main.stable) \cap Lines(main'.stable) :
                            ~Older(main'.stable[IndexOf(main'.stable, l)].tag,
                                   main.stable[IndexOf(main.stable, l)].tag)
    OBVIOUS
  <2>1. main.rc \in Versions
    BY DEF WindowInv, MainOK, UpstreamOK
  <2>2. ~Older(main'.rc, main.rc)
    BY <2>1, WindowStep, OlderStrict
  <2>3. main'.stable = main.stable \/ Forward(main.stable, main'.stable)
    BY WindowStep
  <2>. QED
    BY <2>2, <2>3, ForwardStep
<1>2. WindowInv /\ WindowInv' /\ [Next]_vars =>
        [/\ DefaultLine(main'.stable).tag # DefaultLine(main.stable).tag
         /\ pr.stable.auto /\ ~pr.stable.carried
         => DefaultLine(main'.stable).tag \in main'.goldens]_vars
  <2>. SUFFICES ASSUME WindowInv, WindowInv', [Next]_vars,
                       DefaultLine(main'.stable).tag # DefaultLine(main.stable).tag,
                       pr.stable.auto, ~pr.stable.carried
                PROVE  DefaultLine(main'.stable).tag \in main'.goldens
    OBVIOUS
  <2>1. DefaultLine(main'.stable) = main'.stable[1]
    BY TableFacts DEF WindowInv, MainOK
  <2>. QED
    BY <2>1, WindowStep
<1>. QED
  BY <1>1, <1>2, WindowInvariant, PTL DEF Spec, MergesSound, NeverBack, RollCarriesGoldens
=============================================================================
