---------------------------- MODULE CompatWindow ----------------------------
(***************************************************************************)
(* The rolling support window of vLLM lines (compat.toml), moved by        *)
(* `cargo xtask watch-rc` and `watch-stable` (xtask/src), validated by     *)
(* crates/sim-compat, and the automation around it: the pull requests of   *)
(* the release watcher, the golden capture that pushes onto the roll's     *)
(* branch, and the release that follows (.github/workflows).               *)
(***************************************************************************)
EXTENDS Integers, SequencesExt, FiniteSetsExt

CONSTANTS
  Upstream,    \* the vLLM versions that may be tagged, [minor, patch, rc]
  Annotated,   \* those whose tag is an object of its own
  FirstWindow, \* versions of the stable lines at the start, newest first
  FirstRc,     \* version of the rc line at the start
  Forked,      \* the minors whose line is built from a fork at the start
  MaxStable    \* --max-stable

Final == 0   \* rc of a final release
None == [minor |-> -1]
Minor(v) == v.minor

\* VllmVersion's order: a final release comes after its candidates.
Older(v, w) ==
  \/ v.minor < w.minor
  \/ v.minor = w.minor /\ v.patch < w.patch
  \/ /\ v.minor = w.minor /\ v.patch = w.patch
     /\ v.rc # Final /\ (w.rc = Final \/ v.rc < w.rc)

Versions == [minor : Nat, patch : Nat, rc : Nat]

\* The table the automation starts from: stable lines of releases, newest first,
\* and a tracker on a candidate (compat.toml).
ASSUME WindowAssumption ==
  /\ MaxStable \in Nat \ {0} /\ FirstWindow \in Seq(Versions) /\ Len(FirstWindow) \in 1 .. MaxStable
  /\ Upstream \subseteq Versions /\ FirstRc \in Versions
  /\ FirstRc.rc # Final /\ \A i \in DOMAIN FirstWindow : FirstWindow[i].rc = Final
  /\ \A i, j \in DOMAIN FirstWindow : i < j => FirstWindow[j].minor < FirstWindow[i].minor

VARIABLES
  upstream,  \* tags: what `git ls-remote` lists; latest: the latest release
  main,      \* compat.toml (rc, stable), the goldens, the Cargo.toml pin and version
  pr,        \* the open pull requests, by axis
  capture,   \* the golden-capture job
  release    \* the auto-release jobs, and the versions released

vars == <<upstream, main, pr, capture, release>>

Commit(v) == <<"commit", v>>
TagObject(v) == <<"object", v>>

\* `git ls-remote --tags`: an annotated tag has a second line, for its commit.
LsRemote ==
  {[tag |-> v, deref |-> FALSE, sha |-> IF v \in Annotated THEN TagObject(v) ELSE Commit(v)] : v \in upstream.tags}
    \cup {[tag |-> v, deref |-> TRUE, sha |-> Commit(v)] : v \in upstream.tags \cap Annotated}

\* parse_ls_remote: the dereferenced line wins.
ParseLsRemote(v) ==
  (CHOOSE l \in LsRemote : l.tag = v /\ (l.deref \/ \A k \in LsRemote : k.tag = v => ~k.deref)).sha

Candidates == {v \in upstream.tags : v.rc # Final /\ Older(upstream.latest, v)}
PickLatestRc == CHOOSE v \in Candidates : \A w \in Candidates : w = v \/ Older(w, v)

-----------------------------------------------------------------------------
(* compat.toml.  A stable line is its tag, its protocol_rev, whether it is *)
(* built from a fork (patch_rev), and default; its name is the tag's minor.*)

VllmLine(v, rev, fork, default) == [tag |-> v, rev |-> rev, fork |-> fork, default |-> default]
Lines(stable) == {Minor(stable[i].tag) : i \in DOMAIN stable}
DefaultLine(stable) == stable[Min({i \in DOMAIN stable : stable[i].default})]
IndexOf(stable, minor) == CHOOSE i \in DOMAIN stable : Minor(stable[i].tag) = minor

\* CompatManifest::validate, for the stable part; trackers are never default.
Validate(stable) == Cardinality({i \in DOMAIN stable : stable[i].default}) = 1

\* apply_set_line for a stable line.
ApplySetLine(stable, v, rev) ==
  [stable EXCEPT ![IndexOf(stable, Minor(v))].tag = v, ![IndexOf(stable, Minor(v))].rev = rev]

\* apply_roll_stable: demote, insert ahead of the stable lines, trim the oldest.
ApplyRollStable_KeepsDefault(stable, v, rev) ==
  LET grown == <<VllmLine(v, rev, FALSE, TRUE)>> \o stable IN SubSeq(grown, 1, Min({Len(grown), MaxStable}))
ApplyRollStable(stable, v, rev) ==
  LET demoted == [i \in DOMAIN stable |-> [stable[i] EXCEPT !.default = FALSE]]
      grown == <<VllmLine(v, rev, FALSE, TRUE)>> \o demoted
  IN SubSeq(grown, 1, Min({Len(grown), MaxStable}))

\* apply_pin: Cargo.toml gets the line's rev and its [patch] block, if it has one.
ApplyPin_KeepsPatch(pin, line) == [rev |-> line.rev, fork |-> pin.fork \/ line.fork]
ApplyPin(pin, line) == [rev |-> line.rev, fork |-> line.fork]

NoPr == [tag |-> None]
NoCapture == [tag |-> None]
NoRun == [kind |-> "none"]

\* goldens: the versions whose lines' goldens are in the manifest.
Init ==
  /\ upstream = [tags |-> ToSet(FirstWindow) \cup {FirstRc}, latest |-> FirstWindow[1]]
  /\ main = [rc |-> FirstRc,
             stable |-> [i \in DOMAIN FirstWindow |->
               VllmLine(FirstWindow[i], Commit(FirstWindow[i]), Minor(FirstWindow[i]) \in Forked, i = 1)],
             goldens |-> ToSet(FirstWindow),
             pin |-> [rev |-> Commit(FirstWindow[1]), fork |-> Minor(FirstWindow[1]) \in Forked], simver |-> 1]
  /\ pr = [rc |-> NoPr, stable |-> NoPr, release |-> 0]
  /\ capture = NoCapture
  /\ release = [running |-> NoRun, pending |-> NoRun, tagged |-> {}, superseded |-> FALSE]

\* Upstream tags a candidate or publishes a release; patches of a line come in
\* order, its candidates before it, and an older line's patch may be made the
\* latest release.
Publish(v) ==
  /\ v \in Upstream \ upstream.tags
  /\ \A w \in upstream.tags : w.minor = v.minor => Older(w, v)
  /\ \E latest \in {v, upstream.latest} :
       /\ v.rc # Final => latest = upstream.latest
       /\ v.rc = Final /\ Older(upstream.latest, v) => latest = v
       /\ upstream' = [tags |-> upstream.tags \cup {v}, latest |-> latest]
  /\ UNCHANGED <<main, pr, capture, release>>

-----------------------------------------------------------------------------
(* The release watcher.  A pull request that already names the tag is left *)
(* alone; another one is made again on top of main.                        *)

WatchRc ==
  LET v == PickLatestRc IN
  /\ Candidates # {} /\ main.rc # v /\ pr.rc.tag # v
  /\ pr' = [pr EXCEPT !.rc = [tag |-> v]]
  /\ UNCHANGED <<upstream, main, capture, release>>

\* A new head of the roll's branch.  auto and carried: auto-merge is on, and was
\* turned on for an earlier head.
RollPr(stable, pin) ==
  [tag |-> upstream.latest, stable |-> stable, pin |-> pin, goldens |-> main.goldens, seen |-> FALSE,
   auto |-> pr.stable # NoPr /\ pr.stable.auto, carried |-> pr.stable # NoPr /\ pr.stable.auto]

\* A line outside the window rolls in when it is newer than the default.
RollsIn_Always(default, v) == TRUE
RollsIn(default, v) == Older(default.tag, v)

\* The pin follows when the default line moved; the goldens that watch-stable
\* deletes are not among the paths the pull request takes up.
WatchStable ==
  LET v == upstream.latest
      rev == ParseLsRemote(v)
      known == Minor(v) \in Lines(main.stable)
      current == main.stable[IndexOf(main.stable, Minor(v))]
      default == DefaultLine(main.stable)
      patched == ApplySetLine(main.stable, v, rev)
      rolled == ApplyRollStable(main.stable, v, rev)
      Pin(stable) == ApplyPin(main.pin, stable[IndexOf(stable, Minor(v))])
      Propose(stable, moved) == pr' = [pr EXCEPT !.stable = RollPr(stable, IF moved THEN Pin(stable) ELSE main.pin)]
  IN /\ pr.stable.tag # v
     /\ Validate(main.stable)
     /\ \/ known /\ Older(current.tag, v) /\ Propose(patched, current.default)
        \/ ~known /\ RollsIn(default, v) /\ Propose(rolled, TRUE)
     /\ UNCHANGED <<upstream, main, capture, release>>

\* GoldenCapture for a head of the roll's branch whose images were built: it
\* takes the branch's default line, unless its goldens are there.
CaptureBegin ==
  LET v == DefaultLine(pr.stable.stable).tag IN
  /\ pr.stable # NoPr /\ ~pr.stable.seen /\ capture = NoCapture
  /\ pr' = [pr EXCEPT !.stable.seen = TRUE]
  /\ capture' = IF v \in pr.stable.goldens THEN NoCapture ELSE [tag |-> v, head |-> pr.stable.tag]
  /\ UNCHANGED <<upstream, main, release>>

\* set_goldens replaces the line's block.
SetGoldens(goldens, v) == {g \in goldens : Minor(g) # Minor(v)} \cup {v}

\* The push succeeds on the head it started from, and then turns auto-merge on;
\* on another head it is refused.  Without a branch it makes one, with no pull
\* request.
CaptureEnd_AnyHead ==
  /\ capture # NoCapture /\ capture' = NoCapture
  /\ pr' = IF pr.stable # NoPr
           THEN [pr EXCEPT !.stable.goldens = SetGoldens(@, capture.tag), !.stable.auto = TRUE,
                           !.stable.carried = FALSE]
           ELSE pr
  /\ UNCHANGED <<upstream, main, release>>
CaptureEnd_NoAutoMerge ==
  /\ capture # NoCapture /\ capture' = NoCapture
  /\ pr' = IF pr.stable # NoPr /\ pr.stable.seen /\ pr.stable.tag = capture.head
           THEN [pr EXCEPT !.stable.goldens = SetGoldens(@, capture.tag)]
           ELSE pr
  /\ UNCHANGED <<upstream, main, release>>
CaptureEnd ==
  /\ capture # NoCapture /\ capture' = NoCapture
  /\ pr' = IF pr.stable # NoPr /\ pr.stable.seen /\ pr.stable.tag = capture.head
           THEN [pr EXCEPT !.stable.goldens = SetGoldens(@, capture.tag), !.stable.auto = TRUE,
                           !.stable.carried = FALSE]
           ELSE pr
  /\ UNCHANGED <<upstream, main, release>>

-----------------------------------------------------------------------------
(* Merges, each a push to main.  A push starts the auto-release jobs; with *)
(* one running, it replaces the one that waits.                            *)

Push_DropsWhenBusy(before, after) ==
  release' = IF release.running = NoRun
             THEN [release EXCEPT !.running = [kind |-> "push", from |-> DefaultLine(before.stable).tag,
                     to |-> DefaultLine(after.stable).tag, old |-> before.simver, new |-> after.simver]]
             ELSE release
Push(before, after) ==
  LET event == [kind |-> "push", from |-> DefaultLine(before.stable).tag, to |-> DefaultLine(after.stable).tag,
                old |-> before.simver, new |-> after.simver]
      waits == release.pending
      lost == waits # NoRun /\ (waits.from # waits.to \/ waits.old # waits.new)
  IN release' = IF release.running = NoRun THEN [release EXCEPT !.running = event]
                ELSE [release EXCEPT !.pending = event, !.superseded = @ \/ lost]

MergeRc ==
  LET after == [main EXCEPT !.rc = pr.rc.tag] IN
  /\ pr.rc # NoPr
  /\ main' = after /\ Push(main, after) /\ pr' = [pr EXCEPT !.rc = NoPr]
  /\ UNCHANGED <<upstream, capture>>

\* What the branch changed is applied; the goldens it did not touch are main's.
MergeRoll ==
  LET added == pr.stable.goldens \ main.goldens
      after == [main EXCEPT !.stable = pr.stable.stable, !.pin = pr.stable.pin,
                            !.goldens = {g \in @ : g \in pr.stable.goldens \/ \A a \in added : Minor(g) # Minor(a)} \cup added]
  IN /\ main' = after /\ Push(main, after) /\ pr' = [pr EXCEPT !.stable = NoPr]
     /\ UNCHANGED <<upstream, capture>>

AutoMergeRoll == pr.stable # NoPr /\ pr.stable.auto /\ MergeRoll

\* A maintainer may merge at any time.
MergeByHand == pr.stable # NoPr /\ ~pr.stable.auto /\ MergeRoll

\* release-pr: bump the patch version if the default line's tag moved.
ReleasePr ==
  LET run == release.running
      tag == run.old # run.new /\ ~\E t \in release.tagged : t.simver = run.new
  IN /\ run # NoRun
     /\ pr' = IF run.from # run.to /\ run.new + 1 # main.simver THEN [pr EXCEPT !.release = run.new + 1] ELSE pr
     /\ release' = [release EXCEPT !.running = release.pending, !.pending = NoRun,
                      !.tagged = IF tag THEN @ \cup {[simver |-> run.new, default |-> run.to]} ELSE @]
     /\ UNCHANGED <<upstream, main, capture>>

MergeRelease ==
  LET after == [main EXCEPT !.simver = pr.release] IN
  /\ pr.release # 0
  /\ main' = after /\ Push(main, after) /\ pr' = [pr EXCEPT !.release = 0]
  /\ UNCHANGED <<upstream, capture>>

-----------------------------------------------------------------------------
Next ==
  \/ \E v \in Upstream : Publish(v)
  \/ WatchRc
  \/ WatchStable
  \/ CaptureBegin
  \/ CaptureEnd
  \/ MergeRc
  \/ AutoMergeRoll
  \/ MergeByHand
  \/ ReleasePr
  \/ MergeRelease

\* The watcher runs daily, jobs end and green pull requests are merged; nobody
\* has to publish, or to merge by hand.
Spec ==
  /\ Init /\ [][Next]_vars
  /\ WF_vars(WatchRc) /\ WF_vars(WatchStable) /\ WF_vars(CaptureBegin) /\ WF_vars(CaptureEnd)
  /\ WF_vars(MergeRc) /\ WF_vars(AutoMergeRoll) /\ WF_vars(ReleasePr) /\ WF_vars(MergeRelease)

-----------------------------------------------------------------------------
\* Whatever is published and merged in whatever order: one default line, the
\* newest; lines newest first, at most MaxStable; each pinned to its tag's
\* commit; the committed pin is the default's, with a fork only if that has one; a
\* line has one set of goldens.
WindowSound ==
  LET stable == main.stable IN
  /\ Validate(stable) /\ stable[1].default /\ Len(stable) <= MaxStable
  /\ \A i, j \in DOMAIN stable : i < j => Minor(stable[j].tag) < Minor(stable[i].tag)
  /\ \A i \in DOMAIN stable : stable[i].rev = Commit(stable[i].tag) /\ stable[i].tag.rc = Final
  /\ main.pin = [rev |-> DefaultLine(stable).rev, fork |-> DefaultLine(stable).fork]
  /\ \A g, h \in main.goldens : Minor(g) = Minor(h) => g = h

\* Nothing the automation does takes a line back to an older tag, a stale pull
\* request that is merged late included (watch_rc, watch_stable).
NeverBack ==
  [][/\ ~Older(main'.rc, main.rc)
     /\ ~Older(DefaultLine(main'.stable).tag, DefaultLine(main.stable).tag)
     /\ \A l \in Lines(main.stable) \cap Lines(main'.stable) :
          ~Older(main'.stable[IndexOf(main'.stable, l)].tag, main.stable[IndexOf(main.stable, l)].tag)]_vars

\* A new default line gates from its first merge: a roll that is merged without
\* hands carries its goldens, unless its branch was made again with auto-merge on.
RollCarriesGoldens ==
  [][/\ DefaultLine(main'.stable).tag # DefaultLine(main.stable).tag
     /\ pr.stable.auto /\ ~pr.stable.carried
     => DefaultLine(main'.stable).tag \in main'.goldens]_vars

\* What a merge to main may never do, whoever merges and however late.
MergesSound == NeverBack /\ RollCarriesGoldens

\* Once upstream is quiet the window takes in its latest release without hands,
\* unless that is a patch of a line that is not the default: golden-capture then
\* finds the default's goldens in place and leaves the pull request to a person.
Covered ==
  LET v == upstream.latest IN
  \/ \E i \in DOMAIN main.stable : main.stable[i].tag = v
  \/ Minor(v) \notin Lines(main.stable) /\ Older(v, DefaultLine(main.stable).tag)
LeftToHands == pr.stable # NoPr /\ pr.stable.tag = upstream.latest /\ DefaultLine(pr.stable.stable).tag # upstream.latest
WindowCatchesUp == <>[](Covered \/ LeftToHands)

\* "a roll is always followed by a patch release" (auto-release.yml): the sim
\* version released last has main's default line, unless the job of a push that
\* moved it, or of the release's own push, was superseded while it waited.
Released == \E t \in release.tagged : t.default = DefaultLine(main.stable).tag
RollsReleased == <>[](Released \/ DefaultLine(main.stable).tag = FirstWindow[1] \/ release.superseded)
=============================================================================
