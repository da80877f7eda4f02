----------------------- MODULE EvidencePolicy_proofs -----------------------
(***************************************************************************)
(* TLAPS proofs about EvidencePolicy, for every set of samples and every   *)
(* freshness window.  The policy is a composition of functions of one      *)
(* snapshot, and so is the proof: a lemma says of each function that it    *)
(* returns a good snapshot and what it leaves alone.                       *)
(***************************************************************************)
EXTENDS EvidencePolicy, TLAPS

Good(t) == t \in Snapshot /\ Coherent(t)

\* A good snapshot with the same stop request and the same completion as t.
Follows(t, u) == Good(u) /\ u.stop = t.stop /\ u.completion = t.completion

\* Additionally, ownership is what it was.
Keeps(t, u) == Follows(t, u) /\ u.lost = t.lost

USE NoneAssumption

\* The labels the policy gives.
LEMMA LabelsTyped ==
    /\ PlayerState \subseteq Conclusion
    /\ "unknown" \in Conclusion /\ "playing" \in Conclusion
    /\ "ended" \in Conclusion /\ "stopped" \in Conclusion
    /\ "none" \in Evidence /\ "identity" \in Evidence /\ "playing" \in Evidence
BY DEF Conclusion, PlayerState, Evidence

\* What most of the policy does to a snapshot: evidence is kept or forgotten.
Forgets(t, u) ==
    /\ u.progress \in {None, t.progress} /\ u.anchor \in {None, t.anchor}
    /\ \/ u.releaseAt = t.releaseAt /\ u.released = t.released
       \/ u.releaseAt = None /\ u.released = FALSE
    /\ u.completion = t.completion /\ u.stop = t.stop

LEMMA ForgettingFollows ==
    ASSUME NEW t, Good(t), NEW u \in Snapshot, Forgets(t, u)
    PROVE  Follows(t, u)
BY DEF Good, Coherent, Forgets, Follows

\* Forgetting the chain of attribution.
LEMMA UnchainedKeeps ==
    ASSUME NEW t, Good(t)
    PROVE  Keeps(t, Unchained(t)) /\ Unchained(t).anchor = None
<1> DEFINE u == Unchained(t)
<1>1. u \in Snapshot
  BY DEF Good, Snapshot, Unchained
<1>2. Forgets(t, u) /\ u.lost = t.lost /\ u.anchor = None
  BY DEF Good, Snapshot, Unchained, Forgets
<1> QED
  BY <1>1, <1>2, ForgettingFollows DEF Keeps

\* Forgetting a release.
LEMMA UnreleasedKeeps ==
    ASSUME NEW t, Good(t)
    PROVE  Keeps(t, Unreleased(t))
<1> DEFINE u == Unreleased(t)
<1>1. u \in Snapshot
  BY DEF Good, Snapshot, Unreleased
<1>2. Forgets(t, u) /\ u.lost = t.lost
  BY DEF Good, Snapshot, Unreleased, Forgets
<1> QED
  BY <1>1, <1>2, ForgettingFollows DEF Keeps

LEMMA KeepsTwice ==
    ASSUME NEW t, NEW u, NEW v, Keeps(t, u), Keeps(u, v)
    PROVE  Keeps(t, v)
BY DEF Keeps, Follows

\* Ageing forgets media evidence and nothing else.
LEMMA RefreshedKeeps ==
    ASSUME NEW t, Good(t)
    PROVE  Keeps(t, Refreshed(t))
<1> DEFINE u == Unchained(t)
           v == [u EXCEPT !.state = Concluded(t), !.evidence = "none"]
<1>1. Keeps(t, u)
  BY UnchainedKeeps
<1>2. Concluded(t) \in Conclusion /\ "none" \in Evidence
  BY LabelsTyped DEF Concluded
<1>3. v \in Snapshot
  <2>1. u \in Snapshot
    BY <1>1 DEF Keeps, Follows, Good
  <2> HIDE DEF u
  <2> QED
    BY <2>1, <1>2 DEF Snapshot
<1>4. Forgets(u, v) /\ v.lost = u.lost
  <2>1. u \in Snapshot
    BY <1>1 DEF Keeps, Follows, Good
  <2> HIDE DEF u
  <2> QED
    BY <2>1 DEF Snapshot, Forgets
<1>5. Keeps(u, v)
  BY <1>1, <1>3, <1>4, ForgettingFollows DEF Keeps, Follows
<1>6. Refreshed(t) \in {t, v}
  BY DEF Refreshed
<1> QED
  BY <1>1, <1>5, <1>6, KeepsTwice DEF Keeps, Follows

\* What a gap in the numbers forgets.
LEMMA ForgottenKeeps ==
    ASSUME NEW t, Good(t)
    PROVE  Keeps(t, Unreleased(Unchained(t)))
<1>1. Keeps(t, Unchained(t))
  BY UnchainedKeeps
<1>2. Keeps(Unchained(t), Unreleased(Unchained(t)))
  BY <1>1, UnreleasedKeeps DEF Keeps, Follows
<1> QED
  BY <1>1, <1>2, KeepsTwice

\* Taking an observation's number.
LEMMA TrackedKeeps ==
    ASSUME NEW t, Good(t), NEW o \in Observation
    PROVE  Keeps(t, Tracked(t, o))
<1> DEFINE u == IF AfterGap(t, o) THEN Unreleased(Unchained(t)) ELSE t
           v == [u EXCEPT !.lastNumber = o.number, !.lastAt = o.at]
<1>1. Keeps(t, u)
  BY ForgottenKeeps DEF Keeps, Follows
<1>2. u \in Snapshot
  BY <1>1 DEF Keeps, Follows, Good
<1>3. v \in Snapshot /\ Forgets(u, v) /\ v.lost = u.lost
  <2>1. o.number \in Nat /\ o.at \in Nat
    BY DEF Observation
  <2> HIDE DEF u
  <2>2. v \in Snapshot
    BY <2>1, <1>2 DEF Snapshot
  <2>3. Forgets(u, v) /\ v.lost = u.lost
    BY <1>2 DEF Snapshot, Forgets
  <2> QED
    BY <2>2, <2>3
<1>4. Keeps(u, v)
  BY <1>1, <1>3, ForgettingFollows DEF Keeps, Follows
<1> QED
  BY <1>1, <1>4, KeepsTwice DEF Tracked

\* Losing ownership ends everything but the history of the session.
LEMMA LostFollows ==
    ASSUME NEW t, Good(t), NEW o \in Observation
    PROVE  Follows(t, Lost(t, o))
<1> DEFINE u == Unreleased(Unchained(t))
           v == [u EXCEPT !.state = "unknown", !.evidence = "none", !.lost = TRUE,
                          !.latest = o]
<1>1. Keeps(t, u)
  BY ForgottenKeeps
<1>2. u \in Snapshot
  BY <1>1 DEF Keeps, Follows, Good
<1>3. v \in Snapshot /\ Forgets(u, v)
  <2> HIDE DEF u
  <2>1. v \in Snapshot
    BY <1>2, LabelsTyped DEF Snapshot
  <2>2. Forgets(u, v)
    BY <1>2 DEF Snapshot, Forgets
  <2> QED
    BY <2>1, <2>2
<1>4. Follows(u, v)
  BY <1>1, <1>3, ForgettingFollows DEF Keeps, Follows
<1> QED
  BY <1>1, <1>4 DEF Lost, Keeps, Follows

\* A sample that confirms nothing.
LEMMA UnconfirmedFollows ==
    ASSUME NEW t, Good(t), NEW o \in Observation, NEW identity \in BOOLEAN,
           NEW retain \in BOOLEAN
    PROVE  Follows(t, Unconfirmed(t, o, identity, retain))
<1> DEFINE u == Unconfirmed(t, o, identity, retain)
<1>1. o.sample.state \in PlayerState
  BY PolicyAssumption DEF Observation, Sample
<1>2. u \in Snapshot
  <2> DEFINE s == IF identity THEN o.sample.state ELSE "unknown"
             e == IF identity THEN "identity" ELSE "none"
             a == IF retain THEN t.anchor ELSE None
             c == retain /\ t.confirmed
             v == [t EXCEPT !.latest = o, !.state = s, !.evidence = e,
                            !.progress = None, !.anchor = a, !.confirmed = c]
  <2>1. /\ s \in Conclusion /\ e \in Evidence /\ c \in BOOLEAN
        /\ a \in Observation \cup {None}
    BY <1>1, LabelsTyped DEF Good, Snapshot
  <2>2. u = v
    BY DEF Unconfirmed, Good, Snapshot
  <2> HIDE DEF s, e, a, c, u
  <2> QED
    BY <2>1, <2>2, LabelsTyped DEF Good, Snapshot
<1>3. Forgets(t, u)
  BY DEF Unconfirmed, Good, Snapshot, Forgets
<1> QED
  BY <1>2, <1>3, ForgettingFollows

\* An observed stop.
LEMMA StoppedFollows ==
    ASSUME NEW t, Good(t), NEW o \in Observation, NEW evidence \in Evidence
    PROVE  Follows(t, Stopped(t, o, evidence))
<1> DEFINE u == Stopped(t, o, evidence)
<1>1. u \in Snapshot
  BY LabelsTyped DEF Stopped, Good, Snapshot
<1>2. Forgets(t, u)
  BY DEF Stopped, Good, Snapshot, Forgets
<1> QED
  BY <1>1, <1>2, ForgettingFollows

\* An exit confirms a release, answers a stop, or loses the session.
LEMMA ExitedFollows ==
    ASSUME NEW t, Good(t), NEW o \in Observation
    PROVE  Follows(t, Exited(t, o))
<1>1. CASE ReleaseSeen(t, o)
  <2> DEFINE u == [t EXCEPT !.latest = o, !.state = "ended", !.released = TRUE,
                            !.evidence = "none"]
  <2>1. u \in Snapshot
    BY LabelsTyped DEF Good, Snapshot
  <2>2. /\ u.progress = t.progress /\ u.anchor = t.anchor /\ u.releaseAt = t.releaseAt
        /\ u.completion = t.completion /\ u.stop = t.stop
    BY DEF Good, Snapshot
  <2>3. Exited(t, o) = u
    BY <1>1 DEF Exited
  <2> HIDE DEF u
  <2> QED
    BY <1>1, <2>1, <2>2, <2>3 DEF ReleaseSeen, Follows, Good, Coherent
<1>2. CASE ~ReleaseSeen(t, o)
  BY <1>2, LabelsTyped, StoppedFollows, LostFollows DEF Exited
<1> QED
  BY <1>1, <1>2

\* A natural end of a session whose last exact sample, if it is needed, came before.
LEMMA FinishedGood ==
    ASSUME NEW t, Good(t), NEW o \in Observation, NEW history \in BOOLEAN,
           history => t.anchor # None /\ t.anchor.number < o.number
    PROVE  Good(Finished(t, o, history)) /\ Finished(t, o, history).stop = t.stop
<1> DEFINE u == Unchained(t)
           c == [number |-> o.number,
                 identity |-> IF history THEN t.anchor.number ELSE o.number]
           e == IF history THEN "none" ELSE "identity"
           v == [u EXCEPT !.latest = o, !.state = "ended", !.evidence = e,
                          !.completion = c]
<1>1. Keeps(t, u)
  BY UnchainedKeeps
<1>2. c \in Completion /\ c.identity <= c.number
  BY DEF Observation, Good, Snapshot, Completion
<1>3. c # None
  BY <1>2
<1>4. Finished(t, o, history) = v
  BY DEF Finished
<1>5. e \in Evidence
  BY LabelsTyped
<1> HIDE DEF c, e
<1>6. u \in Snapshot /\ Coherent(u) /\ u.stop = t.stop
  BY <1>1 DEF Keeps, Follows, Good
<1> HIDE DEF u
<1>7. v \in Snapshot
  BY <1>2, <1>5, <1>6, LabelsTyped DEF Snapshot
<1>8. /\ v.progress = u.progress /\ v.anchor = u.anchor /\ v.releaseAt = u.releaseAt
      /\ v.released = u.released /\ v.completion = c /\ v.stop = u.stop
  BY <1>6 DEF Snapshot
<1> HIDE DEF v
<1> QED
  BY <1>2, <1>3, <1>4, <1>6, <1>7, <1>8 DEF Good, Coherent

\* A sample of playing content.
LEMMA PlayingFollows ==
    ASSUME NEW t, Good(t), NEW o \in Observation, Exact(o), o.sample.position # None
    PROVE  Follows(t, Playing(t, o))
<1> DEFINE p == ProgressFrom(t.progress, o)
           c == t.confirmed \/ Progressed(t.progress, o)
           e == IF Progressed(t.progress, o) THEN "playing" ELSE "identity"
           u == [t EXCEPT !.latest = o, !.state = "playing", !.progress = p,
                          !.anchor = o, !.confirmed = c, !.evidence = e]
<1>1. p \in Observation \cup {None} /\ (p # None => p.sample.position # None)
  BY DEF ProgressFrom, Good, Coherent, Snapshot
<1>2. c \in BOOLEAN /\ e \in Evidence
  BY LabelsTyped DEF Progressed, Good, Snapshot
<1>3. Playing(t, o) = u
  BY DEF Playing, Good, Snapshot
<1> HIDE DEF p, c, e
<1>4. u \in Snapshot
  BY <1>1, <1>2, LabelsTyped DEF Good, Snapshot
<1>5. /\ u.progress = p /\ u.anchor = o /\ u.releaseAt = t.releaseAt
      /\ u.released = t.released /\ u.completion = t.completion /\ u.stop = t.stop
  BY DEF Good, Snapshot
<1> HIDE DEF u
<1> QED
  BY <1>1, <1>3, <1>4, <1>5 DEF Follows, Good, Coherent

-----------------------------------------------------------------------------

\* An observation may complete the session only if no stop was asked for.
Advances(t, u) ==
    Good(u) /\ u.stop = t.stop /\ (t.stop => u.completion = t.completion)

LEMMA FollowingAdvances ==
    ASSUME NEW t, NEW k, NEW u, Follows(t, k), Follows(k, u)
    PROVE  Advances(t, u)
BY DEF Follows, Advances

\* A paused or buffering sample becomes the anchor.
LEMMA AnchoredFollows ==
    ASSUME NEW t, Good(t), NEW o \in Observation, Exact(o)
    PROVE  Follows(t, [t EXCEPT !.anchor = o])
<1> DEFINE u == [t EXCEPT !.anchor = o]
<1>1. u \in Snapshot
  BY DEF Good, Snapshot
<1>2. /\ u.progress = t.progress /\ u.anchor = o /\ u.releaseAt = t.releaseAt
      /\ u.released = t.released /\ u.completion = t.completion /\ u.stop = t.stop
  BY DEF Good, Snapshot
<1> HIDE DEF u
<1> QED
  BY <1>1, <1>2 DEF Follows, Good, Coherent, u

\* Content of this session: the branches of observe() after the identity is settled.
LEMMA ContentAdvances ==
    ASSUME NEW t, Good(t), NEW o \in Observation, NEW history \in BOOLEAN,
           history => t.anchor # None /\ t.anchor.number < o.number,
           ~history => Exact(o)
    PROVE  Advances(t, Content(t, o, history))
<1> DEFINE k == IF Continues(t.anchor, o) THEN t ELSE Unchained(t)
           retain == o.sample.state \in {"paused", "buffering"}
           r == [k EXCEPT !.anchor = IF retain THEN o ELSE @]
<1>1. Follows(t, k) /\ Good(k) /\ k.anchor \in {t.anchor, None}
  BY UnchainedKeeps DEF Keeps, Follows
<1>2. Follows(k, Stopped(k, o, "identity"))
  BY <1>1, LabelsTyped, StoppedFollows
<1>3. NaturalEnd(k, o) => Advances(t, Finished(k, o, history))
  <2> SUFFICES ASSUME NaturalEnd(k, o)
               PROVE  Advances(t, Finished(k, o, history))
    OBVIOUS
  <2>1. k.anchor = t.anchor /\ ~k.stop
    BY <1>1 DEF NaturalEnd
  <2>2. Good(Finished(k, o, history)) /\ Finished(k, o, history).stop = k.stop
    BY <1>1, <2>1, FinishedGood
  <2> QED
    BY <1>1, <2>1, <2>2 DEF Advances, Follows
<1>4. Follows(k, Unconfirmed(k, o, FALSE, TRUE))
  BY <1>1, UnconfirmedFollows
<1>5. ~history => Follows(k, Unconfirmed(r, o, TRUE, retain))
  <2> SUFFICES ASSUME ~history
               PROVE  Follows(k, Unconfirmed(r, o, TRUE, retain))
    OBVIOUS
  <2>1. r = IF retain THEN [k EXCEPT !.anchor = o] ELSE k
    <3>1. ~retain => r = k
      BY <1>1 DEF Good, Snapshot
    <3> QED
      BY <3>1
  <2>2. Follows(k, r)
    BY <1>1, <2>1, AnchoredFollows DEF Follows
  <2>3. Follows(r, Unconfirmed(r, o, TRUE, retain))
    <3>1. retain \in BOOLEAN
      OBVIOUS
    <3> HIDE DEF r, retain
    <3> QED
      BY <2>2, <3>1, UnconfirmedFollows DEF Follows
  <2> QED
    BY <2>2, <2>3 DEF Follows
<1>6. Follows(k, Unconfirmed(k, o, TRUE, FALSE))
  BY <1>1, UnconfirmedFollows
<1>7. ~history /\ o.sample.position # None => Follows(k, Playing(k, o))
  BY <1>1, PlayingFollows
<1> DEFINE u == Content(t, o, history)
<1>8. \/ u = Stopped(k, o, "identity")
      \/ NaturalEnd(k, o) /\ u = Finished(k, o, history)
      \/ u = Unconfirmed(k, o, FALSE, TRUE)
      \/ ~history /\ u = Unconfirmed(r, o, TRUE, retain)
      \/ u = Unconfirmed(k, o, TRUE, FALSE)
      \/ ~history /\ o.sample.position # None /\ u = Playing(k, o)
  BY DEF Content
<1> HIDE DEF k, r, retain, u
<1>9. Follows(k, u) \/ Advances(t, u)
  BY <1>2, <1>3, <1>4, <1>5, <1>6, <1>7, <1>8
<1> QED
  BY <1>1, <1>9, FollowingAdvances DEF u

\* A sample that is of no other session, before anything has ended.
LEMMA MediaAdvances ==
    ASSUME NEW t, Good(t), NEW o \in Observation, ~Foreign(o)
    PROVE  Advances(t, Media(t, o))
<1> DEFINE history == Incremental(t, o)
<1>1. history \in BOOLEAN
  BY DEF Incremental
<1>2. history => t.anchor # None /\ t.anchor.number < o.number
  BY DEF Incremental
<1>3. o.sample \in Sample
  BY PolicyAssumption DEF Observation
<1>4. ASSUME o.sample.session # None, o.sample.content # None \/ history,
             o.sample.ad = "no", ~Unusable(o), ~history
      PROVE  Exact(o)
  BY <1>3, <1>4 DEF Exact, Foreign, Sample
<1>5. (o.sample.content # None) \in BOOLEAN
  OBVIOUS
<1> HIDE DEF history
<1>6. \/ \E identity \in BOOLEAN : Media(t, o) = Unconfirmed(t, o, identity, FALSE)
      \/ /\ Media(t, o) = Content(t, o, history)
         /\ ~history => Exact(o)
  BY <1>4, <1>5 DEF Media, history
<1>7. Follows(t, t)
  BY DEF Follows
<1>8. ASSUME NEW identity \in BOOLEAN, Media(t, o) = Unconfirmed(t, o, identity, FALSE)
      PROVE  Advances(t, Media(t, o))
  BY <1>7, <1>8, UnconfirmedFollows, FollowingAdvances
<1>9. ASSUME Media(t, o) = Content(t, o, history), ~history => Exact(o)
      PROVE  Advances(t, Media(t, o))
  BY <1>1, <1>2, <1>9, ContentAdvances
<1> QED
  BY <1>6, <1>8, <1>9

\* Judging an observation keeps a completion, and reaches none after a stop request.
LEMMA JudgedAdvances ==
    ASSUME NEW t, Good(t), NEW o \in Observation
    PROVE  /\ Advances(t, Judged(t, o))
           /\ t.completion # None => Judged(t, o).completion = t.completion
<1> DEFINE a == IF t.releaseAt # None /\ Contradicts(o) THEN Unreleased(t) ELSE t
           h == [a EXCEPT !.latest = o, !.state = "ended", !.evidence = "none"]
           u == Judged(t, o)
<1>1. Follows(t, a) /\ Good(a)
  BY UnreleasedKeeps DEF Keeps, Follows
<1>2. Follows(t, Lost(t, o)) /\ Follows(a, Lost(a, o)) /\ Follows(a, Exited(a, o))
  BY <1>1, LostFollows, ExitedFollows
<1>3. Follows(a, h)
  <2>1. a \in Snapshot
    BY <1>1 DEF Good
  <2>2. h \in Snapshot
    <3> HIDE DEF a
    <3> QED
      BY <2>1, LabelsTyped DEF Snapshot
  <2>3. Forgets(a, h)
    <3> HIDE DEF a
    <3> QED
      BY <2>1 DEF Snapshot, Forgets
  <2> QED
    BY <1>1, <2>2, <2>3, ForgettingFollows
<1>4. ~Foreign(o) => Advances(a, Media(a, o))
  BY <1>1, MediaAdvances
<1>5. \/ u \in {Lost(t, o), Lost(a, o), Exited(a, o), a, h}
      \/ ~Foreign(o) /\ a.completion = None /\ u = Media(a, o)
  BY DEF Judged, Historical
<1> HIDE DEF a, h, u
<1>6. CASE u \in {Lost(t, o), Lost(a, o), Exited(a, o), a, h}
  BY <1>1, <1>2, <1>3, <1>6 DEF Follows, Advances, u
<1>7. CASE ~Foreign(o) /\ a.completion = None /\ u = Media(a, o)
  BY <1>1, <1>4, <1>7 DEF Follows, Advances, u
<1> QED
  BY <1>5, <1>6, <1>7

-----------------------------------------------------------------------------

\* What is final about a snapshot.
Final(t, u) ==
    /\ t.lost => u.lost
    /\ t.stop => u.stop
    /\ t.lost \/ t.stop \/ t.completion # None => u.completion = t.completion

LEMMA KeepingIsFinal ==
    ASSUME NEW t, NEW u, Keeps(t, u)
    PROVE  Good(u) /\ Final(t, u)
BY DEF Keeps, Follows, Final

LEMMA ObserveStep ==
    ASSUME PolicyTypeOK, NEW o \in Observation, Observe(o)
    PROVE  Good(snap') /\ Final(snap, snap')
<1> DEFINE t == Refreshed(snap)
           u == Tracked(t, o)
<1>1. Keeps(snap, t)
  BY RefreshedKeeps DEF PolicyTypeOK, Good
<1>2. Keeps(t, u)
  BY <1>1, TrackedKeeps DEF Keeps, Follows
<1>3. Keeps(snap, u) /\ Good(u)
  BY <1>1, <1>2, KeepsTwice DEF Keeps, Follows
<1>4. ~t.lost /\ snap' = Judged(u, o)
  BY DEF Observe, Accepts
<1>5. /\ Advances(u, Judged(u, o))
      /\ u.completion # None => Judged(u, o).completion = u.completion
  BY <1>3, JudgedAdvances
<1> HIDE DEF t, u
<1> QED
  BY <1>1, <1>3, <1>4, <1>5 DEF Keeps, Follows, Advances, Final

LEMMA RefreshStep ==
    ASSUME PolicyTypeOK, Refresh
    PROVE  Good(snap') /\ Final(snap, snap')
BY RefreshedKeeps, KeepingIsFinal DEF PolicyTypeOK, Good, Refresh

\* A stop request ends natural advancement.
LEMMA EndingGood ==
    ASSUME NEW t, Good(t)
    PROVE  /\ Good(Ending(t))
           /\ Ending(t).stop /\ Ending(t).lost = t.lost /\ Ending(t).completion = t.completion
<1> DEFINE u == Ending(t)
<1>1. u \in Snapshot
  BY LabelsTyped DEF Ending, Good, Snapshot
<1>2. /\ u.progress = t.progress /\ u.anchor = None /\ u.releaseAt = t.releaseAt
      /\ u.released = t.released /\ u.completion = t.completion /\ u.stop /\ u.lost = t.lost
  BY DEF Ending, Good, Snapshot
<1> HIDE DEF u
<1> QED
  BY <1>1, <1>2 DEF Good, Coherent, u

LEMMA RequestStopStep ==
    ASSUME PolicyTypeOK, RequestStop
    PROVE  Good(snap') /\ Final(snap, snap')
<1> DEFINE t == Ending(snap)
           u == [t EXCEPT !.stopAt = now]
<1>1. Good(t) /\ t.stop /\ t.lost = snap.lost /\ t.completion = snap.completion
  BY EndingGood DEF PolicyTypeOK, Good
<1>2. now \in Nat /\ snap' = u
  BY PolicyAssumption DEF PolicyTypeOK, RequestStop
<1> HIDE DEF t
<1>3. u \in Snapshot
  BY <1>1, <1>2 DEF Good, Snapshot
<1>4. Forgets(t, u) /\ u.lost = t.lost
  BY <1>1 DEF Good, Snapshot, Forgets
<1>5. Follows(t, u)
  BY <1>1, <1>3, <1>4, ForgettingFollows
<1> HIDE DEF u
<1> QED
  BY <1>1, <1>2, <1>4, <1>5 DEF Follows, Final

LEMMA RequestReleaseStep ==
    ASSUME PolicyTypeOK, RequestRelease
    PROVE  Good(snap') /\ Final(snap, snap')
<1> DEFINE u == [snap EXCEPT !.releaseAt = now, !.released = FALSE]
<1>1. now \in Nat /\ snap' = u /\ snap.completion # None
  BY PolicyAssumption DEF PolicyTypeOK, RequestRelease
<1>2. u \in Snapshot
  BY <1>1 DEF PolicyTypeOK, Snapshot
<1>3. /\ u.progress = snap.progress /\ u.anchor = snap.anchor /\ u.released = FALSE
      /\ u.completion = snap.completion /\ u.stop = snap.stop /\ u.lost = snap.lost
  BY DEF PolicyTypeOK, Snapshot
<1> HIDE DEF u
<1> QED
  BY <1>1, <1>2, <1>3 DEF PolicyTypeOK, Good, Coherent, Final

LEMMA WithdrawReleaseStep ==
    ASSUME PolicyTypeOK, WithdrawRelease
    PROVE  Good(snap') /\ Final(snap, snap')
BY UnreleasedKeeps, KeepingIsFinal DEF PolicyTypeOK, Good, WithdrawRelease

\* A receipt changes the snapshot by the stop it may record and by what it grants.
LEMMA RecordReceiptStep ==
    ASSUME PolicyTypeOK, NEW action, NEW outcome, RecordReceipt(action, outcome)
    PROVE  Good(snap') /\ Final(snap, snap')
<1>1. ASSUME NEW t, Good(t), NEW g \in BOOLEAN
      PROVE  Keeps(t, [t EXCEPT !.granted = g])
  <2> DEFINE u == [t EXCEPT !.granted = g]
  <2>1. u \in Snapshot
    BY <1>1 DEF Good, Snapshot
  <2>2. Forgets(t, u) /\ u.lost = t.lost
    BY <1>1 DEF Good, Snapshot, Forgets
  <2> QED
    BY <1>1, <2>1, <2>2, ForgettingFollows DEF Keeps
<1>2. CASE action = "stop"
  <2> DEFINE t == Ending(snap)
  <2>1. Good(t) /\ t.stop /\ t.lost = snap.lost /\ t.completion = snap.completion
    BY EndingGood DEF PolicyTypeOK, Good
  <2>2. snap' = [t EXCEPT !.granted = FALSE]
    BY <1>2 DEF RecordReceipt
  <2> HIDE DEF t
  <2> QED
    BY <1>1, <2>1, <2>2 DEF Keeps, Follows, Final
<1>3. CASE action # "stop"
  <2> DEFINE g == action = "release" /\ outcome = "accepted"
  <2>1. g \in BOOLEAN /\ snap' = [snap EXCEPT !.granted = g]
    BY <1>3 DEF RecordReceipt
  <2> HIDE DEF g
  <2> QED
    BY <1>1, <2>1, KeepingIsFinal DEF PolicyTypeOK, Good
<1> QED
  BY <1>2, <1>3

LEMMA DisownStep ==
    ASSUME PolicyTypeOK, Disown
    PROVE  Good(snap') /\ Final(snap, snap')
<1> DEFINE t == Unchained(snap)
           u == [t EXCEPT !.lost = TRUE, !.evidence = "none"]
<1>1. Keeps(snap, t)
  BY UnchainedKeeps DEF PolicyTypeOK, Good
<1>2. snap' = u
  BY DEF Disown
<1>3. t \in Snapshot
  BY <1>1 DEF Keeps, Follows, Good
<1> HIDE DEF t
<1>4. u \in Snapshot
  BY <1>3, LabelsTyped DEF Snapshot
<1>4a. u.lost
  BY <1>3 DEF Snapshot
<1>5. Forgets(t, u)
  BY <1>3 DEF Snapshot, Forgets
<1>6. Follows(t, u)
  BY <1>1, <1>4, <1>5, ForgettingFollows DEF Keeps, Follows
<1> HIDE DEF u
<1> QED
  BY <1>1, <1>2, <1>6, <1>4a DEF Keeps, Follows, Final

LEMMA InvalidateHistoryStep ==
    ASSUME PolicyTypeOK, InvalidateHistory
    PROVE  Good(snap') /\ Final(snap, snap')
<1> DEFINE t == Unreleased(Unchained(snap))
           u == [t EXCEPT !.state = Concluded(snap), !.evidence = "none"]
<1>1. Keeps(snap, t)
  BY ForgottenKeeps DEF PolicyTypeOK, Good
<1>2. snap' = u
  BY DEF InvalidateHistory
<1>3. t \in Snapshot
  BY <1>1 DEF Keeps, Follows, Good
<1>4. Concluded(snap) \in Conclusion /\ "none" \in Evidence
  BY LabelsTyped DEF Concluded
<1> HIDE DEF t
<1>5. u \in Snapshot
  BY <1>3, <1>4 DEF Snapshot
<1>6. Forgets(t, u) /\ u.lost = t.lost
  BY <1>3 DEF Snapshot, Forgets
<1>7. Keeps(t, u)
  BY <1>1, <1>5, <1>6, ForgettingFollows DEF Keeps, Follows
<1> HIDE DEF u
<1> QED
  BY <1>1, <1>2, <1>7, KeepsTwice, KeepingIsFinal

-----------------------------------------------------------------------------

LEMMA InitGood == Init => PolicyTypeOK
<1> SUFFICES ASSUME Init PROVE PolicyTypeOK
  OBVIOUS
<1>1. snap \in Snapshot
  BY LabelsTyped DEF Init, Snapshot
<1>2. Coherent(snap)
  BY DEF Init, Coherent
<1> QED
  BY <1>1, <1>2, PolicyAssumption DEF Init, PolicyTypeOK

LEMMA StepGood ==
    ASSUME PolicyTypeOK, [Next]_policyVars
    PROVE  PolicyTypeOK' /\ Final(snap, snap')
<1>1. now \in Nat
  BY PolicyAssumption DEF PolicyTypeOK
<1>2. ASSUME NEW x \in Samples, NEW n \in 0..Horizon - 1, NEW at \in 1..now,
             Observe([sample |-> x, number |-> n, at |-> at])
      PROVE  Good(snap') /\ Final(snap, snap') /\ now' = now
  <2>1. [sample |-> x, number |-> n, at |-> at] \in Observation
    BY <1>1, PolicyAssumption DEF Observation
  <2> QED
    BY <1>2, <2>1, ObserveStep DEF Observe
<1>3. ASSUME Refresh
      PROVE  Good(snap') /\ Final(snap, snap') /\ now' = now
  BY <1>3, RefreshStep DEF Refresh
<1>4. ASSUME NEW change \in Changes, Change(change)
      PROVE  Good(snap') /\ Final(snap, snap') /\ now' = now
  <2>1. CASE RequestStop
    BY <2>1, RequestStopStep DEF RequestStop
  <2>2. CASE RequestRelease
    BY <2>2, RequestReleaseStep DEF RequestRelease
  <2>3. CASE WithdrawRelease
    BY <2>3, WithdrawReleaseStep DEF WithdrawRelease
  <2>4. ASSUME NEW action, NEW outcome, RecordReceipt(action, outcome)
        PROVE  Good(snap') /\ Final(snap, snap') /\ now' = now
    BY <2>4, RecordReceiptStep DEF RecordReceipt
  <2>5. CASE Disown
    BY <2>5, DisownStep DEF Disown
  <2>6. CASE InvalidateHistory
    BY <2>6, InvalidateHistoryStep DEF InvalidateHistory
  <2> QED
    BY <1>4, <2>1, <2>2, <2>3, <2>4, <2>5, <2>6 DEF Change
<1>5. Final(snap, snap)
  BY DEF Final
<1>6. CASE Tick \/ UNCHANGED policyVars
  <2>1. snap' = snap /\ now' \in 0..Horizon
    BY <1>6, <1>1, PolicyAssumption DEF Tick, policyVars, PolicyTypeOK
  <2> QED
    BY <1>5, <2>1 DEF PolicyTypeOK
<1>7. CASE Good(snap') /\ Final(snap, snap') /\ now' = now
  BY <1>7 DEF PolicyTypeOK, Good
<1> QED
  BY <1>2, <1>3, <1>4, <1>6, <1>7 DEF Next

\* The policy and the application keep every snapshot well formed.
THEOREM PolicyTypeCorrect == Spec => []PolicyTypeOK
<1>1. PolicyTypeOK /\ [Next]_policyVars => PolicyTypeOK'
  BY StepGood
<1> QED
  BY InitGood, <1>1, PTL DEF Spec

\* For any samples in any order, at any age: a completion is never revoked or replaced,
\* lost ownership never returns, and no lost or stopped session completes.
THEOREM ConclusionsAreFinal == Spec => HistoryIsFinal
<1>1. PolicyTypeOK /\ [Next]_policyVars =>
        [/\ snap.lost => snap'.lost
         /\ snap.stop => snap'.stop
         /\ snap.lost \/ snap.stop \/ snap.completion # None =>
               snap'.completion = snap.completion]_policyVars
  BY StepGood DEF Final
<1> QED
  BY PolicyTypeCorrect, <1>1, PTL DEF Spec, HistoryIsFinal
-----------------------------------------------------------------------------
(* Stopped and released are observed: what one observation may conclude.   *)

\* The request for a stop and the sample of t are those of u, and what u says of a
\* release or of a stop that t does not say, o shows.
Shows(t, o, u) ==
    /\ u.stop = t.stop /\ u.stopAt = t.stopAt
    /\ u.lastAt = t.lastAt /\ u.lastNumber = t.lastNumber
    /\ \/ u.releaseAt = t.releaseAt /\ u.released = t.released
       \/ u.releaseAt = None /\ u.released = FALSE
       \/ /\ u.releaseAt = t.releaseAt /\ t.releaseAt # None
          /\ o.sample.active = "no" /\ o.at > t.releaseAt
    /\ u.state = "stopped" =>
          \/ t.state = "stopped" /\ u.latest = t.latest
          \/ /\ u.latest = o /\ t.stop
             /\ \/ o.sample.active = "no" /\ t.stopAt # None /\ o.at > t.stopAt
                \/ Exact(o) /\ o.sample.idle = "canceled"

LEMMA ShowsTwice ==
    ASSUME NEW t, NEW o, NEW k, NEW u, Shows(t, o, k), Shows(k, o, u)
    PROVE  Shows(t, o, u)
BY DEF Shows

LEMMA ShowsNothing ==
    ASSUME NEW t, NEW o
    PROVE  Shows(t, o, t)
BY DEF Shows

LEMMA UnchainedShows ==
    ASSUME NEW t \in Snapshot, NEW o
    PROVE  Shows(t, o, Unchained(t))
BY DEF Shows, Unchained, Snapshot

LEMMA UnreleasedShows ==
    ASSUME NEW t \in Snapshot, NEW o
    PROVE  Shows(t, o, Unreleased(t))
BY DEF Shows, Unreleased, Snapshot

LEMMA LostShows ==
    ASSUME NEW t, Good(t), NEW o \in Observation
    PROVE  Shows(t, o, Lost(t, o))
<1> DEFINE k == Unchained(t)
           u == Unreleased(k)
           v == [u EXCEPT !.state = "unknown", !.evidence = "none", !.lost = TRUE, !.latest = o]
<1>1. Good(t) /\ t \in Snapshot /\ k \in Snapshot /\ u \in Snapshot
  BY UnchainedKeeps, UnreleasedKeeps DEF Keeps, Follows, Good
<1>2. Shows(t, o, u)
  BY <1>1, UnchainedShows, UnreleasedShows, ShowsTwice
<1>3. Lost(t, o) = v
  BY DEF Lost
<1> HIDE DEF k, u
<1>4. Shows(u, o, v)
  BY <1>1 DEF Snapshot, Shows
<1> HIDE DEF v
<1> QED
  BY <1>2, <1>3, <1>4, ShowsTwice

LEMMA UnconfirmedShows ==
    ASSUME NEW t \in Snapshot, NEW o \in Observation, NEW identity \in BOOLEAN,
           NEW retain \in BOOLEAN
    PROVE  Shows(t, o, Unconfirmed(t, o, identity, retain))
<1>1. o.sample.state \in PlayerState
  BY PolicyAssumption DEF Observation, Sample
<1> DEFINE u == Unconfirmed(t, o, identity, retain)
<1>2. u.state # "stopped"
  BY <1>1 DEF Unconfirmed, Snapshot, PlayerState
<1>3. /\ u.stop = t.stop /\ u.stopAt = t.stopAt
      /\ u.lastAt = t.lastAt /\ u.lastNumber = t.lastNumber
      /\ u.releaseAt = t.releaseAt /\ u.released = t.released
  BY DEF Unconfirmed, Snapshot
<1> HIDE DEF u
<1> QED
  BY <1>2, <1>3 DEF Shows, u

LEMMA StoppedShows ==
    ASSUME NEW t \in Snapshot, NEW o \in Observation, NEW evidence, t.stop,
           \/ o.sample.active = "no" /\ t.stopAt # None /\ o.at > t.stopAt
           \/ Exact(o) /\ o.sample.idle = "canceled"
    PROVE  Shows(t, o, Stopped(t, o, evidence))
<1> DEFINE u == Stopped(t, o, evidence)
<1>1. /\ u.stop = t.stop /\ u.stopAt = t.stopAt
      /\ u.lastAt = t.lastAt /\ u.lastNumber = t.lastNumber
      /\ u.releaseAt = t.releaseAt /\ u.released = t.released /\ u.latest = o
  BY DEF Stopped, Snapshot
<1> HIDE DEF u
<1> QED
  BY <1>1 DEF Shows, u

LEMMA ExitedShows ==
    ASSUME NEW t, Good(t), NEW o \in Observation, o.sample.active = "no"
    PROVE  Shows(t, o, Exited(t, o))
<1>1. CASE ReleaseSeen(t, o)
  <2> DEFINE u == [t EXCEPT !.latest = o, !.state = "ended", !.released = TRUE,
                            !.evidence = "none"]
  <2>1. /\ u.stop = t.stop /\ u.stopAt = t.stopAt
        /\ u.lastAt = t.lastAt /\ u.lastNumber = t.lastNumber
        /\ u.releaseAt = t.releaseAt /\ u.state = "ended"
    BY DEF Good, Snapshot
  <2>2. Exited(t, o) = u
    BY <1>1 DEF Exited
  <2> HIDE DEF u
  <2> QED
    BY <1>1, <2>1, <2>2 DEF ReleaseSeen, Shows
<1>2. CASE ~ReleaseSeen(t, o) /\ StopSeen(t, o)
  BY <1>2, StoppedShows DEF Exited, StopSeen, Good
<1>3. CASE ~ReleaseSeen(t, o) /\ ~StopSeen(t, o)
  BY <1>3, LostShows DEF Exited
<1> QED
  BY <1>1, <1>2, <1>3

LEMMA FinishedShows ==
    ASSUME NEW t, Good(t), NEW o \in Observation, NEW history
    PROVE  Shows(t, o, Finished(t, o, history))
<1> DEFINE k == Unchained(t)
           c == [number |-> o.number,
                 identity |-> IF history THEN t.anchor.number ELSE o.number]
           e == IF history THEN "none" ELSE "identity"
           v == [k EXCEPT !.latest = o, !.state = "ended", !.evidence = e,
                          !.completion = c]
<1>1. k \in Snapshot /\ Shows(t, o, k)
  BY UnchainedKeeps, UnchainedShows DEF Keeps, Follows, Good
<1>2. Finished(t, o, history) = v
  BY DEF Finished
<1> HIDE DEF k, c, e
<1>3. Shows(k, o, v)
  BY <1>1 DEF Snapshot, Shows
<1> HIDE DEF v
<1> QED
  BY <1>1, <1>2, <1>3, ShowsTwice

LEMMA PlayingShows ==
    ASSUME NEW t \in Snapshot, NEW o \in Observation
    PROVE  Shows(t, o, Playing(t, o))
<1> DEFINE u == Playing(t, o)
<1>1. /\ u.stop = t.stop /\ u.stopAt = t.stopAt
      /\ u.lastAt = t.lastAt /\ u.lastNumber = t.lastNumber
      /\ u.releaseAt = t.releaseAt /\ u.released = t.released /\ u.state = "playing"
  BY DEF Playing, Snapshot
<1> HIDE DEF u
<1> QED
  BY <1>1 DEF Shows, u

LEMMA ContentShows ==
    ASSUME NEW t, Good(t), NEW o \in Observation, NEW history \in BOOLEAN,
           IF history THEN Qualified(o) ELSE Exact(o)
    PROVE  Shows(t, o, Content(t, o, history))
<1> DEFINE k == IF Continues(t.anchor, o) THEN t ELSE Unchained(t)
           retain == o.sample.state \in {"paused", "buffering"}
           r == [k EXCEPT !.anchor = IF retain THEN o ELSE @]
           u == Content(t, o, history)
<1>1. Good(k) /\ k \in Snapshot /\ Shows(t, o, k)
  BY UnchainedKeeps, UnchainedShows, ShowsNothing DEF Keeps, Follows, Good
<1>2. retain \in BOOLEAN
  OBVIOUS
<1>3. ~history => r \in Snapshot /\ Shows(k, o, r)
  <2> HIDE DEF k, retain
  <2> QED
    BY <1>1, <1>2 DEF Snapshot, Shows
<1>4a. u = IF o.sample.state = "idle" /\ k.stop /\ o.sample.idle = "canceled"
           THEN Stopped(k, o, "identity")
           ELSE IF o.sample.state = "idle" /\ NaturalEnd(k, o) THEN Finished(k, o, history)
           ELSE IF history THEN Unconfirmed(k, o, FALSE, TRUE)
           ELSE IF o.sample.state # "playing" THEN Unconfirmed(r, o, TRUE, retain)
           ELSE IF o.sample.position = None THEN Unconfirmed(k, o, TRUE, FALSE)
           ELSE Playing(k, o)
  <2>1. k.stop = t.stop
    BY <1>1 DEF Shows
  <2> QED
    BY <2>1 DEF Content
<1> HIDE DEF k, r, retain, u
<1>4. \/ /\ o.sample.state = "idle" /\ k.stop /\ o.sample.idle = "canceled"
         /\ u = Stopped(k, o, "identity")
      \/ u = Finished(k, o, history)
      \/ u = Unconfirmed(k, o, FALSE, TRUE)
      \/ ~history /\ u = Unconfirmed(r, o, TRUE, retain)
      \/ u = Unconfirmed(k, o, TRUE, FALSE)
      \/ u = Playing(k, o)
  BY <1>4a
<1>5. ASSUME o.sample.state = "idle", k.stop, o.sample.idle = "canceled",
             u = Stopped(k, o, "identity")
      PROVE  Shows(k, o, u)
  <2>1. Exact(o)
    BY <1>5 DEF Qualified
  <2> QED
    BY <1>1, <1>5, <2>1, StoppedShows
<1>6. CASE u = Finished(k, o, history)
  BY <1>1, <1>6, FinishedShows, ShowsTwice DEF u
<1>7. CASE u = Unconfirmed(k, o, FALSE, TRUE) \/ u = Unconfirmed(k, o, TRUE, FALSE)
  <2>1. Shows(k, o, Unconfirmed(k, o, FALSE, TRUE))
    BY <1>1, UnconfirmedShows
  <2>2. Shows(k, o, Unconfirmed(k, o, TRUE, FALSE))
    BY <1>1, UnconfirmedShows
  <2> QED
    BY <1>1, <1>7, <2>1, <2>2, ShowsTwice DEF u
<1>8. CASE ~history /\ u = Unconfirmed(r, o, TRUE, retain)
  <2>1. Shows(r, o, u)
    BY <1>2, <1>3, <1>8, UnconfirmedShows
  <2> QED
    BY <1>1, <1>3, <1>8, <2>1, ShowsTwice DEF u
<1>9. CASE u = Playing(k, o)
  BY <1>1, <1>9, PlayingShows, ShowsTwice DEF u
<1> QED
  BY <1>1, <1>4, <1>5, <1>6, <1>7, <1>8, <1>9, ShowsTwice DEF u

LEMMA MediaShows ==
    ASSUME NEW t, Good(t), NEW o \in Observation, ~Foreign(o)
    PROVE  Shows(t, o, Media(t, o))
<1> DEFINE history == Incremental(t, o)
<1>1. history \in BOOLEAN /\ (history => Qualified(o))
  BY DEF Incremental
<1>2. o.sample \in Sample
  BY PolicyAssumption DEF Observation
<1>3. ASSUME o.sample.session # None, o.sample.content # None \/ history,
             o.sample.ad = "no", ~Unusable(o), ~history
      PROVE  Exact(o)
  BY <1>2, <1>3 DEF Exact, Foreign, Sample
<1>4. (o.sample.content # None) \in BOOLEAN
  OBVIOUS
<1> HIDE DEF history
<1>5. \/ \E identity \in BOOLEAN : Media(t, o) = Unconfirmed(t, o, identity, FALSE)
      \/ /\ Media(t, o) = Content(t, o, history)
         /\ ~history => Exact(o)
  BY <1>3, <1>4 DEF Media, history
<1>6. ASSUME NEW identity \in BOOLEAN, Media(t, o) = Unconfirmed(t, o, identity, FALSE)
      PROVE  Shows(t, o, Media(t, o))
  BY <1>6, UnconfirmedShows DEF Good
<1>7. ASSUME Media(t, o) = Content(t, o, history), ~history => Exact(o)
      PROVE  Shows(t, o, Media(t, o))
  BY <1>1, <1>7, ContentShows
<1> QED
  BY <1>5, <1>6, <1>7

\* Judging an observation; one that contradicts a release leaves none.
LEMMA JudgedShows ==
    ASSUME NEW t, Good(t), NEW o \in Observation
    PROVE  /\ Shows(t, o, Judged(t, o))
           /\ Contradicts(o) => Judged(t, o).releaseAt = None
<1> DEFINE a == IF t.releaseAt # None /\ Contradicts(o) THEN Unreleased(t) ELSE t
           h == [a EXCEPT !.latest = o, !.state = "ended", !.evidence = "none"]
           u == Judged(t, o)
<1>1. Good(a) /\ a \in Snapshot
  BY UnreleasedKeeps DEF Keeps, Follows, Good
<1>2. Shows(t, o, a) /\ (Contradicts(o) => a.releaseAt = None)
  BY UnreleasedShows, ShowsNothing DEF Good, Snapshot, Unreleased
<1>3. \/ o.sample.reset /\ u = Lost(t, o)
      \/ u = Lost(a, o)
      \/ o.sample.active = "no" /\ u = Exited(a, o)
      \/ u = a \/ u = h
      \/ ~Foreign(o) /\ u = Media(a, o)
  BY DEF Judged
<1>4. Shows(a, o, h)
  <2> HIDE DEF a
  <2>1. /\ h.stop = a.stop /\ h.stopAt = a.stopAt
        /\ h.lastAt = a.lastAt /\ h.lastNumber = a.lastNumber
        /\ h.releaseAt = a.releaseAt /\ h.released = a.released /\ h.state = "ended"
    BY <1>1 DEF Snapshot
  <2> HIDE DEF h
  <2> QED
    BY <2>1 DEF Shows
<1>5. Lost(t, o).releaseAt = None
  BY DEF Lost, Unreleased, Unchained, Good, Snapshot
<1> HIDE DEF a, h, u
<1>6. CASE o.sample.reset /\ u = Lost(t, o)
  BY <1>5, <1>6, LostShows DEF u
<1>7. ASSUME Shows(a, o, u)
      PROVE  Shows(t, o, u) /\ (Contradicts(o) => u.releaseAt = None)
  BY <1>2, <1>7, ShowsTwice DEF Shows
<1>8. CASE u = Lost(a, o) \/ u = a \/ u = h \/ (o.sample.active = "no" /\ u = Exited(a, o))
                \/ (~Foreign(o) /\ u = Media(a, o))
  BY <1>1, <1>4, <1>7, <1>8, LostShows, ShowsNothing, ExitedShows, MediaShows DEF u
<1> QED
  BY <1>3, <1>6, <1>8 DEF u

\* Ageing changes no request, and no conclusion to stopped.
LEMMA RefreshedShows ==
    ASSUME NEW t, Good(t), NEW o
    PROVE  /\ Shows(t, o, Refreshed(t))
           /\ Refreshed(t).releaseAt = t.releaseAt /\ Refreshed(t).released = t.released
           /\ Refreshed(t).state = "stopped" =>
                 t.state = "stopped" /\ Refreshed(t).latest = t.latest
<1> DEFINE k == Unchained(t)
           v == [k EXCEPT !.state = Concluded(t), !.evidence = "none"]
<1>1. k \in Snapshot /\ Shows(t, o, k)
  BY UnchainedKeeps, UnchainedShows DEF Keeps, Follows, Good
<1>2. k.releaseAt = t.releaseAt /\ k.released = t.released
  BY DEF Unchained, Good, Snapshot
<1>3. Refreshed(t) \in {t, v}
  BY DEF Refreshed
<1>4. Concluded(t) # "stopped"
  BY DEF Concluded
<1> HIDE DEF k
<1>5. /\ v.stop = k.stop /\ v.stopAt = k.stopAt
      /\ v.lastAt = k.lastAt /\ v.lastNumber = k.lastNumber
      /\ v.releaseAt = k.releaseAt /\ v.released = k.released /\ v.state # "stopped"
  BY <1>1, <1>4 DEF Snapshot
<1> HIDE DEF v
<1>6. Shows(k, o, v)
  BY <1>5 DEF Shows
<1>7. Shows(t, o, v) /\ Shows(t, o, t)
  BY <1>1, <1>6, ShowsTwice, ShowsNothing
<1> QED
  BY <1>2, <1>3, <1>5, <1>7

\* Taking an observation's number and time: after a gap no release is left.
LEMMA TrackedShows ==
    ASSUME NEW t, Good(t), NEW o \in Observation
    PROVE  LET u == Tracked(t, o) IN
           /\ u.stop = t.stop /\ u.stopAt = t.stopAt /\ u.lastAt = o.at
           /\ u.state = t.state /\ u.latest = t.latest
           /\ IF AfterGap(t, o) THEN u.releaseAt = None /\ u.released = FALSE
              ELSE u.releaseAt = t.releaseAt /\ u.released = t.released
<1> DEFINE g == Unreleased(Unchained(t))
           k == IF AfterGap(t, o) THEN g ELSE t
           v == [k EXCEPT !.lastNumber = o.number, !.lastAt = o.at]
<1>1. g \in Snapshot /\ t \in Snapshot
  BY ForgottenKeeps DEF Keeps, Follows, Good
<1>2. /\ g.stop = t.stop /\ g.stopAt = t.stopAt /\ g.state = t.state /\ g.latest = t.latest
      /\ g.releaseAt = None /\ g.released = FALSE
  BY <1>1 DEF Unreleased, Unchained, Snapshot
<1>3. Tracked(t, o) = v
  BY DEF Tracked
<1> HIDE DEF g
<1>4. k \in Snapshot
  BY <1>1
<1>5. /\ k.stop = t.stop /\ k.stopAt = t.stopAt /\ k.state = t.state /\ k.latest = t.latest
      /\ IF AfterGap(t, o) THEN k.releaseAt = None /\ k.released = FALSE
         ELSE k.releaseAt = t.releaseAt /\ k.released = t.released
  BY <1>2
<1> HIDE DEF k
<1>6. /\ v.stop = k.stop /\ v.stopAt = k.stopAt /\ v.state = k.state /\ v.latest = k.latest
      /\ v.releaseAt = k.releaseAt /\ v.released = k.released /\ v.lastAt = o.at
  BY <1>4 DEF Snapshot
<1> HIDE DEF v
<1> QED
  BY <1>3, <1>5, <1>6

\* What the history knows: requests and exits are not later than now, a boundary of a stop
\* is not before the first request, and nothing disturbed a release since its boundary.
Remembered ==
    /\ seen \in [asked : Nat \cup {None}, gone : Nat, unrest : Nat]
    /\ seen.gone <= snap.lastAt /\ seen.unrest <= snap.lastAt /\ snap.lastAt <= now
    /\ snap.stop => seen.asked # None
    /\ seen.asked # None => seen.asked <= now
    /\ snap.stopAt # None => seen.asked # None /\ seen.asked <= snap.stopAt
    /\ snap.releaseAt # None => seen.unrest <= snap.releaseAt
    /\ snap.released => snap.releaseAt # None /\ snap.releaseAt < seen.gone

\* The inductive invariant of the two properties.
Observed == PolicyTypeOK /\ Remembered /\ StopObserved

LEMMA ReleaseFollows == Observed => ReleaseObserved
BY DEF Observed, PolicyTypeOK, Coherent, Remembered, ReleaseObserved

LEMMA ObserveRemembers ==
    ASSUME Observed, NEW o \in Observation, Observe(o)
    PROVE  Remembered' /\ StopObserved'
<1> DEFINE t == Refreshed(snap)
           u == Tracked(t, o)
           v == Judged(u, o)
           missed == snap.lastNumber >= 0 /\ o.number # snap.lastNumber + 1
<1>1. snap \in Snapshot /\ now \in Nat /\ o.at \in Nat /\ o.number \in Nat
  BY PolicyAssumption DEF Observed, PolicyTypeOK, Observation
<1>2. Good(t) /\ Good(u)
  BY RefreshedKeeps, TrackedKeeps DEF Observed, PolicyTypeOK, Good, Keeps, Follows
<1>3. /\ Shows(snap, o, t)
      /\ t.releaseAt = snap.releaseAt /\ t.released = snap.released
      /\ t.state = "stopped" => snap.state = "stopped" /\ t.latest = snap.latest
  BY RefreshedShows DEF Observed, PolicyTypeOK, Good
<1>4. /\ u.stop = t.stop /\ u.stopAt = t.stopAt /\ u.lastAt = o.at
      /\ u.state = t.state /\ u.latest = t.latest
      /\ IF AfterGap(t, o) THEN u.releaseAt = None /\ u.released = FALSE
         ELSE u.releaseAt = t.releaseAt /\ u.released = t.released
  BY <1>2, TrackedShows
<1>5. Shows(u, o, v) /\ (Contradicts(o) => v.releaseAt = None)
  BY <1>2, JudgedShows
<1>6. /\ Good(v) /\ o.at <= now /\ o.at > t.lastAt /\ o.number > t.lastNumber /\ snap' = v
      /\ now' = now /\ seen' = Seen(o)
  BY <1>2, JudgedAdvances DEF Observe, Accepts, Fresh, Advances
<1>7. t.lastAt = snap.lastAt /\ t.lastNumber = snap.lastNumber
  BY <1>3 DEF Shows
<1>8. missed => AfterGap(t, o)
  <2>1. snap.lastNumber \in Int
    BY <1>1 DEF Snapshot
  <2> QED
    BY <1>1, <1>6, <1>7, <2>1 DEF AfterGap
<1>9. /\ seen'.asked = seen.asked
      /\ seen'.gone = IF o.sample.active = "no" THEN o.at ELSE seen.gone
      /\ seen'.unrest = IF Contradicts(o) \/ missed THEN o.at ELSE seen.unrest
  BY <1>6 DEF Seen, Contradicts, Observed, Remembered
<1> HIDE DEF t, u, v, missed
<1>10. /\ v.stop = snap.stop /\ v.stopAt = snap.stopAt /\ v.lastAt = o.at
       /\ v.state = "stopped" =>
             \/ snap.state = "stopped" /\ v.latest = snap.latest
             \/ /\ v.latest = o /\ v.stop
                /\ \/ o.sample.active = "no" /\ v.stopAt # None /\ o.at > v.stopAt
                   \/ Exact(o) /\ o.sample.idle = "canceled"
  BY <1>3, <1>4, <1>5 DEF Shows
<1>11. v.releaseAt # None =>
          /\ v.releaseAt = snap.releaseAt /\ ~missed /\ ~Contradicts(o)
          /\ v.released => \/ snap.released
                           \/ o.sample.active = "no" /\ o.at > v.releaseAt
  BY <1>3, <1>4, <1>5, <1>8 DEF Shows
<1>12. v.released => v.releaseAt # None
  BY <1>6 DEF Good, Coherent
<1>13. Remembered'
  <2>1. /\ seen.asked \in Nat \cup {None} /\ seen.gone \in Nat /\ seen.unrest \in Nat
        /\ seen' \in [asked : Nat \cup {None}, gone : Nat, unrest : Nat]
    BY <1>1, <1>6 DEF Seen, Observed, Remembered
  <2>2. /\ seen'.gone <= o.at /\ seen'.unrest <= o.at /\ o.at <= now
    BY <1>1, <1>6, <1>7, <1>9, <2>1 DEF Observed, Remembered, Snapshot
  <2>3. v.releaseAt # None => seen'.unrest <= v.releaseAt
    BY <1>9, <1>11 DEF Observed, Remembered
  <2>4. v.released => v.releaseAt < seen'.gone
    <3> SUFFICES ASSUME v.released PROVE v.releaseAt < seen'.gone
      OBVIOUS
    <3>1. v.releaseAt = snap.releaseAt /\ v.releaseAt \in Nat
      BY <1>11, <1>12, <1>1 DEF Snapshot
    <3>2. CASE snap.released
      <4>1. snap.releaseAt < seen.gone /\ seen.gone < o.at
        BY <1>1, <1>6, <1>7, <2>1, <3>2 DEF Observed, Remembered, Snapshot
      <4> QED
        BY <1>1, <1>9, <2>1, <3>1, <4>1
    <3>3. CASE o.sample.active = "no" /\ o.at > v.releaseAt
      BY <1>1, <1>9, <3>1, <3>3
    <3> QED
      BY <1>11, <1>12, <3>2, <3>3
  <2> QED
    BY <1>6, <1>9, <1>10, <1>12, <2>1, <2>2, <2>3, <2>4 DEF Observed, Remembered
<1>14. StopObserved'
  <2> SUFFICES ASSUME v.state = "stopped"
               PROVE  /\ seen.asked # None
                      /\ \/ v.latest.sample.active = "no" /\ v.latest.at > seen.asked
                         \/ Exact(v.latest) /\ v.latest.sample.idle = "canceled"
    BY <1>6, <1>9 DEF StopObserved, Exact, Unusable, Qualified
  <2>1. CASE snap.state = "stopped" /\ v.latest = snap.latest
    BY <2>1 DEF Observed, StopObserved
  <2>2. CASE Exact(o) /\ o.sample.idle = "canceled" /\ v.stop /\ v.latest = o
    BY <1>10, <2>2 DEF Observed, Remembered
  <2>3. CASE o.sample.active = "no" /\ v.stopAt # None /\ o.at > v.stopAt /\ v.latest = o
    <3>1. seen.asked # None /\ seen.asked <= v.stopAt /\ seen.asked \in Nat
      BY <1>10, <2>3 DEF Observed, Remembered
    <3>2. v.stopAt \in Nat
      BY <1>1, <1>10, <2>3 DEF Snapshot
    <3> QED
      BY <1>1, <2>3, <3>1, <3>2
  <2> QED
    BY <1>10, <2>1, <2>2, <2>3
<1> QED
  BY <1>13, <1>14

\* A step that asks for no stop and concludes none.
LEMMA SteadyRemembers ==
    ASSUME Observed, seen' = seen, now' \in Nat, now <= now',
           snap'.lastAt = snap.lastAt, snap'.stop = snap.stop, snap'.stopAt = snap.stopAt,
           \/ snap'.releaseAt = snap.releaseAt /\ snap'.released = snap.released
           \/ snap'.releaseAt = None /\ snap'.released = FALSE
           \/ snap'.releaseAt = now /\ snap'.released = FALSE,
           snap'.state = "stopped" => snap.state = "stopped" /\ snap'.latest = snap.latest
    PROVE  Remembered' /\ StopObserved'
<1>1. /\ seen \in [asked : Nat \cup {None}, gone : Nat, unrest : Nat]
      /\ now \in Nat /\ snap.lastAt \in Nat
  BY PolicyAssumption DEF Observed, PolicyTypeOK, Remembered, Snapshot
<1>2. Remembered'
  BY <1>1 DEF Observed, Remembered
<1>3. StopObserved'
  <2> SUFFICES ASSUME snap'.state = "stopped"
               PROVE  /\ seen.asked # None
                      /\ LET o == snap.latest IN
                         \/ o.sample.active = "no" /\ o.at > seen.asked
                         \/ Exact(o) /\ o.sample.idle = "canceled"
    BY DEF StopObserved, Exact, Unusable, Qualified
  <2> QED
    BY DEF Observed, StopObserved
<1> QED
  BY <1>2, <1>3

\* A request for a stop: the first one is remembered.
LEMMA AskingRemembers ==
    ASSUME Observed, Asking, now' = now,
           snap'.lastAt = snap.lastAt, snap'.stop, snap'.stopAt \in {snap.stopAt, now},
           snap'.releaseAt = snap.releaseAt, snap'.released = snap.released,
           snap'.state = snap.state, snap'.latest = snap.latest
    PROVE  Remembered' /\ StopObserved'
<1>1. /\ seen \in [asked : Nat \cup {None}, gone : Nat, unrest : Nat]
      /\ now \in Nat /\ snap.lastAt \in Nat
  BY PolicyAssumption DEF Observed, PolicyTypeOK, Remembered, Snapshot
<1>2. /\ seen'.asked = IF seen.asked = None THEN now ELSE seen.asked
      /\ seen'.gone = seen.gone /\ seen'.unrest = seen.unrest
      /\ seen' \in [asked : Nat \cup {None}, gone : Nat, unrest : Nat]
  BY <1>1 DEF Asking
<1>3. seen'.asked # None /\ seen'.asked <= now /\ (seen.asked # None => seen'.asked = seen.asked)
  BY <1>1, <1>2 DEF Observed, Remembered
<1>4. Remembered'
  BY <1>1, <1>2, <1>3 DEF Observed, Remembered
<1>5. StopObserved'
  <2> SUFFICES ASSUME snap.state = "stopped"
               PROVE  /\ seen.asked # None
                      /\ LET o == snap.latest IN
                         \/ o.sample.active = "no" /\ o.at > seen.asked
                         \/ Exact(o) /\ o.sample.idle = "canceled"
    BY <1>3 DEF StopObserved, Exact, Unusable, Qualified
  <2> QED
    BY DEF Observed, StopObserved
<1> QED
  BY <1>4, <1>5

\* What Ending leaves of a snapshot.
LEMMA EndingKeeps ==
    ASSUME NEW t \in Snapshot
    PROVE  /\ Ending(t).lastAt = t.lastAt /\ Ending(t).stop /\ Ending(t).stopAt = t.stopAt
           /\ Ending(t).releaseAt = t.releaseAt /\ Ending(t).released = t.released
           /\ Ending(t).state = t.state /\ Ending(t).latest = t.latest
           /\ Ending(t) \in Snapshot
<1> DEFINE u == Ending(t)
<1>1. u \in Snapshot
  BY LabelsTyped DEF Ending, Snapshot
<1>2. /\ u.lastAt = t.lastAt /\ u.stop /\ u.stopAt = t.stopAt
      /\ u.releaseAt = t.releaseAt /\ u.released = t.released
      /\ u.state = t.state /\ u.latest = t.latest
  BY DEF Ending, Snapshot
<1> QED
  BY <1>1, <1>2

LEMMA RequestStopRemembers ==
    ASSUME Observed, RequestStop
    PROVE  Remembered' /\ StopObserved'
<1> DEFINE t == Ending(snap)
<1>1. snap \in Snapshot
  BY DEF Observed, PolicyTypeOK
<1>2. /\ t.lastAt = snap.lastAt /\ t.stop /\ t.stopAt = snap.stopAt
      /\ t.releaseAt = snap.releaseAt /\ t.released = snap.released
      /\ t.state = snap.state /\ t.latest = snap.latest /\ t \in Snapshot
  BY <1>1, EndingKeeps
<1>3. snap' = [t EXCEPT !.stopAt = now] /\ Asking /\ now' = now
  BY DEF RequestStop
<1> HIDE DEF t
<1>4. /\ snap'.lastAt = t.lastAt /\ snap'.stop /\ snap'.stopAt = now
      /\ snap'.releaseAt = t.releaseAt /\ snap'.released = t.released
      /\ snap'.state = t.state /\ snap'.latest = t.latest
  BY <1>2, <1>3 DEF Snapshot
<1> QED
  BY <1>2, <1>3, <1>4, AskingRemembers

LEMMA RecordReceiptRemembers ==
    ASSUME Observed, NEW action, NEW outcome, RecordReceipt(action, outcome)
    PROVE  Remembered' /\ StopObserved'
<1>1. snap \in Snapshot /\ now \in Nat
  BY PolicyAssumption DEF Observed, PolicyTypeOK
<1>2. CASE action = "stop"
  <2> DEFINE t == Ending(snap)
  <2>1. /\ t.lastAt = snap.lastAt /\ t.stop /\ t.stopAt = snap.stopAt
        /\ t.releaseAt = snap.releaseAt /\ t.released = snap.released
        /\ t.state = snap.state /\ t.latest = snap.latest /\ t \in Snapshot
    BY <1>1, EndingKeeps
  <2>2. snap' = [t EXCEPT !.granted = FALSE] /\ Asking /\ now' = now
    BY <1>2 DEF RecordReceipt
  <2> HIDE DEF t
  <2>3. /\ snap'.lastAt = t.lastAt /\ snap'.stop /\ snap'.stopAt = t.stopAt
        /\ snap'.releaseAt = t.releaseAt /\ snap'.released = t.released
        /\ snap'.state = t.state /\ snap'.latest = t.latest
    BY <2>1, <2>2 DEF Snapshot
  <2> QED
    BY <2>1, <2>2, <2>3, AskingRemembers
<1>3. CASE action # "stop"
  <2> DEFINE g == action = "release" /\ outcome = "accepted"
  <2>1. snap' = [snap EXCEPT !.granted = g] /\ seen' = seen /\ now' = now
    BY <1>3 DEF RecordReceipt
  <2> HIDE DEF g
  <2>2. /\ snap'.lastAt = snap.lastAt /\ snap'.stop = snap.stop /\ snap'.stopAt = snap.stopAt
        /\ snap'.releaseAt = snap.releaseAt /\ snap'.released = snap.released
        /\ snap'.state = snap.state /\ snap'.latest = snap.latest
    BY <1>1, <2>1 DEF Snapshot
  <2> QED
    BY <1>1, <2>1, <2>2, SteadyRemembers
<1> QED
  BY <1>2, <1>3

LEMMA UnreleasedFields ==
    ASSUME NEW t \in Snapshot
    PROVE  /\ Unreleased(t).lastAt = t.lastAt /\ Unreleased(t).stop = t.stop
           /\ Unreleased(t).stopAt = t.stopAt /\ Unreleased(t).state = t.state
           /\ Unreleased(t).latest = t.latest
           /\ Unreleased(t).releaseAt = None /\ Unreleased(t).released = FALSE
BY DEF Unreleased, Snapshot

LEMMA UnchainedFields ==
    ASSUME NEW t \in Snapshot
    PROVE  /\ Unchained(t).lastAt = t.lastAt /\ Unchained(t).stop = t.stop
           /\ Unchained(t).stopAt = t.stopAt /\ Unchained(t).state = t.state
           /\ Unchained(t).latest = t.latest
           /\ Unchained(t).releaseAt = t.releaseAt /\ Unchained(t).released = t.released
BY DEF Unchained, Snapshot

LEMMA OtherRemembers ==
    ASSUME Observed, Refresh \/ RequestRelease \/ WithdrawRelease \/ Disown
                     \/ InvalidateHistory \/ Tick \/ UNCHANGED policyVars
    PROVE  Remembered' /\ StopObserved'
<1>1. snap \in Snapshot /\ Good(snap) /\ now \in Nat
  BY PolicyAssumption DEF Observed, PolicyTypeOK, Good
<1>2. CASE Refresh
  <2>1. snap' = Refreshed(snap) /\ seen' = seen /\ now' = now
    BY <1>2 DEF Refresh
  <2>2. /\ Shows(snap, snap, snap')
        /\ snap'.releaseAt = snap.releaseAt /\ snap'.released = snap.released
        /\ snap'.state = "stopped" => snap.state = "stopped" /\ snap'.latest = snap.latest
    BY <1>1, <2>1, RefreshedShows
  <2> QED
    BY <1>1, <2>1, <2>2, SteadyRemembers DEF Shows
<1>3. CASE RequestRelease
  <2>1. snap' = [snap EXCEPT !.releaseAt = now, !.released = FALSE] /\ seen' = seen /\ now' = now
    BY <1>3 DEF RequestRelease
  <2>2. /\ snap'.lastAt = snap.lastAt /\ snap'.stop = snap.stop /\ snap'.stopAt = snap.stopAt
        /\ snap'.releaseAt = now /\ snap'.released = FALSE
        /\ snap'.state = snap.state /\ snap'.latest = snap.latest
    BY <1>1, <2>1 DEF Snapshot
  <2> QED
    BY <1>1, <2>1, <2>2, SteadyRemembers
<1>4. CASE WithdrawRelease
  <2>1. snap' = Unreleased(snap) /\ seen' = seen /\ now' = now
    BY <1>4 DEF WithdrawRelease
  <2>2. /\ snap'.lastAt = snap.lastAt /\ snap'.stop = snap.stop /\ snap'.stopAt = snap.stopAt
        /\ snap'.state = snap.state /\ snap'.latest = snap.latest
        /\ snap'.releaseAt = None /\ snap'.released = FALSE
    BY <1>1, <2>1, UnreleasedFields
  <2>3. now' \in Nat /\ now <= now' /\ seen' = seen
    BY <1>1, <2>1
  <2> QED
    BY ONLY Observed, <2>2, <2>3, SteadyRemembers
<1>5. CASE Disown
  <2> DEFINE t == Unchained(snap)
  <2>1. t \in Snapshot /\ snap' = [t EXCEPT !.lost = TRUE, !.evidence = "none"]
        /\ seen' = seen /\ now' = now
    BY <1>1, <1>5, UnchainedKeeps DEF Disown, Keeps, Follows, Good
  <2>2. /\ t.lastAt = snap.lastAt /\ t.stop = snap.stop /\ t.stopAt = snap.stopAt
        /\ t.releaseAt = snap.releaseAt /\ t.released = snap.released
        /\ t.state = snap.state /\ t.latest = snap.latest
    BY <1>1, UnchainedFields
  <2> HIDE DEF t
  <2>3. /\ snap'.lastAt = t.lastAt /\ snap'.stop = t.stop /\ snap'.stopAt = t.stopAt
        /\ snap'.releaseAt = t.releaseAt /\ snap'.released = t.released
        /\ snap'.state = t.state /\ snap'.latest = t.latest
    BY <2>1 DEF Snapshot
  <2>4. /\ snap'.lastAt = snap.lastAt /\ snap'.stop = snap.stop /\ snap'.stopAt = snap.stopAt
        /\ snap'.releaseAt = snap.releaseAt /\ snap'.released = snap.released
        /\ snap'.state = snap.state /\ snap'.latest = snap.latest
    BY <2>2, <2>3
  <2>5. seen' = seen /\ now' = now
    BY <2>1
  <2> QED
    BY <1>1, <2>4, <2>5, SteadyRemembers
<1>6. CASE InvalidateHistory
  <2> DEFINE k == Unchained(snap)
             t == Unreleased(k)
             c == Concluded(snap)
  <2>1. k \in Snapshot /\ t \in Snapshot
    BY <1>1, UnchainedKeeps, ForgottenKeeps DEF Keeps, Follows, Good
  <2>2. snap' = [t EXCEPT !.state = c, !.evidence = "none"] /\ seen' = seen /\ now' = now
    BY <1>6 DEF InvalidateHistory
  <2>3. c # "stopped"
    BY DEF Concluded
  <2>4. k.lastAt = snap.lastAt /\ k.stop = snap.stop /\ k.stopAt = snap.stopAt
    BY <1>1, UnchainedFields
  <2> HIDE DEF k
  <2>5. /\ t.lastAt = k.lastAt /\ t.stop = k.stop /\ t.stopAt = k.stopAt
        /\ t.releaseAt = None /\ t.released = FALSE
    BY <2>1, UnreleasedFields
  <2> HIDE DEF t, c
  <2>6. /\ snap'.lastAt = t.lastAt /\ snap'.stop = t.stop /\ snap'.stopAt = t.stopAt
        /\ snap'.releaseAt = t.releaseAt /\ snap'.released = t.released /\ snap'.state = c
    BY <2>1, <2>2 DEF Snapshot
  <2>7. /\ snap'.lastAt = snap.lastAt /\ snap'.stop = snap.stop /\ snap'.stopAt = snap.stopAt
        /\ snap'.releaseAt = None /\ snap'.released = FALSE /\ snap'.state # "stopped"
    BY <2>3, <2>4, <2>5, <2>6
  <2>8. now' \in Nat /\ now <= now' /\ seen' = seen
    BY <1>1, <2>2
  <2> QED
    BY ONLY Observed, <2>7, <2>8, SteadyRemembers
<1>7. CASE Tick \/ UNCHANGED policyVars
  <2>1. snap' = snap /\ seen' = seen /\ now' \in {now, now + 1}
    BY <1>7 DEF Tick, policyVars
  <2>2. now' \in Nat /\ now <= now'
    BY <1>1, <2>1
  <2> QED
    BY <2>1, <2>2, SteadyRemembers
<1> QED
  BY <1>2, <1>3, <1>4, <1>5, <1>6, <1>7

LEMMA InitObserved == Init => Observed
<1> SUFFICES ASSUME Init PROVE Observed
  OBVIOUS
<1>1. Remembered /\ StopObserved
  BY DEF Init, Remembered, StopObserved
<1> QED
  BY <1>1, InitGood DEF Observed

LEMMA StepObserved ==
    ASSUME Observed, [Next]_policyVars
    PROVE  Observed'
<1>1. now \in Nat /\ PolicyTypeOK'
  BY PolicyAssumption, StepGood DEF Observed, PolicyTypeOK
<1>2. ASSUME NEW x \in Samples, NEW n \in 0..Horizon - 1, NEW at \in 1..now,
             Observe([sample |-> x, number |-> n, at |-> at])
      PROVE  Remembered' /\ StopObserved'
  <2>1. [sample |-> x, number |-> n, at |-> at] \in Observation
    BY <1>1, PolicyAssumption DEF Observation
  <2> QED
    BY <1>2, <2>1, ObserveRemembers
<1>3. ASSUME NEW change \in Changes, Change(change)
      PROVE  Remembered' /\ StopObserved'
  <2>1. CASE RequestStop
    BY <2>1, RequestStopRemembers
  <2>2. ASSUME NEW action, NEW outcome, RecordReceipt(action, outcome)
        PROVE  Remembered' /\ StopObserved'
    BY <2>2, RecordReceiptRemembers
  <2>3. CASE RequestRelease \/ WithdrawRelease \/ Disown \/ InvalidateHistory
    BY <2>3, OtherRemembers
  <2> QED
    BY <1>3, <2>1, <2>2, <2>3 DEF Change
<1>4. ASSUME Refresh \/ Tick \/ UNCHANGED policyVars
      PROVE  Remembered' /\ StopObserved'
  BY <1>4, OtherRemembers
<1>5. Remembered' /\ StopObserved'
  BY <1>2, <1>3, <1>4 DEF Next
<1> QED
  BY <1>1, <1>5 DEF Observed

\* For any samples in any order, at any age: a session is concluded to have stopped only
\* after a request, by an exit later than the first one or a cancellation of its content.
THEOREM StopsAreObserved == Spec => []StopObserved
<1>1. Observed /\ [Next]_policyVars => Observed'
  BY StepObserved
<1>2. Observed => StopObserved
  BY DEF Observed
<1> QED
  BY InitObserved, <1>1, <1>2, PTL DEF Spec

\* For any samples in any order, at any age: a release is confirmed only for a completed
\* session, by an exit after the request, with nothing missed or active since.
THEOREM ReleasesAreObserved == Spec => []ReleaseObserved
<1>1. Observed /\ [Next]_policyVars => Observed'
  BY StepObserved
<1> QED
  BY InitObserved, <1>1, ReleaseFollows, PTL DEF Spec

-----------------------------------------------------------------------------
(* Completion is witnessed: what the chain of attribution says of the      *)
(* history `watch'.                                                        *)

\* The entries of W between a and b.
Within(W, a, b) == {e \in W : a.o.number < e.o.number /\ e.o.number < b.o.number}

\* What Advance says, of the entries of W.
Advanced(W, a, b) ==
    /\ Exact(a.o) /\ Exact(b.o)
    /\ a.o.sample.position # None /\ b.o.sample.position # None
    /\ b.o.sample.position > a.o.sample.position
    /\ b.o.at >= a.o.at + MinInterval
    /\ b.by <= a.o.at + MaxAge
    /\ \A e \in Within(W, a, b) \cup {a, b} :
          \/ Heartbeat(e.o)
          \/ Exact(e.o) /\ e.o.sample.state = "playing" /\ SamePlayback(e.o, b.o)

\* An entry e of W that renews the playback of b in time.
Renews(W, b, e) ==
    /\ SamePlayback(e.o, b.o)
    /\ \E d \in Within(W, b, e) \cup {b} : ~Heartbeat(d.o) /\ e.by <= d.o.at + MaxAge

\* From b on, W is of the playback of b, which has not ended.
Chain(W, b) ==
    \A e \in W : e.o.number > b.o.number =>
        Heartbeat(e.o) \/ (Renews(W, b, e) /\ e.o.sample.state # "idle")

\* Each observation is in W once, and the latest is there if any is.
Numbered(W, last) ==
    /\ \A e \in W : e.o \in Observation /\ e.o.number <= last
    /\ \A e, f \in W : e.o.number = f.o.number => e = f
    /\ W # {} => \E e \in W : e.o.number = last

\* The sample p, from which progress is measured, is of the playback of c, and so is what
\* followed it.
Measured(W, p, c) ==
    /\ Exact(p) /\ SamePlayback(p, c)
    /\ \E a \in W : a.o = p
    /\ \A e \in W : e.o.number >= p.number =>
          Heartbeat(e.o) \/ (Exact(e.o) /\ e.o.sample.state = "playing" /\ SamePlayback(e.o, p))

\* Real progress of the playback of c, and what followed it.
Proved(W, a, b, c) ==
    /\ a.o.number < b.o.number /\ Advanced(W, a, b)
    /\ b.o.number <= c.number /\ SamePlayback(c, b.o)
    /\ Chain(W, b)

\* The anchor of t, its latest sample, the start of its progress and its confirmation are in W.
Attributed(t, W) ==
    t.anchor # None =>
        /\ \E e \in W : e.o = t.anchor
        /\ t.latest # None /\ ~Heartbeat(t.latest) /\ t.anchor.number <= t.latest.number
        /\ \E e \in W : e.o = t.latest
        /\ t.progress # None => Measured(W, t.progress, t.anchor)
        /\ t.confirmed /\ ~t.stop => \E a, b \in W : Proved(W, a, b, t.anchor)

\* The completion q is that of the entries of W.
Witnessing(q, W) ==
    \E a, b, f, i \in W :
        /\ a.o.number < b.o.number /\ Advanced(W, a, b)
        /\ b.o.number < f.o.number /\ Renews(W, b, f)
        /\ \A e \in Within(W, b, f) :
              Heartbeat(e.o) \/ (Renews(W, b, e) /\ e.o.sample.state # "idle")
        /\ f.o.number = q.number
        /\ f.o.sample.state = "idle" /\ f.o.sample.idle = "finished"
        /\ i.o.number = q.identity
        /\ Exact(i.o) /\ b.o.number <= i.o.number
        /\ f.o.at <= i.o.at + MaxAge

WatchInv ==
    /\ PolicyTypeOK
    /\ snap.completion = None => Numbered(watch, snap.lastNumber) /\ Attributed(snap, watch)
    /\ snap.completion # None => Witnessing(snap.completion, watch)

\* A new entry n after all those of W.
Grows(W, n) ==
    /\ n.o \in Observation
    /\ \A e \in W : e.o \in Observation /\ e.o.number < n.o.number
    /\ \A e, f \in W : e.o.number = f.o.number => e = f

LEMMA WithinGrows ==
    ASSUME NEW W, NEW n, Grows(W, n), NEW a \in W \cup {n}, NEW b \in W \cup {n}
    PROVE  Within(W \cup {n}, a, b) = Within(W, a, b)
BY DEF Grows, Within, Observation

LEMMA AdvancedGrows ==
    ASSUME NEW W, NEW n, Grows(W, n), NEW a \in W, NEW b \in W \cup {n}
    PROVE  Advanced(W \cup {n}, a, b) <=> Advanced(W, a, b)
BY WithinGrows DEF Advanced

LEMMA RenewsGrows ==
    ASSUME NEW W, NEW n, Grows(W, n), NEW b \in W, NEW e \in W \cup {n}
    PROVE  Renews(W \cup {n}, b, e) <=> Renews(W, b, e)
BY WithinGrows DEF Renews

LEMMA ChainGrows ==
    ASSUME NEW W, NEW n, Grows(W, n), NEW b \in W, Chain(W, b),
           Heartbeat(n.o) \/ (Renews(W, b, n) /\ n.o.sample.state # "idle")
    PROVE  Chain(W \cup {n}, b)
<1> SUFFICES ASSUME NEW e \in W \cup {n}, e.o.number > b.o.number
             PROVE  Heartbeat(e.o) \/ (Renews(W \cup {n}, b, e) /\ e.o.sample.state # "idle")
  BY DEF Chain
<1>1. Heartbeat(e.o) \/ (Renews(W, b, e) /\ e.o.sample.state # "idle")
  BY DEF Chain
<1> QED
  BY <1>1, RenewsGrows

LEMMA ProvedGrows ==
    ASSUME NEW W, NEW n, Grows(W, n), NEW a \in W, NEW b \in W, NEW c, NEW d, Proved(W, a, b, c),
           Heartbeat(n.o) \/ (Renews(W, b, n) /\ n.o.sample.state # "idle"),
           b.o.number <= d.number, SamePlayback(d, b.o)
    PROVE  Proved(W \cup {n}, a, b, d)
BY AdvancedGrows, ChainGrows DEF Proved

LEMMA MeasuredGrows ==
    ASSUME NEW W, NEW n, Grows(W, n), NEW p, NEW c, Measured(W, p, c)
    PROVE  /\ Heartbeat(n.o) => Measured(W \cup {n}, p, c)
           /\ Exact(n.o) /\ n.o.sample.state = "playing" /\ SamePlayback(n.o, c)
                 => Measured(W \cup {n}, p, n.o)
BY DEF Measured, SamePlayback

\* A new sample o of content, judged now as entry n; k is the snapshot, where it continues
\* what it is attributed to.
Continuing(k, W, V, n, o) ==
    /\ Good(k) /\ k.completion = None
    /\ o \in Observation /\ n.o = o /\ n.by = now /\ ~Heartbeat(o)
    /\ Grows(W, n) /\ n \in V /\ V \subseteq W \cup {n}
    /\ k.anchor # None =>
         /\ V = W \cup {n} /\ Attributed(k, W)
         /\ SamePlayback(k.anchor, o) /\ now <= k.latest.at + MaxAge
    /\ k.anchor = None => k.progress = None /\ ~k.confirmed

LEMMA Continued ==
    ASSUME NEW k, NEW W, NEW V, NEW n, NEW o, Continuing(k, W, V, n, o),
           k.anchor # None, k.confirmed, ~k.stop
    PROVE  \E a, b \in W : Proved(W, a, b, k.anchor) /\ Renews(W, b, n)
<1>1. PICK a \in W, b \in W : Proved(W, a, b, k.anchor)
  BY DEF Continuing, Attributed
<1>2. PICK d \in W : d.o = k.latest
  BY DEF Continuing, Attributed
<1>3. /\ k.anchor.number <= d.o.number /\ ~Heartbeat(d.o) /\ now <= d.o.at + MaxAge
      /\ k.anchor.number \in Nat
  <2>1. k.anchor \in Observation
    BY DEF Continuing, Good, Snapshot
  <2> QED
    BY <1>2, <2>1 DEF Continuing, Attributed, Observation
<1>4. b.o.number \in Nat /\ d.o.number \in Nat /\ n.o.number \in Nat
      /\ d.o.number < n.o.number
  BY DEF Continuing, Grows, Observation
<1>5. b.o.number <= k.anchor.number /\ SamePlayback(k.anchor, b.o)
  BY <1>1 DEF Proved
<1>6. d \in Within(W, b, n) \cup {b}
  <2>1. CASE d.o.number = b.o.number
    BY <2>1 DEF Continuing, Grows
  <2>2. CASE d.o.number # b.o.number
    BY <1>3, <1>4, <1>5, <2>2 DEF Within
  <2> QED
    BY <2>1, <2>2
<1>7. n.by <= d.o.at + MaxAge
  BY <1>3 DEF Continuing
<1>8. SamePlayback(n.o, b.o)
  BY <1>5 DEF Continuing, SamePlayback
<1> QED
  BY <1>1, <1>3, <1>6, <1>7, <1>8 DEF Renews

\* What is shown of the snapshot u that an observation leaves of t.
Shown(t, u, V) ==
    /\ u.completion = None => Attributed(u, V)
    /\ u.completion # None => Witnessing(u.completion, V)
    /\ u.evidence = "playing" =>
         \/ t.evidence = "playing" /\ u.latest = t.latest
         \/ \E a, b \in V : a.o.number < b.o.number /\ Advanced(V, a, b) /\ b.o = u.latest

LEMMA UnattributedShown ==
    ASSUME NEW t, NEW u, NEW V, u.completion = None, u.anchor = None, u.evidence # "playing"
    PROVE  Shown(t, u, V)
BY DEF Shown, Attributed

LEMMA FinishedShown ==
    ASSUME NEW t, NEW k, NEW W, NEW V, NEW n, NEW o, Continuing(k, W, V, n, o),
           NEW history \in BOOLEAN, o.sample.state = "idle", NaturalEnd(k, o),
           IF history THEN o.at <= k.anchor.at + MaxAge ELSE Exact(o)
    PROVE  Shown(t, Finished(k, o, history), V)
<1> DEFINE u == Finished(k, o, history)
           q == [number |-> o.number, identity |-> IF history THEN k.anchor.number ELSE o.number]
<1>1. /\ k \in Snapshot /\ Unchained(k) \in Snapshot /\ k.anchor # None /\ k.confirmed /\ ~k.stop
      /\ o \in Observation /\ k.anchor \in Observation
  BY UnchainedKeeps DEF Continuing, Good, Keeps, Follows, NaturalEnd, Snapshot
<1>2. u.completion = q /\ u.evidence # "playing" /\ q # None
  <2>1. u.completion = q /\ u.evidence # "playing"
    BY <1>1 DEF Finished, Snapshot
  <2>2. q \in Completion
    BY <1>1 DEF Completion, Observation
  <2> QED
    BY <2>1, <2>2
<1>3. PICK a \in W, b \in W : Proved(W, a, b, k.anchor) /\ Renews(W, b, n)
  BY <1>1, Continued
<1>4. V = W \cup {n} /\ Grows(W, n) /\ n.o = o
  BY <1>1 DEF Continuing
<1>5. a.o.number < b.o.number /\ Advanced(V, a, b) /\ b.o.number < n.o.number /\ Renews(V, b, n)
  BY <1>3, <1>4, AdvancedGrows, RenewsGrows DEF Proved, Grows
<1>6. ASSUME NEW e \in Within(V, b, n)
      PROVE  Heartbeat(e.o) \/ (Renews(V, b, e) /\ e.o.sample.state # "idle")
  <2>1. e \in W /\ e.o.number > b.o.number
    BY <1>4 DEF Within, Grows, Observation
  <2>2. Heartbeat(e.o) \/ (Renews(W, b, e) /\ e.o.sample.state # "idle")
    BY <1>3, <2>1 DEF Proved, Chain
  <2> QED
    BY <1>4, <2>1, <2>2, RenewsGrows
<1>7. \E i \in V : /\ i.o.number = q.identity /\ Exact(i.o) /\ b.o.number <= i.o.number
                   /\ o.at <= i.o.at + MaxAge
  <2>1. CASE history
    <3>1. PICK i \in W : i.o = k.anchor
      BY <1>1 DEF Continuing, Attributed
    <3>2. Exact(k.anchor) /\ b.o.number <= k.anchor.number
      BY <1>1, <1>3 DEF Continuing, Good, Coherent, Proved
    <3> QED
      BY <1>4, <2>1, <3>1, <3>2
  <2>2. CASE ~history
    <3>1. o.at \in Nat /\ MaxAge \in Nat /\ b.o.number \in Nat /\ o.number \in Nat
      BY <1>1, <1>4, PolicyAssumption DEF Observation, Grows
    <3> QED
      BY <1>4, <1>5, <2>2, <3>1
  <2> QED
    BY <2>1, <2>2
<1>8. n.o.sample.state = "idle" /\ n.o.sample.idle = "finished" /\ n.o.number = q.number
  BY <1>4 DEF NaturalEnd
<1> HIDE DEF q
<1>9. Witnessing(q, V)
  <2>1. PICK i \in V : /\ i.o.number = q.identity /\ Exact(i.o) /\ b.o.number <= i.o.number
                       /\ o.at <= i.o.at + MaxAge
    BY <1>7
  <2>2. a \in V /\ b \in V /\ n \in V /\ i \in V
    BY <1>4
  <2> QED
    BY <1>4, <1>5, <1>6, <1>8, <2>1, <2>2 DEF Witnessing
<1> HIDE DEF u
<1> QED
  BY <1>2, <1>9 DEF Shown, u

\* A sample without progress that keeps the confirmation: the anchor stays, or o is the anchor.
LEMMA RetainedShown ==
    ASSUME NEW t, NEW k, NEW W, NEW V, NEW n, NEW o, Continuing(k, W, V, n, o), NEW u,
           u.completion = None, u.evidence # "playing", u.latest = o, u.progress = None,
           u.confirmed => k.confirmed, u.stop = k.stop, u.anchor \in {k.anchor, o},
           o.sample.state = "idle" /\ k.anchor # None /\ k.confirmed => k.stop
    PROVE  Shown(t, u, V)
<1> SUFFICES ASSUME u.anchor # None PROVE Attributed(u, V)
  BY DEF Shown, Attributed
<1>1. o \in Observation /\ n.o = o /\ n \in V /\ ~Heartbeat(o) /\ Grows(W, n)
      /\ o # None /\ k.anchor \in Observation \cup {None} /\ o.number \in Nat
  BY DEF Continuing, Good, Snapshot, Observation
<1>2. \E e \in V : e.o = u.anchor
  BY <1>1 DEF Continuing, Attributed
<1>3. u.anchor.number <= o.number
  <2>1. CASE u.anchor = o
    BY <1>1, <2>1
  <2>2. CASE u.anchor = k.anchor
    <3>1. PICK e \in W : e.o = k.anchor
      BY <2>2 DEF Continuing, Attributed
    <3>2. e.o.number \in Nat /\ e.o.number < o.number
      BY <1>1, <3>1 DEF Grows, Observation
    <3> QED
      BY <1>1, <2>2, <3>1, <3>2
  <2> QED
    BY <2>1, <2>2
<1>4. ASSUME u.confirmed, ~u.stop PROVE \E a, b \in V : Proved(V, a, b, u.anchor)
  <2>1. k.confirmed /\ ~k.stop /\ k.anchor # None /\ o.sample.state # "idle"
    BY <1>4 DEF Continuing
  <2>2. PICK a \in W, b \in W : Proved(W, a, b, k.anchor) /\ Renews(W, b, n)
    BY <2>1, Continued
  <2>3. V = W \cup {n} /\ SamePlayback(k.anchor, o)
    BY <2>1 DEF Continuing
  <2>4. b.o.number <= u.anchor.number /\ SamePlayback(u.anchor, b.o)
    <3>1. b.o.number <= k.anchor.number /\ SamePlayback(k.anchor, b.o) /\ b.o.number < o.number
          /\ b.o.number \in Nat
      BY <1>1, <2>2 DEF Proved, Grows, Observation
    <3>2. CASE u.anchor = k.anchor
      BY <3>1, <3>2
    <3>3. CASE u.anchor = o
      <4>1. b.o.number <= o.number
        BY <1>1, <3>1
      <4> QED
        BY <2>3, <3>1, <3>3, <4>1 DEF SamePlayback
    <3> QED
      BY <3>2, <3>3
  <2>5. Proved(V, a, b, u.anchor)
    BY <1>1, <2>1, <2>2, <2>3, <2>4, ProvedGrows
  <2> QED
    BY <2>3, <2>5
<1> QED
  BY <1>1, <1>2, <1>3, <1>4 DEF Attributed

LEMMA PlayingShown ==
    ASSUME NEW t, NEW k, NEW W, NEW V, NEW n, NEW o, Continuing(k, W, V, n, o),
           Exact(o), o.sample.state = "playing", o.sample.position # None
    PROVE  Shown(t, Playing(k, o), V)
<1> DEFINE u == Playing(k, o)
           p == k.progress
           advanced == Progressed(p, o)
<1>1. /\ k \in Snapshot /\ Coherent(k) /\ k.completion = None
      /\ o \in Observation /\ n.o = o /\ n.by = now /\ n \in V /\ ~Heartbeat(o) /\ Grows(W, n)
      /\ V \subseteq W \cup {n} /\ o # None /\ o.number \in Nat
  BY DEF Continuing, Good, Observation
<1>2. /\ u.completion = None /\ u.latest = o /\ u.anchor = o /\ u.stop = k.stop
      /\ u.progress = ProgressFrom(p, o)
      /\ u.confirmed => k.confirmed \/ advanced
      /\ u.evidence = "playing" => advanced
  BY <1>1 DEF Playing, Snapshot
<1> HIDE DEF u
<1>3. ASSUME p # None
      PROVE  V = W \cup {n} /\ Measured(W, p, k.anchor) /\ SamePlayback(k.anchor, o)
  BY <1>3 DEF Continuing, Attributed
<1>4. ASSUME advanced
      PROVE  \E a \in W : V = W \cup {n} /\ a.o.number < n.o.number /\ Advanced(V, a, n)
  <2>1. p # None /\ V = W \cup {n} /\ Measured(W, p, k.anchor) /\ SamePlayback(k.anchor, o)
    BY <1>3, <1>4 DEF Progressed
  <2>2. PICK a \in W : a.o = p
    BY <2>1 DEF Measured
  <2>3. /\ Exact(a.o) /\ Exact(n.o) /\ a.o.sample.position # None /\ n.o.sample.position # None
        /\ n.o.sample.position > a.o.sample.position
        /\ n.o.at >= a.o.at + MinInterval /\ n.by <= a.o.at + MaxAge
    BY <1>1, <1>4, <2>1, <2>2 DEF Measured, Progressed, Coherent
  <2>4. ASSUME NEW e \in Within(W, a, n) \cup {a, n}
        PROVE  \/ Heartbeat(e.o)
               \/ Exact(e.o) /\ e.o.sample.state = "playing" /\ SamePlayback(e.o, n.o)
    <3>1. CASE e = n
      BY <1>1, <3>1 DEF SamePlayback
    <3>2. CASE e # n
      <4>1. e \in W /\ e.o.number >= p.number
        BY <1>1, <2>2, <3>2 DEF Within, Grows, Observation
      <4>2. Heartbeat(e.o) \/ (Exact(e.o) /\ e.o.sample.state = "playing" /\ SamePlayback(e.o, p))
        BY <2>1, <4>1 DEF Measured
      <4> QED
        BY <1>1, <2>1, <4>2 DEF Measured, SamePlayback
    <3> QED
      BY <3>1, <3>2
  <2>5. Advanced(W, a, n)
    BY <2>3, <2>4 DEF Advanced
  <2> QED
    BY <1>1, <2>1, <2>5, AdvancedGrows DEF Grows
<1>5. Measured(V, u.progress, o)
  <2>1. CASE u.progress = o
    <3>1. \A e \in V : e.o.number >= o.number => e = n
      BY <1>1 DEF Grows, Observation
    <3> QED
      BY <1>1, <2>1, <3>1 DEF Measured, SamePlayback
  <2>2. CASE u.progress # o
    <3>1. u.progress = p /\ p # None
      BY <1>2, <2>2 DEF ProgressFrom
    <3> QED
      BY <1>1, <1>3, <3>1, MeasuredGrows DEF SamePlayback
  <2> QED
    BY <2>1, <2>2
<1>6. ASSUME u.confirmed, ~u.stop PROVE \E a, b \in V : Proved(V, a, b, o)
  <2>1. CASE advanced
    <3>1. PICK a \in W : V = W \cup {n} /\ a.o.number < n.o.number /\ Advanced(V, a, n)
      BY <1>4, <2>1
    <3>2. Chain(V, n)
      BY <1>1, <3>1 DEF Chain, Grows, Observation
    <3> QED
      BY <1>1, <3>1, <3>2 DEF Proved, SamePlayback
  <2>2. CASE ~advanced
    <3>1. k.confirmed /\ ~k.stop /\ k.anchor # None
      BY <1>2, <1>6, <2>2 DEF Continuing
    <3>2. PICK a \in W, b \in W : Proved(W, a, b, k.anchor) /\ Renews(W, b, n)
      BY <3>1, Continued
    <3>3. V = W \cup {n} /\ SamePlayback(k.anchor, o)
      BY <3>1 DEF Continuing
    <3>4. b.o.number <= o.number /\ SamePlayback(o, b.o)
      BY <1>1, <3>2, <3>3 DEF Proved, SamePlayback, Grows, Observation
    <3>5. Proved(V, a, b, o)
      BY <1>1, <3>2, <3>3, <3>4, ProvedGrows
    <3> QED
      BY <3>3, <3>5
  <2> QED
    BY <2>1, <2>2
<1>7. Attributed(u, V)
  BY <1>1, <1>2, <1>5, <1>6 DEF Attributed
<1>8. u.evidence = "playing" =>
        \E a, b \in V : a.o.number < b.o.number /\ Advanced(V, a, b) /\ b.o = u.latest
  BY <1>1, <1>2, <1>4
<1> QED
  BY <1>2, <1>7, <1>8 DEF Shown, u

\* Content of this session, before anything has ended.
LEMMA ContentShown ==
    ASSUME NEW t, Good(t), t.completion = None, NEW W, NEW V, NEW n, NEW o \in Observation,
           n.o = o, n.by = now, ~Heartbeat(o), Grows(W, n), n \in V, V \subseteq W \cup {n},
           Attributed(t, W),
           t.anchor # None => V = W \cup {n} /\ now <= t.latest.at + MaxAge,
           NEW history \in BOOLEAN, IF history THEN Incremental(t, o) ELSE Exact(o)
    PROVE  Shown(t, Content(t, o, history), V)
<1> DEFINE k == IF Continues(t.anchor, o) THEN t ELSE Unchained(t)
           retain == o.sample.state \in {"paused", "buffering"}
           r == [k EXCEPT !.anchor = IF retain THEN o ELSE @]
           u == Content(t, o, history)
           idle == o.sample.state = "idle"
<1>1. Continuing(k, W, V, n, o)
  <2>1. CASE Continues(t.anchor, o)
    <3>1. t.anchor # None /\ SamePlayback(t.anchor, o)
      BY <2>1 DEF Continues, SamePlayback
    <3> QED
      BY <2>1, <3>1 DEF Continuing
  <2>2. CASE ~Continues(t.anchor, o)
    <3>1. Good(Unchained(t)) /\ Unchained(t).completion = None
      BY UnchainedKeeps DEF Keeps, Follows
    <3>2. Unchained(t).anchor = None /\ Unchained(t).progress = None /\ ~Unchained(t).confirmed
      BY DEF Unchained, Good, Snapshot
    <3> QED
      BY <2>2, <3>1, <3>2 DEF Continuing
  <2> QED
    BY <2>1, <2>2
<1>2. k \in Snapshot /\ k.completion = None
  BY <1>1 DEF Continuing, Good
<1>3. ASSUME history, k.anchor # None
      PROVE  k.confirmed /\ o.at <= k.anchor.at + MaxAge /\ (idle => o.sample.idle = "finished")
  <2>1. k = t
    BY <1>3 DEF Unchained, Good, Snapshot
  <2> QED
    BY <1>3, <2>1 DEF Incremental, Qualified
<1>4. \/ u = Stopped(k, o, "identity")
      \/ idle /\ NaturalEnd(k, o) /\ u = Finished(k, o, history)
      \/ history /\ ~(idle /\ NaturalEnd(k, o)) /\ u = Unconfirmed(k, o, FALSE, TRUE)
      \/ ~history /\ u = Unconfirmed(r, o, TRUE, retain)
      \/ u = Unconfirmed(k, o, TRUE, FALSE)
      \/ /\ ~history /\ o.sample.state = "playing" /\ o.sample.position # None
         /\ u = Playing(k, o)
  BY DEF Content
<1> HIDE DEF k, u
<1>5. CASE u = Stopped(k, o, "identity")
  <2>1. u.completion = None /\ u.anchor = None /\ u.evidence # "playing"
    BY <1>2, <1>5 DEF Stopped, Snapshot
  <2> QED
    BY <2>1, UnattributedShown DEF u
<1>6. CASE idle /\ NaturalEnd(k, o) /\ u = Finished(k, o, history)
  <2>1. IF history THEN o.at <= k.anchor.at + MaxAge ELSE Exact(o)
    BY <1>3, <1>6 DEF NaturalEnd
  <2> QED
    BY <1>1, <1>6, <2>1, FinishedShown DEF u
<1>7. CASE history /\ ~(idle /\ NaturalEnd(k, o)) /\ u = Unconfirmed(k, o, FALSE, TRUE)
  <2>1. /\ u.completion = None /\ u.evidence # "playing" /\ u.latest = o /\ u.progress = None
        /\ u.confirmed = k.confirmed /\ u.stop = k.stop /\ u.anchor = k.anchor
    BY <1>2, <1>7 DEF Unconfirmed, Snapshot
  <2>2. idle /\ k.anchor # None /\ k.confirmed => k.stop
    BY <1>3, <1>7 DEF NaturalEnd
  <2> QED
    BY <1>1, <2>1, <2>2, RetainedShown DEF u
<1>8. CASE ~history /\ u = Unconfirmed(r, o, TRUE, retain)
  <2>1. /\ u.completion = None /\ u.evidence # "playing" /\ u.latest = o /\ u.progress = None
        /\ u.confirmed = (retain /\ k.confirmed) /\ u.stop = k.stop
        /\ u.anchor = IF retain THEN o ELSE None
    BY <1>2, <1>8 DEF Unconfirmed, Snapshot
  <2>2. CASE retain
    BY <1>1, <2>1, <2>2, RetainedShown DEF u
  <2>3. CASE ~retain
    BY <2>1, <2>3, UnattributedShown DEF u
  <2> QED
    BY <2>2, <2>3
<1>9. CASE u = Unconfirmed(k, o, TRUE, FALSE)
  <2>1. u.completion = None /\ u.anchor = None /\ u.evidence # "playing"
    BY <1>2, <1>9 DEF Unconfirmed, Snapshot
  <2> QED
    BY <2>1, UnattributedShown DEF u
<1>10. CASE /\ ~history /\ o.sample.state = "playing" /\ o.sample.position # None
            /\ u = Playing(k, o)
  BY <1>1, <1>10, PlayingShown DEF u
<1> QED
  BY <1>4, <1>5, <1>6, <1>7, <1>8, <1>9, <1>10 DEF u

\* What keeps, or forgets, the chain of t shows nothing new.
LEMMA ForgettingShown ==
    ASSUME NEW t, NEW u, NEW V, Attributed(t, V), u.completion = None,
           \/ u.anchor = None
           \/ /\ u.anchor = t.anchor /\ u.latest = t.latest /\ u.progress = t.progress
              /\ u.confirmed = t.confirmed /\ u.stop = t.stop,
           \/ u.evidence # "playing"
           \/ u.evidence = t.evidence /\ u.latest = t.latest
    PROVE  Shown(t, u, V)
BY DEF Shown, Attributed

\* A heartbeat keeps what is attributed.
LEMMA HeartbeatAttributed ==
    ASSUME NEW t, NEW W, NEW n, Grows(W, n), Attributed(t, W), Heartbeat(n.o)
    PROVE  Attributed(t, W \cup {n})
<1> SUFFICES ASSUME t.anchor # None PROVE Attributed(t, W \cup {n})
  BY DEF Attributed
<1>1. t.progress # None => Measured(W \cup {n}, t.progress, t.anchor)
  BY MeasuredGrows DEF Attributed
<1>2. ASSUME t.confirmed, ~t.stop PROVE \E a, b \in W \cup {n} : Proved(W \cup {n}, a, b, t.anchor)
  <2>1. PICK a \in W, b \in W : Proved(W, a, b, t.anchor)
    BY <1>2 DEF Attributed
  <2>2. Proved(W \cup {n}, a, b, t.anchor)
    BY <2>1, ProvedGrows DEF Proved
  <2> QED
    BY <2>2
<1> QED
  BY <1>1, <1>2 DEF Attributed

\* What belongs to the history of a playback.
Usable(o) == ~o.sample.reset /\ (Heartbeat(o) \/ Exact(o) \/ Anonymous(o))

LEMMA MediaShown ==
    ASSUME NEW t, Good(t), t.completion = None, NEW W, NEW V, NEW n, NEW o \in Observation,
           n.o = o, n.by = now, Grows(W, n), V \subseteq W \cup {n}, Attributed(t, W),
           ~o.sample.reset, ~Heartbeat(o), ~Foreign(o),
           Usable(o) => n \in V /\ (t.anchor # None => V = W \cup {n}),
           t.anchor # None => now <= t.latest.at + MaxAge
    PROVE  Shown(t, Media(t, o), V)
<1> DEFINE history == Incremental(t, o)
           u == Media(t, o)
<1>1. o.sample \in Sample /\ t \in Snapshot
  BY PolicyAssumption DEF Observation, Good
<1>2. history \in BOOLEAN /\ (history => Anonymous(o))
  BY DEF Incremental, Anonymous
<1>3. \/ \E identity \in BOOLEAN : u = Unconfirmed(t, o, identity, FALSE)
      \/ /\ u = Content(t, o, history)
         /\ IF history THEN Incremental(t, o) ELSE Exact(o)
  <2>1. ASSUME o.sample.session # None, o.sample.content # None \/ history,
               o.sample.ad = "no", ~Unusable(o), ~history
        PROVE  Exact(o)
    BY <1>1, <2>1 DEF Exact, Foreign, Sample
  <2>2. (o.sample.content # None) \in BOOLEAN
    OBVIOUS
  <2>3. history => Incremental(t, o)
    OBVIOUS
  <2> HIDE DEF history
  <2> QED
    BY <2>1, <2>2, <2>3 DEF Media, history
<1> HIDE DEF history
<1>4. CASE \E identity \in BOOLEAN : u = Unconfirmed(t, o, identity, FALSE)
  <2>1. u.completion = None /\ u.anchor = None /\ u.evidence # "playing"
    BY <1>1, <1>4 DEF Unconfirmed, Snapshot
  <2> QED
    BY <2>1, UnattributedShown
<1>5. CASE u = Content(t, o, history) /\ IF history THEN Incremental(t, o) ELSE Exact(o)
  <2>1. n \in V /\ (t.anchor # None => V = W \cup {n})
    BY <1>2, <1>5 DEF Usable
  <2> HIDE DEF u
  <2> QED
    BY <1>2, <1>5, <2>1, ContentShown DEF u
<1> QED
  BY <1>3, <1>4, <1>5

LEMMA JudgedShown ==
    ASSUME NEW t, Good(t), t.completion = None, NEW W, NEW V, NEW n, NEW o \in Observation,
           n.o = o, n.by = now, Grows(W, n), V \subseteq W \cup {n}, Attributed(t, W),
           Usable(o) => n \in V /\ (t.anchor # None => V = W \cup {n}),
           t.anchor # None => now <= t.latest.at + MaxAge
    PROVE  Shown(t, Judged(t, o), V)
<1> DEFINE a == IF t.releaseAt # None /\ Contradicts(o) THEN Unreleased(t) ELSE t
           u == Judged(t, o)
<1>1. Good(a) /\ a.completion = None /\ t \in Snapshot
  BY UnreleasedKeeps DEF Keeps, Follows, Good
<1>2. /\ a.anchor = t.anchor /\ a.latest = t.latest /\ a.progress = t.progress
      /\ a.confirmed = t.confirmed /\ a.stop = t.stop /\ a.evidence = t.evidence
  BY <1>1 DEF Unreleased, Snapshot
<1>3. Attributed(a, W)
  BY <1>2 DEF Attributed
<1> HIDE DEF a
<1>4. ASSUME NEW b \in {t, a}
      PROVE  Lost(b, o).completion = None /\ Lost(b, o).anchor = None /\ Lost(b, o).evidence = "none"
  <2> DEFINE c == Unchained(b)
             d == Unreleased(c)
  <2>1. Good(c) /\ c \in Snapshot /\ b \in Snapshot /\ b.completion = None
    BY <1>1, UnchainedKeeps DEF Keeps, Follows, Good
  <2>2. c.completion = None /\ c.anchor = None
    BY <2>1 DEF Unchained, Snapshot
  <2> HIDE DEF c
  <2>3. d \in Snapshot
    BY <2>1, UnreleasedKeeps DEF Keeps, Follows, Good
  <2>4. d.completion = None /\ d.anchor = None
    BY <2>1, <2>2 DEF Unreleased, Snapshot
  <2>5. Lost(b, o) = [d EXCEPT !.state = "unknown", !.evidence = "none", !.lost = TRUE, !.latest = o]
    BY DEF Lost, c
  <2> HIDE DEF d
  <2> QED
    BY <2>3, <2>4, <2>5 DEF Snapshot
<1>5. Exited(a, o) = Lost(a, o)
      \/ (Exited(a, o).completion = None /\ Exited(a, o).anchor = None
            /\ Exited(a, o).evidence = "none")
  <2>1. ~ReleaseSeen(a, o)
    BY <1>1 DEF ReleaseSeen
  <2>2. Exited(a, o) = Lost(a, o) \/ Exited(a, o) = Stopped(a, o, "none")
    BY <2>1 DEF Exited
  <2> QED
    BY <1>1, <2>2 DEF Stopped, Good, Snapshot
<1>6. \/ u \in {Lost(t, o), Lost(a, o), Exited(a, o)}
      \/ ~o.sample.reset /\ Heartbeat(o) /\ u = a
      \/ ~o.sample.reset /\ ~Heartbeat(o) /\ ~Foreign(o) /\ u = Media(a, o)
  BY <1>1 DEF Judged, Historical, a
<1> HIDE DEF u
<1>7. CASE u \in {Lost(t, o), Lost(a, o), Exited(a, o)}
  BY <1>4, <1>5, <1>7, UnattributedShown DEF u
<1>8. CASE ~o.sample.reset /\ Heartbeat(o) /\ u = a
  <2>1. Attributed(a, V)
    <3>1. CASE a.anchor = None
      BY <3>1 DEF Attributed
    <3>2. CASE a.anchor # None
      BY <1>2, <1>3, <1>8, <3>2, HeartbeatAttributed DEF Usable
    <3> QED
      BY <3>1, <3>2
  <2> QED
    BY <1>1, <1>2, <1>8, <2>1 DEF Shown, u
<1>9. CASE ~o.sample.reset /\ ~Heartbeat(o) /\ ~Foreign(o) /\ u = Media(a, o)
  <2>1. Shown(a, u, V)
    BY <1>1, <1>2, <1>3, <1>9, MediaShown
  <2> QED
    BY <1>2, <2>1 DEF Shown, u
<1> QED
  BY <1>6, <1>7, <1>8, <1>9 DEF u

\* What a refresh, and the bookkeeping of an observation, leave of what is attributed.
LEMMA RefreshedAttributed ==
    ASSUME NEW t, Good(t), NEW W, Attributed(t, W)
    PROVE  LET u == Refreshed(t) IN
           /\ Attributed(u, W) /\ u.completion = t.completion /\ u.lastNumber = t.lastNumber
           /\ u.evidence = "playing" => t.evidence = "playing" /\ u.latest = t.latest
           /\ u.lost = t.lost
           /\ u.anchor # None /\ ~u.lost => u.latest # None /\ now <= u.latest.at + MaxAge
<1> DEFINE u == Refreshed(t)
           k == Unchained(t)
           v == [k EXCEPT !.state = Concluded(t), !.evidence = "none"]
<1>1. t \in Snapshot /\ k \in Snapshot
  BY UnchainedKeeps DEF Keeps, Follows, Good
<1>2. k.anchor = None /\ k.completion = t.completion /\ k.lastNumber = t.lastNumber /\ k.lost = t.lost
  BY <1>1 DEF Unchained, Snapshot
<1>3. u = v \/ (u = t /\ (t.latest = None \/ t.lost \/ now <= t.latest.at + MaxAge))
  BY DEF Refreshed
<1> HIDE DEF k, u
<1>4. CASE u = v
  <2>1. /\ v.anchor = None /\ v.completion = t.completion /\ v.lastNumber = t.lastNumber
        /\ v.lost = t.lost /\ v.evidence = "none"
    BY <1>1, <1>2 DEF Snapshot
  <2> HIDE DEF v
  <2> QED
    BY <1>4, <2>1 DEF Attributed, u
<1>5. CASE u = t /\ (t.latest = None \/ t.lost \/ now <= t.latest.at + MaxAge)
  <2>1. t.anchor # None => t.latest # None
    BY DEF Attributed
  <2> QED
    BY <1>5, <2>1 DEF u
<1> QED
  BY <1>3, <1>4, <1>5

LEMMA TrackedAttributed ==
    ASSUME NEW t, Good(t), NEW o \in Observation, NEW W, Attributed(t, W)
    PROVE  LET u == Tracked(t, o) IN
           /\ Attributed(u, W) /\ u.completion = t.completion /\ u.lastNumber = o.number
           /\ u.evidence = t.evidence /\ u.latest = t.latest
           /\ u.anchor # None => u.anchor = t.anchor /\ ~AfterGap(t, o)
<1> DEFINE k == IF AfterGap(t, o) THEN Unreleased(Unchained(t)) ELSE t
           u == Tracked(t, o)
<1>1. /\ k \in Snapshot /\ k.completion = t.completion
      /\ k.evidence = t.evidence /\ k.latest = t.latest
      /\ IF AfterGap(t, o) THEN k.anchor = None ELSE k = t
  <2> DEFINE c == Unchained(t)
  <2>1. Good(c) /\ c \in Snapshot /\ t \in Snapshot
    BY UnchainedKeeps DEF Keeps, Follows, Good
  <2>2. c.completion = t.completion /\ c.evidence = t.evidence /\ c.latest = t.latest
        /\ c.anchor = None
    BY <2>1 DEF Unchained, Snapshot
  <2>3. k = IF AfterGap(t, o) THEN Unreleased(c) ELSE t
    OBVIOUS
  <2> HIDE DEF c, k
  <2>4. Unreleased(c) \in Snapshot
    BY <2>1, UnreleasedKeeps DEF Keeps, Follows, Good
  <2>5. /\ Unreleased(c).completion = c.completion /\ Unreleased(c).evidence = c.evidence
        /\ Unreleased(c).latest = c.latest /\ Unreleased(c).anchor = c.anchor
    BY <2>1 DEF Unreleased, Snapshot
  <2> QED
    BY <2>1, <2>2, <2>3, <2>4, <2>5
<1>2. u = [k EXCEPT !.lastNumber = o.number, !.lastAt = o.at]
  BY DEF Tracked
<1> HIDE DEF k
<1>3. /\ u.completion = k.completion /\ u.lastNumber = o.number /\ u.evidence = k.evidence
      /\ u.latest = k.latest /\ u.anchor = k.anchor /\ u.progress = k.progress
      /\ u.confirmed = k.confirmed /\ u.stop = k.stop
  BY <1>1, <1>2 DEF Snapshot
<1> HIDE DEF u
<1> QED
  BY <1>1, <1>3 DEF Attributed, u

\* An accepted observation, before anything has ended.
LEMMA ObserveShown ==
    ASSUME WatchInv, KeepWatch, snap.completion = None, NEW o \in Observation, Observe(o)
    PROVE  /\ Shown(snap, snap', watch')
           /\ snap'.lastNumber = o.number
           /\ Numbered(watch', o.number)
<1> DEFINE t == Refreshed(snap)
           u == Tracked(t, o)
           n == [o |-> o, by |-> now]
<1>1. Good(snap) /\ Attributed(snap, watch) /\ Numbered(watch, snap.lastNumber)
  BY DEF WatchInv, PolicyTypeOK, Good
<1>2. Good(t) /\ Good(u)
  BY <1>1, RefreshedKeeps, TrackedKeeps DEF Keeps, Follows
<1>3. /\ Attributed(t, watch) /\ t.completion = None /\ t.lastNumber = snap.lastNumber
      /\ t.evidence = "playing" => snap.evidence = "playing" /\ t.latest = snap.latest
      /\ t.anchor # None /\ ~t.lost => t.latest # None /\ now <= t.latest.at + MaxAge
  BY <1>1, RefreshedAttributed
<1>4. /\ ~t.lost /\ o.number > t.lastNumber /\ snap' = Judged(u, o) /\ watch' = Watched(o)
  BY DEF Observe, Accepts
<1> HIDE DEF t
<1>5. /\ Attributed(u, watch) /\ u.completion = None /\ u.lastNumber = o.number
      /\ u.evidence = t.evidence /\ u.latest = t.latest
      /\ u.anchor # None => u.anchor = t.anchor /\ ~AfterGap(t, o)
  BY <1>2, <1>3, TrackedAttributed
<1>6. Grows(watch, n)
  <2>1. snap.lastNumber \in Nat \cup {-1} /\ o.number \in Nat
    BY <1>1 DEF Good, Snapshot, Observation
  <2>2. \A e \in watch : e.o.number \in Nat
    BY <1>1 DEF Numbered, Observation
  <2> QED
    BY <1>1, <1>3, <1>4, <2>1, <2>2 DEF Numbered, Grows
<1>7. Usable(o) => n \in watch' /\ (u.anchor # None => watch' = watch \cup {n})
  <2> SUFFICES ASSUME Usable(o)
               PROVE  n \in watch' /\ (u.anchor # None => watch' = watch \cup {n})
    OBVIOUS
  <2>1. watch' = (IF \E e \in watch : e.o.number + 1 = o.number THEN watch ELSE {}) \cup {n}
    BY <1>4 DEF Watched, Usable
  <2>2. ASSUME u.anchor # None PROVE \E e \in watch : e.o.number + 1 = o.number
    <3>1. watch # {} /\ ~AfterGap(t, o)
      BY <1>5, <2>2 DEF Attributed
    <3>2. PICK e \in watch : e.o.number = snap.lastNumber
      BY <1>1, <3>1 DEF Numbered
    <3>3. e.o.number \in Nat /\ o.number \in Nat
      BY <1>1 DEF Numbered, Observation
    <3> QED
      BY <1>3, <1>4, <3>1, <3>2, <3>3 DEF AfterGap
  <2> QED
    BY <2>1, <2>2
<1>8. watch' \subseteq watch \cup {n} /\ (watch' # {} => n \in watch')
  BY <1>4 DEF WatchInv, Watched
<1>9. u.anchor # None => now <= u.latest.at + MaxAge
  BY <1>3, <1>4, <1>5
<1>10. Shown(u, Judged(u, o), watch')
  <2>1. n.o = o /\ n.by = now
    OBVIOUS
  <2> HIDE DEF n, u
  <2> QED
    BY <1>2, <1>5, <1>6, <1>7, <1>8, <1>9, <2>1, JudgedShown
<1>11. Shown(snap, snap', watch')
  BY <1>3, <1>4, <1>5, <1>10 DEF Shown
<1>12. snap'.lastNumber = o.number
  BY <1>2, <1>4, <1>5, JudgedShows DEF Shows
<1>13. Numbered(watch', o.number)
  BY <1>6, <1>8 DEF Grows, Numbered, Observation
<1> QED
  BY <1>11, <1>12, <1>13

\* After a completion no observation confirms playback.
LEMMA HistoricalShown ==
    ASSUME NEW t, Good(t), t.completion # None, NEW o \in Observation, NEW V,
           Judged(t, o).completion # None => Witnessing(Judged(t, o).completion, V),
           Judged(t, o).completion # None
    PROVE  Shown(t, Judged(t, o), V)
<1> DEFINE a == IF t.releaseAt # None /\ Contradicts(o) THEN Unreleased(t) ELSE t
           u == Judged(t, o)
<1>1. Good(a) /\ a \in Snapshot /\ t \in Snapshot /\ a.completion # None
  BY UnreleasedKeeps DEF Keeps, Follows, Good
<1>2. a.latest = t.latest /\ a.evidence = t.evidence
  BY <1>1 DEF Unreleased, Snapshot
<1> HIDE DEF a
<1>3. ASSUME NEW b \in {t, a} PROVE Lost(b, o).evidence = "none"
  <2> DEFINE d == Unreleased(Unchained(b))
  <2>1. d \in Snapshot
    BY <1>1, ForgottenKeeps DEF Keeps, Follows, Good
  <2>2. Lost(b, o) = [d EXCEPT !.state = "unknown", !.evidence = "none", !.lost = TRUE, !.latest = o]
    BY DEF Lost
  <2> HIDE DEF d
  <2> QED
    BY <2>1, <2>2 DEF Snapshot
<1>4. Exited(a, o).evidence = "none"
  BY <1>1, <1>3 DEF Exited, Stopped, Snapshot
<1>5. \/ u \in {Lost(t, o), Lost(a, o), Exited(a, o), a}
      \/ u = [a EXCEPT !.latest = o, !.state = "ended", !.evidence = "none"]
  BY <1>1 DEF Judged, Historical, a
<1>6. u.evidence = "playing" => t.evidence = "playing" /\ u.latest = t.latest
  <2> HIDE DEF u
  <2> QED
    BY <1>1, <1>2, <1>3, <1>4, <1>5 DEF Snapshot
<1> QED
  BY <1>6 DEF Shown

\* What ConfirmedByAdvance says of a step.
Confirms ==
    snap'.evidence = "playing" =>
        \/ snap.evidence = "playing" /\ snap'.latest = snap.latest
        \/ \E a, b \in watch' :
              a.o.number < b.o.number /\ Advanced(watch', a, b) /\ b.o = snap'.latest

\* Steps that observe nothing.
LEMMA SteadyWatch ==
    ASSUME WatchInv, PolicyTypeOK', watch' = watch,
           snap'.completion = snap.completion, snap'.lastNumber = snap.lastNumber,
           \/ snap'.anchor = None
           \/ /\ snap'.anchor = snap.anchor /\ snap'.latest = snap.latest
              /\ snap'.progress = snap.progress /\ snap'.confirmed = snap.confirmed
              /\ snap'.stop = snap.stop,
           snap'.evidence = "playing" => snap.evidence = "playing" /\ snap'.latest = snap.latest
    PROVE  WatchInv' /\ Confirms
<1>1. Numbered(watch, snap.lastNumber) => Numbered(watch, snap.lastNumber)'
  BY DEF Numbered
<1>2. Attributed(snap, watch) => Attributed(snap, watch)'
  <2> SUFFICES ASSUME Attributed(snap, watch), snap'.anchor # None PROVE Attributed(snap', watch')
    BY DEF Attributed
  <2> QED
    BY DEF Attributed
<1> QED
  BY <1>1, <1>2 DEF WatchInv, Confirms

LEMMA ObserveWatch ==
    ASSUME WatchInv, KeepWatch, PolicyTypeOK', NEW o \in Observation, Observe(o)
    PROVE  WatchInv' /\ Confirms
<1>1. CASE snap.completion = None
  <2>1. /\ Shown(snap, snap', watch') /\ snap'.lastNumber = o.number
        /\ Numbered(watch', o.number)
    BY <1>1, ObserveShown
  <2> QED
    BY <2>1 DEF Shown, WatchInv, Confirms
<1>2. CASE snap.completion # None
  <2> DEFINE t == Refreshed(snap)
             u == Tracked(t, o)
  <2>1. watch' = watch /\ snap' = Judged(u, o)
    BY <1>2 DEF Observe, Watched
  <2>2. snap'.completion = snap.completion
    <3>1. PolicyTypeOK
      BY DEF WatchInv
    <3> QED
      BY <1>2, <3>1, ObserveStep DEF Final
  <2>3. Good(snap) /\ Keeps(snap, t) /\ Good(t)
    BY RefreshedKeeps DEF WatchInv, PolicyTypeOK, Good, Keeps, Follows
  <2>4. Good(u) /\ u.completion = snap.completion
    BY <2>3, TrackedKeeps DEF Keeps, Follows
  <2>5. u.evidence = "playing" => snap.evidence = "playing" /\ u.latest = snap.latest
    <3>1. Attributed(t, {}) \/ t.anchor # None
      BY DEF Attributed
    <3>2. t.evidence = "playing" => snap.evidence = "playing" /\ t.latest = snap.latest
      <4>1. t = snap \/ t = [Unchained(snap) EXCEPT !.state = Concluded(snap), !.evidence = "none"]
        BY DEF Refreshed
      <4>2. Unchained(snap) \in Snapshot
        BY <2>3, UnchainedKeeps DEF Keeps, Follows, Good
      <4> QED
        BY <4>1, <4>2 DEF Snapshot
    <3>3. u.evidence = t.evidence /\ u.latest = t.latest
      <4> DEFINE k == IF AfterGap(t, o) THEN Unreleased(Unchained(t)) ELSE t
      <4>1. k \in Snapshot /\ k.evidence = t.evidence /\ k.latest = t.latest
        <5>1. Unchained(t) \in Snapshot /\ t \in Snapshot /\ Unreleased(Unchained(t)) \in Snapshot
          BY <2>3, UnchainedKeeps, ForgottenKeeps DEF Keeps, Follows, Good
        <5> QED
          BY <5>1 DEF Unchained, Unreleased, Snapshot
      <4>2. u = [k EXCEPT !.lastNumber = o.number, !.lastAt = o.at]
        BY DEF Tracked
      <4> HIDE DEF k, t, u
      <4> QED
        BY <4>1, <4>2 DEF Snapshot
    <3> QED
      BY <3>2, <3>3
  <2> HIDE DEF t, u
  <2>6. Witnessing(snap'.completion, watch')
    BY <1>2, <2>1, <2>2 DEF WatchInv
  <2>7. Shown(u, snap', watch')
    BY <1>2, <2>1, <2>2, <2>4, <2>6, HistoricalShown
  <2> QED
    BY <1>2, <2>2, <2>5, <2>6, <2>7 DEF Shown, WatchInv, Confirms
<1> QED
  BY <1>1, <1>2

LEMMA OtherWatch ==
    ASSUME WatchInv, PolicyTypeOK',
           \/ Refresh \/ Tick \/ UNCHANGED policyVars \/ RequestStop \/ RequestRelease
           \/ WithdrawRelease \/ Disown \/ InvalidateHistory
           \/ \E action, outcome : RecordReceipt(action, outcome)
    PROVE  WatchInv' /\ Confirms
<1>1. Good(snap) /\ snap \in Snapshot
  BY DEF WatchInv, PolicyTypeOK, Good
<1>2. CASE Tick \/ UNCHANGED policyVars
  <2>1. snap' = snap /\ watch' = watch
    BY <1>2 DEF Tick, policyVars
  <2> QED
    BY <2>1, SteadyWatch
<1>3. CASE Refresh
  <2>1. Unchained(snap) \in Snapshot
    BY <1>1, UnchainedKeeps DEF Keeps, Follows, Good
  <2>2. snap' = snap
        \/ snap' = [Unchained(snap) EXCEPT !.state = Concluded(snap), !.evidence = "none"]
    BY <1>3 DEF Refresh, Refreshed
  <2>3. /\ snap'.completion = snap.completion /\ snap'.lastNumber = snap.lastNumber
        /\ snap' = snap \/ (snap'.anchor = None /\ snap'.evidence = "none")
    BY <1>1, <2>1, <2>2 DEF Unchained, Snapshot
  <2> QED
    BY <1>3, <2>3, SteadyWatch DEF Refresh
<1>4. CASE RequestStop \/ \E action, outcome : RecordReceipt(action, outcome)
  <2> DEFINE k == Ending(snap)
  <2>1. k \in Snapshot
    BY <1>1, EndingKeeps
  <2>2. /\ k.completion = snap.completion /\ k.lastNumber = snap.lastNumber
        /\ k.anchor = None /\ k.evidence = "none"
    BY <1>1 DEF Ending, Snapshot
  <2>3. /\ watch' = watch
        /\ \/ snap' = [k EXCEPT !.stopAt = now]
           \/ snap' = [k EXCEPT !.granted = FALSE]
           \/ \E action, outcome :
                 snap' = [snap EXCEPT !.granted = (action = "release" /\ outcome = "accepted")]
    BY <1>4 DEF RequestStop, RecordReceipt
  <2> HIDE DEF k
  <2>4. CASE snap' = [k EXCEPT !.stopAt = now] \/ snap' = [k EXCEPT !.granted = FALSE]
    <3>1. /\ snap'.completion = snap.completion /\ snap'.lastNumber = snap.lastNumber
          /\ snap'.anchor = None /\ snap'.evidence = "none"
      BY <2>1, <2>2, <2>4 DEF Snapshot
    <3> QED
      BY <2>3, <3>1, SteadyWatch
  <2>5. ASSUME NEW g, snap' = [snap EXCEPT !.granted = g]
        PROVE  WatchInv' /\ Confirms
    <3>1. /\ snap'.completion = snap.completion /\ snap'.lastNumber = snap.lastNumber
          /\ snap'.anchor = snap.anchor /\ snap'.latest = snap.latest
          /\ snap'.progress = snap.progress /\ snap'.confirmed = snap.confirmed
          /\ snap'.stop = snap.stop /\ snap'.evidence = snap.evidence
      BY <1>1, <2>5 DEF Snapshot
    <3> QED
      BY <2>3, <3>1, SteadyWatch
  <2> QED
    BY <2>3, <2>4, <2>5
<1>5. CASE RequestRelease \/ WithdrawRelease
  <2>1. /\ watch' = watch /\ snap'.completion = snap.completion /\ snap'.lastNumber = snap.lastNumber
        /\ snap'.anchor = snap.anchor /\ snap'.latest = snap.latest
        /\ snap'.progress = snap.progress /\ snap'.confirmed = snap.confirmed
        /\ snap'.stop = snap.stop /\ snap'.evidence = snap.evidence
    <3>1. CASE RequestRelease
      <4>1. watch' = watch /\ snap' = [snap EXCEPT !.releaseAt = now, !.released = FALSE]
        BY <3>1 DEF RequestRelease
      <4> QED
        BY <1>1, <4>1 DEF Snapshot
    <3>2. CASE WithdrawRelease
      <4>1. watch' = watch /\ snap' = Unreleased(snap)
        BY <3>2 DEF WithdrawRelease
      <4> QED
        BY <1>1, <4>1 DEF Unreleased, Snapshot
    <3> QED
      BY <1>5, <3>1, <3>2
  <2> QED
    BY <2>1, SteadyWatch
<1>6. CASE Disown
  <2> DEFINE k == Unchained(snap)
  <2>1. k \in Snapshot /\ k.completion = snap.completion /\ k.lastNumber = snap.lastNumber
        /\ k.anchor = None
    BY <1>1, UnchainedKeeps DEF Keeps, Follows, Good, Unchained, Snapshot
  <2>2. snap' = [k EXCEPT !.lost = TRUE, !.evidence = "none"] /\ watch' = watch
    BY <1>6 DEF Disown
  <2> HIDE DEF k
  <2>3. snap'.completion = snap.completion /\ snap'.lastNumber = snap.lastNumber
        /\ snap'.anchor = None /\ snap'.evidence = "none"
    BY <2>1, <2>2 DEF Snapshot
  <2> QED
    BY <2>2, <2>3, SteadyWatch
<1>7. CASE InvalidateHistory
  <2> DEFINE k == Unchained(snap)
             d == Unreleased(k)
  <2>1. k \in Snapshot /\ k.completion = snap.completion /\ k.lastNumber = snap.lastNumber
        /\ k.anchor = None /\ d \in Snapshot
    BY <1>1, UnchainedKeeps, ForgottenKeeps DEF Keeps, Follows, Good, Unchained, Snapshot
  <2>2. snap' = [d EXCEPT !.state = Concluded(snap), !.evidence = "none"] /\ watch' = watch
    BY <1>7 DEF InvalidateHistory
  <2> HIDE DEF k
  <2>3. d.completion = snap.completion /\ d.lastNumber = snap.lastNumber /\ d.anchor = None
    BY <2>1 DEF Unreleased, Snapshot
  <2> HIDE DEF d
  <2>4. snap'.completion = snap.completion /\ snap'.lastNumber = snap.lastNumber
        /\ snap'.anchor = None /\ snap'.evidence = "none"
    BY <2>1, <2>2, <2>3 DEF Snapshot
  <2> QED
    BY <2>2, <2>4, SteadyWatch
<1> QED
  BY <1>2, <1>3, <1>4, <1>5, <1>6, <1>7

LEMMA InitWatch == Init => WatchInv
<1> SUFFICES ASSUME Init PROVE WatchInv
  OBVIOUS
<1>1. snap.completion = None /\ snap.anchor = None /\ watch = {}
  BY DEF Init
<1> QED
  BY <1>1, InitGood DEF WatchInv, Numbered, Attributed

LEMMA StepWatch ==
    ASSUME WatchInv, KeepWatch, [Next]_policyVars
    PROVE  WatchInv' /\ Confirms
<1>1. now \in Nat /\ PolicyTypeOK'
  BY PolicyAssumption, StepGood DEF WatchInv, PolicyTypeOK
<1>2. ASSUME NEW x \in Samples, NEW n \in 0..Horizon - 1, NEW at \in 1..now,
             Observe([sample |-> x, number |-> n, at |-> at])
      PROVE  WatchInv' /\ Confirms
  <2>1. [sample |-> x, number |-> n, at |-> at] \in Observation
    BY <1>1, PolicyAssumption DEF Observation
  <2> QED
    BY <1>1, <1>2, <2>1, ObserveWatch
<1>3. ASSUME NEW change \in Changes, Change(change) PROVE WatchInv' /\ Confirms
  BY <1>1, <1>3, OtherWatch DEF Change
<1>4. ASSUME Refresh \/ Tick \/ UNCHANGED policyVars PROVE WatchInv' /\ Confirms
  BY <1>1, <1>4, OtherWatch
<1> QED
  BY <1>2, <1>3, <1>4 DEF Next

\* For any samples in any order, at any age: a natural end is concluded only from an end of
\* this content that was watched, from real progress on and without a break.
THEOREM CompletionsAreWitnessed ==
    ASSUME KeepWatch PROVE Spec => []CompletionWitnessed
<1>1. WatchInv /\ [Next]_policyVars => WatchInv'
  BY StepWatch
<1>2. WatchInv => CompletionWitnessed
  <2> SUFFICES ASSUME WatchInv, snap.completion # None PROVE CompletionWitnessed
    BY DEF CompletionWitnessed
  <2>1. \A a, b : Between(a, b) = Within(watch, a, b)
    BY DEF Between, Within
  <2>2. \A a, b : Advanced(watch, a, b) => Advance(a, b)
    BY <2>1 DEF Advanced, Advance
  <2>3. PICK a \in watch, b \in watch, f \in watch, i \in watch :
          /\ a.o.number < b.o.number /\ Advanced(watch, a, b)
          /\ b.o.number < f.o.number /\ Renews(watch, b, f)
          /\ \A e \in Within(watch, b, f) :
                Heartbeat(e.o) \/ (Renews(watch, b, e) /\ e.o.sample.state # "idle")
          /\ f.o.number = snap.completion.number
          /\ f.o.sample.state = "idle" /\ f.o.sample.idle = "finished"
          /\ i.o.number = snap.completion.identity
          /\ Exact(i.o) /\ b.o.number <= i.o.number
          /\ f.o.at <= i.o.at + MaxAge
    BY Zenon DEF WatchInv, Witnessing
  <2>4. Unbroken(b, f)
    BY <2>1, <2>3 DEF Unbroken, Renews
  <2> QED
    BY <2>2, <2>3, <2>4, Zenon DEF CompletionWitnessed
<1> QED
  BY InitWatch, <1>1, <1>2, PTL DEF Spec

\* For any samples in any order, at any age: playback is confirmed only at a sample to which
\* the same playback really advanced, watched without a break.
THEOREM ConfirmationsAdvance ==
    ASSUME KeepWatch PROVE Spec => ConfirmedByAdvance
<1> DEFINE A == snap'.evidence = "playing" =>
                  \/ snap.evidence = "playing" /\ snap'.latest = snap.latest
                  \/ \E a, b \in watch' :
                        a.o.number < b.o.number /\ Advance(a, b)' /\ b.o = snap'.latest
<1>1. WatchInv /\ [Next]_policyVars => WatchInv' /\ A
  <2>1. Confirms => A
    BY DEF Confirms, Advanced, Advance, Within, Between
  <2> QED
    BY <2>1, StepWatch
<1> QED
  BY InitWatch, <1>1, PTL DEF Spec, ConfirmedByAdvance
=============================================================================
