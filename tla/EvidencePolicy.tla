--------------------------- MODULE EvidencePolicy ---------------------------
(***************************************************************************)
(* What one playback session is known to have done: src/tellyq/domain/     *)
(* policy.py over the snapshot of src/tellyq/domain/values.py, with the    *)
(* moments at which the application changes that snapshot itself.          *)
(*                                                                         *)
(* An observation is a sample of the receiver, numbered and timed by the   *)
(* adapter.  It reaches the policy late, more than once, out of order or   *)
(* not at all.  Session and application of a sample are one field, content *)
(* is this session's or another, and wall-clock records and the display    *)
(* report, which decide nothing, are left out.  The scope starts at 0.     *)
(***************************************************************************)
EXTENDS Integers

CONSTANTS
    Samples,          \* what observations may say, beside their number and time
    MaxAge,           \* max_age_seconds
    MinInterval,      \* min_progress_interval_seconds
    None,             \* Python's None
    Horizon,          \* bound on the clock, and so on the numbers of observations
    Changes,          \* bound: the other changes of the snapshot explored
    KeepWatch         \* whether the history "watch" is kept, for what is said about it

Tri          == {"yes", "no", "unknown"}
PlayerState  == {"unknown", "idle", "buffering", "playing", "paused"}
Conclusion   == PlayerState \cup {"ended", "stopped"}
Evidence     == {"none", "identity", "playing"}
ContentPhase == {"unknown", "playing", "paused", "buffering", "finished", "ad"}

\* PlaybackObservation; `mine' is the scope's target and connection generation.
Sample ==
    [mine : BOOLEAN, session : {"own", "other", None}, content : {"own", "other", None},
     state : PlayerState, position : Nat \cup {None}, ad : Tri,
     idle : {"finished", "canceled", "error", None}, playback : {"p", "q", None},
     active : Tri, reset : BOOLEAN, identity : {"explicit", "omitted", "unknown"},
     source : {"s", "t", None}, phase : ContentPhase]

ASSUME PolicyAssumption ==
    /\ Samples \subseteq Sample
    /\ \A x \in Samples : x.active = "no" => x.session = None /\ x.content = None
    /\ MaxAge \in Nat /\ MinInterval \in 1..MaxAge
    /\ Horizon \in Nat
    /\ KeepWatch \in BOOLEAN

Observation == [sample : Samples, number : Nat, at : Nat]

\* CompletionEvidence: the observation of the end, and the one it is attributed to.
Completion == [number : Nat, identity : Nat]

\* SessionSnapshot; evidence is identity_confirmed and receiver_playback_confirmed,
\* granted says that the last receipt is an accepted RELEASE.
Snapshot ==
    [state : Conclusion, evidence : Evidence, granted : BOOLEAN,
     latest : Observation \cup {None}, progress : Observation \cup {None},
     confirmed : BOOLEAN, anchor : Observation \cup {None},
     completion : Completion \cup {None},
     stop : BOOLEAN, stopAt : Nat \cup {None}, lastNumber : Nat \cup {-1},
     lastAt : Nat, lost : BOOLEAN, releaseAt : Nat \cup {None}, released : BOOLEAN]

\* None is no value of an optional field.
ASSUME NoneAssumption ==
    None \notin Observation \cup Completion \cup Nat \cup {"s", "t", "p", "q", "own", "other"}

VARIABLES
    now,              \* the process's monotonic clock
    snap,             \* the SessionSnapshot
    watch,            \* history: the accepted observations that follow one another
                      \* unbroken, and when each was judged
    seen              \* history: when the first stop was asked for, the last exit
                      \* observed, and the last activity observed or possibly missed

policyVars == <<now, snap, watch, seen>>

Init ==
    /\ now = 0
    /\ snap = [state |-> "unknown", evidence |-> "none", granted |-> FALSE, latest |-> None,
               progress |-> None, confirmed |-> FALSE, anchor |-> None, completion |-> None,
               stop |-> FALSE, stopAt |-> None, lastNumber |-> -1, lastAt |-> 0,
               lost |-> FALSE, releaseAt |-> None, released |-> FALSE]
    /\ watch = {}
    /\ seen = [asked |-> None, gone |-> 0, unrest |-> 0]

-----------------------------------------------------------------------------
(* Ageing and acceptance.                                                  *)

Concluded(t) == IF t.completion # None THEN "ended" ELSE "unknown"

\* What every end of the attribution chain forgets.
Unchained(t) == [t EXCEPT !.progress = None, !.anchor = None, !.confirmed = FALSE]

\* Mutant of Unreleased: only the boundary is forgotten.
BoundaryForgotten(t) == [t EXCEPT !.releaseAt = None]

Unreleased(t) == [t EXCEPT !.releaseAt = None, !.released = FALSE]

\* refresh(): media evidence that was not renewed in time is no evidence.
Refreshed(t) ==
    IF t.latest = None \/ t.lost \/ now <= t.latest.at + MaxAge THEN t
    ELSE [Unchained(t) EXCEPT !.state = Concluded(t), !.evidence = "none"]

Fresh(o) == o.at <= now /\ now <= o.at + MaxAge

Accepts(t, o) ==
    /\ ~t.lost
    /\ o.sample.mine
    /\ Fresh(o)
    /\ o.number > t.lastNumber
    /\ o.at > t.lastAt

\* Mutant of AfterGap: nothing is remembered as missing.
NoGap(t, o) == FALSE

AfterGap(t, o) == t.lastNumber >= 0 /\ o.number > t.lastNumber + 1

\* A missing observation may have been anything.
Tracked(t, o) ==
    [(IF AfterGap(t, o) THEN Unreleased(Unchained(t)) ELSE t)
        EXCEPT !.lastNumber = o.number, !.lastAt = o.at]

-----------------------------------------------------------------------------
(* One accepted observation.                                               *)

Lost(t, o) ==
    [Unreleased(Unchained(t)) EXCEPT
        !.state = "unknown", !.evidence = "none", !.lost = TRUE, !.latest = o]

Unconfirmed(t, o, identity, retain) ==
    [t EXCEPT !.latest = o,
              !.state = IF identity THEN o.sample.state ELSE "unknown",
              !.evidence = IF identity THEN "identity" ELSE "none",
              !.progress = None,
              !.anchor = IF retain THEN @ ELSE None,
              !.confirmed = retain /\ @]

Stopped(t, o, evidence) ==
    [t EXCEPT !.latest = o, !.state = "stopped", !.evidence = evidence,
              !.progress = None, !.anchor = None]

\* Activity after a release was asked for is not the idle receiver it waits for.
Contradicts(o) == o.sample.ad = "yes" \/ o.sample.state \in {"playing", "paused"}

\* Mutant of ReleaseSeen: any accepted release receipt will do.
ReleaseSeenEarly(t, o) == t.releaseAt # None /\ t.completion # None /\ ~t.stop /\ t.granted

ReleaseSeen(t, o) ==
    /\ t.releaseAt # None
    /\ o.at > t.releaseAt
    /\ t.completion # None
    /\ ~t.stop
    /\ t.granted

\* Mutant of StopSeen: an exit seen before the request answers it.
StopSeenEarly(t, o) == t.stop /\ t.stopAt # None

StopSeen(t, o) == t.stop /\ t.stopAt # None /\ o.at > t.stopAt

\* The session is explicitly gone.
Exited(t, o) ==
    IF ReleaseSeen(t, o)
    THEN [t EXCEPT !.latest = o, !.state = "ended", !.released = TRUE, !.evidence = "none"]
    ELSE IF StopSeen(t, o) THEN Stopped(t, o, "none")
    ELSE Lost(t, o)

Foreign(o) == o.sample.session = "other" \/ o.sample.content = "other"

\* A matching receiver status supplies ownership, never media evidence.
Heartbeat(o) == o.sample.active = "yes" /\ o.sample.session = "own"

Phase(state) ==
    CASE state = "idle"    -> "finished"
      [] state = "unknown" -> "none"
      [] OTHER             -> state

\* The provider's interpretation is of this state, and of content.
Qualified(o) ==
    /\ o.sample.source # None
    /\ o.sample.phase = Phase(o.sample.state)
    /\ o.sample.ad = "no"
    /\ o.sample.state = "idle" => o.sample.idle = "finished"

\* An anonymous update continues the recent exact content of the same playback.
Incremental(t, o) ==
    /\ o.sample.content = None
    /\ o.sample.identity = "omitted"
    /\ Qualified(o)
    /\ t.anchor # None
    /\ t.confirmed
    /\ t.anchor.sample.playback # None
    /\ t.anchor.sample.playback = o.sample.playback
    /\ t.anchor.sample.session = "own" /\ o.sample.session = "own"
    /\ t.anchor.at < o.at /\ o.at <= t.anchor.at + MaxAge
    /\ t.anchor.number < o.number
    /\ t.anchor.sample.content = "own"
    /\ t.anchor.sample.identity = "explicit"
    /\ t.anchor.sample.source = o.sample.source

Unusable(o) ==
    o.sample.source # None /\ (~Qualified(o) \/ o.sample.identity = "unknown")

Backwards(p, o) == p.sample.position # None /\ o.sample.position # None
                   /\ o.sample.position < p.sample.position

\* Mutant of Continues: the playback may be another one.
ContinuesAny(p, o) == p # None /\ ~Backwards(p, o)

Continues(p, o) ==
    /\ p # None
    /\ p.sample.playback = o.sample.playback
    /\ p.sample.source = o.sample.source
    /\ ~Backwards(p, o)

Finished(t, o, history) ==
    [Unchained(t) EXCEPT
        !.latest = o, !.state = "ended",
        !.evidence = IF history THEN "none" ELSE "identity",
        !.completion = [number |-> o.number,
                        identity |-> IF history THEN t.anchor.number ELSE o.number]]

\* The position advanced over a long enough, recent enough interval.
Progressed(p, o) ==
    /\ p # None
    /\ p.sample.playback = o.sample.playback
    /\ now <= p.at + MaxAge
    /\ o.at >= p.at + MinInterval
    /\ o.sample.position > p.sample.position

\* The sample from which the next progress is measured.
ProgressFrom(p, o) ==
    IF \/ p = None
       \/ p.sample.playback # o.sample.playback
       \/ Progressed(p, o)
       \/ Backwards(p, o)
       \/ o.at >= p.at + MaxAge
    THEN o ELSE p

Playing(t, o) ==
    LET advanced == Progressed(t.progress, o) IN
    [t EXCEPT !.latest = o, !.state = "playing",
              !.progress = ProgressFrom(@, o), !.anchor = o,
              !.confirmed = @ \/ advanced,
              !.evidence = IF advanced THEN "playing" ELSE "identity"]

\* Mutant of NaturalEnd: a stop request does not withdraw a natural end.
EndInSpiteOfStop(t, o) == o.sample.idle = "finished" /\ t.confirmed /\ t.anchor # None

NaturalEnd(t, o) ==
    o.sample.idle = "finished" /\ t.confirmed /\ t.anchor # None /\ ~t.stop

\* Content of this session that is no ad.
Content(t, o, history) ==
    LET sample == o.sample
        k == IF Continues(t.anchor, o) THEN t ELSE Unchained(t)
        retain == sample.state \in {"paused", "buffering"}
    IN IF sample.state = "idle" /\ t.stop /\ sample.idle = "canceled"
       THEN Stopped(k, o, "identity")
       ELSE IF sample.state = "idle" /\ NaturalEnd(k, o) THEN Finished(k, o, history)
       ELSE IF history THEN Unconfirmed(k, o, FALSE, TRUE)
       ELSE IF sample.state # "playing"
       THEN Unconfirmed([k EXCEPT !.anchor = IF retain THEN o ELSE @], o, TRUE, retain)
       ELSE IF sample.position = None THEN Unconfirmed(k, o, TRUE, FALSE)
       ELSE Playing(k, o)

Media(t, o) ==
    LET history == Incremental(t, o) IN
    IF o.sample.session = None \/ (o.sample.content = None /\ ~history)
    THEN Unconfirmed(t, o, FALSE, FALSE)
    ELSE IF o.sample.ad # "no" THEN Unconfirmed(t, o, o.sample.content # None, FALSE)
    ELSE IF Unusable(o) THEN Unconfirmed(t, o, FALSE, FALSE)
    ELSE Content(t, o, history)

\* Later messages neither revoke nor repeat a witnessed end.
Historical(t) == t.completion # None

Judged(t, o) ==
    LET a == IF t.releaseAt # None /\ Contradicts(o) THEN Unreleased(t) ELSE t IN
    IF o.sample.reset THEN Lost(t, o)
    ELSE IF o.sample.active = "no" THEN Exited(a, o)
    ELSE IF Foreign(o) THEN Lost(a, o)
    ELSE IF Heartbeat(o) THEN a
    ELSE IF Historical(a)
    THEN [a EXCEPT !.latest = o, !.state = "ended", !.evidence = "none"]
    ELSE Media(a, o)

-----------------------------------------------------------------------------
(* Steps.                                                                  *)

\* A usable sample of this session's content, and no ad.
Exact(o) ==
    /\ o.sample.session = "own" /\ o.sample.content = "own" /\ o.sample.ad = "no"
    /\ ~Unusable(o)

\* A sample that names no content but is of ordinary content.
Anonymous(o) ==
    /\ o.sample.session = "own" /\ o.sample.content = None
    /\ o.sample.identity = "omitted" /\ Qualified(o)

\* History: a missed number, or anything but a heartbeat and this session's ordinary
\* content, breaks the watch; what led to a completion is kept.
Watched(o) ==
    IF snap.completion # None \/ ~KeepWatch THEN watch
    ELSE IF o.sample.reset \/ ~(Heartbeat(o) \/ Exact(o) \/ Anonymous(o)) THEN {}
    ELSE (IF \E e \in watch : e.o.number + 1 = o.number THEN watch ELSE {})
             \cup {[o |-> o, by |-> now]}

\* History: an exit, and what no idle receiver would report.
Seen(o) ==
    LET active == o.sample.ad = "yes" \/ o.sample.state \in {"playing", "paused"}
        missed == snap.lastNumber >= 0 /\ o.number # snap.lastNumber + 1 IN
    [seen EXCEPT !.gone = IF o.sample.active = "no" THEN o.at ELSE @,
                 !.unrest = IF active \/ missed THEN o.at ELSE @]

\* observe() of an observation it accepts; of the numbers still to come one gap is
\* as good as a longer one.
Observe(o) ==
    LET t == Refreshed(snap) IN
    /\ o.number <= snap.lastNumber + 2
    /\ Accepts(t, o)
    /\ snap' = Judged(Tracked(t, o), o)
    /\ watch' = Watched(o)
    /\ seen' = Seen(o)
    /\ UNCHANGED now

\* refresh(), and observe() of an observation it does not accept.
Refresh ==
    /\ snap' = Refreshed(snap)
    /\ UNCHANGED <<now, watch, seen>>

\* request_stop() ends natural advancement, with or without a boundary.
Ending(t) ==
    [t EXCEPT !.stop = TRUE, !.anchor = None, !.confirmed = FALSE, !.evidence = "none"]

Asking == seen' = [seen EXCEPT !.asked = IF @ = None THEN now ELSE @]

\* The application's stop, recorded before the remote stop is sent.
RequestStop ==
    /\ ~snap.lost
    /\ snap' = [Ending(snap) EXCEPT !.stopAt = now]
    /\ Asking
    /\ UNCHANGED <<now, watch>>

\* release() of a completed session, before its effect.
RequestRelease ==
    /\ snap.completion # None
    /\ ~snap.lost
    /\ ~snap.stop
    /\ snap' = [snap EXCEPT !.releaseAt = now, !.released = FALSE]
    /\ UNCHANGED <<now, watch, seen>>

\* The release authority was contradicted while its effect was observed.
WithdrawRelease ==
    /\ snap.releaseAt # None
    /\ snap' = Unreleased(snap)
    /\ UNCHANGED <<now, watch, seen>>

\* record_receipt(): a receipt is never evidence of playback.
RecordReceipt(action, outcome) ==
    /\ IF action = "stop" THEN snap' = [Ending(snap) EXCEPT !.granted = FALSE] /\ Asking
       ELSE /\ snap' = [snap EXCEPT !.granted = (action = "release" /\ outcome = "accepted")]
            /\ UNCHANGED seen
    /\ UNCHANGED <<now, watch>>

\* status() of a completed session that can no longer be reconciled.
Disown ==
    /\ snap.completion # None
    /\ snap' = [Unchained(snap) EXCEPT !.lost = TRUE, !.evidence = "none"]
    /\ UNCHANGED <<now, watch, seen>>

\* invalidate_history() at a boundary where observations are known to be missing.
InvalidateHistory ==
    /\ snap' = [Unreleased(Unchained(snap)) EXCEPT !.state = Concluded(snap), !.evidence = "none"]
    /\ UNCHANGED <<now, watch, seen>>

Tick ==
    /\ now < Horizon
    /\ now' = now + 1
    /\ UNCHANGED <<snap, watch, seen>>

Change(change) ==
    \/ change = "stop" /\ (RequestStop \/ RecordReceipt("stop", "unknown"))
    \/ change = "release" /\ (RequestRelease \/ WithdrawRelease)
    \/ change = "release" /\ \E outcome \in {"accepted", "unknown"} :
                                RecordReceipt("release", outcome)
    \/ change = "disown" /\ Disown
    \/ change = "invalidate" /\ InvalidateHistory

Next ==
    \/ \E x \in Samples, n \in 0..Horizon - 1, at \in 1..now :
          Observe([sample |-> x, number |-> n, at |-> at])
    \/ Refresh
    \/ \E change \in Changes : Change(change)
    \/ Tick

Spec == Init /\ [][Next]_policyVars

-----------------------------------------------------------------------------
(* Properties.                                                             *)

\* Progress is measured from a position, the anchor is an exact sample of this content,
\* and only a requested release of an ended session is confirmed.
Coherent(t) ==
    /\ t.progress # None => t.progress.sample.position # None
    /\ t.anchor # None => Exact(t.anchor)
    /\ t.releaseAt # None => t.completion # None
    /\ t.released => t.releaseAt # None
    /\ t.completion # None => t.completion.identity <= t.completion.number

\* The snapshot keeps its shape and its parts agree with one another.
PolicyTypeOK == now \in 0..Horizon /\ snap \in Snapshot /\ Coherent(snap)

SamePlayback(o, p) ==
    o.sample.playback = p.sample.playback /\ o.sample.source = p.sample.source

Between(a, b) == {e \in watch : a.o.number < e.o.number /\ e.o.number < b.o.number}

\* Two entries, fresh together, between which the playback only advanced.
Advance(a, b) ==
    /\ Exact(a.o) /\ Exact(b.o)
    /\ a.o.sample.position # None /\ b.o.sample.position # None
    /\ b.o.sample.position > a.o.sample.position
    /\ b.o.at >= a.o.at + MinInterval
    /\ b.by <= a.o.at + MaxAge
    /\ \A e \in Between(a, b) \cup {a, b} :
          \/ Heartbeat(e.o)
          \/ Exact(e.o) /\ e.o.sample.state = "playing" /\ SamePlayback(e.o, b.o)

\* One playback was watched from entry a to entry f, and no media sample was judged
\* after the one before it had expired.
Unbroken(a, f) ==
    \A e \in Between(a, f) \cup {f} :
        \/ Heartbeat(e.o)
        \/ /\ SamePlayback(e.o, a.o)
           /\ e.o.sample.state = "idle" => e = f
           /\ \E d \in Between(a, e) \cup {a} : ~Heartbeat(d.o) /\ e.by <= d.o.at + MaxAge

\* A natural end is concluded only from an end of this content, watched from real
\* progress on without a break, and attributed to an exact sample that is still fresh.
CompletionWitnessed ==
    snap.completion # None =>
        \E a, b, f, i \in watch :
            /\ a.o.number < b.o.number /\ Advance(a, b)
            /\ b.o.number < f.o.number /\ Unbroken(b, f)
            /\ f.o.number = snap.completion.number
            /\ f.o.sample.state = "idle" /\ f.o.sample.idle = "finished"
            /\ i.o.number = snap.completion.identity
            /\ Exact(i.o) /\ b.o.number <= i.o.number
            /\ f.o.at <= i.o.at + MaxAge

\* Playback is confirmed only at a sample to which the same playback, watched without
\* a break, really advanced.
ConfirmedByAdvance ==
    [][snap'.evidence = "playing" =>
          \/ snap.evidence = "playing" /\ snap'.latest = snap.latest
          \/ \E a, b \in watch' :
                a.o.number < b.o.number /\ Advance(a, b)' /\ b.o = snap'.latest]_policyVars

\* Stopped is concluded only after a request, from an exit observed later than the
\* first one or from a cancellation of this very content.
StopObserved ==
    snap.state = "stopped" =>
        /\ seen.asked # None
        /\ LET o == snap.latest IN
           \/ o.sample.active = "no" /\ o.at > seen.asked
           \/ Exact(o) /\ o.sample.idle = "canceled"

\* A release is confirmed only for a completed session, by an exit observed after the
\* request, with no sample since the request missing or showing activity.
ReleaseObserved ==
    snap.released =>
        /\ snap.completion # None
        /\ seen.unrest <= snap.releaseAt /\ snap.releaseAt < seen.gone

\* A completion is never revoked or replaced, lost ownership never returns, and
\* neither a lost nor a stopped session completes afterwards.
HistoryIsFinal ==
    [][/\ snap.lost => snap'.lost
       /\ snap.stop => snap'.stop
       /\ snap.lost \/ snap.stop \/ snap.completion # None =>
             snap'.completion = snap.completion]_policyVars

=============================================================================
