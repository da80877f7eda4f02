------------------------------ MODULE Handoff ------------------------------
(***************************************************************************)
(* Evidence for the hand-over from one programme to the next: the tracker  *)
(* of src/tellyq/handoff.py, the receiver check of                         *)
(* src/tellyq/domain/queue_policy.py, and what the task reads of the       *)
(* session snapshot (how the snapshot comes about is in EvidencePolicy).   *)
(*                                                                         *)
(* An observation is reduced to what it says of the owned session.  Its    *)
(* mark says how it follows the one before: after a missing number, after  *)
(* more than five seconds, or too old when it is judged.                   *)
(***************************************************************************)
EXTENDS Integers, SequencesExt

CONSTANTS ItemCount, None

Items == 1..ItemCount

\* "play" confirms progress of the owned content, "end" is its qualified terminal, "rest" an
\* explicit idle or buffering status of it, "alive" and "idle" are receiver statuses.
Kind == {"play", "end", "rest", "ad", "alive", "idle", "other", "reset"}
Mark == {"plain", "gap", "late", "stale"}

Event == [kind : Kind, mark : Mark, number : Nat, gen : Nat]

\* SessionSnapshot; "carried": requested under an earlier connection, without a boundary.
Snapshot ==
    [attempt : Items, gen : Nat, last : Nat, confirmed : BOOLEAN, ended : Nat,
     stop : {"none", "asked", "carried"}, stopped : BOOLEAN, lost : BOOLEAN,
     asked : BOOLEAN, released : BOOLEAN, granted : BOOLEAN]

\* ReleaseAuthority
Authority == [terminal : Nat, last : Nat, blocked : BOOLEAN]

ASSUME HandoffAssumption ==
    ItemCount \in Nat \ {0} /\ None \notin Nat \cup Snapshot \cup Authority

NewSnapshot(item, gen, stop, ended) ==
    [attempt |-> item, gen |-> gen, last |-> 0, confirmed |-> FALSE, ended |-> ended,
     stop |-> stop, stopped |-> FALSE, lost |-> FALSE,
     asked |-> FALSE, released |-> FALSE, granted |-> FALSE]

-----------------------------------------------------------------------------
(* The session snapshot.                                                   *)

Unreleased(t) == [t EXCEPT !.asked = FALSE, !.released = FALSE]

Lost(t) == [Unreleased(t) EXCEPT !.lost = TRUE, !.confirmed = FALSE]

\* What is forgotten before an accepted observation is read.
Aged(t, e) ==
    LET u == IF t.last > 0 /\ e.number > t.last + 1
             THEN [Unreleased(t) EXCEPT !.confirmed = FALSE]
             ELSE [t EXCEPT !.confirmed = @ /\ e.mark # "late"]
        v == IF e.kind \in {"play", "ad"} THEN Unreleased(u) ELSE u
    IN  [v EXCEPT !.last = e.number]

Exited(t) ==
    IF t.asked /\ t.granted /\ t.ended > 0 /\ t.stop = "none"
    THEN [t EXCEPT !.released = TRUE]
    ELSE IF t.stop = "asked" THEN [t EXCEPT !.stopped = TRUE] ELSE Lost(t)

\* policy.observe()
Seen(t, e) ==
    IF t.lost \/ e.gen # t.gen \/ e.mark = "stale" \/ e.number <= t.last THEN t
    ELSE LET u == Aged(t, e)
             terminal == e.kind = "end" /\ u.confirmed /\ u.stop = "none"
         IN CASE e.kind \in {"reset", "other"}      -> Lost(u)
              [] e.kind = "idle"                    -> Exited(u)
              [] e.kind = "play" /\ t.ended = 0     -> [u EXCEPT !.confirmed = TRUE]
              [] terminal /\ t.ended = 0            -> [u EXCEPT !.ended = e.number]
              [] e.kind \in {"end", "ad"} /\ ~terminal /\ t.ended = 0
                                                    -> [u EXCEPT !.confirmed = FALSE]
              [] OTHER                              -> u

Applied(t, events) ==
    LET after[k \in 0..Len(events)] == IF k = 0 THEN t ELSE Seen(after[k - 1], events[k])
    IN  after[Len(events)]

LastOf(events, Test(_)) ==
    LET k == SelectLastInSeq(events, Test) IN IF k = 0 THEN None ELSE events[k]

Receiver(e) == e.kind \in {"alive", "idle", "other"}
Media(e)    == e.kind \in {"play", "end", "rest", "ad", "other", "reset"}

\* _reconcile(): the window shows the owned session alive, maybe on another connection;
\* None where it raises.
Reconciled(t, events) ==
    LET latest == LastOf(events, LAMBDA e : Receiver(e) /\ e.mark # "stale")
    IN  IF latest = None \/ latest.kind # "alive" THEN None
        ELSE LET s == IF latest.gen = t.gen THEN t
                      ELSE NewSnapshot(t.attempt, latest.gen,
                                       IF t.stop = "none" THEN "none" ELSE "carried", t.ended)
                 u == Applied(s, events)
             IN  IF u.lost THEN None ELSE u

-----------------------------------------------------------------------------
(* The tracker.                                                            *)

\* _veto_reason()
Veto(t, e, a) ==
    \/ e.number # a.last + 1
    \/ e.mark = "late"
    \/ e.gen # t.gen
    \/ e.kind \in {"reset", "ad", "other", "play"}

\* Mutant of Blocks: a harmless observation lifts the veto.
BlocksUntilNext(t, e, a) == Veto(t, e, a)

Blocks(t, e, a) == a.blocked \/ Veto(t, e, a)

\* One observation, once.
Follows(t, b, e) ==
    IF e.number <= b.last THEN b
    ELSE [b EXCEPT !.last = e.number, !.blocked = Blocks(t, e, b)]

\* track_release(): from the terminal on, every observation once.
Tracked(t, events, a) ==
    LET found == \E k \in DOMAIN events : events[k].number = t.ended
        begun == IF a # None THEN a
                 ELSE [terminal |-> t.ended, last |-> t.ended, blocked |-> FALSE]
        after[k \in 0..Len(events)] ==
            IF k = 0 THEN begun ELSE Follows(t, after[k - 1], events[k])
    IN  IF t = None THEN a
        ELSE IF t.ended = 0 \/ (a = None /\ ~found) THEN None
        ELSE after[Len(events)]

\* may_release(), where the terminal and the statuses are fresh.
MayRelease(t, a, events) ==
    LET receiver == LastOf(events, Receiver)
        media    == LastOf(events, Media)
    IN  /\ a # None /\ ~a.blocked
        /\ t.ended > 0 /\ ~t.lost /\ t.stop = "none" /\ a.terminal = t.ended
        /\ receiver # None /\ receiver.kind = "alive" /\ receiver.gen = t.gen
        /\ media # None /\ media.kind \in {"rest", "end"} /\ media.gen = t.gen

-----------------------------------------------------------------------------
(* The receiver before a start.                                            *)

\* Mutant of Idle: the receiver was idle at some time of the window.
IdleAtSomeTime(events, gen) ==
    \E k \in DOMAIN events : events[k].kind = "idle" /\ events[k].gen = gen

\* _idle(), where the observation is fresh.
Idle(events, gen) ==
    /\ events # <<>>
    /\ Last(events).kind = "idle"
    /\ Last(events).gen = gen
    /\ Last(events).mark # "stale"
    /\ \A k \in DOMAIN events : events[k].kind # "reset"

\* _receiver_ready() of the last observation of a window already applied to t; without an
\* idle receiver it also takes the terminal itself, which the task's own checks refuse.
ReceiverReady(t, events, gen) ==
    LET latest == Last(events)
    IN  /\ events # <<>>
        /\ t # None => latest.number >= t.last
        /\ latest.gen = gen
        /\ latest.mark # "stale"
        /\ latest.kind = "idle"
=============================================================================
