--------------------------- MODULE NativeTracking ---------------------------
(***************************************************************************)
(* Passive observation of a receiver that plays a queue of its own: the    *)
(* trackers of src/tellyq/native_observation.py, and what the native task  *)
(* reads of a session snapshot (how it comes about is in EvidencePolicy).  *)
(*                                                                         *)
(* An observation names what it is of: a status of the owned receiver      *)
(* session, its exit, another session, a reset of the connection, or       *)
(* playback, or the end, of the content of an item; item 0 is any other    *)
(* content.  Its mark says that observations before it are missing.        *)
(***************************************************************************)
EXTENDS Integers, SequencesExt

CONSTANTS ItemCount, None

Items == 1..ItemCount

Kind  == {"alive", "exit", "foreign", "reset", "play", "end"}
Said  == [kind : Kind, item : {0} \cup Items]
Event == [kind : Kind, item : {0} \cup Items, gap : BOOLEAN, gen : Nat]

\* SessionSnapshot; confirmed is receiver_playback_confirmed, gone: its latest observation
\* is the exit of the receiver session.
Snapshot ==
    [item : Items, gen : Nat, confirmed : BOOLEAN, ended : BOOLEAN, stop : BOOLEAN,
     gone : BOOLEAN, lost : BOOLEAN]

\* NativePlaybackTracker; waiting: the content that may still precede its own, 0: none.
Tracker ==
    [item : Items, waiting : {0} \cup Items, gen : Nat, receiver : BOOLEAN,
     snap : Snapshot \cup {None}, refused : BOOLEAN]

ASSUME ItemAssumption ==
    ItemCount \in Nat \ {0} /\ None \notin Nat \cup Snapshot \cup Tracker

NewSnapshot(item, gen) ==
    [item |-> item, gen |-> gen, confirmed |-> FALSE, ended |-> FALSE, stop |-> FALSE,
     gone |-> FALSE, lost |-> FALSE]

NewTracker(item, waiting, gen) ==
    [item |-> item, waiting |-> waiting, gen |-> gen, receiver |-> FALSE,
     snap |-> None, refused |-> FALSE]

Playback(e) == e.kind \in {"play", "end"}

LostSession(t) == [t EXCEPT !.lost = TRUE, !.confirmed = FALSE]

\* What shows that the owned session is no longer the one observed.
Departs(t, e) ==
    \/ e.kind = "exit" /\ ~t.stop
    \/ e.kind \in {"foreign", "reset"}
    \/ Playback(e) /\ e.item # t.item

\* policy.observe()
Seen(t, e) ==
    LET u == [t EXCEPT !.confirmed = @ /\ ~e.gap]
        its == Playback(e) /\ e.item = t.item
    IN  IF t.lost \/ e.gen # t.gen THEN t
        ELSE CASE e.kind = "exit" /\ t.stop -> [u EXCEPT !.gone = TRUE, !.confirmed = FALSE]
               [] Departs(t, e)             -> LostSession(u)
               [] its /\ e.kind = "play" /\ ~t.ended
                                            -> [u EXCEPT !.confirmed = TRUE, !.gone = FALSE]
               [] its /\ e.kind = "end" /\ u.confirmed /\ ~u.stop
                                            -> [u EXCEPT !.ended = TRUE, !.confirmed = FALSE]
               [] OTHER                     -> u

\* policy.invalidate_history()
Forgotten(t) == IF t = None THEN None ELSE [t EXCEPT !.confirmed = FALSE]

\* Mutant of Unexpected: the content before its own is expected at any time.
UnexpectedEver(r, e) == Playback(e) /\ e.item \notin {r.item, r.waiting}

\* The content that waits for its end is expected only until the successor was entered.
Unexpected(r, e) ==
    /\ Playback(e) /\ e.item # r.item
    /\ ~(r.snap = None /\ e.item = r.waiting)

Refusal(r, e) ==
    \/ e.kind \in {"reset", "exit", "foreign"}
    \/ e.gen # r.gen
    \/ Unexpected(r, e)

\* _observe()
Tracks(r, e) ==
    LET s == IF e.gap THEN [r EXCEPT !.receiver = FALSE, !.snap = Forgotten(@)] ELSE r
        begun == IF s.snap = None THEN NewSnapshot(r.item, r.gen) ELSE s.snap
    IN  IF r.refused THEN r
        ELSE IF Refusal(r, e)
        THEN [s EXCEPT !.refused = TRUE, !.receiver = FALSE,
                       !.snap = IF @ = None THEN None ELSE LostSession(@)]
        ELSE CASE e.kind = "alive"              -> [s EXCEPT !.receiver = TRUE]
               [] Playback(e) /\ ~s.receiver    -> [s EXCEPT !.snap = Forgotten(@)]
               [] Playback(e) /\ s.receiver /\ e.item = r.item
                                                -> [s EXCEPT !.snap = Seen(begun, e)]
               [] OTHER                         -> s

\* Every observation of a window in turn.
TracksAll(r, events) ==
    LET after[k \in 0..Len(events)] == IF k = 0 THEN r ELSE Tracks(after[k - 1], events[k])
    IN  IF r = None THEN None ELSE after[Len(events)]

Applied(t, events) ==
    LET after[k \in 0..Len(events)] == IF k = 0 THEN t ELSE Seen(after[k - 1], events[k])
    IN  IF t = None THEN None ELSE after[Len(events)]

\* ready, where the receiver status is fresh.
Ready(r) ==
    /\ r # None
    /\ ~r.refused /\ r.receiver
    /\ r.snap # None /\ ~r.snap.lost /\ r.snap.confirmed
=============================================================================
