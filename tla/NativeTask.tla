----------------------------- MODULE NativeTask -----------------------------
(***************************************************************************)
(* The playback task over a queue that the receiver plays by itself,       *)
(* src/tellyq/native_task.py: one successor at a time is enqueued while    *)
(* its predecessor plays, and adopted when its playback is observed.       *)
(*                                                                         *)
(* The launch of the first item and the effect of a STOP are those of      *)
(* PlaybackTask, taken here in one step each, and its PAUSE and RESUME are *)
(* left out; the claims of the native operations are those of              *)
(* QueueExecutor.  The rows are those of QueueStore that the task decides  *)
(* by.  Another thread may ask for cancellation, the connection may be     *)
(* reset, and the process may die, at any time; an exception ends the task *)
(* as a crash does.  Ages against the clock are left open: what they are   *)
(* asked of is fresh or is not.                                            *)
(***************************************************************************)
EXTENDS NativeTracking, FiniteSets

CONSTANTS
    Windows,          \* what an observation window may say: sequences of Said
    MaxStops,         \* bound on the STOP commands of clients
    MaxResets         \* bound on the lost connections of a process

ASSUME WindowAssumption ==
    Windows \subseteq Seq(Said) /\ MaxStops \in Nat /\ MaxResets \in Nat

Intent      == {"pending", "current", "finished", "needs_attention", "stopped"}
Reservation == {"none", "reserved", "adopted", "exit"}
ExecState   == {"none", "dispatched", "acknowledged", "rejected", "uncertain"}

VARIABLES
    intent,           \* journal: intent of each item and so of its only attempt
    reservation,      \* journal: the reservation of the successor of an item
    enqueue, clear,   \* journal: its PLAY_NEXT and CLEAR operations
    canceled, hold,   \* journal: cancellation_requested, reconciliation_required
    stops,            \* journal: STOP commands so far
    saved,            \* session store: the items whose snapshot is on disk
    latch,            \* Cancellation.requested of this process
    active,           \* _started
    recovering,       \* _recovering
    seen,             \* _observed_generation
    own,              \* _playback
    current,          \* _current_tracker
    successor,        \* _successor_tracker
    pending,          \* predecessor of the reservation that _pending_stop waits for
    asked,            \* STOP commands received so far
    pc,               \* where the owner thread is; "down": no process
    then,             \* what called _observe_native(): a step, a STOP or its conclusion
    gen,              \* external: the connection generation of the adapter
    witness           \* history: what was observed of the reserved successor, and the item
                      \* for whose handoff a stop is kept, 0 once its connection was lost

Rows    == <<reservation, enqueue, clear>>
Journal == <<intent, Rows, canceled, hold, stops>>
Process == <<active, recovering, seen, own, current, successor, pending>>
Rest    == <<latch, asked, gen>>

vars == <<Journal, saved, Process, pc, then, Rest, witness>>

NoWitness == [alive |-> FALSE, entered |-> FALSE, broken |-> FALSE, deferred |-> None]

Init ==
    /\ intent = [i \in Items |-> "pending"]
    /\ reservation = [i \in Items |-> "none"]
    /\ enqueue = [i \in Items |-> "none"] /\ clear = [i \in Items |-> "none"]
    /\ canceled = FALSE /\ hold = FALSE /\ stops = 0
    /\ saved = {}
    /\ latch = FALSE
    /\ active = FALSE /\ recovering = FALSE /\ seen = None /\ own = None
    /\ current = None /\ successor = None /\ pending = None
    /\ asked = 0 /\ pc = "idle" /\ then = "step" /\ gen = 0
    /\ witness = NoWitness

Attempted == {i \in Items : intent[i] # "pending"}
Attempt   == Cardinality(Attempted)

Outstanding == {i \in Items : reservation[i] = "reserved"}
Sent(i)     == enqueue[i] \in {"dispatched", "acknowledged", "uncertain"}

-----------------------------------------------------------------------------
(* An observation window.                                                  *)

Resets(said, k) == Cardinality({j \in 1..(k - 1) : said[j].kind = "reset"})

Window(said, gap) ==
    [k \in DOMAIN said |->
        [kind |-> said[k].kind, item |-> said[k].item, gap |-> gap /\ k = 1,
         gen |-> gen + Resets(said, k)]]

HasReset(w) == \E k \in DOMAIN w : w[k].kind = "reset"

\* One connection is lost at most.
Windowed(Step(_)) ==
    \E said \in Windows, gap \in BOOLEAN :
        LET w == Window(said, gap)
        IN  /\ gap => w # <<>>
            /\ gen' = IF HasReset(w) THEN gen + 1 ELSE gen
            /\ gen' <= MaxResets
            /\ Step(w)

\* The history, of what was said only: the window that shows another connection begins it
\* anew, and is no evidence itself.
Note(h, e) ==
    LET g == IF e.gap THEN [h EXCEPT !.alive = FALSE, !.entered = FALSE] ELSE h
        i == Attempt
    IN  CASE e.kind = "alive" -> [g EXCEPT !.alive = TRUE]
          [] e.kind = "play" /\ e.item = i + 1 -> [g EXCEPT !.entered = g.alive]
          [] e.kind = "play" /\ e.item = i     -> [g EXCEPT !.broken = @ \/ g.entered]
          [] e.kind = "end" /\ e.item \in {i, i + 1} -> g
          [] OTHER -> [g EXCEPT !.broken = TRUE]

Noted(h, w) ==
    LET after[k \in 0..Len(w)] == IF k = 0 THEN h ELSE Note(after[k - 1], w[k])
    IN  after[Len(w)]

Witnessed(w) ==
    IF HasReset(w) \/ (w # <<>> /\ seen # None /\ Last(w).gen # seen)
    THEN [NoWitness EXCEPT !.deferred = IF witness.deferred = None THEN None ELSE 0]
    ELSE Noted(witness, w)

-----------------------------------------------------------------------------
(* Others.                                                                 *)

CancelRequested ==
    /\ pc # "down" /\ ~latch
    /\ latch' = TRUE
    /\ UNCHANGED <<Journal, saved, Process, pc, then, asked, gen, witness>>

Crash ==
    /\ pc # "down"
    /\ pc' = "down" /\ then' = "step"
    /\ active' = FALSE /\ recovering' = FALSE /\ seen' = None /\ own' = None
    /\ current' = None /\ successor' = None /\ pending' = None
    /\ latch' = FALSE /\ gen' = 0 /\ witness' = NoWitness
    /\ UNCHANGED <<Journal, saved, asked>>

Unsettled(state) == IF state = "dispatched" THEN "uncertain" ELSE state

\* _recover_queue(): authorized work is only observed, and nothing more is staged.
Restart ==
    /\ pc = "down"
    /\ pc' = "idle"
    /\ recovering' = (Attempted # {})
    /\ hold' = (hold \/ Attempted # {})
    /\ enqueue' = [i \in Items |-> Unsettled(enqueue[i])]
    /\ UNCHANGED <<intent, reservation, clear, canceled, stops, saved, active, seen, own, current,
                   successor, pending, then, Rest, witness>>

-----------------------------------------------------------------------------
(* The launch, observation and adoption.                                   *)

\* handle() of a START by PlaybackTask: the item plays, or the launch is held.
Launch ==
    /\ pc = "idle" /\ ~latch /\ ~canceled /\ ~hold /\ ~active /\ Attempted = {}
    /\ active' = TRUE
    /\ \/ /\ intent' = [intent EXCEPT ![1] = "current"]
          /\ own' = NewSnapshot(1, gen)
          /\ saved' = {1}
          /\ UNCHANGED hold
       \/ /\ intent' = [intent EXCEPT ![1] = "needs_attention"]
          /\ hold' = TRUE
          /\ UNCHANGED <<own, saved>>
    /\ UNCHANGED <<Rows, canceled, stops, recovering, seen, current, successor, pending, pc, then,
                   Rest, witness>>

\* Mutant of Rotated: a stop waits for the handoff on whichever connection.
RotatedWithStop ==
    /\ hold' = TRUE /\ recovering' = TRUE
    /\ seen' = None /\ own' = None /\ current' = None /\ successor' = None
    /\ pending' = pending

\* _trackers() on another connection: nothing known of the earlier one is evidence here.
Rotated ==
    /\ hold' = TRUE /\ recovering' = TRUE
    /\ seen' = None /\ own' = None /\ current' = None /\ successor' = None
    /\ pending' = None

\* Mutant of Recovered: the latest session on disk is taken for the current one.
LastSaved == CHOOSE i \in saved \cup {1} : \A j \in saved : j <= i

\* The attempt that a process observes which did not start it.
Recovered == Attempt

\* _trackers() on the connection known, or on the first one.
Tracked(w) ==
    LET g == Last(w).gen
        c == IF recovering /\ own = None /\ current = None /\ Attempted # {}
             THEN NewTracker(Recovered, 0, g) ELSE current
        s == IF successor = None /\ \E i \in Outstanding : Sent(i)
             THEN LET i == CHOOSE i \in Outstanding : Sent(i) IN NewTracker(i + 1, i, g)
             ELSE successor
    IN  /\ seen' = g
        /\ current' = TracksAll(c, w) /\ successor' = TracksAll(s, w)
        /\ own' = Applied(own, w)
        /\ UNCHANGED <<hold, recovering, pending>>

\* _accept()
Accepted(w) ==
    /\ current' = TracksAll(current, w) /\ successor' = TracksAll(successor, w)
    /\ own' = Applied(own, w)
    /\ UNCHANGED <<hold, recovering, seen, pending>>

\* _observe_native() up to _reconcile_native()
Observe(w) ==
    /\ IF w = <<>> THEN Accepted(w)
       ELSE IF seen # None /\ (Last(w).gen # seen \/ HasReset(w)) THEN Rotated
       ELSE IF HasReset(w) THEN Accepted(w)
       ELSE Tracked(w)
    /\ witness' = Witnessed(w)
    /\ pc' = "reconcile"

\* step()
Step ==
    /\ pc = "idle"
    /\ active \/ recovering
    /\ canceled' = (canceled \/ latch)
    /\ Windowed(Observe)
    /\ then' = "step"
    /\ UNCHANGED <<intent, Rows, stops, saved, active, latch, asked>>

\* handle() of a STOP, which cancels the queue before it observes.
StopCommand ==
    /\ pc = "idle" /\ asked < MaxStops
    /\ asked' = asked + 1
    /\ canceled' = TRUE
    /\ Windowed(Observe)
    /\ then' = "stop"
    /\ UNCHANGED <<intent, Rows, stops, saved, active, latch>>

\* _settle(): the current attempt has ended by itself.
Settles(t) ==
    /\ t # None /\ ~canceled /\ ~t.stop /\ stops = 0
    /\ t.item = Attempt /\ intent[Attempt] = "current" /\ t.ended
    /\ seen # None => t.gen = seen

\* _reconcile_native(): playback observed after a restart, and its end.
ReconcileCurrent ==
    /\ pc = "reconcile"
    /\ \/ /\ own = None /\ Ready(current)
          /\ own' = current.snap /\ saved' = saved \cup {current.item}
          /\ current' = None
       \/ UNCHANGED <<own, saved, current>>     \* also where the receiver status is stale
    /\ intent' = IF Settles(own') THEN [intent EXCEPT ![Attempt] = "finished"] ELSE intent
    /\ pc' = "adopt"
    /\ UNCHANGED <<Rows, canceled, hold, stops, active, recovering, seen, successor, pending, then,
                   Rest, witness>>

\* adopt_native_successor(), in the journal.
Adopts(i) ==
    /\ reservation' = [reservation EXCEPT ![i] = "adopted"]
    /\ intent' = [intent EXCEPT ![i] = IF @ = "current" THEN "needs_attention" ELSE @,
                                ![i + 1] = "current"]
    /\ hold' = (hold \/ intent[i] # "finished")

Adopt ==
    /\ pc = "adopt"
    /\ \E i \in Outstanding :
         /\ Ready(successor) /\ successor.item = i + 1 /\ i = Attempt
         /\ Adopts(i)
    /\ pc' = "save"
    /\ UNCHANGED <<enqueue, clear, canceled, stops, saved, Process, then, Rest, witness>>

\* _save_passive() of the adopted successor
Save ==
    /\ pc = "save"
    /\ own' = successor.snap /\ saved' = saved \cup {successor.item}
    /\ successor' = None /\ current' = None
    /\ pc' = then
    /\ UNCHANGED <<Journal, active, recovering, seen, pending, then, Rest, witness>>

\* Nothing to adopt, or not yet by fresh evidence; a contradiction holds the queue.
AdoptNothing ==
    /\ pc = "adopt"
    /\ hold' = (hold \/ (successor # None /\ successor.refused /\ ~canceled))
    /\ pc' = then
    /\ UNCHANGED <<intent, Rows, canceled, stops, saved, Process, then, Rest, witness>>

-----------------------------------------------------------------------------
(* Stopping.                                                               *)

Owns == own # None /\ ~own.lost

\* _clear(): the receiver's queue is emptied once for a reservation.
Clears ==
    IF \E i \in Outstanding : clear[i] = "none" /\ Owns
    THEN \E outcome \in {"acknowledged", "rejected", "uncertain"} :
           /\ clear' = [i \in Items |-> IF i \in Outstanding THEN outcome ELSE clear[i]]
           /\ hold' = (hold \/ outcome = "uncertain")
    ELSE UNCHANGED <<clear, hold>>

\* handle() of a STOP by PlaybackTask: claimed where there is a session to stop.
ClaimsStop ==
    IF Owns /\ intent[Attempt] \in {"current", "finished"}
    THEN stops' = stops + 1 /\ pc' = "stopping"
    ELSE UNCHANGED stops /\ pc' = "conclude"

\* The handoff is under way and neither content is known to be there.
Defers == Outstanding # {} /\ successor # None /\ ~successor.refused /\ ~Owns

\* handle() of a STOP: kept for the handoff that is under way, or done.
StopNow ==
    /\ pc = "stop"
    /\ Clears
    /\ IF Defers
       THEN /\ pending' = IF pending = None THEN CHOOSE i \in Outstanding : TRUE ELSE pending
            /\ witness' = [witness EXCEPT !.deferred = IF pending = None THEN Attempt ELSE @]
            /\ pc' = "idle"
            /\ UNCHANGED stops
       ELSE pending' = None /\ ClaimsStop /\ witness' = [witness EXCEPT !.deferred = None]
    /\ UNCHANGED <<intent, reservation, enqueue, canceled, saved, active, recovering, seen, own,
                   current, successor, then, Rest>>

\* The session on which a kept stop may act.
Expected(i) ==
    /\ Owns /\ own.confirmed
    /\ \/ reservation[i] = "adopted" /\ own.item = i + 1
       \/ reservation[i] = "reserved" /\ own.item = i

\* _finish_pending_stop(): expired, contradicted, due, or not yet.
FinishStop ==
    /\ pc = "step"
    /\ IF pending = None THEN UNCHANGED <<pending, stops, clear, hold, witness>> /\ pc' = "conclude"
       ELSE \/ /\ pending' = None               \* also when the ten seconds are over
               /\ witness' = [witness EXCEPT !.deferred = None]
               /\ pc' = "conclude"
               /\ UNCHANGED <<stops, clear, hold>>
            \/ /\ ~(successor # None /\ successor.refused)
               /\ Expected(pending)
               /\ pending' = None
               /\ Clears /\ ClaimsStop
               /\ UNCHANGED witness
            \/ /\ ~(successor # None /\ successor.refused)
               /\ ~Expected(pending)
               /\ pc' = "conclude"
               /\ UNCHANGED <<pending, stops, clear, hold, witness>>
    /\ UNCHANGED <<intent, reservation, enqueue, canceled, saved, active, recovering, seen, own,
                   current, successor, then, Rest>>

\* The STOP is refused before the effect, or sent; its windows are accepted.
StopOperation ==
    /\ pc = "stopping"
    /\ Windowed(LAMBDA w :
         /\ \E sent \in BOOLEAN :
              own' = Applied(IF sent THEN [own EXCEPT !.stop = TRUE] ELSE own, w)
         /\ current' = TracksAll(current, w) /\ successor' = TracksAll(successor, w)
         /\ witness' = [Witnessed(w) EXCEPT !.deferred = None])
    /\ intent' = IF own'.gone /\ intent[Attempt] = "current"
                 THEN [intent EXCEPT ![Attempt] = "stopped"] ELSE intent
    /\ pc' = "reconcile" /\ then' = "conclude"
    /\ UNCHANGED <<Rows, canceled, hold, stops, saved, active, recovering, seen, pending, latch,
                   asked>>

\* _record_exit(): the exit of the session that a stop was sent to ends its reservations.
Conclude ==
    /\ pc = "conclude"
    /\ reservation' = IF Owns /\ own.gone /\ canceled
                      THEN [i \in Items |-> IF reservation[i] = "none" THEN "none" ELSE "exit"]
                      ELSE reservation
    /\ pc' = "stage"
    /\ UNCHANGED <<intent, enqueue, clear, canceled, hold, stops, saved, Process, then, Rest,
                   witness>>

-----------------------------------------------------------------------------
(* Staging a successor.                                                    *)

MayStage ==
    /\ ~recovering /\ ~hold /\ ~canceled /\ ~latch
    /\ Owns /\ ~own.stop /\ own.confirmed
    /\ Outstanding = {}
    /\ Attempt > 0 /\ intent[Attempt] = "current" /\ Attempt < ItemCount

\* _stage() up to the claim of the PLAY_NEXT; a STOP command stages nothing.
Stage ==
    /\ pc = "stage"
    /\ canceled' = (canceled \/ (latch /\ ~recovering /\ ~hold))
    /\ IF then # "stop" /\ MayStage
       THEN /\ reservation' = [reservation EXCEPT ![Attempt] = "reserved"]
            /\ enqueue' = [enqueue EXCEPT ![Attempt] = "dispatched"]
            /\ witness' = [NoWitness EXCEPT !.deferred = witness.deferred]
            /\ pc' = "claimed"
       ELSE pc' = "idle" /\ UNCHANGED <<reservation, enqueue, witness>>
    /\ UNCHANGED <<intent, clear, hold, stops, saved, Process, then, Rest>>

\* The guard is asked again, the operation is sent and its outcome recorded.
Enqueue ==
    /\ pc = "claimed"
    /\ \E outcome \in {"acknowledged", "rejected", "uncertain"} :
         /\ latch => outcome = "uncertain"
         /\ enqueue' = [enqueue EXCEPT ![Attempt] = outcome]
         /\ hold' = (hold \/ outcome # "acknowledged")
         /\ successor' = IF outcome = "rejected" THEN successor
                         ELSE NewTracker(Attempt + 1, Attempt, own.gen)
    /\ pc' = "idle"
    /\ UNCHANGED <<intent, reservation, clear, canceled, stops, saved, active, recovering, seen,
                   own, current, pending, then, Rest, witness>>

Next ==
    \/ CancelRequested \/ Crash \/ Restart
    \/ Launch \/ Step \/ StopCommand
    \/ ReconcileCurrent \/ Adopt \/ Save \/ AdoptNothing
    \/ StopNow \/ FinishStop \/ StopOperation \/ Conclude
    \/ Stage \/ Enqueue

Spec == Init /\ [][Next]_vars

-----------------------------------------------------------------------------
(* Properties.                                                             *)

\* A successor is adopted only when this process saw, on one connection since the enqueue
\* or the reconnection, first its receiver session and then its playback, and nothing else
\* in between: no exit, no other session, no other content, and not its predecessor again.
AdoptsWitnessed ==
    [][\A i \in Items : reservation[i] = "reserved" /\ reservation'[i] = "adopted" =>
         witness.alive /\ witness.entered /\ ~witness.broken]_vars

\* A stop kept for a handoff is sent only to a session of that handoff, on the connection
\* on which it was asked for: neither a crash nor a reconnection restores it.
KeptStopIsScoped ==
    [][pc = "step" /\ stops' # stops =>
         /\ witness.deferred \in Items
         /\ own.item \in {witness.deferred, witness.deferred + 1}]_vars

\* The journal leads the sessions: a session is saved, or owned, only for an attempt of the
\* journal, and the owned one is that of the latest attempt, also when the process died
\* between the adoption and the snapshot of the adopted session.
JournalLeads ==
    /\ saved \subseteq Attempted
    /\ own # None => own.item \in Attempted /\ (pc # "save" => own.item = Attempt)
=============================================================================
