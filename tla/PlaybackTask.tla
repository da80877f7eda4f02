---------------------------- MODULE PlaybackTask ----------------------------
(***************************************************************************)
(* The playback task of a running service, src/tellyq/playback_task.py:    *)
(* it starts the first item when it is told to, follows its playback,      *)
(* releases the receiver after a proven end and starts the next item on an *)
(* idle one.  It runs on the owner thread of SessionRunner; the queue is   *)
(* reduced here to the rows of QueueStore it decides by, and a command to  *)
(* the steps of QueueExecutor between which others may act: another thread *)
(* asks for cancellation, another connection of the journal cancels the    *)
(* queue, or the process dies.                                             *)
(*                                                                         *)
(* A conflict of revisions and an exception outside a command end the task *)
(* as a crash does.  The checks of age against the clock at the moment of  *)
(* a decision are left open: the observation is fresh or is not.           *)
(***************************************************************************)
EXTENDS Handoff, FiniteSets

CONSTANTS
    Windows,          \* what an observation window may bring: sequences of kinds
    MaxNumber,        \* bound on the numbers of the adapter's observations
    MaxResets         \* bound on the lost connections of a process

ASSUME WindowAssumption ==
    Windows \subseteq Seq(Kind) /\ MaxNumber \in Nat /\ MaxResets \in Nat

Intent    == {"pending", "current", "finished", "needs_attention", "stopped"}
ExecState == {"none", "dispatched", "acknowledged", "rejected", "uncertain"}
Action    == {"start", "release", "stop", "control"}

VARIABLES
    intent,           \* queue journal: intent of each item and so of its only attempt
    command,          \* queue journal: the START and the RELEASE of each item
    canceled,         \* queue journal: cancellation_requested
    touched,          \* queue journal: changed by another connection since the claim
    latch,            \* Cancellation.requested of this process
    started,          \* _started
    authority,        \* connection generation of _authority
    own,              \* _playback
    release,          \* _release
    events,           \* _events: the last window
    pc,               \* where the owner thread is; "down": no process
    work,             \* the command under way: its action and item, whether it is a
                      \* hand-over and was entered, the application's snapshot, whether the
                      \* device was called, its outcome, and whether something raised
    seq, gen,         \* external: the adapter's counter and connection generation
    unrest,           \* history: something contradicted the end of the owned playback
    halted            \* history: cancellation was requested when the last window closed

Journal == <<intent, command, canceled, touched>>
Process == <<started, authority, own, release>>
Adapter == <<seq, gen, events, unrest>>

vars == <<Journal, latch, Process, pc, work, Adapter, halted>>

NoWork == [action |-> "none", item |-> 1, next |-> FALSE, entered |-> FALSE, snap |-> None,
           sent |-> FALSE, outcome |-> "uncertain", failed |-> FALSE]

Init ==
    /\ intent = [i \in Items |-> "pending"]
    /\ command = [i \in Items |-> [start |-> "none", release |-> "none"]]
    /\ canceled = FALSE /\ touched = FALSE /\ latch = FALSE
    /\ started = FALSE /\ authority = None /\ own = None /\ release = None
    /\ events = <<>> /\ seq = 0 /\ gen = 0 /\ unrest = FALSE /\ halted = FALSE
    /\ pc = "idle" /\ work = NoWork

Attempted == {i \in Items : intent[i] # "pending"}
Attempt   == Cardinality(Attempted)

-----------------------------------------------------------------------------
(* An observation window.                                                  *)

Resets(kinds, k) == Cardinality({j \in 1..(k - 1) : kinds[j] = "reset"})

\* The window `kinds', whose first observation follows the earlier ones as `mark' says.
Window(kinds, mark) ==
    [k \in DOMAIN kinds |->
        [kind |-> kinds[k], mark |-> IF k = 1 THEN mark ELSE "plain",
         number |-> seq + k + (IF mark = "gap" THEN 1 ELSE 0),
         gen |-> gen + Resets(kinds, k)]]

\* Of the history only: what says that the ended playback is not the last of it.
Disturbs(e) ==
    e.kind \in {"play", "ad", "other", "reset"} \/ e.mark \in {"gap", "late"}

\* The backend returns a window, and _observed() hands it to the tracker.
Observes(window) ==
    /\ events' = window
    /\ seq' = IF window = <<>> THEN seq ELSE Last(window).number
    /\ seq' <= MaxNumber
    /\ gen' = gen + Cardinality({k \in DOMAIN window : window[k].kind = "reset"})
    /\ gen' <= MaxResets

\* _observed()
Followed(window) ==
    IF own # None /\ own.ended > 0 THEN Tracked(own, window, release) ELSE release

\* _accept() of a result without snapshot; of a snapshot s, of the attempt or a new one.
Accepts(window, a) ==
    /\ own' = IF own = None THEN None ELSE Applied(own, window)
    /\ release' = Tracked(own', window, a)

AcceptsSnapshot(s, window, a) ==
    /\ own' = s
    /\ release' = Tracked(s, window, IF own # None /\ own.attempt # s.attempt THEN None ELSE a)

\* The history of the window, once it is accepted.
Remembers(window) ==
    unrest' =
        /\ own' # None /\ own'.ended > 0
        /\ \/ unrest /\ own # None /\ own.attempt = own'.attempt
           \/ \E k \in DOMAIN window : window[k].number > own'.ended /\ Disturbs(window[k])

Windowed(Step(_)) ==
    \E kinds \in Windows, mark \in Mark :
        /\ kinds = <<>> => mark = "plain"
        /\ Observes(Window(kinds, mark))
        /\ Step(Window(kinds, mark))

-----------------------------------------------------------------------------
(* Others.                                                                 *)

CancelRequested ==
    /\ pc # "down" /\ ~latch
    /\ latch' = TRUE
    /\ UNCHANGED <<Journal, Process, pc, work, Adapter, halted>>

OtherCancels ==
    /\ ~canceled
    /\ canceled' = TRUE /\ touched' = TRUE
    /\ UNCHANGED <<intent, command, latch, Process, pc, work, Adapter, halted>>

\* The process dies, or an exception ends the task.
Crash ==
    /\ pc # "down"
    /\ pc' = "down" /\ work' = NoWork /\ latch' = FALSE
    /\ started' = FALSE /\ authority' = None /\ own' = None /\ release' = None
    /\ events' = <<>> /\ seq' = 0 /\ gen' = 0 /\ unrest' = FALSE /\ halted' = FALSE
    /\ UNCHANGED Journal

Unsettled(state) == IF state = "dispatched" THEN "uncertain" ELSE state

\* __init__() with _recover_queue(): what was attempted is history, not authority.
Restart ==
    /\ pc = "down"
    /\ pc' = "idle"
    /\ command' = [i \in Items |-> [start |-> Unsettled(command[i].start),
                                    release |-> Unsettled(command[i].release)]]
    /\ intent' = [i \in Items |-> IF intent[i] = "current" THEN "needs_attention" ELSE intent[i]]
    /\ canceled' = (canceled \/ Attempted # {})
    /\ touched' = FALSE
    /\ UNCHANGED <<latch, Process, work, Adapter, halted>>

-----------------------------------------------------------------------------
(* Commands and steps of the task, up to the claim of an effect.           *)

\* _cancel(): the latch is written to the journal before anything else is done.
NoteCancel ==
    /\ pc = "idle" /\ latch /\ ~canceled
    /\ canceled' = TRUE
    /\ UNCHANGED <<intent, command, touched, latch, Process, pc, work, Adapter, halted>>

Noted == pc = "idle" /\ (latch => canceled)

\* QueueExecutor.execute() up to mark_dispatched().
Claim(action, item, next) ==
    /\ work' = [NoWork EXCEPT !.action = action, !.item = item, !.next = next]
    /\ touched' = FALSE
    /\ pc' = "claimed"
    /\ command' = [command EXCEPT
                     ![item].start   = IF action = "start" THEN "dispatched" ELSE @,
                     ![item].release = IF action = "release" THEN "dispatched" ELSE @]

NoClaim == UNCHANGED <<intent, command, touched, pc, work>>

\* decide_queue(): nothing of the queue forbids another start.
Open ==
    /\ ~canceled
    /\ \A i \in Items : intent[i] \notin {"needs_attention", "stopped"}
    /\ \A i \in Items : {command[i].start, command[i].release} \cap {"dispatched", "uncertain"} = {}

\* decide_queue(): the session is that of the latest attempt, on the task's connection.
Correlated(t) == t.attempt = Attempt /\ t.gen = authority

\* _start()
StartCommand ==
    /\ Noted /\ ~canceled /\ ~started
    /\ Windowed(LAMBDA w :
         /\ authority' = IF w = <<>> THEN authority ELSE Last(w).gen
         /\ release' = Followed(w)
         /\ IF Attempted = {} /\ Open /\ ReceiverReady(None, w, authority')
            THEN \/ /\ started' = TRUE
                    /\ intent' = [intent EXCEPT ![1] = "current"]
                    /\ Claim("start", 1, FALSE)
                 \/ started' = started /\ NoClaim      \* the status is stale by now
            ELSE started' = started /\ NoClaim)
    /\ UNCHANGED <<canceled, latch, own, unrest, halted>>

Following == Noted /\ started /\ own # None

\* status(): reconciled; or, once ended, lost with its history kept; or nothing.
Status(w) ==
    LET s == Reconciled(own, w)
        evaluated == Applied(own, w)
    IN  IF s # None THEN AcceptsSnapshot(s, w, Followed(w))
        ELSE IF evaluated.ended > 0
        THEN AcceptsSnapshot([evaluated EXCEPT !.lost = TRUE, !.confirmed = FALSE], w,
                             Followed(w))
        ELSE Accepts(w, Followed(w))

\* decide_queue(): the current attempt has ended by itself.
Settles(t) ==
    /\ Open /\ t.stop = "none" /\ t.attempt = Attempt /\ t.gen = authority
    /\ t.ended > 0
    /\ command[Attempt].start = "acknowledged"

\* step(), while the attempt is current or the queue canceled.
StatusStep ==
    /\ Following
    /\ intent[Attempt] = "current" \/ canceled
    /\ Windowed(LAMBDA w :
         /\ Status(w)
         /\ intent' = IF intent[Attempt] = "current" /\ Settles(own')
                      THEN [intent EXCEPT ![Attempt] = "finished"] ELSE intent
         /\ Remembers(w))
    /\ UNCHANGED <<command, canceled, touched, latch, started, authority, pc, work, halted>>

Settled == Following /\ intent[Attempt] # "current" /\ ~canceled

Acknowledged == own.released /\ command[Attempt].release = "acknowledged"

HandsOver == ~own.lost /\ intent[Attempt] = "finished" /\ Acknowledged
             /\ release # None /\ ~release.blocked

\* step(): _observe_only(), also when the terminal is older than a release may be.
ObserveStep ==
    /\ Settled /\ ~HandsOver
    /\ Windowed(LAMBDA w : Accepts(w, Followed(w)) /\ Remembers(w))
    /\ UNCHANGED <<Journal, latch, started, authority, pc, work, halted>>

ReleaseStep ==
    /\ Settled
    /\ ~own.lost /\ intent[Attempt] = "finished" /\ ~own.released
    /\ command[Attempt].release = "none"
    /\ release # None /\ ~release.blocked
    /\ Claim("release", Attempt, FALSE)
    /\ UNCHANGED <<intent, canceled, latch, Process, Adapter, halted>>

\* step(): observe once more, and start the next item on an idle receiver.
HandoffStep ==
    /\ Settled /\ HandsOver
    /\ Windowed(LAMBDA w :
         /\ Accepts(w, Followed(w))
         /\ Remembers(w)
         /\ \/ /\ Idle(w, authority)
               /\ release' # None /\ ~release'.blocked
               /\ Open /\ Correlated(own') /\ ~own'.lost /\ own'.stop = "none"
               /\ Attempt < ItemCount
               /\ ReceiverReady(own', w, authority)
               /\ intent' = [intent EXCEPT ![Attempt + 1] = "current"]
               /\ Claim("start", Attempt + 1, TRUE)
            \/ NoClaim)
    /\ UNCHANGED <<canceled, latch, started, authority, halted>>

Controls == pc = "idle" /\ own # None /\ ~own.lost /\ ~own.released

\* handle() of a STOP: the queue is canceled whether or not there is something to stop.
StopCommand ==
    /\ pc = "idle"
    /\ canceled' = TRUE
    /\ IF Controls /\ intent[Attempt] \in {"current", "finished"}
       THEN Claim("stop", Attempt, FALSE) /\ UNCHANGED intent
       ELSE NoClaim
    /\ UNCHANGED <<latch, Process, Adapter, halted>>

\* handle() of a PAUSE or a RESUME
ControlCommand ==
    /\ Noted /\ ~canceled /\ Controls /\ intent[Attempt] = "current"
    /\ Open
    /\ Claim("control", Attempt, FALSE)
    /\ UNCHANGED <<intent, canceled, latch, Process, Adapter, halted>>

-----------------------------------------------------------------------------
(* A claimed command.                                                      *)

\* The claim still stands, and may_start() allows the operation.
EnterOperation ==
    /\ pc = "claimed" /\ ~touched
    /\ IF work.action # "stop" /\ latch
       THEN pc' = "record" /\ UNCHANGED work
       ELSE pc' = "window" /\ work' = [work EXCEPT !.entered = TRUE]
    /\ UNCHANGED <<Journal, latch, Process, Adapter, halted>>

\* _run_control(), before its capability check.
MayControl(w) ==
    /\ own.stop = "none"
    /\ \A k \in DOMAIN w : w[k].kind # "reset"
    /\ LastOf(w, Media) # None /\ LastOf(w, Media).kind = "play"

\* The application's snapshot for the effect; None: it refuses before the effect.
Proposed(w) ==
    LET s == IF own = None THEN None ELSE Reconciled(own, w)
    IN  IF s = None THEN None
        ELSE CASE work.action = "stop" ->
                    [s EXCEPT !.stop = "asked", !.asked = FALSE, !.released = FALSE]
               [] work.action = "control" -> IF MayControl(w) THEN s ELSE None
               [] work.action = "release" ->
                    IF MayRelease(s, Tracked(own, w, release), w)
                    THEN [s EXCEPT !.asked = TRUE, !.released = FALSE] ELSE None
               [] OTHER -> None

\* The baseline of the application's use case.
Baseline ==
    /\ pc = "window"
    /\ Windowed(LAMBDA w :
         \/ /\ work.action = "start" \/ Proposed(w) # None
            /\ work' = [work EXCEPT !.snap = IF work.action = "start" THEN None ELSE Proposed(w)]
            /\ pc' = "ready"
            /\ release' = Followed(w)
            /\ UNCHANGED own
            /\ unrest' = (unrest \/ (own # None /\ own.ended > 0 /\
                            \E k \in DOMAIN w : w[k].number > own.ended /\ Disturbs(w[k])))
         \/ /\ work.action # "start"         \* it refuses, or finds the evidence stale
            /\ work' = [work EXCEPT !.outcome = "rejected"]
            /\ pc' = "record"
            /\ \/ Accepts(w, Followed(w))
               \/ /\ work.action = "control" /\ Proposed(w) # None   \* not supported
                  /\ AcceptsSnapshot(Proposed(w), w, Followed(w))
            /\ Remembers(w))
    /\ halted' = (latch \/ canceled)
    /\ UNCHANGED <<Journal, latch, started, authority>>

\* The observation raises before anything is sent.
BaselineFails ==
    /\ pc = "window"
    /\ pc' = "record"
    /\ UNCHANGED <<Journal, latch, Process, work, Adapter, halted>>

\* Mutant of MayEffectQueue: only the latch is read.
LatchOnly == TRUE

\* _may_effect(), its reading of the journal.
MayEffectQueue == ~touched

\* _may_effect(), its reading of the latch.
MayEffectLatch == work.action # "stop" => ~latch

Refused == work' = [work EXCEPT !.outcome = "rejected"] /\ pc' = "sent"

CheckQueue ==
    /\ pc = "ready"
    /\ IF MayEffectQueue THEN pc' = "go" /\ UNCHANGED work ELSE Refused
    /\ UNCHANGED <<Journal, latch, Process, Adapter, halted>>

\* _GuardedBackend.start() and stop(), where the observations are fresh.
Guarded ==
    /\ MayEffectLatch
    /\ work.action = "start" =>
         /\ Idle(events, authority)
         /\ work.next => /\ release # None /\ ~release.blocked
                         /\ own # None /\ ~own.lost /\ own.released
    /\ work.action = "release" => MayRelease(own, release, events)

\* The device is called; it accepts, rejects, or does not know, as when the call raises.
Send ==
    /\ pc = "go" /\ Guarded
    /\ \E outcome \in {"acknowledged", "rejected", "uncertain"} :
         work' = [work EXCEPT !.sent = TRUE, !.outcome = outcome]
    /\ pc' = "sent"
    /\ UNCHANGED <<Journal, latch, Process, Adapter, halted>>

\* The guard refuses: for the latch, the receiver, or the age of what it knows.
Refuse ==
    /\ pc = "go" /\ (~MayEffectLatch \/ work.action \in {"start", "release"})
    /\ Refused
    /\ UNCHANGED <<Journal, latch, Process, Adapter, halted>>

\* The first observation of the started content begins its session.
Candidate(w) ==
    LET found == {k \in DOMAIN w : w[k].kind \in {"play", "rest", "end"} /\ w[k].mark # "stale"}
    IN  IF work.outcome = "rejected" \/ found = {} THEN None
        ELSE LET k == Min(found)
             IN  Applied(NewSnapshot(work.item, w[k].gen, "none", 0), SubSeq(w, k, Len(w)))

\* What the application concludes from its last window; None: it has no snapshot.
Concluded(w) ==
    CASE work.action = "start" -> Candidate(w)
      [] work.action = "release" ->
            LET s == Applied([work.snap EXCEPT !.granted = work.outcome = "acknowledged"], w)
                following == Tracked(s, w, release)
            IN  IF following = None \/ following.blocked THEN Unreleased(s) ELSE s
      [] OTHER -> Applied([work.snap EXCEPT !.granted = FALSE], w)

\* The window after the effect, and _accept() of the result.
After ==
    /\ pc = "sent"
    /\ Windowed(LAMBDA w :
         /\ IF Concluded(w) # None
            THEN AcceptsSnapshot(Concluded(w), events \o w, Followed(w))
            ELSE Accepts(events \o w, Followed(w))
         /\ Remembers(events \o w))
    /\ pc' = "record"
    /\ UNCHANGED <<Journal, latch, started, authority, work, halted>>

\* The call or the observation after it raised: _failed() keeps receipt and baseline.
AfterFails ==
    /\ pc = "sent"
    /\ work' = [work EXCEPT !.failed = TRUE]
    /\ Accepts(events, release)
    /\ Remembers(events)
    /\ pc' = "record"
    /\ UNCHANGED <<Journal, latch, started, authority, seq, gen, events, halted>>

Answered(row) ==
    [row EXCEPT !.start   = IF work.action = "start" THEN work.outcome ELSE @,
                !.release = IF work.action = "release" THEN work.outcome ELSE @]

\* The operation of a start was invoked, but showed no playback of it.
Unconfirmed ==
    work.action = "start" /\ work.entered /\ (own = None \/ own.attempt # work.item)

\* The outcome is recorded, and _execute() and handle() draw their conclusions.
Record ==
    /\ pc = "record" /\ ~touched
    /\ command' = [command EXCEPT ![work.item] = Answered(@)]
    /\ intent' =
         [intent EXCEPT ![work.item] =
            CASE Unconfirmed -> "needs_attention"
              [] work.action = "stop" /\ own # None /\ own.stopped /\ @ = "current" -> "stopped"
              [] OTHER -> @]
    /\ canceled' = (canceled \/ latch \/ Unconfirmed \/ work.failed \/ work.outcome = "uncertain")
    /\ work' = NoWork
    /\ pc' = "idle"
    /\ halted' = FALSE
    /\ UNCHANGED <<touched, latch, Process, Adapter>>

Next ==
    \/ CancelRequested \/ OtherCancels \/ Crash \/ Restart
    \/ NoteCancel \/ StartCommand \/ StatusStep \/ ObserveStep \/ ReleaseStep \/ HandoffStep
    \/ StopCommand \/ ControlCommand
    \/ EnterOperation \/ Baseline \/ BaselineFails \/ CheckQueue \/ Send \/ Refuse
    \/ After \/ AfterFails \/ Record

Spec == Init /\ [][Next]_vars

-----------------------------------------------------------------------------
(* Properties.                                                             *)

Sends(action) == ~work.sent /\ work'.sent /\ work.action = action

\* A start is sent only onto a receiver that the last window left idle; a start that follows
\* another item, only when nothing was observed, or possibly missed, since the end of that
\* item that contradicts it, and its own release was acknowledged: the guards of
\* _GuardedBackend.start(), the tracker and decide_queue() together, over several windows.
StartsClean ==
    [][Sends("start") =>
        /\ events # <<>> /\ Last(events).kind = "idle"
        /\ work.item > 1 => /\ ~unrest
                            /\ intent[work.item - 1] = "finished"
                            /\ command[work.item - 1].release = "acknowledged"]_vars

\* The receiver is told to leave a completed session only while it is known to be there, and
\* when nothing was observed, or possibly missed, since its end that contradicts it: a veto
\* of track_release() outlives every later harmless window.
ReleasesClean ==
    [][Sends("release") =>
        ~unrest /\ (\E k \in DOMAIN events : events[k].kind = "alive")]_vars

\* Nothing but a stop is sent once cancellation was requested, by this process or another
\* connection, before the window that justifies it closed: _may_effect() reads the journal
\* and the latch again after the observation, which takes seconds.
NoPlayAfterCancel ==
    [][\A action \in Action \ {"stop"} : Sends(action) => ~halted]_vars
=============================================================================
