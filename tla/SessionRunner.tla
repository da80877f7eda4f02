---------------------------- MODULE SessionRunner ----------------------------
(***************************************************************************)
(* The foreground owner of src/tellyq/runner.py: one owner thread, a       *)
(* bounded mailbox of regular commands, one reserved stop ticket, and a    *)
(* cached snapshot that clients read.  Client threads call submit, stop,   *)
(* cancel and shutdown under the runner's condition, so each call is one   *)
(* action.  The owner thread leaves the condition to build, step, command  *)
(* and close its task, so its program counter `pc' stops at each of those  *)
(* points.  Another process of the same runtime directory (a legacy CLI    *)
(* command or a second runner) competes for the lock files.                *)
(***************************************************************************)
EXTENDS Naturals, FiniteSets

CONSTANTS
    Tickets,     \* the CommandTicket objects calls may create
    NoTicket,    \* Python's None, where a ticket is optional
    Id,          \* Id[t]: the command identity ticket t would carry
    Action,      \* Action[t]: its CommandAction
    Capacity     \* mailbox_capacity

CommandAction == {"start", "pause", "resume", "release", "stop"}

ASSUME RunnerAssumption ==
    /\ NoTicket \notin Tickets
    /\ IsFiniteSet(Tickets)
    /\ Action \in [Tickets -> CommandAction]
    /\ Capacity \in Nat \ {0}

VARIABLES
    mailbox,     \* _mailbox: the tickets waiting in the regular mailbox
    ahead,       \* ahead[t]: the mailbox tickets in front of t in the deque
    stop,        \* _stop: the reserved stop ticket
    active,      \* _active: the ticket the owner last took and has not finished
    state,       \* TicketSnapshot.state of every ticket ("unused": not created)
    closing,     \* _closing
    canceled,    \* _canceled, the latch shared with the task
    ready,       \* _ready
    snap,        \* _snapshot, the cached read model
    pc,          \* where the owner thread is
    failure,     \* the local `failure' of _run
    due,         \* monotonic() >= next_step
    task,        \* the task object and the device resources it holds
    lock         \* who holds command.lock and the receiver's lock file

queues == <<mailbox, ahead, stop, active, state>>
flags  == <<closing, canceled, ready>>
owner  == <<pc, failure, due, task, lock>>
vars   == <<mailbox, ahead, stop, active, state, closing, canceled, ready,
            snap, pc, failure, due, task, lock>>

TicketState == {"unused", "queued", "running", "handled", "canceled", "failed"}
Settled     == {"handled", "canceled", "failed"}
RunnerPhase == {"new", "starting", "running", "stopping", "stopped", "failed"}
Failure     == {"none", "ownership", "initialization", "command", "step", "close"}

\* What the mailbox may hold, and the published count: the mailbox and the reserved stop.
Mailboxes == {waiting \in SUBSET Tickets : Cardinality(waiting) <= Capacity}
RunnerSnapshot ==
    [phase: RunnerPhase, owns: BOOLEAN, canceled: BOOLEAN, pending: 0..(Capacity + 1),
     failure: Failure]

PC == {"unstarted", "acquire", "locked", "claimed", "built", "loop", "stepping", "handling",
       "cleanup", "close", "release", "exit", "exited"}

\* The owner thread moves on from one point of _run to another.
Move(from, to) == pc = from /\ pc' = to

PlayAction == {"start", "resume"}
Plays(t)   == Action[t] \in PlayAction

Init ==
    /\ mailbox = {}
    /\ ahead = [t \in Tickets |-> {}]
    /\ stop = NoTicket
    /\ active = NoTicket
    /\ state = [t \in Tickets |-> "unused"]
    /\ closing = FALSE
    /\ canceled = FALSE
    /\ ready = FALSE
    /\ snap = [phase |-> "new", owns |-> FALSE, canceled |-> FALSE, pending |-> 0,
               failure |-> "none"]
    /\ pc = "unstarted"
    /\ failure = "none"
    /\ due = TRUE
    /\ task = "none"
    /\ lock = "free"

-----------------------------------------------------------------------------
(* Helpers shared by the calls and by the owner thread.                    *)

StopQueued == stop # NoTicket /\ state[stop] = "queued"

PendingCount == Cardinality(mailbox) + (IF StopQueued THEN 1 ELSE 0)

\* _publish: the changed fields, and the latch and the count taken afresh.
Publish(changed) ==
    snap' = [changed EXCEPT !.canceled = canceled', !.pending = PendingCount']

\* Mutant of Refused: cancellation only empties the mailbox.
NeverRefused(t) == FALSE

\* submit() refuses a start or resume for the rest of the runner's lifetime.
Refused(t) == canceled /\ Plays(t)

RequireOpen == ~closing /\ snap.phase \in {"starting", "running"}

\* _known_ticket finds a ticket of this identity; the call then returns it, or
\* raises because it describes other work, and changes nothing.
Known(t) == \E u \in mailbox \cup ({active, stop} \ {NoTicket}) : Id[u] = Id[t]

\* _cancel_pending latches cancellation and takes the tickets `gone' out of the deque ...
CancelPending(gone) ==
    /\ canceled' = TRUE
    /\ mailbox' = mailbox \ gone
    /\ ahead' = [t \in Tickets |-> ahead[t] \ gone]

\* ... which settles them.
WithCanceled(gone) == [t \in Tickets |-> IF t \in gone THEN "canceled" ELSE state[t]]

PendingPlays == {t \in mailbox : Plays(t)}

-----------------------------------------------------------------------------
(* Calls of client threads.                                                *)

\* start(): the thread is created; its blocking tail only waits for `ready'.
Start ==
    /\ snap.phase = "new"
    /\ pc' = "acquire"
    /\ UNCHANGED <<queues, flags, failure, due, task, lock>>
    /\ Publish([snap EXCEPT !.phase = "starting"])

\* start() when Thread.start raises.
StartFails ==
    /\ snap.phase = "new"
    /\ closing' = TRUE
    /\ ready' = TRUE
    /\ UNCHANGED <<queues, canceled, owner>>
    /\ Publish([snap EXCEPT !.phase = "failed", !.failure = "initialization"])

\* Mutant of Full: the bound is looked at one command too late.
FullLate == Cardinality(mailbox) > Capacity

Full == Cardinality(mailbox) >= Capacity

\* submit() of a regular command; MailboxFull and a known identity change nothing.
Submit(t) ==
    /\ Action[t] # "stop"
    /\ state[t] = "unused"
    /\ RequireOpen
    /\ ~Refused(t)
    /\ ~Known(t)
    /\ ~Full
    /\ mailbox' = mailbox \cup {t}
    /\ ahead' = [ahead EXCEPT ![t] = mailbox]
    /\ state' = [state EXCEPT ![t] = "queued"]
    /\ UNCHANGED <<stop, active, flags, owner>>
    /\ Publish(snap)

\* stop() (and submit() of a stop): reserves the one stop ticket of this lifetime.
Stop(t) ==
    /\ Action[t] = "stop"
    /\ state[t] = "unused"
    /\ ~Known(t)
    /\ stop = NoTicket
    /\ RequireOpen
    /\ CancelPending(PendingPlays)
    /\ state' = [WithCanceled(PendingPlays) EXCEPT ![t] = "queued"]
    /\ stop' = t
    /\ UNCHANGED <<active, closing, ready, owner>>
    /\ Publish(snap)

\* cancel(): the latch without a remote stop.
Cancel ==
    /\ RequireOpen
    /\ CancelPending(PendingPlays)
    /\ state' = WithCanceled(PendingPlays)
    /\ UNCHANGED <<stop, active, closing, ready, owner>>
    /\ Publish(snap)

\* shutdown(): its blocking tail only joins the owner thread.
Shutdown ==
    /\ closing' = TRUE
    /\ CancelPending(mailbox)
    /\ state' = WithCanceled(mailbox)
    /\ UNCHANGED <<stop, active, ready, owner>>
    /\ IF snap.phase = "new" THEN Publish([snap EXCEPT !.phase = "stopped"])
       ELSE IF snap.phase \notin {"stopped", "failed"}
            THEN Publish([snap EXCEPT !.phase = "stopping"])
            ELSE UNCHANGED snap

\* The caller drops a settled ticket and the runner no longer refers to it: the
\* same name may stand for a later ticket of the same command.
Forget(t) ==
    /\ state[t] \in Settled
    /\ t \notin {active, stop}
    /\ state' = [state EXCEPT ![t] = "unused"]
    /\ UNCHANGED <<mailbox, ahead, stop, active, flags, snap, owner>>

-----------------------------------------------------------------------------
(* The owner thread: _run around _execute.                                 *)

\* _ownership succeeds only while nobody else holds the nonblocking locks.
AcquireOwnership ==
    /\ Move("acquire", "locked")
    /\ lock = "free"
    /\ lock' = "owner"
    /\ UNCHANGED <<queues, flags, snap, failure, due, task>>

\* _ownership raises: a lock is held elsewhere, or a path is not private.
OwnershipFails ==
    /\ Move("acquire", "exit")
    /\ failure' = "ownership"
    /\ UNCHANGED <<queues, flags, snap, due, task, lock>>

PublishOwned ==
    /\ Move("locked", "claimed")
    /\ UNCHANGED <<queues, flags, failure, due, task, lock>>
    /\ Publish([snap EXCEPT !.owns = TRUE])

\* The task factory returns a task ...
BuildTask ==
    /\ Move("claimed", "built")
    /\ task' = "open"
    /\ UNCHANGED <<queues, flags, snap, failure, due, lock>>

\* ... or raises.
BuildFails ==
    /\ Move("claimed", "cleanup")
    /\ failure' = "initialization"
    /\ UNCHANGED <<queues, flags, snap, due, task, lock>>

BecomeReady ==
    /\ Move("built", "loop")
    /\ ready' = TRUE
    /\ UNCHANGED <<queues, closing, canceled, failure, due, task, lock>>
    /\ Publish([snap EXCEPT !.phase = IF closing THEN "stopping" ELSE "running"])

\* Mutants of MayLeave: closing looked at first, or a reserved stop kept for ever.
LeavesEarly == closing
LeavesUnreserved == closing /\ stop = NoTicket

\* Mutant of MayTakeRegular: the mailbox goes before a due step.
TakesRegularFirst == ~StopQueued /\ ~closing

\* _execute's choice under the condition: queued stop, closing, due step, mailbox.
MayLeave == closing /\ ~StopQueued
MayTakeRegular == ~StopQueued /\ ~closing /\ ~due

TakeStop ==
    /\ Move("loop", "handling")
    /\ StopQueued
    /\ active' = stop
    /\ state' = [state EXCEPT ![stop] = "running"]
    /\ UNCHANGED <<mailbox, ahead, stop, flags, failure, due, task, lock>>
    /\ Publish(snap)

LeaveLoop ==
    /\ Move("loop", "cleanup")
    /\ MayLeave
    /\ UNCHANGED <<queues, flags, snap, failure, due, task, lock>>

BeginStep ==
    /\ Move("loop", "stepping")
    /\ ~StopQueued
    /\ ~closing
    /\ due
    /\ UNCHANGED <<queues, flags, snap, failure, due, task, lock>>

TakeRegular(t) ==
    /\ Move("loop", "handling")
    /\ MayTakeRegular
    /\ t \in mailbox
    /\ ahead[t] = {}
    /\ mailbox' = mailbox \ {t}
    /\ ahead' = [u \in Tickets |-> ahead[u] \ {t}]
    /\ active' = t
    /\ state' = [state EXCEPT ![t] = "running"]
    /\ UNCHANGED <<stop, flags, failure, due, task, lock>>
    /\ Publish(snap)

StepReturns ==
    /\ Move("stepping", "loop")
    /\ due' = FALSE
    /\ UNCHANGED <<queues, flags, failure, task, lock>>
    /\ Publish(snap)

HandleReturns ==
    /\ Move("handling", "loop")
    /\ state' = [state EXCEPT ![active] = "handled"]
    /\ active' = NoTicket
    /\ UNCHANGED <<mailbox, ahead, stop, flags, failure, due, task, lock>>
    /\ Publish(snap)

\* step() or handle() raises, or returns no TaskView; _active keeps the failed ticket.
StepFails ==
    /\ Move("stepping", "cleanup")
    /\ failure' = "step"
    /\ UNCHANGED <<queues, flags, due, task, lock>>
    /\ Publish([snap EXCEPT !.failure = "step"])

HandleFails ==
    /\ Move("handling", "cleanup")
    /\ state' = [state EXCEPT ![active] = "failed"]
    /\ failure' = "command"
    /\ UNCHANGED <<mailbox, ahead, stop, active, flags, due, task, lock>>
    /\ Publish([snap EXCEPT !.failure = "command"])

\* Mutants of Abandoned: the reserved stop is forgotten, or canceled whatever became of it.
AbandonedMailbox == mailbox
AbandonedStop == mailbox \cup ({stop} \ {NoTicket})

\* The tickets nobody will handle, and what both finally blocks of _run do to them.
Abandoned == mailbox \cup {t \in Tickets : t = stop /\ StopQueued}

CancelEverything ==
    /\ closing' = TRUE
    /\ CancelPending(mailbox)
    /\ state' = WithCanceled(Abandoned)
    /\ ready' = TRUE

Cleanup ==
    /\ Move("cleanup", "close")
    /\ CancelEverything
    /\ UNCHANGED <<stop, active, failure, due, task, lock>>
    /\ Publish([snap EXCEPT !.phase = "stopping", !.failure = failure])

\* Mutant of CloseFailure: an exception of task.close() is swallowed.
CloseSwallowed == failure

CloseFailure == IF failure = "none" THEN "close" ELSE failure

\* task.close() returns, or raises and may leave device resources behind.
CloseTask ==
    /\ Move("close", "release")
    /\ \/ task = "open" /\ task' = "closed" /\ UNCHANGED failure
       \/ task = "open" /\ task' = "leaked" /\ failure' = CloseFailure
       \/ task = "none" /\ UNCHANGED <<task, failure>>
    /\ UNCHANGED <<queues, flags, snap, due, lock>>

ReleaseOwnership ==
    /\ Move("release", "exit")
    /\ lock' = "free"
    /\ UNCHANGED <<queues, flags, snap, failure, due, task>>

Exit ==
    /\ Move("exit", "exited")
    /\ CancelEverything
    /\ UNCHANGED <<stop, active, failure, due, task, lock>>
    /\ Publish([snap EXCEPT !.phase = IF failure # "none" THEN "failed" ELSE "stopped",
                            !.owns = FALSE, !.failure = failure])

-----------------------------------------------------------------------------
(* The clock, and another process of the same runtime directory.           *)

StepBecomesDue ==
    /\ pc \in {"loop", "handling"}
    /\ ~due
    /\ due' = TRUE
    /\ UNCHANGED <<queues, flags, snap, pc, failure, task, lock>>

OtherProcess ==
    /\ \/ lock = "free" /\ lock' = "other"
       \/ lock = "other" /\ lock' = "free"
    /\ UNCHANGED <<queues, flags, snap, pc, failure, due, task>>

Client ==
    \/ Start
    \/ StartFails
    \/ \E t \in Tickets : Submit(t) \/ Stop(t) \/ Forget(t)
    \/ Cancel
    \/ Shutdown

Owner ==
    \/ AcquireOwnership \/ OwnershipFails
    \/ PublishOwned \/ BuildTask \/ BuildFails \/ BecomeReady
    \/ TakeStop \/ LeaveLoop \/ BeginStep
    \/ \E t \in Tickets : TakeRegular(t)
    \/ StepReturns \/ StepFails
    \/ HandleReturns \/ HandleFails
    \/ Cleanup \/ CloseTask \/ ReleaseOwnership \/ Exit

Next == Client \/ Owner \/ StepBecomesDue \/ OtherProcess

Spec == Init /\ [][Next]_vars

(***************************************************************************)
(* The owner thread runs, and RunnerTask's contract is that each of its    *)
(* calls returns (WF on Owner); time passes (WF on StepBecomesDue).  The   *)
(* next step is due a positive interval after the last one, and the owner  *)
(* looks at the mailbox within it: a command at the head of the mailbox    *)
(* is not overtaken by a due step for ever (SF on TakeRegular).            *)
(***************************************************************************)
Fairness ==
    /\ WF_vars(Owner)
    /\ WF_vars(StepBecomesDue)
    /\ \A t \in Tickets : SF_vars(TakeRegular(t))

FairSpec == Spec /\ Fairness

-----------------------------------------------------------------------------
(* Properties.                                                             *)

\* Every variable has its type; the mailbox keeps its bound and the published count never
\* exceeds it by more than the reserved stop, with a command being handled or not.
TypeOK ==
    /\ mailbox \in Mailboxes
    /\ ahead \in [Tickets -> SUBSET Tickets]
    /\ stop \in Tickets \cup {NoTicket}
    /\ active \in Tickets \cup {NoTicket}
    /\ state \in [Tickets -> TicketState]
    /\ closing \in BOOLEAN /\ canceled \in BOOLEAN /\ ready \in BOOLEAN
    /\ snap \in RunnerSnapshot
    /\ pc \in PC
    /\ failure \in Failure
    /\ due \in BOOLEAN
    /\ task \in {"none", "open", "closed", "leaked"}
    /\ lock \in {"free", "owner", "other"}

\* No caller waits for ever on a ticket of a dead owner: once the published phase
\* is final, no ticket is queued or running, whichever call was accepted in the
\* window between a failure, a shutdown or a lost lock and the end of the thread.
NoStrandedTicket ==
    snap.phase \in {"stopped", "failed"} =>
        mailbox = {} /\ \A t \in Tickets : state[t] \notin {"queued", "running"}

\* Once cancellation is latched no start or resume waits to be taken, and none can
\* be queued again, so cancellation wins over every play the owner has not begun.
CanceledPlaysGone ==
    canceled => \A t \in Tickets : Plays(t) => state[t] # "queued"

\* An accepted stop is handled, shutdown or not: it is only ever canceled by an
\* owner that failed, and the cached snapshot then says so.
StopHonoured ==
    stop # NoTicket /\ state[stop] = "canceled" => snap.failure # "none"

\* The locks outlive the task, the owns_device that clients read covers them, and
\* an end that left device resources behind is never published as a clean stop.
OwnershipCoversTask ==
    /\ task = "open" => lock = "owner" /\ snap.owns
    /\ ~snap.owns /\ pc # "locked" => lock # "owner"
    /\ task = "leaked" => snap.phase # "stopped"

\* A settled ticket never changes again (waiters were released with its result),
\* and only the owner's own task call settles a ticket it is running.
TicketsSettleOnce ==
    [][\A t \in Tickets :
          /\ state[t] \in Settled => state'[t] \in {state[t], "unused"}
          /\ state[t] = "running" /\ state'[t] # state[t] =>
                pc = "handling" /\ state'[t] \in {"handled", "failed"}]_state

\* Every accepted command is eventually handled, canceled or failed.
EveryTicketSettles ==
    \A t \in Tickets : state[t] = "queued" ~> state[t] \in Settled

\* A shutdown, or any other end of acceptance, ends with the owner thread gone and
\* the locks released.
ShutdownCompletes == closing ~> (snap.phase \in {"stopped", "failed"} /\ lock # "owner")

\* Command traffic cannot starve observation: a due step begins, unless the owner
\* is on its way out.
DueStepRuns == (pc = "loop" /\ due) ~> (pc = "stepping" \/ closing)

=============================================================================
