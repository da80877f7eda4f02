-------------------------- MODULE RunnerIPC_proofs --------------------------
(***************************************************************************)
(* TLAPS proofs about the runner and its endpoint, for every set of        *)
(* tickets, every capacity and every set of inode numbers.  First          *)
(* SessionRunner: IInv strengthens its safety invariants with what ties    *)
(* the queues, the published phase and the owner's program counter         *)
(* together.  Then RunnerIPC, which refines SessionRunner, so that what is *)
(* proved of the runner alone holds of the composition; the endpoint rests *)
(* on the lease, and a command on the registry.                            *)
(***************************************************************************)
EXTENDS RunnerIPC, FiniteSetTheorems, TLAPS

\* The queues: where a ticket is says what state it is in.
QueueInv ==
    /\ \A t \in mailbox : state[t] = "queued" /\ Action[t] # "stop"
    /\ \A t \in Tickets : state[t] = "queued" => t \in mailbox \cup {stop}
    /\ \A t \in Tickets : state[t] = "running" => pc = "handling" /\ t = active
    /\ pc = "handling" => active \in Tickets /\ state[active] = "running"
    /\ stop # NoTicket => stop \in Tickets /\ Action[stop] = "stop" /\ state[stop] # "unused"
    /\ canceled => \A t \in mailbox : ~Plays(t)

\* Before Cleanup the owner has failed only if it is about to clean up; after it
\* nothing is accepted and nothing is left.
OwnerInv ==
    /\ pc = "unstarted" => stop = NoTicket /\ mailbox = {} /\ failure = "none"
                           /\ snap.phase \in {"new", "stopped", "failed"}
    /\ pc # "unstarted" => snap.phase # "new"
    /\ snap.phase \in {"stopped", "failed"} => pc \in {"unstarted", "exited"}
    /\ pc = "exited" => snap.phase \in {"stopped", "failed"}
    /\ snap.phase = "stopped" => failure = "none"
    /\ pc \in {"close", "release", "exited"} => closing /\ mailbox = {} /\ ~StopQueued
    /\ pc = "cleanup" => failure # "none" \/ (closing /\ ~StopQueued)
    /\ pc = "exit" => failure # "none" \/ (closing /\ ~StopQueued)

\* A canceled stop has a published reason.
StopInv ==
    stop # NoTicket /\ state[stop] = "canceled" =>
        failure # "none" /\ snap.failure # "none" /\ pc \in {"close", "release", "exit", "exited"}

\* The task lives inside the published ownership.
LockInv ==
    /\ lock = "owner" => pc \notin {"unstarted", "acquire", "exit", "exited"}
    /\ pc \in {"locked", "claimed", "built", "loop", "stepping", "handling", "cleanup",
               "close", "release"} => lock = "owner"
    /\ pc \in {"claimed", "built", "loop", "stepping", "handling", "cleanup",
               "close", "release"} => snap.owns
    /\ task = "open" => pc \in {"built", "loop", "stepping", "handling", "cleanup", "close"}
    /\ task = "leaked" => failure # "none"

IInv == TypeOK /\ QueueInv /\ OwnerInv /\ StopInv /\ LockInv

-----------------------------------------------------------------------------

\* The mailbox is finite, so the published pending count is a natural number.
LEMMA FiniteCounts ==
    \A S \in SUBSET Tickets : IsFiniteSet(S) /\ Cardinality(S) \in Nat
BY RunnerAssumption, FS_Subset, FS_CardinalityType

\* Tickets only leave a mailbox within its bound, ...
LEMMA LeavingKeepsBound ==
    ASSUME NEW S \in Mailboxes, NEW gone
    PROVE  S \ gone \in Mailboxes
<1>1. S \in SUBSET Tickets /\ Cardinality(S) <= Capacity /\ IsFiniteSet(S)
  BY FiniteCounts DEF Mailboxes
<1>2. Cardinality(S \ gone) <= Cardinality(S)
  BY <1>1, FS_Subset
<1>3. Cardinality(S \ gone) \in Nat /\ Cardinality(S) \in Nat /\ Capacity \in Nat
  BY <1>1, FiniteCounts, RunnerAssumption
<1> QED
  BY <1>1, <1>2, <1>3 DEF Mailboxes

\* ... or join one that is not full.
LEMMA JoiningKeepsBound ==
    ASSUME NEW S \in Mailboxes, NEW t \in Tickets, Cardinality(S) < Capacity
    PROVE  S \cup {t} \in Mailboxes
<1>1. S \in SUBSET Tickets /\ IsFiniteSet(S) /\ Cardinality(S) \in Nat /\ Capacity \in Nat
  BY FiniteCounts, RunnerAssumption DEF Mailboxes
<1>2. Cardinality(S \cup {t}) \in {Cardinality(S), Cardinality(S) + 1}
  BY <1>1, FS_AddElement
<1> QED
  BY <1>1, <1>2 DEF Mailboxes

\* Publishing keeps the type of the snapshot.
LEMMA PublishTypes ==
    \A changed \in RunnerSnapshot :
        mailbox' \in Mailboxes /\ canceled' \in BOOLEAN /\ Publish(changed)
            => snap' \in RunnerSnapshot
<1> SUFFICES ASSUME NEW changed \in RunnerSnapshot, mailbox' \in Mailboxes,
                    canceled' \in BOOLEAN, Publish(changed)
             PROVE  snap' \in RunnerSnapshot
  OBVIOUS
<1> DEFINE n == Cardinality(mailbox') + (IF StopQueued' THEN 1 ELSE 0)
<1>1. n \in 0..(Capacity + 1)
  <2>1. Cardinality(mailbox') \in Nat /\ Cardinality(mailbox') <= Capacity /\ Capacity \in Nat
    BY FiniteCounts, RunnerAssumption DEF Mailboxes
  <2> QED
    BY <2>1
<1> HIDE DEF n
<1>2. snap' = [changed EXCEPT !.canceled = canceled', !.pending = n]
  BY DEF Publish, PendingCount, n
<1> QED
  BY <1>1, <1>2 DEF RunnerSnapshot

\* Every step keeps the types.
LEMMA TypeStep == TypeOK /\ [Next]_vars => TypeOK'
<1> SUFFICES ASSUME TypeOK, [Next]_vars PROVE TypeOK'
  OBVIOUS
<1> USE RunnerAssumption
    DEF TypeOK, TicketState, RunnerSnapshot, RunnerPhase, Failure, PC,
        queues, flags, owner
<1>1. ASSUME Start PROVE TypeOK'
  BY <1>1, PublishTypes DEF Start
<1>2. ASSUME StartFails PROVE TypeOK'
  <2> DEFINE changed == [snap EXCEPT !.phase = "failed", !.failure = "initialization"]
  <2>1. changed \in RunnerSnapshot /\ mailbox' \in Mailboxes /\ canceled' \in BOOLEAN
    BY <1>2 DEF StartFails
  <2>2. Publish(changed)
    BY <1>2 DEF StartFails
  <2>3. snap' \in RunnerSnapshot
    BY <2>1, <2>2, PublishTypes
  <2> QED
    BY <1>2, <2>3 DEF StartFails
<1>3. ASSUME NEW t \in Tickets, Submit(t) PROVE TypeOK'
  <2>1. mailbox' \in Mailboxes
    <3>1. ~(Cardinality(mailbox) >= Capacity)
      BY <1>3 DEF Submit, Full
    <3>2. Cardinality(mailbox) < Capacity
      BY <3>1, FiniteCounts DEF Mailboxes
    <3> QED
      BY <1>3, <3>2, JoiningKeepsBound DEF Submit
  <2>2. snap' \in RunnerSnapshot
    BY <1>3, <2>1, PublishTypes DEF Submit
  <2>3. /\ ahead' \in [Tickets -> SUBSET Tickets] /\ state' \in [Tickets -> TicketState]
        /\ UNCHANGED <<stop, active, flags, owner>>
    BY <1>3 DEF Submit, Mailboxes
  <2> QED
    BY <2>1, <2>2, <2>3
<1>4. ASSUME NEW t \in Tickets, Stop(t) PROVE TypeOK'
  <2>1. mailbox' \in Mailboxes
    BY <1>4, LeavingKeepsBound DEF Stop, CancelPending
  <2>2. canceled' \in BOOLEAN /\ Publish(snap)
    BY <1>4 DEF Stop, CancelPending
  <2>3. snap' \in RunnerSnapshot
    BY <2>1, <2>2, PublishTypes
  <2>4. ahead' \in [Tickets -> SUBSET Tickets] /\ state' \in [Tickets -> TicketState]
    BY <1>4 DEF Stop, CancelPending, WithCanceled
  <2> QED
    BY <1>4, <2>1, <2>2, <2>3, <2>4 DEF Stop
<1>5. ASSUME NEW t \in Tickets, Forget(t) PROVE TypeOK'
  BY <1>5 DEF Forget, Settled
<1>6. ASSUME Cancel PROVE TypeOK'
  <2>1. mailbox' \in Mailboxes
    BY <1>6, LeavingKeepsBound DEF Cancel, CancelPending
  <2>2. canceled' \in BOOLEAN /\ Publish(snap)
    BY <1>6 DEF Cancel, CancelPending
  <2>3. snap' \in RunnerSnapshot
    BY <2>1, <2>2, PublishTypes
  <2>4. ahead' \in [Tickets -> SUBSET Tickets] /\ state' \in [Tickets -> TicketState]
    BY <1>6 DEF Cancel, CancelPending, WithCanceled
  <2> QED
    BY <1>6, <2>1, <2>2, <2>3, <2>4 DEF Cancel
<1>7. ASSUME Shutdown PROVE TypeOK'
  <2>1. mailbox' \in Mailboxes
    BY <1>7, LeavingKeepsBound DEF Shutdown, CancelPending
  <2>2. canceled' \in BOOLEAN /\ closing' \in BOOLEAN
    BY <1>7 DEF Shutdown, CancelPending
  <2>3. \/ Publish([snap EXCEPT !.phase = "stopped"])
        \/ Publish([snap EXCEPT !.phase = "stopping"])
        \/ snap' = snap
    BY <1>7 DEF Shutdown
  <2>4. snap' \in RunnerSnapshot
    BY <2>1, <2>2, <2>3, PublishTypes
  <2>5. ahead' \in [Tickets -> SUBSET Tickets] /\ state' \in [Tickets -> TicketState]
    BY <1>7 DEF Shutdown, CancelPending, WithCanceled
  <2> QED
    BY <1>7, <2>1, <2>2, <2>4, <2>5 DEF Shutdown
<1>8. ASSUME AcquireOwnership PROVE TypeOK'
  BY <1>8 DEF AcquireOwnership, Move
<1>9. ASSUME OwnershipFails PROVE TypeOK'
  BY <1>9 DEF OwnershipFails, Move
<1>10. ASSUME PublishOwned PROVE TypeOK'
  <2> DEFINE changed == [snap EXCEPT !.owns = TRUE]
  <2>1. changed \in RunnerSnapshot /\ mailbox' \in Mailboxes /\ canceled' \in BOOLEAN
    BY <1>10 DEF PublishOwned, Move
  <2>2. Publish(changed)
    BY <1>10 DEF PublishOwned
  <2>3. snap' \in RunnerSnapshot
    BY <2>1, <2>2, PublishTypes
  <2> QED
    BY <1>10, <2>3 DEF PublishOwned, Move
<1>11. ASSUME BuildTask PROVE TypeOK'
  BY <1>11 DEF BuildTask, Move
<1>12. ASSUME BuildFails PROVE TypeOK'
  BY <1>12 DEF BuildFails, Move
<1>13. ASSUME BecomeReady PROVE TypeOK'
  BY <1>13, PublishTypes DEF BecomeReady, Move
<1>14. ASSUME TakeStop PROVE TypeOK'
  <2> DEFINE changed == snap
  <2>1. changed \in RunnerSnapshot /\ mailbox' \in Mailboxes /\ canceled' \in BOOLEAN
    BY <1>14 DEF TakeStop, Move
  <2>2. Publish(changed)
    BY <1>14 DEF TakeStop
  <2>3. snap' \in RunnerSnapshot
    BY <2>1, <2>2, PublishTypes
  <2>4. state' \in [Tickets -> TicketState] /\ active' \in Tickets \cup {NoTicket}
    BY <1>14 DEF TakeStop, StopQueued
  <2>5. pc' \in PC /\ UNCHANGED <<mailbox, ahead, stop, flags, failure, due, task, lock>>
    BY <1>14 DEF TakeStop, Move
  <2> HIDE DEF changed
  <2> QED
    BY <2>3, <2>4, <2>5
<1>15. ASSUME LeaveLoop PROVE TypeOK'
  BY <1>15 DEF LeaveLoop, Move, MayLeave
<1>16. ASSUME BeginStep PROVE TypeOK'
  BY <1>16 DEF BeginStep, Move
<1>17. ASSUME NEW t \in Tickets, TakeRegular(t) PROVE TypeOK'
  <2>1. mailbox' \in Mailboxes
    BY <1>17, LeavingKeepsBound DEF TakeRegular
  <2>2. canceled' \in BOOLEAN /\ Publish(snap)
    BY <1>17 DEF TakeRegular
  <2>3. snap' \in RunnerSnapshot
    BY <2>1, <2>2, PublishTypes
  <2>4. ahead' \in [Tickets -> SUBSET Tickets] /\ state' \in [Tickets -> TicketState]
    BY <1>17 DEF TakeRegular
  <2> QED
    BY <1>17, <2>1, <2>2, <2>3, <2>4 DEF TakeRegular, Move
<1>18. ASSUME StepReturns PROVE TypeOK'
  <2> DEFINE changed == snap
  <2>1. changed \in RunnerSnapshot /\ mailbox' \in Mailboxes /\ canceled' \in BOOLEAN
    BY <1>18 DEF StepReturns, Move
  <2>2. Publish(changed)
    BY <1>18 DEF StepReturns
  <2>3. snap' \in RunnerSnapshot
    BY <2>1, <2>2, PublishTypes
  <2>4. pc' \in PC /\ due' \in BOOLEAN /\ UNCHANGED <<queues, flags, failure, task, lock>>
    BY <1>18 DEF StepReturns, Move
  <2> HIDE DEF changed
  <2> QED
    BY <2>3, <2>4
<1>19. ASSUME StepFails PROVE TypeOK'
  BY <1>19, PublishTypes DEF StepFails, Move
<1>20. ASSUME HandleReturns PROVE TypeOK'
  <2> DEFINE changed == snap
  <2>1. changed \in RunnerSnapshot /\ mailbox' \in Mailboxes /\ canceled' \in BOOLEAN
    BY <1>20 DEF HandleReturns, Move
  <2>2. Publish(changed)
    BY <1>20 DEF HandleReturns
  <2>3. snap' \in RunnerSnapshot
    BY <2>1, <2>2, PublishTypes
  <2>4. state' \in [Tickets -> TicketState] /\ active' \in Tickets \cup {NoTicket}
    BY <1>20 DEF HandleReturns
  <2> QED
    BY <1>20, <2>3, <2>4 DEF HandleReturns, Move, Publish
<1>21. ASSUME HandleFails PROVE TypeOK'
  <2> DEFINE changed == [snap EXCEPT !.failure = "command"]
  <2>1. changed \in RunnerSnapshot /\ mailbox' \in Mailboxes /\ canceled' \in BOOLEAN
    BY <1>21 DEF HandleFails
  <2>2. Publish(changed)
    BY <1>21 DEF HandleFails
  <2>3. snap' \in RunnerSnapshot
    BY <2>1, <2>2, PublishTypes
  <2>4. state' \in [Tickets -> TicketState] /\ failure' \in Failure /\ pc' \in PC
    BY <1>21 DEF HandleFails, Move
  <2>5. UNCHANGED <<mailbox, ahead, stop, active, flags, due, task, lock>>
    BY <1>21 DEF HandleFails
  <2> HIDE DEF changed
  <2> QED
    BY <2>3, <2>4, <2>5
<1>22. ASSUME Cleanup PROVE TypeOK'
  <2> DEFINE changed == [snap EXCEPT !.phase = "stopping", !.failure = failure]
  <2>1. changed \in RunnerSnapshot
    OBVIOUS
  <2>2. /\ mailbox' \in Mailboxes /\ ahead' \in [Tickets -> SUBSET Tickets]
        /\ state' \in [Tickets -> TicketState]
        /\ closing' \in BOOLEAN /\ canceled' \in BOOLEAN /\ ready' \in BOOLEAN
    BY <1>22, LeavingKeepsBound DEF Cleanup, CancelEverything, CancelPending, WithCanceled, Abandoned
  <2>3. Publish(changed)
    BY <1>22 DEF Cleanup
  <2>4. snap' \in RunnerSnapshot
    BY <2>1, <2>2, <2>3, PublishTypes
  <2>5. pc' \in PC /\ UNCHANGED <<stop, active, failure, due, task, lock>>
    BY <1>22 DEF Cleanup, Move
  <2> HIDE DEF changed
  <2> QED
    BY <2>2, <2>4, <2>5
<1>23. ASSUME CloseTask PROVE TypeOK'
  <2>1. pc' \in PC /\ UNCHANGED <<queues, flags, snap, due, lock>>
    BY <1>23 DEF CloseTask, Move
  <2>2. failure' \in Failure /\ task' \in {"none", "open", "closed", "leaked"}
    BY <1>23 DEF CloseTask, CloseFailure
  <2> QED
    BY <2>1, <2>2
<1>24. ASSUME ReleaseOwnership PROVE TypeOK'
  BY <1>24 DEF ReleaseOwnership, Move
<1>25. ASSUME Exit PROVE TypeOK'
  <2> DEFINE changed == [snap EXCEPT !.phase = IF failure # "none" THEN "failed" ELSE "stopped",
                            !.owns = FALSE, !.failure = failure]
  <2>1. changed \in RunnerSnapshot /\ mailbox' \in Mailboxes /\ canceled' \in BOOLEAN
    <3>1. changed \in RunnerSnapshot
      OBVIOUS
    <3>2. mailbox' = mailbox \ mailbox /\ canceled'
      BY <1>25 DEF Exit, CancelEverything, CancelPending
    <3>3. mailbox' \in Mailboxes
      BY <3>2, LeavingKeepsBound
    <3> QED
      BY <3>1, <3>2, <3>3
  <2>2. Publish(changed)
    BY <1>25 DEF Exit
  <2>3. snap' \in RunnerSnapshot
    BY <2>1, <2>2, PublishTypes
  <2>4. /\ ahead' \in [Tickets -> SUBSET Tickets] /\ state' \in [Tickets -> TicketState]
        /\ closing' \in BOOLEAN /\ ready' \in BOOLEAN /\ pc' \in PC
        /\ UNCHANGED <<stop, active, failure, due, task, lock>>
    BY <1>25 DEF Exit, Move, CancelEverything, CancelPending, WithCanceled, Abandoned
  <2> HIDE DEF changed
  <2> QED
    BY <2>1, <2>3, <2>4
<1>26. ASSUME StepBecomesDue PROVE TypeOK'
  BY <1>26 DEF StepBecomesDue
<1>27. ASSUME OtherProcess PROVE TypeOK'
  BY <1>27 DEF OtherProcess
<1>28. CASE UNCHANGED vars
  BY <1>28 DEF vars
<1> QED
  BY <1>1, <1>2, <1>3, <1>4, <1>5, <1>6, <1>7, <1>8, <1>9, <1>10,
     <1>11, <1>12, <1>13, <1>14, <1>15, <1>16, <1>17, <1>18, <1>19, <1>20,
     <1>21, <1>22, <1>23, <1>24, <1>25, <1>26, <1>27, <1>28
  DEF Next, Client, Owner

\* Every step keeps the queues and the ticket states together.
LEMMA QueueStep == TypeOK /\ QueueInv /\ OwnerInv /\ [Next]_vars => QueueInv'
<1> SUFFICES ASSUME TypeOK, QueueInv, OwnerInv, [Next]_vars PROVE QueueInv'
  OBVIOUS
<1> USE RunnerAssumption
    DEF TypeOK, RunnerSnapshot, QueueInv, OwnerInv, StopQueued, Plays, PlayAction, CommandAction, TicketState,
        queues, flags, owner
<1>1. ASSUME Start PROVE QueueInv'
  BY <1>1 DEF Start, Publish
<1>2. ASSUME StartFails PROVE QueueInv'
  BY <1>2 DEF StartFails, Publish
<1>3. ASSUME NEW t \in Tickets, Submit(t) PROVE QueueInv'
  BY <1>3 DEF Submit, RequireOpen, Refused, Known, Publish
<1>4. ASSUME NEW t \in Tickets, Stop(t) PROVE QueueInv'
  BY <1>4 DEF Stop, Mailboxes, RequireOpen, Known, CancelPending, WithCanceled, PendingPlays,
             Publish
<1>5. ASSUME NEW t \in Tickets, Forget(t) PROVE QueueInv'
  BY <1>5 DEF Forget, Settled
<1>6. ASSUME Cancel PROVE QueueInv'
  BY <1>6 DEF Cancel, Mailboxes, RequireOpen, CancelPending, WithCanceled, PendingPlays, Publish
<1>7. ASSUME Shutdown PROVE QueueInv'
  BY <1>7 DEF Shutdown, CancelPending, WithCanceled, Publish
<1>8. ASSUME AcquireOwnership PROVE QueueInv'
  BY <1>8 DEF AcquireOwnership, Move
<1>9. ASSUME OwnershipFails PROVE QueueInv'
  BY <1>9 DEF OwnershipFails, Move
<1>10. ASSUME PublishOwned PROVE QueueInv'
  BY <1>10 DEF PublishOwned, Move, Publish
<1>11. ASSUME BuildTask PROVE QueueInv'
  BY <1>11 DEF BuildTask, Move
<1>12. ASSUME BuildFails PROVE QueueInv'
  BY <1>12 DEF BuildFails, Move
<1>13. ASSUME BecomeReady PROVE QueueInv'
  BY <1>13 DEF BecomeReady, Move, Publish
<1>14. ASSUME TakeStop PROVE QueueInv'
  BY <1>14 DEF TakeStop, Move, Publish
<1>15. ASSUME LeaveLoop PROVE QueueInv'
  BY <1>15 DEF LeaveLoop, Move, MayLeave
<1>16. ASSUME BeginStep PROVE QueueInv'
  BY <1>16 DEF BeginStep, Move
<1>17. ASSUME NEW t \in Tickets, TakeRegular(t) PROVE QueueInv'
  BY <1>17 DEF TakeRegular, Move, MayTakeRegular, Publish
<1>18. ASSUME StepReturns PROVE QueueInv'
  BY <1>18 DEF StepReturns, Move, Publish
<1>19. ASSUME StepFails PROVE QueueInv'
  BY <1>19 DEF StepFails, Move, Publish
<1>20. ASSUME HandleReturns PROVE QueueInv'
  BY <1>20 DEF HandleReturns, Move, Publish
<1>21. ASSUME HandleFails PROVE QueueInv'
  BY <1>21 DEF HandleFails, Move, Publish
<1>22. ASSUME Cleanup PROVE QueueInv'
  BY <1>22 DEF Cleanup, Move, CancelEverything, CancelPending, WithCanceled, Abandoned, Publish
<1>23. ASSUME CloseTask PROVE QueueInv'
  BY <1>23 DEF CloseTask, Move, CloseFailure
<1>24. ASSUME ReleaseOwnership PROVE QueueInv'
  BY <1>24 DEF ReleaseOwnership, Move
<1>25. ASSUME Exit PROVE QueueInv'
  BY <1>25 DEF Exit, Move, CancelEverything, CancelPending, WithCanceled, Abandoned, Publish
<1>26. ASSUME StepBecomesDue PROVE QueueInv'
  BY <1>26 DEF StepBecomesDue
<1>27. ASSUME OtherProcess PROVE QueueInv'
  BY <1>27 DEF OtherProcess
<1>28. CASE UNCHANGED vars
  BY <1>28 DEF vars
<1> QED
  BY <1>1, <1>2, <1>3, <1>4, <1>5, <1>6, <1>7, <1>8, <1>9, <1>10,
     <1>11, <1>12, <1>13, <1>14, <1>15, <1>16, <1>17, <1>18, <1>19, <1>20,
     <1>21, <1>22, <1>23, <1>24, <1>25, <1>26, <1>27, <1>28
  DEF Next, Client, Owner

\* Every step keeps phase, program counter and queues together.
LEMMA OwnerStep == TypeOK /\ QueueInv /\ OwnerInv /\ [Next]_vars => OwnerInv'
<1> SUFFICES ASSUME TypeOK, QueueInv, OwnerInv, [Next]_vars PROVE OwnerInv'
  OBVIOUS
<1> USE RunnerAssumption
    DEF TypeOK, RunnerSnapshot, QueueInv, OwnerInv, StopQueued, RunnerPhase, PC, Failure,
        queues, flags, owner
<1>1. ASSUME Start PROVE OwnerInv'
  BY <1>1 DEF Start, Publish
<1>2. ASSUME StartFails PROVE OwnerInv'
  BY <1>2 DEF StartFails, Publish
<1>3. ASSUME NEW t \in Tickets, Submit(t) PROVE OwnerInv'
  BY <1>3 DEF Submit, RequireOpen, Refused, Known, Publish
<1>4. ASSUME NEW t \in Tickets, Stop(t) PROVE OwnerInv'
  BY <1>4 DEF Stop, RequireOpen, Known, CancelPending, WithCanceled, PendingPlays, Publish
<1>5. ASSUME NEW t \in Tickets, Forget(t) PROVE OwnerInv'
  BY <1>5 DEF Forget, Settled
<1>6. ASSUME Cancel PROVE OwnerInv'
  BY <1>6 DEF Cancel, RequireOpen, CancelPending, WithCanceled, PendingPlays, Publish
<1>7. ASSUME Shutdown PROVE OwnerInv'
  <2>a. closing' /\ mailbox' = {} /\ (StopQueued' => StopQueued)
        /\ pc' = pc /\ stop' = stop /\ failure' = failure
    BY <1>7 DEF Shutdown, CancelPending, WithCanceled
  <2>1. CASE snap.phase = "new"
    <3>1. Publish([snap EXCEPT !.phase = "stopped"])
      BY <1>7, <2>1 DEF Shutdown
    <3>2. snap'.phase = "stopped"
      BY <3>1 DEF Publish
    <3> QED
      BY <2>a, <2>1, <3>2
  <2>2. CASE snap.phase \in {"stopped", "failed"}
    BY <1>7, <2>2 DEF Shutdown, CancelPending, WithCanceled
  <2>3. CASE snap.phase \notin {"new", "stopped", "failed"}
    <3>1. Publish([snap EXCEPT !.phase = "stopping"])
      BY <1>7, <2>3 DEF Shutdown
    <3>2. snap'.phase = "stopping"
      BY <3>1 DEF Publish
    <3> QED
      BY <2>a, <2>3, <3>2
  <2> QED
    BY <2>1, <2>2, <2>3
<1>8. ASSUME AcquireOwnership PROVE OwnerInv'
  BY <1>8 DEF AcquireOwnership, Move
<1>9. ASSUME OwnershipFails PROVE OwnerInv'
  BY <1>9 DEF OwnershipFails, Move
<1>10. ASSUME PublishOwned PROVE OwnerInv'
  BY <1>10 DEF PublishOwned, Move, Publish
<1>11. ASSUME BuildTask PROVE OwnerInv'
  BY <1>11 DEF BuildTask, Move
<1>12. ASSUME BuildFails PROVE OwnerInv'
  BY <1>12 DEF BuildFails, Move
<1>13. ASSUME BecomeReady PROVE OwnerInv'
  BY <1>13 DEF BecomeReady, Move, Publish
<1>14. ASSUME TakeStop PROVE OwnerInv'
  BY <1>14 DEF TakeStop, Move, Publish
<1>15. ASSUME LeaveLoop PROVE OwnerInv'
  BY <1>15 DEF LeaveLoop, Move, MayLeave
<1>16. ASSUME BeginStep PROVE OwnerInv'
  BY <1>16 DEF BeginStep, Move
<1>17. ASSUME NEW t \in Tickets, TakeRegular(t) PROVE OwnerInv'
  BY <1>17 DEF TakeRegular, Move, MayTakeRegular, Publish
<1>18. ASSUME StepReturns PROVE OwnerInv'
  BY <1>18 DEF StepReturns, Move, Publish
<1>19. ASSUME StepFails PROVE OwnerInv'
  BY <1>19 DEF StepFails, Move, Publish
<1>20. ASSUME HandleReturns PROVE OwnerInv'
  BY <1>20 DEF HandleReturns, Move, Publish
<1>21. ASSUME HandleFails PROVE OwnerInv'
  BY <1>21 DEF HandleFails, Move, Publish
<1>22. ASSUME Cleanup PROVE OwnerInv'
  BY <1>22 DEF Cleanup, Move, CancelEverything, CancelPending, WithCanceled, Abandoned, Publish
<1>23. ASSUME CloseTask PROVE OwnerInv'
  BY <1>23 DEF CloseTask, Move, CloseFailure
<1>24. ASSUME ReleaseOwnership PROVE OwnerInv'
  BY <1>24 DEF ReleaseOwnership, Move
<1>25. ASSUME Exit PROVE OwnerInv'
  BY <1>25 DEF Exit, Move, CancelEverything, CancelPending, WithCanceled, Abandoned, Publish
<1>26. ASSUME StepBecomesDue PROVE OwnerInv'
  BY <1>26 DEF StepBecomesDue
<1>27. ASSUME OtherProcess PROVE OwnerInv'
  BY <1>27 DEF OtherProcess
<1>28. CASE UNCHANGED vars
  BY <1>28 DEF vars
<1> QED
  BY <1>1, <1>2, <1>3, <1>4, <1>5, <1>6, <1>7, <1>8, <1>9, <1>10,
     <1>11, <1>12, <1>13, <1>14, <1>15, <1>16, <1>17, <1>18, <1>19, <1>20,
     <1>21, <1>22, <1>23, <1>24, <1>25, <1>26, <1>27, <1>28
  DEF Next, Client, Owner

\* Every step keeps the reason of a canceled stop.
LEMMA StopStep == TypeOK /\ QueueInv /\ OwnerInv /\ StopInv /\ [Next]_vars => StopInv'
<1> SUFFICES ASSUME TypeOK, QueueInv, OwnerInv, StopInv, [Next]_vars PROVE StopInv'
  OBVIOUS
<1> USE RunnerAssumption
    DEF TypeOK, RunnerSnapshot, QueueInv, OwnerInv, StopInv, StopQueued, Failure,
        queues, flags, owner
<1>1. ASSUME Start PROVE StopInv'
  BY <1>1 DEF Start, Publish
<1>2. ASSUME StartFails PROVE StopInv'
  BY <1>2 DEF StartFails, Publish
<1>3. ASSUME NEW t \in Tickets, Submit(t) PROVE StopInv'
  BY <1>3 DEF Submit, RequireOpen, Refused, Known, Publish
<1>4. ASSUME NEW t \in Tickets, Stop(t) PROVE StopInv'
  BY <1>4 DEF Stop, RequireOpen, Known, CancelPending, WithCanceled, PendingPlays, Publish
<1>5. ASSUME NEW t \in Tickets, Forget(t) PROVE StopInv'
  BY <1>5 DEF Forget, Settled
<1>6. ASSUME Cancel PROVE StopInv'
  BY <1>6 DEF Cancel, RequireOpen, CancelPending, WithCanceled, PendingPlays, Publish
<1>7. ASSUME Shutdown PROVE StopInv'
  BY <1>7 DEF Shutdown, CancelPending, WithCanceled, Publish
<1>8. ASSUME AcquireOwnership PROVE StopInv'
  BY <1>8 DEF AcquireOwnership, Move
<1>9. ASSUME OwnershipFails PROVE StopInv'
  BY <1>9 DEF OwnershipFails, Move
<1>10. ASSUME PublishOwned PROVE StopInv'
  BY <1>10 DEF PublishOwned, Move, Publish
<1>11. ASSUME BuildTask PROVE StopInv'
  BY <1>11 DEF BuildTask, Move
<1>12. ASSUME BuildFails PROVE StopInv'
  BY <1>12 DEF BuildFails, Move
<1>13. ASSUME BecomeReady PROVE StopInv'
  BY <1>13 DEF BecomeReady, Move, Publish
<1>14. ASSUME TakeStop PROVE StopInv'
  BY <1>14 DEF TakeStop, Move, Publish
<1>15. ASSUME LeaveLoop PROVE StopInv'
  BY <1>15 DEF LeaveLoop, Move, MayLeave
<1>16. ASSUME BeginStep PROVE StopInv'
  BY <1>16 DEF BeginStep, Move
<1>17. ASSUME NEW t \in Tickets, TakeRegular(t) PROVE StopInv'
  BY <1>17 DEF TakeRegular, Move, MayTakeRegular, Publish
<1>18. ASSUME StepReturns PROVE StopInv'
  BY <1>18 DEF StepReturns, Move, Publish
<1>19. ASSUME StepFails PROVE StopInv'
  BY <1>19 DEF StepFails, Move, Publish
<1>20. ASSUME HandleReturns PROVE StopInv'
  BY <1>20 DEF HandleReturns, Move, Publish
<1>21. ASSUME HandleFails PROVE StopInv'
  BY <1>21 DEF HandleFails, Move, Publish
<1>22. ASSUME Cleanup PROVE StopInv'
  BY <1>22 DEF Cleanup, Move, CancelEverything, CancelPending, WithCanceled, Abandoned, Publish
<1>23. ASSUME CloseTask PROVE StopInv'
  BY <1>23 DEF CloseTask, Move, CloseFailure
<1>24. ASSUME ReleaseOwnership PROVE StopInv'
  BY <1>24 DEF ReleaseOwnership, Move
<1>25. ASSUME Exit PROVE StopInv'
  BY <1>25 DEF Exit, Move, CancelEverything, CancelPending, WithCanceled, Abandoned, Publish
<1>26. ASSUME StepBecomesDue PROVE StopInv'
  BY <1>26 DEF StepBecomesDue
<1>27. ASSUME OtherProcess PROVE StopInv'
  BY <1>27 DEF OtherProcess
<1>28. CASE UNCHANGED vars
  BY <1>28 DEF vars
<1> QED
  BY <1>1, <1>2, <1>3, <1>4, <1>5, <1>6, <1>7, <1>8, <1>9, <1>10,
     <1>11, <1>12, <1>13, <1>14, <1>15, <1>16, <1>17, <1>18, <1>19, <1>20,
     <1>21, <1>22, <1>23, <1>24, <1>25, <1>26, <1>27, <1>28
  DEF Next, Client, Owner

\* Every step keeps the task inside the ownership.
LEMMA LockStep == TypeOK /\ OwnerInv /\ LockInv /\ [Next]_vars => LockInv'
<1> SUFFICES ASSUME TypeOK, OwnerInv, LockInv, [Next]_vars PROVE LockInv'
  OBVIOUS
<1> USE RunnerAssumption
    DEF TypeOK, RunnerSnapshot, OwnerInv, LockInv, PC, Failure,
        queues, flags, owner
<1>1. ASSUME Start PROVE LockInv'
  BY <1>1 DEF Start, Publish
<1>2. ASSUME StartFails PROVE LockInv'
  BY <1>2 DEF StartFails, Publish
<1>3. ASSUME NEW t \in Tickets, Submit(t) PROVE LockInv'
  BY <1>3 DEF Submit, RequireOpen, Refused, Known, Publish
<1>4. ASSUME NEW t \in Tickets, Stop(t) PROVE LockInv'
  BY <1>4 DEF Stop, RequireOpen, Known, CancelPending, WithCanceled, PendingPlays, Publish
<1>5. ASSUME NEW t \in Tickets, Forget(t) PROVE LockInv'
  BY <1>5 DEF Forget, Settled
<1>6. ASSUME Cancel PROVE LockInv'
  BY <1>6 DEF Cancel, RequireOpen, CancelPending, WithCanceled, PendingPlays, Publish
<1>7. ASSUME Shutdown PROVE LockInv'
  BY <1>7 DEF Shutdown, CancelPending, WithCanceled, Publish
<1>8. ASSUME AcquireOwnership PROVE LockInv'
  BY <1>8 DEF AcquireOwnership, Move
<1>9. ASSUME OwnershipFails PROVE LockInv'
  BY <1>9 DEF OwnershipFails, Move
<1>10. ASSUME PublishOwned PROVE LockInv'
  BY <1>10 DEF PublishOwned, Move, Publish
<1>11. ASSUME BuildTask PROVE LockInv'
  BY <1>11 DEF BuildTask, Move
<1>12. ASSUME BuildFails PROVE LockInv'
  BY <1>12 DEF BuildFails, Move
<1>13. ASSUME BecomeReady PROVE LockInv'
  BY <1>13 DEF BecomeReady, Move, Publish
<1>14. ASSUME TakeStop PROVE LockInv'
  BY <1>14 DEF TakeStop, Move, Publish
<1>15. ASSUME LeaveLoop PROVE LockInv'
  BY <1>15 DEF LeaveLoop, Move, MayLeave
<1>16. ASSUME BeginStep PROVE LockInv'
  BY <1>16 DEF BeginStep, Move
<1>17. ASSUME NEW t \in Tickets, TakeRegular(t) PROVE LockInv'
  BY <1>17 DEF TakeRegular, Move, MayTakeRegular, Publish
<1>18. ASSUME StepReturns PROVE LockInv'
  BY <1>18 DEF StepReturns, Move, Publish
<1>19. ASSUME StepFails PROVE LockInv'
  BY <1>19 DEF StepFails, Move, Publish
<1>20. ASSUME HandleReturns PROVE LockInv'
  BY <1>20 DEF HandleReturns, Move, Publish
<1>21. ASSUME HandleFails PROVE LockInv'
  BY <1>21 DEF HandleFails, Move, Publish
<1>22. ASSUME Cleanup PROVE LockInv'
  BY <1>22 DEF Cleanup, Move, CancelEverything, CancelPending, WithCanceled, Abandoned, Publish
<1>23. ASSUME CloseTask PROVE LockInv'
  BY <1>23 DEF CloseTask, Move, CloseFailure
<1>24. ASSUME ReleaseOwnership PROVE LockInv'
  BY <1>24 DEF ReleaseOwnership, Move
<1>25. ASSUME Exit PROVE LockInv'
  BY <1>25 DEF Exit, Move, CancelEverything, CancelPending, WithCanceled, Abandoned, Publish
<1>26. ASSUME StepBecomesDue PROVE LockInv'
  BY <1>26 DEF StepBecomesDue
<1>27. ASSUME OtherProcess PROVE LockInv'
  BY <1>27 DEF OtherProcess
<1>28. CASE UNCHANGED vars
  BY <1>28 DEF vars
<1> QED
  BY <1>1, <1>2, <1>3, <1>4, <1>5, <1>6, <1>7, <1>8, <1>9, <1>10,
     <1>11, <1>12, <1>13, <1>14, <1>15, <1>16, <1>17, <1>18, <1>19, <1>20,
     <1>21, <1>22, <1>23, <1>24, <1>25, <1>26, <1>27, <1>28
  DEF Next, Client, Owner

-----------------------------------------------------------------------------
LEMMA InitIInv == Init => IInv
<1> SUFFICES ASSUME Init PROVE IInv
  OBVIOUS
<1> USE RunnerAssumption DEF Init
<1>1. TypeOK
  <2>1. mailbox \in Mailboxes /\ 0 \in 0..(Capacity + 1)
    BY FS_EmptySet, RunnerAssumption DEF Mailboxes
  <2> QED
    BY <2>1 DEF TypeOK, RunnerSnapshot, TicketState, RunnerPhase, Failure, PC
<1>2. QueueInv
  BY DEF QueueInv
<1>3. OwnerInv /\ StopInv /\ LockInv
  BY DEF OwnerInv, StopInv, LockInv
<1> QED
  BY <1>1, <1>2, <1>3 DEF IInv

\* IInv holds in every reachable state.
THEOREM Invariance == Spec => []IInv
<1>1. IInv /\ [Next]_vars => IInv'
  BY TypeStep, QueueStep, OwnerStep, StopStep, LockStep DEF IInv
<1> QED
  BY InitIInv, <1>1, PTL DEF Spec

\* The types of runner.py's shared state are kept by every call and owner step: for any
\* capacity, the mailbox never holds more, and the published count at most one more.
THEOREM TypeCorrect == Spec => []TypeOK
<1>1. IInv => TypeOK
  BY DEF IInv
<1> QED
  BY <1>1, Invariance, PTL

\* For every set of tickets: a final phase leaves no ticket for a caller to wait on.
THEOREM NothingStranded == Spec => []NoStrandedTicket
<1>1. IInv => NoStrandedTicket
  BY RunnerAssumption
     DEF IInv, TypeOK, QueueInv, OwnerInv, StopQueued, NoStrandedTicket
<1> QED
  BY <1>1, Invariance, PTL

\* For every set of tickets: cancellation empties the mailbox of plays for good.
THEOREM CancellationWins == Spec => []CanceledPlaysGone
<1>1. IInv => CanceledPlaysGone
  BY RunnerAssumption
     DEF IInv, TypeOK, QueueInv, CanceledPlaysGone, Plays, PlayAction, CommandAction
<1> QED
  BY <1>1, Invariance, PTL

\* For every set of tickets: only a failed owner cancels an accepted stop.
THEOREM StopIsHonoured == Spec => []StopHonoured
<1>1. IInv => StopHonoured
  BY DEF IInv, StopInv, StopHonoured
<1> QED
  BY <1>1, Invariance, PTL

\* Locks and published ownership cover the life of the task.
THEOREM OwnershipIsCovered == Spec => []OwnershipCoversTask
<1>1. IInv => OwnershipCoversTask
  BY DEF IInv, TypeOK, PC, OwnerInv, LockInv, OwnershipCoversTask
<1> QED
  BY <1>1, Invariance, PTL

\* A settled ticket stays settled, and only a task call settles a running one.
THEOREM SettledOnce == Spec => TicketsSettleOnce
<1> DEFINE Once == \A t \in Tickets :
              /\ state[t] \in Settled => state'[t] \in {state[t], "unused"}
              /\ state[t] = "running" /\ state'[t] # state[t] =>
                    pc = "handling" /\ state'[t] \in {"handled", "failed"}
<1>1. IInv /\ [Next]_vars => [Once]_state
  <2> SUFFICES ASSUME IInv, [Next]_vars, NEW t \in Tickets
               PROVE  /\ state[t] \in Settled => state'[t] \in {state[t], "unused"}
                      /\ state[t] = "running" /\ state'[t] # state[t] =>
                            pc = "handling" /\ state'[t] \in {"handled", "failed"}
    OBVIOUS
  <2> USE RunnerAssumption DEF IInv, TypeOK, TicketState, Settled, QueueInv, StopQueued
  <2>1. ASSUME NEW u \in Tickets, Submit(u) \/ Stop(u) \/ Forget(u) PROVE Once
    BY <2>1 DEF Submit, Stop, Forget, WithCanceled, PendingPlays
  <2>2. CASE Cancel \/ Shutdown
    BY <2>2 DEF Cancel, Shutdown, WithCanceled, PendingPlays
  <2>3. ASSUME NEW u \in Tickets, TakeStop \/ TakeRegular(u) PROVE Once
    BY <2>3 DEF TakeStop, TakeRegular, Move
  <2>4. CASE HandleReturns \/ HandleFails
    BY <2>4 DEF HandleReturns, HandleFails, Move
  <2>5. CASE Cleanup \/ Exit
    BY <2>5 DEF Cleanup, Exit, CancelEverything, WithCanceled, Abandoned
  <2>6. CASE UNCHANGED queues
    BY <2>6 DEF queues
  <2>7. UNCHANGED vars => UNCHANGED queues
    BY DEF vars, queues
  <2> QED
    BY <2>1, <2>2, <2>3, <2>4, <2>5, <2>6, <2>7
       DEF Next, Client, Owner, Start, StartFails, AcquireOwnership, OwnershipFails,
           PublishOwned, BuildTask, BuildFails, BecomeReady, LeaveLoop, BeginStep,
           StepReturns, StepFails, CloseTask, ReleaseOwnership, StepBecomesDue, OtherProcess
<1> QED
  BY <1>1, Invariance, PTL DEF Spec, TicketsSettleOnce

-----------------------------------------------------------------------------
(* The endpoint.                                                           *)

\* Whoever has got past the lease holds it.
Holding == Place \ {"none", "checked", "closed"}

EndpointInv ==
    /\ at \in [Servers -> Place]
    /\ identity \in [Servers -> Nat]
    /\ lease \in Servers \cup {"free"}
    /\ \A p \in Servers : at[p] \in Holding => lease = p
    /\ \A p \in Servers : at[p] \in {"bound", "listening"} => path = identity[p]

\* What changes an endpoint.
EndpointActions ==
    \/ \E p \in Servers : Endpoint(p)
    \/ TheirDeath
    \/ UNCHANGED endpoint

\* The requests, the runner and the other runner leave both endpoints alone.
LEMMA EndpointsAct == [IPCNext]_ipcVars => EndpointActions
BY DEF IPCNext, ipcVars, EndpointActions, HandleRequest, HandleRegular, HandleStop,
       HandleHostedStop, HandleStopAgain, HandleShutdown, HostStop, TheirRunner

\* Only the holder of the lease moves on, and only it changes the path.
LEMMA EndpointStep == EndpointInv /\ [IPCNext]_ipcVars => EndpointInv'
<1> SUFFICES ASSUME EndpointInv, EndpointActions PROVE EndpointInv'
  BY EndpointsAct
<1> USE IPCAssumption DEF EndpointInv, Holding, Place, Servers, NoInode
<1>1. ASSUME NEW p \in Servers, CheckRunner(p) PROVE EndpointInv'
  BY <1>1 DEF CheckRunner, Step
<1>2. ASSUME NEW p \in Servers, TakeLease(p) PROVE EndpointInv'
  BY <1>2 DEF TakeLease, Step, LeaseFree
<1>3. ASSUME NEW p \in Servers, LeaseDenied(p) PROVE EndpointInv'
  BY <1>3 DEF LeaseDenied, Step
<1>4. ASSUME NEW p \in Servers, PathAbsent(p) PROVE EndpointInv'
  BY <1>4 DEF PathAbsent, Step
<1>5. ASSUME NEW p \in Servers, Probe(p) PROVE EndpointInv'
  BY <1>5 DEF Probe
<1>6. ASSUME NEW p \in Servers, Verify(p) PROVE EndpointInv'
  BY <1>6 DEF Verify
<1>7. ASSUME NEW p \in Servers, UnlinkStale(p) PROVE EndpointInv'
  BY <1>7 DEF UnlinkStale, Step
<1>8. ASSUME NEW p \in Servers, Bind(p) PROVE EndpointInv'
  BY <1>8 DEF Bind, Step
<1>9. ASSUME NEW p \in Servers, BindFails(p) PROVE EndpointInv'
  BY <1>9 DEF BindFails, Step
<1>10. ASSUME NEW p \in Servers, Listen(p) PROVE EndpointInv'
  BY <1>10 DEF Listen, Step
<1>11. ASSUME NEW p \in Servers, ListenFails(p) PROVE EndpointInv'
  BY <1>11 DEF ListenFails, Step
<1>12. ASSUME NEW p \in Servers, Close(p) PROVE EndpointInv'
  BY <1>12 DEF Close, Step
<1>13. ASSUME NEW p \in Servers, Drained(p) PROVE EndpointInv'
  BY <1>13 DEF Drained, Step
<1>14. ASSUME NEW p \in Servers, Look(p) PROVE EndpointInv'
  BY <1>14 DEF Look
<1>15. ASSUME NEW p \in Servers, Unlink(p) PROVE EndpointInv'
  BY <1>15 DEF Unlink, Step
<1>16. ASSUME NEW p \in Servers, DropLease(p) PROVE EndpointInv'
  BY <1>16 DEF DropLease, Step
<1>17. ASSUME TheirDeath PROVE EndpointInv'
  BY <1>17 DEF TheirDeath
<1>18. CASE UNCHANGED endpoint
  BY <1>18 DEF endpoint
<1> QED
  BY <1>1, <1>2, <1>3, <1>4, <1>5, <1>6, <1>7, <1>8, <1>9, <1>10, <1>11, <1>12, <1>13,
     <1>14, <1>15, <1>16, <1>17, <1>18
  DEF EndpointActions, Endpoint

\* For every two services, at any of their steps and at the death of the other: a
\* listening endpoint is reachable under its path.
THEOREM ListenersAreReachable == IPCSpec => []EndpointReachable
<1>1. IPCInit => EndpointInv
  BY DEF IPCInit, EndpointInv, Holding, Place, Servers, NoInode
<1>2. EndpointInv => EndpointReachable
  BY DEF EndpointInv, EndpointReachable, Listens
<1> QED
  BY <1>1, <1>2, EndpointStep, PTL DEF IPCSpec

-----------------------------------------------------------------------------
(* The runner of the composition is the runner of SessionRunner.           *)

LEMMA RunnerSteps == [IPCNext]_ipcVars => [Next]_vars
<1>1. ASSUME TheirDeath PROVE [Next]_vars
  BY <1>1 DEF TheirDeath, Next, OtherProcess, vars, queues, flags
<1>2. ASSUME HandleRequest PROVE [Next]_vars
  BY <1>2 DEF HandleRequest, HandleRegular, HandleStop, HandleHostedStop, HandleStopAgain,
              HandleShutdown, HostStop, Next, Client
<1>3. CASE UNCHANGED ipcVars
  BY <1>3 DEF ipcVars
<1>4. ASSUME (Start \/ StartFails \/ Owner \/ StepBecomesDue) PROVE [Next]_vars
  BY <1>4 DEF Next, Client
<1>5. ASSUME TheirRunner PROVE [Next]_vars
  BY <1>5 DEF TheirRunner, Next
<1> QED
  BY <1>1, <1>2, <1>3, <1>4, <1>5 DEF IPCNext

\* A runner with its endpoint, beside a second service, is a runner: every property
\* proved of SessionRunner holds of the composition.
THEOREM EndpointKeepsRunner == IPCSpec => Spec
<1>1. IPCInit => Init
  BY DEF IPCInit
<1> QED
  BY <1>1, RunnerSteps, PTL DEF IPCSpec, Spec

-----------------------------------------------------------------------------
(* A command is accepted once.                                             *)

\* Whatever was accepted is the runner's stop or is remembered, one ticket per identity.
AcceptedInv ==
    /\ registry \subseteq Tickets
    /\ \A t \in Tickets : state[t] # "unused" =>
          IF Action[t] = "stop" THEN stop = t ELSE t \in registry
    /\ \A t, u \in registry : Id[t] = Id[u] => t = u

\* The runner itself creates no ticket and replaces no stop.
LEMMA OwnerAcceptsNothing ==
    ASSUME TypeOK, QueueInv, OwnerInv,
           \/ Start \/ StartFails \/ Owner \/ StepBecomesDue \/ Shutdown \/ UNCHANGED vars
    PROVE  stop' = stop /\ \A t \in Tickets : state'[t] # "unused" => state[t] # "unused"
<1> DEFINE Goal == stop' = stop /\ \A t \in Tickets : state'[t] # "unused" => state[t] # "unused"
<1>1. ASSUME UNCHANGED <<stop, state>> PROVE Goal
  BY <1>1
<1>2. ASSUME \/ Start \/ StartFails \/ StepBecomesDue \/ UNCHANGED vars
             \/ AcquireOwnership \/ OwnershipFails \/ PublishOwned \/ BuildTask \/ BuildFails
             \/ BecomeReady \/ LeaveLoop \/ BeginStep \/ StepReturns \/ StepFails \/ CloseTask
             \/ ReleaseOwnership
      PROVE  UNCHANGED <<stop, state>>
  BY <1>2 DEF Start, StartFails, StepBecomesDue, vars, AcquireOwnership, OwnershipFails,
              PublishOwned, BuildTask, BuildFails, BecomeReady, LeaveLoop, BeginStep,
              StepReturns, StepFails, CloseTask, ReleaseOwnership, queues
<1>3. ASSUME TakeStop PROVE Goal
  BY <1>3 DEF TakeStop, StopQueued, QueueInv, TypeOK
<1>4. ASSUME NEW t \in Tickets, TakeRegular(t) PROVE Goal
  BY <1>4 DEF TakeRegular, QueueInv, TypeOK
<1>5. ASSUME HandleReturns \/ HandleFails PROVE Goal
  BY <1>5 DEF HandleReturns, HandleFails, Move, QueueInv, TypeOK
<1>6. ASSUME Cleanup \/ Exit \/ Shutdown PROVE Goal
  <2>1. stop' = stop /\ \E gone \in {mailbox, Abandoned} : state' = WithCanceled(gone)
    BY <1>6 DEF Cleanup, Exit, Shutdown, CancelEverything
  <2>2. \A t \in mailbox \cup Abandoned : state[t] # "unused"
    BY DEF Abandoned, StopQueued, QueueInv
  <2> QED
    BY <2>1, <2>2 DEF WithCanceled
<1> HIDE DEF Goal
<1>7. Goal
  BY <1>1, <1>2, <1>3, <1>4, <1>5, <1>6 DEF Owner
<1> QED
  BY <1>7 DEF Goal

\* A ticket is accepted only when it is remembered in the same step.
LEMMA AcceptedStep ==
    TypeOK /\ QueueInv /\ OwnerInv /\ AcceptedInv /\ [IPCNext]_ipcVars => AcceptedInv'
<1> SUFFICES ASSUME TypeOK, QueueInv, OwnerInv, AcceptedInv, [IPCNext]_ipcVars
             PROVE  AcceptedInv'
  OBVIOUS
<1>1. ASSUME UNCHANGED registry, stop' = stop,
             \A t \in Tickets : state'[t] # "unused" => state[t] # "unused"
      PROVE  AcceptedInv'
  BY <1>1 DEF AcceptedInv
<1>2. ASSUME NEW t \in Tickets, HandleRegular(t) PROVE AcceptedInv'
  <2>1. /\ registry' = registry \cup {t} /\ stop' = stop
        /\ state' = [state EXCEPT ![t] = "queued"] /\ Action[t] # "stop"
    BY <1>2 DEF HandleRegular, Remembered, Submit
  <2>2. \A u \in registry : Id[u] # Id[t]
    BY <1>2 DEF HandleRegular, Finds, Identities
  <2> QED
    BY <2>1, <2>2 DEF AcceptedInv, TypeOK
<1>3. ASSUME NEW t \in Tickets, Stop(t), UNCHANGED registry PROVE AcceptedInv'
  <2>1. /\ stop = NoTicket /\ stop' = t /\ Action[t] = "stop"
        /\ state' = [WithCanceled(PendingPlays) EXCEPT ![t] = "queued"]
    BY <1>3 DEF Stop
  <2>2. \A u \in Tickets : state'[u] # "unused" => u = t \/ state[u] # "unused"
    BY <2>1 DEF WithCanceled, PendingPlays, QueueInv
  <2> QED
    BY <1>3, <2>1, <2>2, RunnerAssumption DEF AcceptedInv
<1>4. ASSUME NEW t \in Tickets, HandleHostedStop(t) \/ HandleStopAgain(t) PROVE AcceptedInv'
  BY <1>1, <1>4 DEF HandleHostedStop, HandleStopAgain, vars
<1>5. ASSUME TheirRunner \/ TheirDeath \/ (\E p \in Servers : Endpoint(p) /\ UNCHANGED <<vars, tables>>)
             \/ UNCHANGED ipcVars
      PROVE  UNCHANGED <<registry, stop, state>>
  BY <1>5 DEF TheirRunner, TheirDeath, OtherProcess, ipcVars, vars, tables, queues
<1>6. ASSUME (Start \/ StartFails \/ Owner \/ StepBecomesDue) \/ Shutdown, UNCHANGED tables
      PROVE  AcceptedInv'
  BY <1>1, <1>6, OwnerAcceptsNothing DEF tables
<1> QED
  BY <1>1, <1>2, <1>3, <1>4, <1>5, <1>6
  DEF IPCNext, HandleRequest, HandleStop, HandleShutdown, HostStop, tables

\* However requests are repeated, whatever is lost and forgotten: no two tickets of one
\* command are ever accepted.
THEOREM CommandsAreAcceptedOnce == IPCSpec => []CommandsAcceptedOnce
<1>1. IPCInit => AcceptedInv
  BY DEF IPCInit, Init, AcceptedInv
<1>2. AcceptedInv => CommandsAcceptedOnce
  BY DEF AcceptedInv, CommandsAcceptedOnce
<1>3. IInv /\ AcceptedInv /\ [IPCNext]_ipcVars => AcceptedInv'
  BY AcceptedStep DEF IInv
<1> QED
  BY <1>1, <1>2, <1>3, EndpointKeepsRunner, Invariance, PTL DEF IPCSpec
=============================================================================
