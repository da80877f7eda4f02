--------------------------- MODULE QueueExecutor ---------------------------
(***************************************************************************)
(* The claim-before-invoke executors of src/tellyq/queue_execution.py and  *)
(* src/tellyq/native_queue_execution.py over the journal of QueueStore.    *)
(* One exclusive owner makes one call at a time: it prepares the intent,   *)
(* claims it, reloads, asks its guard, invokes the receiver and records    *)
(* the outcome, with no transaction open over the receiver.  Between any   *)
(* two of those steps another connection may cancel or hold the queue, a   *)
(* client may set the cancellation latch, and the process may die.  Every  *)
(* write may also commit and then fail to say so.                          *)
(*                                                                         *)
(* A revision check compares the row's counter with the one last read; the *)
(* counter moves with every write, so the check fails exactly when someone *)
(* else has written since, which is what `stale' remembers.                *)
(***************************************************************************)
EXTENDS QueueStore

CONSTANTS
    Asked,            \* bound: the actions requested
    Settlements       \* bound: the settlements the owner makes between calls

Request ==
    [effect : CommandIds, item : Items, action : CommandAction]
        \cup {[effect |-> <<i, a>>, item |-> i, action |-> a] : i \in Items, a \in NativeAction}

ASSUME ExecutorAssumption ==
    /\ Asked \subseteq {"start", "stop"} \cup ControlAction \cup NativeAction
    /\ Settlements \subseteq SettledIntent
    /\ CommandIds \cap (Items \X NativeAction) = {}
    /\ None \notin Request

VARIABLES
    pc,          \* where the owner is in execute(), "idle" between calls, "down" when dead
    request,     \* the request being executed
    stale,       \* another connection wrote since the revision in hand was read
    verdict,     \* the outcome about to be recorded
    late,        \* history: the queue was stopped after the reload of this call
    performed,   \* how often the receiver was asked for each effect
    answer       \* what the receiver answered

callVars   == <<pc, request, stale, verdict, late>>
deviceVars == <<performed, answer>>
execVars   == <<storeVars, callVars, deviceVars>>

Effects == CommandIds \cup (Items \X NativeAction)

\* Only an unguarded action may end playback after a cancellation.
Guarded(action) == action \notin {"stop", "clear"}

\* What the receiver answers; "none" is an unknown or unusable receipt, or an exception.
Receipt == {"accepted", "rejected", "none"}

ExecInit ==
    /\ Init
    /\ pc = "idle"
    /\ request = None
    /\ stale = FALSE
    /\ verdict = "uncertain"
    /\ late = FALSE
    /\ performed = [x \in Effects |-> 0]
    /\ answer = [x \in Effects |-> "none"]

-----------------------------------------------------------------------------
(* The journal row of an effect and the store's calls for it.              *)

IsNative(r) == r.action \in NativeAction

Row(x) == IF x \in CommandIds THEN commands[x] ELSE operations[x]

StorePrepare(r) ==
    CASE r.action = "start"     -> PrepareStart(r.item, r.effect)
      [] r.action = "stop"      -> PrepareStop(r.item, r.effect)
      [] r.action = "play_next" -> PrepareSuccessor(r.item)
      [] r.action = "clear"     -> PrepareClear(r.item)
      [] OTHER                  -> PrepareControl(r.item, r.effect, r.action)

StoreClaim(r) ==
    IF IsNative(r) THEN MarkNativeDispatched(r.item, r.action) ELSE MarkDispatched(r.effect)

StoreRecord(r, outcome) ==
    IF IsNative(r) THEN RecordNativeOutcome(r.item, r.action, outcome)
                   ELSE RecordOutcome(r.effect, outcome)

-----------------------------------------------------------------------------
(* One call of execute().                                                  *)

\* The caller decides on a snapshot it has just loaded.
Execute(r) ==
    /\ pc = "idle"
    /\ r \in Request
    /\ r.action \in Asked
    /\ pc' = "prepare"
    /\ request' = r
    /\ UNCHANGED <<storeVars, stale, late, verdict, deviceVars>>

\* The call is over and its locals are gone.
Leaves ==
    /\ pc' = "idle"
    /\ request' = None
    /\ stale' = FALSE
    /\ late' = FALSE
    /\ verdict' = "uncertain"

\* A known identity only returns its history, whatever state it was left in.
Historical ==
    /\ pc = "prepare"
    /\ Row(request.effect) # None
    /\ Leaves
    /\ UNCHANGED <<storeVars, deviceVars>>

\* A write commits: the call goes on to `next', or the answer is lost and it raises.
Committed(next) == (pc' = next /\ UNCHANGED <<request, stale, late, verdict>>) \/ Leaves

\* Mutant of AfterPrepare: the claim is left to the outcome's write.
AfterPrepareInvoke == "guard"

AfterPrepare == "claim"

Prepare ==
    /\ pc = "prepare"
    /\ ~stale
    /\ StorePrepare(request)
    /\ Committed(AfterPrepare)
    /\ UNCHANGED deviceVars

Claim ==
    /\ pc = "claim"
    /\ ~stale
    /\ StoreClaim(request)
    /\ Committed("reload")
    /\ UNCHANGED deviceVars

\* A refused or failed write, or a revision that moved: no receiver call, and a
\* claim already made stays as it is.
Raise ==
    /\ pc \in {"prepare", "claim", "reload", "record"}
    /\ Leaves
    /\ UNCHANGED <<storeVars, deviceVars>>

\* Mutant of SeenUnchanged: the claimed snapshot is trusted.
NotReloaded == TRUE

\* The reload after the claim sees no other write, and no cancellation but for a stop.
SeenUnchanged == ~stale /\ (Guarded(request.action) /\ ~IsNative(request) => ~canceled)

Reload ==
    /\ pc = "reload"
    /\ SeenUnchanged
    /\ pc' = "guard"
    /\ UNCHANGED <<storeVars, request, stale, verdict, late, deviceVars>>

GuardAllows ==
    /\ pc = "guard"
    /\ pc' = "invoke"
    /\ UNCHANGED <<storeVars, request, stale, verdict, late, deviceVars>>

\* The guard refuses or raises: the claim is spent without a receiver call.
GuardRefuses ==
    /\ pc = "guard"
    /\ Guarded(request.action)
    /\ pc' = "record"
    /\ verdict' = "uncertain"
    /\ UNCHANGED <<storeVars, request, stale, late, deviceVars>>

\* Mutants of Recorded: an unknown answer is taken for a refusal, or the receipt's
\* own word is stored.
UnknownIsRefusal(a) == IF a = "accepted" THEN "acknowledged" ELSE "rejected"
ReceiptsOwnWord(a) == a

Recorded(a) ==
    CASE a = "accepted" -> "acknowledged"
      [] a = "rejected" -> "rejected"
      [] OTHER          -> "uncertain"

\* The receiver is asked; the call returns a receipt or fails with no usable answer.
Invoke ==
    /\ pc = "invoke"
    /\ \E a \in Receipt :
          /\ answer' = [answer EXCEPT ![request.effect] = a]
          /\ verdict' = Recorded(a)
    /\ performed' = [performed EXCEPT ![request.effect] = @ + 1]
    /\ pc' = "record"
    /\ UNCHANGED <<storeVars, request, stale, late>>

\* The last check inside the operation itself refuses, before anything is sent.
OperationRefuses ==
    /\ pc = "invoke"
    /\ pc' = "record"
    /\ verdict' = "uncertain"
    /\ UNCHANGED <<storeVars, request, stale, late, deviceVars>>

Record ==
    /\ pc = "record"
    /\ ~stale
    /\ StoreRecord(request, verdict)
    /\ Leaves
    /\ UNCHANGED deviceVars

-----------------------------------------------------------------------------
(* The rest of the owner, other connections, clients and crashes.          *)

\* Between calls the owner settles attempts and follows the receiver's queue.
OwnerWrites ==
    /\ pc = "idle"
    /\ \/ \E i \in Items, outcome \in Settlements : SettleAttempt(i, outcome)
       \/ \E i \in Items : AdoptSuccessor(i) \/ RecordSessionExit(i)
    /\ UNCHANGED <<callVars, deviceVars>>

\* Another connection, or the owner between calls, stops the queue.
ConcurrentStop ==
    /\ CancelQueue \/ HoldForReconciliation
    /\ stale' = (pc \notin {"idle", "down"})
    /\ late' = (pc \in {"guard", "invoke"})
    /\ UNCHANGED <<pc, request, verdict, deviceVars>>

Crash ==
    /\ pc # "down"
    /\ generation < GenerationLimit
    /\ pc' = "down"
    /\ request' = None
    /\ stale' = FALSE
    /\ late' = FALSE
    /\ verdict' = "uncertain"
    /\ UNCHANGED <<storeVars, deviceVars>>

\* A new exclusive owner recovers the queue before it makes a call.
Recover ==
    /\ pc = "down"
    /\ \/ RecoverNative
       \/ RecoverLegacy
       \/ ~Outstanding /\ UNCHANGED storeVars
    /\ pc' = "idle"
    /\ UNCHANGED <<request, stale, verdict, late, deviceVars>>

-----------------------------------------------------------------------------
Call ==
    \/ \E r \in Request : Execute(r)
    \/ Historical \/ Prepare \/ Claim \/ Raise \/ Reload
    \/ GuardAllows \/ GuardRefuses \/ Invoke \/ OperationRefuses \/ Record

ExecNext == Call \/ OwnerWrites \/ ConcurrentStop \/ Crash \/ Recover

ExecSpec == ExecInit /\ [][ExecNext]_execVars

-----------------------------------------------------------------------------
(* Properties.                                                             *)

\* Every variable has its type, the journal's included.
ExecTypeOK ==
    /\ TypeOK
    /\ pc \in {"idle", "prepare", "claim", "reload", "guard", "invoke", "record", "down"}
    /\ request \in Request \cup {None}
    /\ request # None => request.action \in Asked
    /\ stale \in BOOLEAN /\ late \in BOOLEAN
    /\ verdict \in Outcome
    /\ performed \in [Effects -> Nat]
    /\ answer \in [Effects -> Receipt]

StatusOf(row) ==
    IF row = None THEN "none"
    ELSE CASE row.state = "pending"      -> "intended"
           [] row.state = "dispatched"   -> "claimed"
           [] row.state = "acknowledged" -> "accepted"
           [] OTHER                      -> row.state

Ledger == INSTANCE EffectLedger WITH status <- [x \in Effects |-> StatusOf(Row(x))]

\* Every behaviour of the executors over the journal, crashes and lost answers
\* included, is one of the write-ahead ledger: an effect is claimed before it is
\* performed and performed at most once, and no verdict is written that the
\* receiver did not give.
LedgerKept == Ledger!LedgerSpec

Puts(x, i) ==
    \/ x \in Journaled /\ commands[x].item = i /\ commands[x].action = "start"
    \/ x \in Items \X {"play_next"} /\ x[1] + 1 = i

\* The receiver is asked to play an item at most once in the life of the queue,
\* by a start or by an enqueue, under however many owners.
AskedOnce ==
    \A i \in Items :
        LET asked == {x \in Effects : performed[x] > 0 /\ Puts(x, i)}
        IN \A x, y \in asked : x = y /\ performed[x] = 1

\* A play-like effect is performed only in a queue that was neither canceled nor
\* (for an enqueue) held when the claim was reloaded: only a stop of another
\* connection inside the last gap may be overtaken.
StopBarsEffects ==
    [][performed' # performed /\ Guarded(request.action) =>
          late \/ (~canceled /\ (IsNative(request) => ~hold))]_execVars

=============================================================================
