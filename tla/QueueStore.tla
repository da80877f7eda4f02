----------------------------- MODULE QueueStore -----------------------------
(***************************************************************************)
(* The durable queue journal of src/tellyq/queue_store.py: one queue's     *)
(* rows.  Every method is one SQLite transaction, so every method is one   *)
(* action.  A call whose expected revision (or owner generation) is not    *)
(* the current one raises RevisionConflict and changes nothing, and so     *)
(* does a repeated identity; the actions are the calls that change rows.   *)
(*                                                                         *)
(* An item is its position.  The store keeps at most one attempt of an     *)
(* item and one reservation of a predecessor, so both are identified by    *)
(* the item, a native operation by its reservation and action, and the     *)
(* latest attempt is that of the current item (line 344).  Timestamps and  *)
(* receiver scopes are abstracted to the calls that carry valid ones.      *)
(***************************************************************************)
EXTENDS Naturals

CONSTANTS
    ItemCount,        \* how many items the queue was created with
    Content,          \* Content[i]: the ContentRef of item i
    CommandIds,       \* the command identities callers may use
    Modes,            \* the queue modes explored
    ControlAction,    \* the controls explored; pause and resume are alike here
    None,             \* no row, or SQL NULL
    GenerationLimit   \* bound on the recoveries explored

Items == 1..ItemCount

ASSUME StoreAssumption ==
    /\ ItemCount \in Nat \ {0}
    /\ Items \subseteq DOMAIN Content
    /\ Modes \subseteq {"legacy", "native"}
    /\ ControlAction \subseteq {"pause", "resume", "release"}
    /\ GenerationLimit \in Nat

VARIABLES
    mode,             \* queue_options.mode
    canceled,         \* queues.cancellation_requested
    hold,             \* queue_options.reconciliation_required
    generation,       \* queues.generation
    current,          \* queues.current_item_id
    items,            \* items.intent of every item
    attempts,         \* the attempt row of an item, or None
    commands,         \* the command row of an identity, or None
    reservations,     \* the native reservation whose predecessor is this item, or None
    operations        \* the native operation <<predecessor, action>>, or None

storeVars == <<mode, canceled, hold, generation, current, items, attempts, commands,
               reservations, operations>>

QueueIntent   == {"pending", "current", "finished", "skipped", "stopped", "needs_attention"}
Outcome       == {"acknowledged", "rejected", "uncertain"}
ExecState     == {"pending", "dispatched"} \cup Outcome
Unresolved    == {"pending", "dispatched", "uncertain"}
CommandAction == {"start", "stop", "pause", "resume", "release"}
NativeAction  == {"play_next", "clear"}

\* Mutant of SettledIntent: an outcome outside _SETTLED is not refused.
AnyOutcome    == {"finished", "skipped", "stopped", "needs_attention", "acknowledged"}
SettledIntent == {"finished", "skipped", "stopped", "needs_attention"}

Attempt == [intent : QueueIntent, decided : BOOLEAN, origin : {"local_start", "native_observed"}]
Command == [item : Items, action : CommandAction, state : ExecState, generation : Nat]
Reservation == [state : {"reserved", "adopted", "session_exit_observed"},
                adopted : BOOLEAN, generation : Nat]
Operation == [state : ExecState, generation : Nat]

\* None is no item and no row.
ASSUME RowAssumption ==
    /\ None \notin Items
    /\ None \notin Attempt /\ None \notin Command
    /\ None \notin Reservation /\ None \notin Operation

\* create(): every item pending, revision and generation zero.
Init ==
    /\ mode \in Modes
    /\ canceled = FALSE
    /\ hold = FALSE
    /\ generation = 0
    /\ current = None
    /\ items = [i \in Items |-> "pending"]
    /\ attempts = [i \in Items |-> None]
    /\ commands = [c \in CommandIds |-> None]
    /\ reservations = [i \in Items |-> None]
    /\ operations = [o \in Items \X NativeAction |-> None]

-----------------------------------------------------------------------------
Attempted  == {i \in Items : attempts[i] # None}
Journaled  == {c \in CommandIds : commands[c] # None}
Reserved   == {i \in Items : reservations[i] # None /\ reservations[i].state = "reserved"}
Operations == {o \in Items \X NativeAction : operations[o] # None}

\* The latest attempt is that of the current item and has one of these intents.
LatestIs(i, intents) == current = i /\ i \in Attempted /\ attempts[i].intent \in intents

NewCommand(i, action) ==
    [item |-> i, action |-> action, state |-> "pending", generation |-> generation]

\* A command, reservation or operation row in another state; an attempt with its decision.
Now(row, state)       == [row EXCEPT !.state = state]
Decided(row, outcome) == [row EXCEPT !.intent = outcome, !.decided = TRUE]

NoneUnresolved == \A c \in Journaled : commands[c].state \notin Unresolved

-----------------------------------------------------------------------------
(* Legacy attempts and commands.                                           *)

\* Mutant of NativeMayStart: a native queue may start its successors locally.
NativeStartsAgain == TRUE

NativeMayStart == mode = "native" => Attempted = {} /\ ~hold

\* Mutant of NothingUnsettled: only attention is looked for.
NothingNeedsAttention == \A j \in Items : items[j] # "needs_attention"

NothingUnsettled == \A j \in Items : items[j] \notin {"current", "needs_attention"}

PrepareStart(i, c) ==
    /\ commands[c] = None
    /\ NativeMayStart
    /\ ~canceled
    /\ NothingUnsettled
    /\ items[i] = "pending"
    /\ items' = [items EXCEPT ![i] = "current"]
    /\ current' = i
    /\ attempts' = [attempts EXCEPT
                      ![i] = [intent |-> "current", decided |-> FALSE, origin |-> "local_start"]]
    /\ commands' = [commands EXCEPT ![c] = NewCommand(i, "start")]
    /\ UNCHANGED <<mode, canceled, hold, generation, reservations, operations>>

PrepareStop(i, c) ==
    /\ commands[c] = None
    /\ LatestIs(i, {"current", "finished"})
    /\ canceled' = TRUE
    /\ commands' = [commands EXCEPT ![c] = NewCommand(i, "stop")]
    /\ UNCHANGED <<mode, hold, generation, current, items, attempts, reservations, operations>>

\* Mutant of MayRelease: a release is also the fallback of a reserved successor.
ReleasesReserved(i) == attempts[i].decided

\* A release is never resent, and never a fallback while a native successor may execute.
MayRelease(i) ==
    /\ Reserved = {}
    /\ attempts[i].decided
    /\ \A c \in Journaled : ~(commands[c].item = i /\ commands[c].action = "release")

PrepareControl(i, c, action) ==
    /\ commands[c] = None
    /\ ~canceled
    /\ LatestIs(i, {IF action = "release" THEN "finished" ELSE "current"})
    /\ NoneUnresolved
    /\ action = "release" => MayRelease(i)
    /\ commands' = [commands EXCEPT ![c] = NewCommand(i, action)]
    /\ UNCHANGED <<mode, canceled, hold, generation, current, items, attempts,
                   reservations, operations>>

CancelQueue ==
    /\ ~canceled
    /\ canceled' = TRUE
    /\ UNCHANGED <<mode, hold, generation, current, items, attempts, commands,
                   reservations, operations>>

\* The intents of the attempt under which a command may still be dispatched.
DispatchableIntents(action) ==
    CASE action = "stop"    -> {"current", "finished"}
      [] action = "release" -> {"finished"}
      [] OTHER              -> {"current"}

MarkDispatched(c) ==
    /\ c \in Journaled
    /\ commands[c].generation = generation
    /\ commands[c].state = "pending"
    /\ commands[c].action # "stop" => ~canceled
    /\ LatestIs(commands[c].item, DispatchableIntents(commands[c].action))
    /\ commands' = [commands EXCEPT ![c] = Now(@, "dispatched")]
    /\ UNCHANGED <<mode, canceled, hold, generation, current, items, attempts,
                   reservations, operations>>

\* Mutant of InFlight: the answer is accepted in any generation.
InFlightEver(row) == row.state \in {"dispatched", "uncertain"}

\* Only dispatched work of this generation may receive an outcome.
InFlight(row) == row.generation = generation /\ row.state \in {"dispatched", "uncertain"}

RecordOutcome(c, outcome) ==
    /\ c \in Journaled
    /\ InFlight(commands[c])
    /\ outcome # commands[c].state
    /\ commands' = [commands EXCEPT ![c] = Now(@, outcome)]
    /\ UNCHANGED <<mode, canceled, hold, generation, current, items, attempts,
                   reservations, operations>>

\* Only an attempt without a decision may be settled.
Undecided(i) == ~attempts[i].decided /\ attempts[i].intent \in {"current", "needs_attention"}

\* Mutant of AttentionCancels: needing attention stops nothing.
AttentionContinues(outcome) == outcome = "stopped"

\* The settlements after which nothing plays on: a native queue is held by the second kind.
AttentionCancels(outcome) == outcome \in {"stopped", "needs_attention"}

SettleAttempt(i, outcome) ==
    /\ i \in Attempted
    /\ Undecided(i)
    /\ outcome = "finished" =>
          \A c \in Journaled : ~(commands[c].item = i /\ commands[c].action = "stop")
    /\ attempts' = [attempts EXCEPT ![i] = Decided(@, outcome)]
    /\ items' = [items EXCEPT ![i] = outcome]
    /\ IF mode = "native" /\ outcome = "needs_attention"
       THEN hold' = TRUE /\ UNCHANGED canceled
       ELSE canceled' = (canceled \/ AttentionCancels(outcome)) /\ UNCHANGED hold
    /\ UNCHANGED <<mode, generation, current, commands, reservations, operations>>

-----------------------------------------------------------------------------
(* Recovery by an exclusive new owner.                                     *)

\* Mutant of AfterCrash: what the earlier owner dispatched is left as it was.
LeavesDispatched(row) == row

\* What was dispatched may have happened; pending work stays pending, never replayed.
AfterCrash(row) ==
    IF row # None /\ row.state = "dispatched" THEN Now(row, "uncertain") ELSE row

FenceEarlierWork ==
    /\ generation < GenerationLimit
    /\ generation' = generation + 1
    /\ commands' = [c \in CommandIds |-> AfterCrash(commands[c])]
    /\ operations' = [o \in Items \X NativeAction |-> AfterCrash(operations[o])]
    /\ UNCHANGED <<mode, current, reservations>>

\* What makes a recovery more than a look at the rows.
Outstanding ==
    IF mode = "native"
    THEN Attempted # {}
    ELSE \/ \E i \in Attempted : attempts[i].intent = "current"
         \/ \E c \in Journaled :
               commands[c].generation = generation /\ commands[c].state \in Unresolved

RecoverNative ==
    /\ mode = "native"
    /\ Outstanding
    /\ FenceEarlierWork
    /\ hold' = TRUE
    /\ UNCHANGED <<canceled, items, attempts>>

RecoverLegacy ==
    /\ mode = "legacy"
    /\ Outstanding
    /\ FenceEarlierWork
    /\ canceled' = TRUE
    /\ items' = [i \in Items |-> IF items[i] = "current" THEN "needs_attention" ELSE items[i]]
    /\ attempts' = [i \in Items |->
                      IF i \in Attempted /\ attempts[i].intent = "current"
                      THEN [attempts[i] EXCEPT !.intent = "needs_attention"]
                      ELSE attempts[i]]
    /\ UNCHANGED hold

-----------------------------------------------------------------------------
(* Native reservations and operations.                                     *)

HoldForReconciliation ==
    /\ mode = "native"
    /\ ~hold
    /\ hold' = TRUE
    /\ UNCHANGED <<mode, canceled, generation, current, items, attempts, commands,
                   reservations, operations>>

NewOperation == [state |-> "pending", generation |-> generation]

\* The next item, of another content, follows a latest attempt that is still current.
MayReserve(i) == i + 1 \in Items /\ LatestIs(i, {"current"})

PrepareSuccessor(i) ==
    /\ mode = "native"
    /\ ~canceled /\ ~hold
    /\ Reserved = {}
    /\ MayReserve(i)
    /\ items[i + 1] = "pending"
    /\ Content[i] # Content[i + 1]
    /\ \A j \in Items : items[j] # "needs_attention"
    /\ NoneUnresolved
    /\ reservations[i] = None          \* UNIQUE (queue_id, predecessor_attempt_id)
    /\ reservations' = [reservations EXCEPT
          ![i] = [state |-> "reserved", adopted |-> FALSE, generation |-> generation]]
    /\ operations' = [operations EXCEPT ![<<i, "play_next">>] = NewOperation]
    /\ UNCHANGED <<mode, canceled, hold, generation, current, items, attempts, commands>>

PrepareClear(i) ==
    /\ mode = "native"
    /\ canceled
    /\ reservations[i] # None
    /\ reservations[i].state # "session_exit_observed"
    /\ operations[<<i, "clear">>] = None          \* UNIQUE (reservation_id, action)
    /\ operations' = [operations EXCEPT ![<<i, "clear">>] = NewOperation]
    /\ UNCHANGED <<mode, canceled, hold, generation, current, items, attempts, commands,
                   reservations>>

MayDispatchNative(i, action) ==
    IF action = "play_next"
    THEN ~canceled /\ ~hold /\ i \in Reserved /\ LatestIs(i, {"current"})
    ELSE canceled /\ reservations[i].state # "session_exit_observed"

MarkNativeDispatched(i, action) ==
    /\ <<i, action>> \in Operations
    /\ operations[<<i, action>>].generation = generation
    /\ operations[<<i, action>>].state = "pending"
    /\ MayDispatchNative(i, action)
    /\ operations' = [operations EXCEPT ![<<i, action>>] = Now(@, "dispatched")]
    /\ UNCHANGED <<mode, canceled, hold, generation, current, items, attempts, commands,
                   reservations>>

\* Mutant of ReloadAccepts: the transaction commits without reloading its rows.
ReloadSkipped(i, action, outcome) == TRUE

\* The reload of _changed refuses a rejected enqueue of an adopted successor: the
\* only change that its own guards let pass and _validate_native_history does not.
ReloadAccepts(i, action, outcome) ==
    ~(action = "play_next" /\ outcome = "rejected" /\ reservations[i].adopted)

RecordNativeOutcome(i, action, outcome) ==
    /\ <<i, action>> \in Operations
    /\ InFlight(operations[<<i, action>>])
    /\ outcome # operations[<<i, action>>].state
    /\ ReloadAccepts(i, action, outcome)
    /\ operations' = [operations EXCEPT ![<<i, action>>] = Now(@, outcome)]
    /\ hold' = (hold \/ outcome = "uncertain")
    /\ UNCHANGED <<mode, canceled, generation, current, items, attempts, commands,
                   reservations>>

\* The enqueue may have reached the receiver.
Enqueued(i) ==
    operations[<<i, "play_next">>].state \in {"dispatched", "acknowledged", "uncertain"}

\* Mutant of EndUnobserved: only a skip holds the queue.
SkipUnobserved(i) == attempts[i].intent = "skipped"

EndUnobserved(i) == attempts[i].intent # "finished"

\* Fresh qualified progress of the successor was observed; an end of its
\* predecessor that nobody observed needs attention and holds the queue.
AdoptSuccessor(i) ==
    /\ mode = "native"
    /\ i \in Reserved
    /\ Enqueued(i)
    /\ current = i
    /\ LET unobserved == attempts[i].intent \in {"current", "needs_attention"} IN
       /\ attempts' = [attempts EXCEPT
             ![i] = IF unobserved THEN Decided(@, "needs_attention") ELSE @,
             ![i + 1] = [intent |-> "current", decided |-> FALSE, origin |-> "native_observed"]]
       /\ items' = [items EXCEPT ![i] = IF unobserved THEN "needs_attention" ELSE @,
                                 ![i + 1] = "current"]
    /\ hold' = (hold \/ EndUnobserved(i))
    /\ current' = i + 1
    /\ reservations' = [reservations EXCEPT
          ![i] = [state |-> "adopted", adopted |-> TRUE, generation |-> @.generation]]
    /\ UNCHANGED <<mode, canceled, generation, commands, operations>>

RecordSessionExit(i) ==
    /\ mode = "native"
    /\ canceled
    /\ reservations[i] # None
    /\ reservations[i].state # "session_exit_observed"
    /\ reservations' = [reservations EXCEPT ![i] = Now(@, "session_exit_observed")]
    /\ UNCHANGED <<mode, canceled, hold, generation, current, items, attempts, commands,
                   operations>>

-----------------------------------------------------------------------------
Next ==
    \/ \E i \in Items, c \in CommandIds :
          \/ PrepareStart(i, c)
          \/ PrepareStop(i, c)
          \/ \E action \in ControlAction : PrepareControl(i, c, action)
    \/ CancelQueue
    \/ \E c \in CommandIds : MarkDispatched(c)
    \/ \E c \in CommandIds, outcome \in Outcome : RecordOutcome(c, outcome)
    \/ \E i \in Items, outcome \in SettledIntent : SettleAttempt(i, outcome)
    \/ RecoverNative
    \/ RecoverLegacy
    \/ HoldForReconciliation
    \/ \E i \in Items : PrepareSuccessor(i)
    \/ \E i \in Items : PrepareClear(i)
    \/ \E i \in Items, action \in NativeAction : MarkNativeDispatched(i, action)
    \/ \E i \in Items, action \in NativeAction, outcome \in Outcome :
          RecordNativeOutcome(i, action, outcome)
    \/ \E i \in Items : AdoptSuccessor(i)
    \/ \E i \in Items : RecordSessionExit(i)

Spec == Init /\ [][Next]_storeVars

-----------------------------------------------------------------------------
(* Properties.                                                             *)

\* Every row has its type.
TypeOK ==
    /\ mode \in {"legacy", "native"}
    /\ canceled \in BOOLEAN /\ hold \in BOOLEAN
    /\ generation \in Nat
    /\ current \in Items \cup {None}
    /\ items \in [Items -> QueueIntent]
    /\ attempts \in [Items -> Attempt \cup {None}]
    /\ commands \in [CommandIds -> Command \cup {None}]
    /\ reservations \in [Items -> Reservation \cup {None}]
    /\ operations \in [Items \X NativeAction -> Operation \cup {None}]

StartsOf(i) == {c \in Journaled : commands[c].item = i /\ commands[c].action = "start"}

\* What _load requires of the items, attempts and commands.
AttemptsLoad ==
    /\ \A i \in Items : items[i] = "current" => current = i
    /\ Attempted # {} => current \in Attempted
    /\ \A i \in Attempted :
          /\ attempts[i].intent = items[i]
          /\ attempts[i].intent # "pending"
          /\ attempts[i].intent = "current" => ~attempts[i].decided
          /\ IF attempts[i].origin = "local_start"
             THEN \E c \in Journaled : StartsOf(i) = {c}
             ELSE StartsOf(i) = {}
    /\ \A c \in Journaled : commands[c].item \in Attempted /\ commands[c].generation <= generation

\* What _validate_native_history requires of one reservation.
ReservationLoads(i) ==
    LET row == reservations[i] IN
    /\ i \in Attempted
    /\ i + 1 \in Items /\ Content[i] # Content[i + 1]
    /\ row.generation <= generation
    /\ <<i, "play_next">> \in Operations
    /\ operations[<<i, "play_next">>].generation = row.generation
    /\ row.state = "reserved" => ~row.adopted /\ items[i + 1] = "pending" /\ current = i
    /\ row.state = "adopted" => row.adopted
    /\ row.adopted => Enqueued(i)
    /\ row.adopted <=> (i + 1 \in Attempted /\ attempts[i + 1].origin = "native_observed")

NativeLoads ==
    /\ mode = "legacy" => ~hold /\ \A i \in Items : reservations[i] = None
    /\ \A i, j \in Reserved : i = j
    /\ \A i \in Items : reservations[i] # None => ReservationLoads(i)
    /\ \A o \in Operations :
          /\ reservations[o[1]] # None
          /\ operations[o].generation \in reservations[o[1]].generation .. generation
    /\ \A i \in Attempted :
          attempts[i].origin = "native_observed" =>
             i > 1 /\ reservations[i - 1] # None /\ reservations[i - 1].adopted

\* Whatever sequence of calls was accepted, across recoveries, the rows are ones
\* load() accepts: no call leaves a database that can only be "retained for
\* recovery", and no call whose guards passed is lost to the reload of _changed,
\* but for the late rejection ReloadAccepts names.
HistoryLoads == AttemptsLoad /\ NativeLoads

\* An item is put on the receiver at most once in the life of the queue, by one
\* dispatched start or one dispatched play_next, whatever failed in between.
OnePlayPerItem ==
    \A i \in Items :
        LET starts == {c \in StartsOf(i) : commands[c].state # "pending"}
            nexts  == {o \in Operations :
                          o[1] + 1 = i /\ o[2] = "play_next" /\ operations[o].state # "pending"}
        IN /\ starts = {} \/ nexts = {}
           /\ \A c, d \in starts : c = d

\* Nothing plays on past an unexplained end: an item needing attention has canceled
\* the queue or holds it, and so does native work whose effect is unknown.
AttentionStopsQueue ==
    /\ \A i \in Items : items[i] = "needs_attention" => canceled \/ hold
    /\ \A o \in Operations : operations[o].state = "uncertain" => hold

\* The application is never released under a successor the receiver may execute:
\* no release of a predecessor exists while its reservation is outstanding.
NoReleaseUnderReservation ==
    \A i \in Reserved, c \in Journaled :
        ~(commands[c].item = i /\ commands[c].action = "release")

\* A recovery leaves nothing of the earlier owner in flight, and no late answer,
\* dispatch or second recovery ever changes the earlier owner's rows again.
EarlierWorkIsFenced ==
    [][/\ \A c \in Journaled : commands[c].generation < generation' =>
             /\ commands'[c].state # "dispatched"
             /\ commands[c].generation < generation => commands'[c] = commands[c]
       /\ \A o \in Operations : operations[o].generation < generation' =>
             /\ operations'[o].state # "dispatched"
             /\ operations[o].generation < generation => operations'[o] = operations[o]
      ]_storeVars

=============================================================================
