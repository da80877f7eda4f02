------------------------- MODULE QueueExecutor_proofs -------------------------
(***************************************************************************)
(* Proofs about the durable queue journal and its executors.  The journal: *)
(* for every number of items, every set of command identities and every    *)
(* number of recoveries.  The executors: for any number of calls, crashes  *)
(* and recoveries, they implement the write-ahead ledger of effects.       *)
(***************************************************************************)
EXTENDS QueueExecutor, TLAPS

\* Facts the rows keep that load() does not look at: an item without an attempt is
\* pending, a reserved successor was never started locally, a released attempt is
\* decided, and nothing of an earlier generation is in flight.
History ==
    /\ \A i \in Items : i \notin Attempted => items[i] = "pending"
    /\ \A i \in Items : reservations[i] # None => StartsOf(i + 1) = {}
    /\ \A c \in Journaled : commands[c].action = "release" => attempts[commands[c].item].decided
    /\ \A c \in Journaled : commands[c].generation < generation => commands[c].state # "dispatched"
    /\ \A o \in Operations :
          operations[o].generation < generation => operations[o].state # "dispatched"

\* The inductive invariant.
IInv == /\ TypeOK
        /\ AttemptsLoad
        /\ NativeLoads
        /\ AttentionStopsQueue
        /\ NoReleaseUnderReservation
        /\ History

\* Initially there are no rows but pending items.
LEMMA InitIInv == Init => IInv
<1> SUFFICES ASSUME Init PROVE IInv
  OBVIOUS
<1> USE StoreAssumption, RowAssumption DEF Init, Attempted, Journaled, Reserved, Operations
<1>1. TypeOK
  BY DEF TypeOK, QueueIntent
<1>2. AttemptsLoad
  BY DEF AttemptsLoad
<1>3. NativeLoads
  BY DEF NativeLoads
<1>4. AttentionStopsQueue /\ NoReleaseUnderReservation
  BY DEF AttentionStopsQueue, NoReleaseUnderReservation
<1>5. History
  BY DEF History
<1> QED
  BY <1>1, <1>2, <1>3, <1>4, <1>5 DEF IInv

-----------------------------------------------------------------------------
\* What changing the state of a row, or deciding an attempt, does to it.
LEMMA RowUpdates ==
    /\ \A row \in Command, st \in ExecState :
          /\ Now(row, st) \in Command
          /\ Now(row, st).state = st
          /\ Now(row, st).item = row.item
          /\ Now(row, st).action = row.action
          /\ Now(row, st).generation = row.generation
    /\ \A row \in Operation, st \in ExecState :
          /\ Now(row, st) \in Operation
          /\ Now(row, st).state = st
          /\ Now(row, st).generation = row.generation
    /\ \A row \in Reservation :
          /\ Now(row, "session_exit_observed") \in Reservation
          /\ Now(row, "session_exit_observed").state = "session_exit_observed"
          /\ Now(row, "session_exit_observed").adopted = row.adopted
          /\ Now(row, "session_exit_observed").generation = row.generation
    /\ \A row \in Attempt, outcome \in QueueIntent :
          /\ Decided(row, outcome) \in Attempt
          /\ Decided(row, outcome).intent = outcome
          /\ Decided(row, outcome).decided
          /\ Decided(row, outcome).origin = row.origin
BY DEF Now, Decided, Command, Operation, Reservation, Attempt

\* What a crash does to a row.
LEMMA CrashUpdates ==
    /\ \A row \in Command \cup {None} :
          /\ AfterCrash(row) \in Command \cup {None}
          /\ AfterCrash(row) = None <=> row = None
          /\ row # None =>
                /\ AfterCrash(row).state # "dispatched"
                /\ AfterCrash(row).state \in {row.state, "uncertain"}
                /\ AfterCrash(row).item = row.item
                /\ AfterCrash(row).action = row.action
                /\ AfterCrash(row).generation = row.generation
    /\ \A row \in Operation \cup {None} :
          /\ AfterCrash(row) \in Operation \cup {None}
          /\ AfterCrash(row) = None <=> row = None
          /\ row # None =>
                /\ AfterCrash(row).state # "dispatched"
                /\ AfterCrash(row).state \in {row.state, "uncertain"}
                /\ row.state = "pending" <=> AfterCrash(row).state = "pending"
                /\ row.state \in {"dispatched", "acknowledged", "uncertain"} <=>
                      AfterCrash(row).state \in {"dispatched", "acknowledged", "uncertain"}
                /\ AfterCrash(row).generation = row.generation
<1> USE RowAssumption, RowUpdates DEF AfterCrash, ExecState, Outcome
<1>1. ASSUME NEW row \in Command
      PROVE  row # None /\ AfterCrash(row) \in Command
  OBVIOUS
<1>2. ASSUME NEW row \in Operation
      PROVE  row # None /\ AfterCrash(row) \in Operation
  OBVIOUS
<1>3. AfterCrash(None) = None
  OBVIOUS
<1> QED
  BY <1>1, <1>2, <1>3

\* Every call keeps the types.
LEMMA TypeStep == TypeOK /\ NativeLoads /\ [Next]_storeVars => TypeOK'
<1> SUFFICES ASSUME TypeOK, NativeLoads, [Next]_storeVars PROVE TypeOK'
  OBVIOUS
<1> USE StoreAssumption, RowAssumption, RowUpdates, CrashUpdates
<1>1. ASSUME NEW i \in Items, NEW c \in CommandIds, PrepareStart(i, c) PROVE TypeOK'
  BY <1>1 DEF TypeOK, PrepareStart, NewCommand, QueueIntent, Attempt, Command, ExecState,
              CommandAction
<1>2. ASSUME NEW i \in Items, NEW c \in CommandIds, PrepareStop(i, c) PROVE TypeOK'
  BY <1>2 DEF TypeOK, PrepareStop, NewCommand, Command, ExecState, CommandAction
<1>3. ASSUME NEW i \in Items, NEW c \in CommandIds, NEW a \in ControlAction,
             PrepareControl(i, c, a) PROVE TypeOK'
  <2>1. NewCommand(i, a) \in Command
    BY DEF TypeOK, NewCommand, Command, ExecState, CommandAction
  <2> QED
    BY <1>3, <2>1 DEF TypeOK, PrepareControl
<1>4. ASSUME CancelQueue PROVE TypeOK'
  BY <1>4 DEF TypeOK, CancelQueue
<1>5. ASSUME NEW c \in CommandIds, MarkDispatched(c) PROVE TypeOK'
  BY <1>5 DEF TypeOK, MarkDispatched, Journaled, ExecState
<1>6. ASSUME NEW c \in CommandIds, NEW o \in Outcome, RecordOutcome(c, o) PROVE TypeOK'
  BY <1>6 DEF TypeOK, RecordOutcome, Journaled, ExecState, Outcome
<1>7. ASSUME NEW i \in Items, NEW o \in SettledIntent, SettleAttempt(i, o) PROVE TypeOK'
  <2>1. o \in QueueIntent
    BY DEF SettledIntent, QueueIntent
  <2>2. attempts' \in [Items -> Attempt \cup {None}] /\ items' \in [Items -> QueueIntent]
    BY <1>7, <2>1 DEF TypeOK, SettleAttempt, Attempted
  <2>3. canceled' \in BOOLEAN /\ hold' \in BOOLEAN
    BY <1>7 DEF TypeOK, SettleAttempt, AttentionCancels
  <2> QED
    BY <1>7, <2>2, <2>3 DEF TypeOK, SettleAttempt
<1>8. ASSUME RecoverNative PROVE TypeOK'
  BY <1>8 DEF TypeOK, RecoverNative, FenceEarlierWork
<1>9. ASSUME RecoverLegacy PROVE TypeOK'
  BY <1>9 DEF TypeOK, RecoverLegacy, FenceEarlierWork, Attempted, Attempt, QueueIntent
<1>10. ASSUME HoldForReconciliation PROVE TypeOK'
  BY <1>10 DEF TypeOK, HoldForReconciliation
<1>11. ASSUME NEW i \in Items, PrepareSuccessor(i) PROVE TypeOK'
  BY <1>11 DEF TypeOK, PrepareSuccessor, NewOperation, Reservation, Operation, ExecState
<1>12. ASSUME NEW i \in Items, PrepareClear(i) PROVE TypeOK'
  BY <1>12 DEF TypeOK, PrepareClear, NewOperation, Operation, ExecState
<1>13. ASSUME NEW i \in Items, NEW a \in NativeAction, MarkNativeDispatched(i, a) PROVE TypeOK'
  BY <1>13 DEF TypeOK, MarkNativeDispatched, Operations, ExecState
<1>14. ASSUME NEW i \in Items, NEW a \in NativeAction, NEW o \in Outcome,
              RecordNativeOutcome(i, a, o) PROVE TypeOK'
  BY <1>14 DEF TypeOK, RecordNativeOutcome, Operations, ExecState, Outcome
<1>15. ASSUME NEW i \in Items, AdoptSuccessor(i) PROVE TypeOK'
  <2>0. reservations[i] # None /\ ReservationLoads(i)
    BY <1>15 DEF AdoptSuccessor, Reserved, NativeLoads
  <2>1. i + 1 \in Items /\ reservations[i] \in Reservation
    BY <2>0 DEF TypeOK, ReservationLoads
  <2>2. reservations' \in [Items -> Reservation \cup {None}]
    BY <1>15, <2>1 DEF TypeOK, AdoptSuccessor, Reservation
  <2>3. items' \in [Items -> QueueIntent]
    BY <1>15, <2>1 DEF TypeOK, AdoptSuccessor, QueueIntent
  <2>4. attempts[i] # None => Decided(attempts[i], "needs_attention") \in Attempt
    BY DEF TypeOK, QueueIntent
  <2>5. attempts' \in [Items -> Attempt \cup {None}]
    <3>1. attempts[i] # None
      BY <2>0 DEF ReservationLoads, Attempted
    <3> DEFINE new == [intent |-> "current", decided |-> FALSE, origin |-> "native_observed"]
               row == IF attempts[i].intent \in {"current", "needs_attention"}
                      THEN Decided(attempts[i], "needs_attention") ELSE attempts[i]
    <3>2. new \in Attempt
      BY DEF Attempt, QueueIntent
    <3>3. row \in Attempt
      BY <2>4, <3>1 DEF TypeOK
    <3>4. attempts' = [attempts EXCEPT ![i] = row, ![i + 1] = new]
      BY <1>15 DEF AdoptSuccessor
    <3> HIDE DEF new, row
    <3> QED
      BY <3>2, <3>3, <3>4 DEF TypeOK
  <2>6. hold' \in BOOLEAN
    BY <1>15 DEF TypeOK, AdoptSuccessor, EndUnobserved
  <2> QED
    BY <1>15, <2>1, <2>2, <2>3, <2>5, <2>6 DEF TypeOK, AdoptSuccessor
<1>16. ASSUME NEW i \in Items, RecordSessionExit(i) PROVE TypeOK'
  BY <1>16 DEF TypeOK, RecordSessionExit
<1>17. CASE UNCHANGED storeVars
  BY <1>17 DEF TypeOK, storeVars
<1> QED
  BY <1>1, <1>2, <1>3, <1>4, <1>5, <1>6, <1>7, <1>8, <1>9, <1>10, <1>11, <1>12, <1>13,
     <1>14, <1>15, <1>16, <1>17 DEF Next


-----------------------------------------------------------------------------
\* The commands of every identity still describe the same intent.
SameIntents ==
    \A c \in CommandIds :
        /\ commands'[c] = None <=> commands[c] = None
        /\ commands[c] # None =>
              /\ commands'[c].item = commands[c].item
              /\ commands'[c].action = commands[c].action
              /\ commands'[c].generation = commands[c].generation

\* A step that rewrites only states of commands keeps every set of starts.
LEMMA SameStarts ==
    SameIntents => Journaled' = Journaled /\ \A i : StartsOf(i)' = StartsOf(i)
BY DEF SameIntents, Journaled, StartsOf

\* Dispatches, outcomes and crashes rewrite only states.
LEMMA SameIntentsSteps ==
    ASSUME TypeOK
    PROVE  /\ \A c \in CommandIds : MarkDispatched(c) => SameIntents
           /\ \A c \in CommandIds, o \in Outcome : RecordOutcome(c, o) => SameIntents
           /\ FenceEarlierWork => SameIntents
<1> USE RowAssumption, RowUpdates, CrashUpdates DEF TypeOK, SameIntents
<1>1. ASSUME NEW c \in CommandIds, MarkDispatched(c) PROVE SameIntents
  <2>1. commands[c] \in Command /\ Now(commands[c], "dispatched") \in Command
    BY <1>1 DEF MarkDispatched, Journaled, ExecState
  <2> QED
    BY <1>1, <2>1 DEF MarkDispatched, ExecState
<1>2. ASSUME NEW c \in CommandIds, NEW o \in Outcome, RecordOutcome(c, o) PROVE SameIntents
  <2>1. commands[c] \in Command /\ Now(commands[c], o) \in Command
    BY <1>2 DEF RecordOutcome, Journaled, ExecState, Outcome
  <2> QED
    BY <1>2, <2>1 DEF RecordOutcome, ExecState, Outcome
<1>3. ASSUME FenceEarlierWork PROVE SameIntents
  BY <1>3 DEF FenceEarlierWork
<1> QED
  BY <1>1, <1>2, <1>3

\* A new command of an attempted item that is no start keeps every set of starts.
LEMMA NewControl ==
    ASSUME TypeOK, AttemptsLoad, NEW c \in CommandIds, commands[c] = None,
           NEW i \in Attempted, NEW action \in CommandAction \ {"start"},
           commands' = [commands EXCEPT ![c] = NewCommand(i, action)],
           UNCHANGED <<items, attempts, current, generation>>
    PROVE  AttemptsLoad' /\ Journaled' = Journaled \cup {c} /\ \A j : StartsOf(j)' = StartsOf(j)
<1>1. /\ NewCommand(i, action) \in Command
      /\ NewCommand(i, action).item = i
      /\ NewCommand(i, action).action = action
      /\ NewCommand(i, action).generation = generation
  BY DEF TypeOK, NewCommand, Command, ExecState, Attempted
<1>2. Journaled' = Journaled \cup {c}
  BY <1>1, RowAssumption DEF TypeOK, Journaled
<1>3. \A j : StartsOf(j)' = StartsOf(j)
  BY <1>1, <1>2 DEF TypeOK, StartsOf, Journaled
<1>4. Attempted' = Attempted
  BY DEF Attempted
<1>5. \A d \in Journaled' : commands'[d].item \in Attempted' /\ commands'[d].generation <= generation'
  BY <1>1, <1>2, <1>4 DEF TypeOK, AttemptsLoad, Journaled
<1> QED
  BY <1>2, <1>3, <1>4, <1>5 DEF AttemptsLoad, Journaled

-----------------------------------------------------------------------------
\* Every call keeps the attempts and commands loadable.
LEMMA AttemptsStep == IInv /\ [Next]_storeVars => AttemptsLoad'
<1> SUFFICES ASSUME IInv, [Next]_storeVars PROVE AttemptsLoad'
  OBVIOUS
<1>0. TypeOK /\ AttemptsLoad /\ NativeLoads /\ History
  BY DEF IInv
<1> USE <1>0, StoreAssumption, RowAssumption
\* The calls that touch neither items, attempts nor commands.
<1>a. ASSUME UNCHANGED <<items, attempts, commands, current, generation>> PROVE AttemptsLoad'
  BY <1>a DEF AttemptsLoad, Attempted, Journaled, StartsOf
\* The calls that only move commands from state to state.
<1>b. ASSUME SameIntents, UNCHANGED <<items, attempts, current, generation>> PROVE AttemptsLoad'
  <2>1. Attempted' = Attempted
    BY <1>b DEF Attempted
  <2> QED
    BY <1>b, <2>1, SameStarts DEF AttemptsLoad, Journaled, SameIntents
<1>1. ASSUME NEW i \in Items, NEW c \in CommandIds, PrepareStart(i, c) PROVE AttemptsLoad'
  <2> DEFINE new == [intent |-> "current", decided |-> FALSE, origin |-> "local_start"]
             row == NewCommand(i, "start")
  <2>1. /\ row \in Command /\ row.item = i /\ row.action = "start" /\ row.generation = generation
        /\ new \in Attempt /\ new.intent = "current" /\ ~new.decided
        /\ new.origin = "local_start"
    BY DEF TypeOK, NewCommand, Command, ExecState, CommandAction, Attempt, QueueIntent
  <2>2. /\ commands[c] = None /\ items[i] = "pending" /\ NothingUnsettled
        /\ commands' = [commands EXCEPT ![c] = row]
        /\ attempts' = [attempts EXCEPT ![i] = new]
        /\ items' = [items EXCEPT ![i] = "current"] /\ current' = i
        /\ generation' = generation
    BY <1>1 DEF PrepareStart
  <2> HIDE DEF new, row
  <2>3. i \notin Attempted
    BY <2>2 DEF AttemptsLoad
  <2>4. Attempted' = Attempted \cup {i} /\ Journaled' = Journaled \cup {c}
    BY <2>1, <2>2 DEF TypeOK, Attempted, Journaled
  <2>5. StartsOf(i) = {}
    BY <2>3 DEF StartsOf, AttemptsLoad
  <2>6. StartsOf(i)' = {c} /\ c \in Journaled'
    BY <2>1, <2>2, <2>4, <2>5 DEF TypeOK, StartsOf, Journaled
  <2>7. \A j \in Items \ {i} : StartsOf(j)' = StartsOf(j)
    BY <2>1, <2>2, <2>4 DEF TypeOK, StartsOf, Journaled
  <2>8. \A j \in Items : items'[j] = "current" => current' = j
    BY <2>2 DEF TypeOK, NothingUnsettled
  <2>9. \A d \in Journaled' : commands'[d].item \in Attempted' /\ commands'[d].generation <= generation'
    BY <2>1, <2>2, <2>4 DEF TypeOK, AttemptsLoad, Journaled
  <2>10. ASSUME NEW j \in Attempted'
         PROVE  /\ attempts'[j].intent = items'[j]
                /\ attempts'[j].intent # "pending"
                /\ attempts'[j].intent = "current" => ~attempts'[j].decided
                /\ IF attempts'[j].origin = "local_start"
                   THEN \E d \in Journaled' : StartsOf(j)' = {d}
                   ELSE StartsOf(j)' = {}
    <3>1. CASE j = i
      BY <3>1, <2>1, <2>2, <2>6 DEF TypeOK
    <3>2. CASE j # i
      BY <3>2, <2>2, <2>4, <2>7 DEF TypeOK, AttemptsLoad, Attempted
    <3> QED
      BY <3>1, <3>2
  <2> QED
    BY <2>2, <2>4, <2>8, <2>9, <2>10 DEF AttemptsLoad
<1>2. ASSUME NEW i \in Items, NEW c \in CommandIds, PrepareStop(i, c) PROVE AttemptsLoad'
  BY <1>2, NewControl DEF PrepareStop, LatestIs, CommandAction
<1>3. ASSUME NEW i \in Items, NEW c \in CommandIds, NEW a \in ControlAction,
             PrepareControl(i, c, a) PROVE AttemptsLoad'
  BY <1>3, NewControl DEF PrepareControl, LatestIs, CommandAction
<1>4. ASSUME NEW c \in CommandIds, MarkDispatched(c) PROVE AttemptsLoad'
  BY <1>4, <1>b, SameIntentsSteps DEF MarkDispatched
<1>5. ASSUME NEW c \in CommandIds, NEW o \in Outcome, RecordOutcome(c, o) PROVE AttemptsLoad'
  BY <1>5, <1>b, SameIntentsSteps DEF RecordOutcome
<1>6. ASSUME NEW i \in Items, NEW o \in SettledIntent, SettleAttempt(i, o) PROVE AttemptsLoad'
  <2> DEFINE row == Decided(attempts[i], o)
  <2>1. attempts[i] \in Attempt /\ o \in QueueIntent /\ o \notin {"pending", "current"}
    BY <1>6 DEF TypeOK, SettleAttempt, Attempted, SettledIntent, QueueIntent
  <2>2. row \in Attempt /\ row.intent = o /\ row.origin = attempts[i].origin
    BY <2>1, RowUpdates
  <2>3. /\ attempts' = [attempts EXCEPT ![i] = row] /\ items' = [items EXCEPT ![i] = o]
        /\ i \in Attempted
        /\ UNCHANGED <<commands, current, generation>>
    BY <1>6 DEF SettleAttempt
  <2> HIDE DEF row
  <2>4. Attempted' = Attempted /\ Journaled' = Journaled /\ \A j : StartsOf(j)' = StartsOf(j)
    BY <2>2, <2>3 DEF TypeOK, Attempted, Journaled, StartsOf
  <2>5. /\ attempts'[i] = row /\ items'[i] = o
        /\ \A j \in Items \ {i} : attempts'[j] = attempts[j] /\ items'[j] = items[j]
    BY <2>3 DEF TypeOK
  <2>6. \A j \in Items : items'[j] = "current" => current' = j
    BY <2>1, <2>3, <2>5 DEF AttemptsLoad
  <2>7. Attempted' # {} => current' \in Attempted'
    BY <2>3, <2>4 DEF AttemptsLoad
  <2>8. ASSUME NEW j \in Attempted'
        PROVE  /\ attempts'[j].intent = items'[j]
               /\ attempts'[j].intent # "pending"
               /\ attempts'[j].intent = "current" => ~attempts'[j].decided
               /\ attempts'[j].origin = attempts[j].origin
    <3>1. CASE j = i
      BY <3>1, <2>1, <2>2, <2>5
    <3>2. CASE j # i
      BY <3>2, <2>4, <2>5 DEF AttemptsLoad, Attempted
    <3> QED
      BY <3>1, <3>2
  <2> QED
    BY <2>3, <2>4, <2>6, <2>7, <2>8 DEF AttemptsLoad
<1>7. ASSUME RecoverNative PROVE AttemptsLoad'
  <2>1. SameIntents /\ generation' = generation + 1 /\ UNCHANGED <<items, attempts, current>>
    BY <1>7, SameIntentsSteps DEF RecoverNative, FenceEarlierWork
  <2>2. Attempted' = Attempted
    BY <2>1 DEF Attempted
  <2>3. \A c \in Journaled : commands[c].generation \in Nat
    BY DEF TypeOK, Journaled, Command
  <2> QED
    BY <2>1, <2>2, <2>3, SameStarts DEF TypeOK, AttemptsLoad, Journaled, SameIntents
<1>8. ASSUME RecoverLegacy PROVE AttemptsLoad'
  <2>1. SameIntents /\ generation' = generation + 1 /\ UNCHANGED current
    BY <1>8, SameIntentsSteps DEF RecoverLegacy, FenceEarlierWork
  <2>2. \A j \in Items :
          items'[j] = IF items[j] = "current" THEN "needs_attention" ELSE items[j]
    BY <1>8 DEF RecoverLegacy
  <2>3. \A j \in Attempted :
          /\ attempts'[j] \in Attempt
          /\ attempts'[j].origin = attempts[j].origin
          /\ attempts'[j].intent = items'[j]
    BY <1>8, <2>2 DEF RecoverLegacy, TypeOK, AttemptsLoad, Attempted, Attempt, QueueIntent
  <2>4. Attempted' = Attempted
    BY <1>8, <2>3 DEF RecoverLegacy, Attempted
  <2>5. \A c \in Journaled : commands[c].generation \in Nat
    BY DEF TypeOK, Journaled, Command
  <2>6. \A d \in Journaled' : commands'[d].item \in Attempted' /\ commands'[d].generation <= generation'
    BY <2>1, <2>4, <2>5, SameStarts DEF TypeOK, AttemptsLoad, Journaled, SameIntents
  <2>7. \A j \in Attempted' :
          /\ attempts'[j].intent = items'[j]
          /\ attempts'[j].intent \notin {"pending", "current"}
          /\ attempts'[j].origin = attempts[j].origin
    BY <2>2, <2>3, <2>4 DEF AttemptsLoad, Attempted
  <2>8. \A j \in Attempted' :
          IF attempts'[j].origin = "local_start"
          THEN \E d \in Journaled' : StartsOf(j)' = {d} ELSE StartsOf(j)' = {}
    BY <2>1, <2>4, <2>7, SameStarts DEF AttemptsLoad
  <2>9. \A j \in Items : items'[j] # "current"
    BY <2>2
  <2>10. Attempted' # {} => current' \in Attempted'
    BY <2>1, <2>4 DEF AttemptsLoad
  <2> QED
    BY <2>6, <2>7, <2>8, <2>9, <2>10 DEF AttemptsLoad
<1>9. ASSUME NEW i \in Items, AdoptSuccessor(i) PROVE AttemptsLoad'
  <2>1. ReservationLoads(i) /\ StartsOf(i + 1) = {}
    BY <1>9 DEF AdoptSuccessor, Reserved, NativeLoads, History
  <2>2. i \in Attempted /\ i + 1 \in Items /\ items[i + 1] = "pending" /\ current = i
    BY <1>9, <2>1 DEF AdoptSuccessor, Reserved, ReservationLoads
  <2> DEFINE unobserved == attempts[i].intent \in {"current", "needs_attention"}
             new == [intent |-> "current", decided |-> FALSE, origin |-> "native_observed"]
             row == IF unobserved THEN Decided(attempts[i], "needs_attention") ELSE attempts[i]
             intent == IF unobserved THEN "needs_attention" ELSE items[i]
  <2>3. new \in Attempt /\ new.intent = "current" /\ ~new.decided /\ new.origin = "native_observed"
    BY DEF Attempt, QueueIntent
  <2>4. /\ row \in Attempt /\ row.origin = attempts[i].origin /\ row.intent = intent
        /\ intent \notin {"current", "pending"}
    <3>1. attempts[i] \in Attempt /\ attempts[i].intent = items[i] /\ items[i] # "pending"
      BY <2>2 DEF TypeOK, Attempted, AttemptsLoad
    <3> QED
      BY <3>1, RowUpdates DEF QueueIntent
  <2>5. /\ attempts' = [attempts EXCEPT ![i] = row, ![i + 1] = new]
        /\ items' = [items EXCEPT ![i] = intent, ![i + 1] = "current"]
        /\ current' = i + 1
        /\ UNCHANGED <<commands, generation>>
    BY <1>9 DEF AdoptSuccessor
  <2> HIDE DEF new, row, intent
  <2>6. i \in Nat /\ i + 1 # i
    BY <2>2 DEF Items
  <2>7. Attempted' = Attempted \cup {i + 1}
    BY <2>2, <2>3, <2>4, <2>5 DEF TypeOK, Attempted
  <2>8. Journaled' = Journaled /\ \A j : StartsOf(j)' = StartsOf(j)
    BY <2>5 DEF Journaled, StartsOf
  <2>9. \A j \in Items : items'[j] = "current" => current' = j
    BY <2>2, <2>4, <2>5, <2>6 DEF TypeOK, AttemptsLoad
  <2>10. ASSUME NEW j \in Attempted'
         PROVE  /\ attempts'[j].intent = items'[j]
                /\ attempts'[j].intent # "pending"
                /\ attempts'[j].intent = "current" => ~attempts'[j].decided
                /\ IF attempts'[j].origin = "local_start"
                   THEN \E d \in Journaled' : StartsOf(j)' = {d}
                   ELSE StartsOf(j)' = {}
    <3>1. CASE j = i + 1
      BY <3>1, <2>1, <2>2, <2>3, <2>5, <2>8 DEF TypeOK
    <3>2. CASE j = i
      BY <3>2, <2>2, <2>4, <2>5, <2>6, <2>8 DEF TypeOK, AttemptsLoad, Attempted
    <3>3. CASE j \notin {i, i + 1}
      BY <3>3, <2>2, <2>5, <2>7, <2>8 DEF TypeOK, AttemptsLoad, Attempted
    <3> QED
      BY <3>1, <3>2, <3>3
  <2> QED
    BY <2>2, <2>5, <2>7, <2>8, <2>9, <2>10 DEF AttemptsLoad
<1>10. CASE UNCHANGED storeVars
  BY <1>10, <1>a DEF storeVars
<1> QED
  <2>1. CASE CancelQueue
    BY <2>1, <1>a DEF CancelQueue
  <2>2. CASE HoldForReconciliation
    BY <2>2, <1>a DEF HoldForReconciliation
  <2>3. CASE \E i \in Items : PrepareSuccessor(i) \/ PrepareClear(i) \/ RecordSessionExit(i)
    BY <2>3, <1>a DEF PrepareSuccessor, PrepareClear, RecordSessionExit
  <2>4. CASE \E i \in Items, a \in NativeAction :
                MarkNativeDispatched(i, a) \/ \E o \in Outcome : RecordNativeOutcome(i, a, o)
    BY <2>4, <1>a DEF MarkNativeDispatched, RecordNativeOutcome
  <2> QED
    BY <1>1, <1>2, <1>3, <1>4, <1>5, <1>6, <1>7, <1>8, <1>9, <1>10, <2>1, <2>2, <2>3, <2>4
       DEF Next

-----------------------------------------------------------------------------
\* Every call keeps the native history loadable.
LEMMA NativeStep == IInv /\ [Next]_storeVars => NativeLoads'
<1> SUFFICES ASSUME IInv, [Next]_storeVars PROVE NativeLoads'
  OBVIOUS
<1>0. TypeOK /\ AttemptsLoad /\ NativeLoads /\ History
  BY DEF IInv
<1> USE <1>0, StoreAssumption, RowAssumption
\* Without reservations there is nothing native to load.
<1>n. ASSUME \A j \in Items : reservations[j] = None,
             \A j \in Attempted' : attempts'[j].origin # "native_observed",
             \A o \in Items \X NativeAction : operations[o] = None => operations'[o] = None,
             mode' = "legacy" => ~hold', UNCHANGED reservations
      PROVE  NativeLoads'
  <2>1. Operations' = {}
    <3>1. Operations = {}
      BY <1>n DEF NativeLoads, Operations
    <3> QED
      BY <3>1, <1>n DEF Operations
  <2> QED
    BY <1>n, <2>1 DEF NativeLoads, Reserved
\* The calls that touch only commands and the cancellation.
<1>a. ASSUME UNCHANGED <<mode, generation, current, items, attempts, reservations, operations>>,
             mode = "native" \/ UNCHANGED hold
      PROVE  NativeLoads'
  BY <1>a DEF NativeLoads, ReservationLoads, Reserved, Operations, Attempted, Enqueued
\* The calls that only move native operations from state to state.
<1>o. ASSUME NEW i \in Items, NEW a \in NativeAction, NEW st \in ExecState, mode = "native",
             operations[<<i, a>>] # None, operations' = [operations EXCEPT ![<<i, a>>] = Now(@, st)],
             a = "play_next" /\ reservations[i].adopted =>
                st \in {"dispatched", "acknowledged", "uncertain"},
             UNCHANGED <<mode, generation, current, items, attempts, reservations>>
      PROVE  NativeLoads'
  <2> DEFINE row == Now(operations[<<i, a>>], st)
  <2>1. row \in Operation /\ row.state = st /\ row.generation = operations[<<i, a>>].generation
    BY <1>o, RowUpdates DEF TypeOK
  <2>2. operations' = [operations EXCEPT ![<<i, a>>] = row]
    BY <1>o
  <2> HIDE DEF row
  <2>3. Operations' = Operations
    BY <1>o, <2>1, <2>2 DEF TypeOK, Operations
  <2>4. \A o \in Operations : operations'[o].generation = operations[o].generation
    BY <2>1, <2>2 DEF TypeOK, Operations
  <2>5. ASSUME NEW j \in Items, reservations[j] # None PROVE ReservationLoads(j)'
    <3>1. ReservationLoads(j)
      BY <2>5 DEF NativeLoads
    <3>2. reservations[j].adopted => Enqueued(j)'
      BY <1>o, <2>1, <2>2, <3>1 DEF TypeOK, ReservationLoads, Enqueued, NativeAction
    <3> QED
      BY <1>o, <2>3, <2>4, <3>1, <3>2 DEF ReservationLoads, Attempted
  <2> QED
    BY <1>o, <2>3, <2>4, <2>5 DEF NativeLoads, Reserved, Attempted
<1>1. ASSUME NEW i \in Items, NEW c \in CommandIds, PrepareStart(i, c) PROVE NativeLoads'
  <2> DEFINE new == [intent |-> "current", decided |-> FALSE, origin |-> "local_start"]
  <2>1. attempts' = [attempts EXCEPT ![i] = new] /\ UNCHANGED <<mode, hold, reservations, operations>>
    BY <1>1 DEF PrepareStart
  <2>2. \A j \in Items : reservations[j] = None
    BY <1>1 DEF PrepareStart, NativeMayStart, NativeLoads, ReservationLoads, TypeOK
  <2>3. new.origin = "local_start"
    OBVIOUS
  <2> HIDE DEF new
  <2>4. \A j \in Attempted' : attempts'[j].origin # "native_observed"
    BY <2>1, <2>2, <2>3 DEF TypeOK, Attempted, NativeLoads, Items
  <2>5. mode' = "legacy" => ~hold'
    BY <2>1 DEF NativeLoads
  <2> QED
    BY <1>n, <2>1, <2>2, <2>4, <2>5
<1>2. ASSUME NEW i \in Items, NEW o \in SettledIntent, SettleAttempt(i, o) PROVE NativeLoads'
  <2> DEFINE row == Decided(attempts[i], o)
  <2>1. row \in Attempt /\ row.origin = attempts[i].origin /\ i \in Attempted
    BY <1>2, RowUpdates DEF TypeOK, SettleAttempt, Attempted, SettledIntent, QueueIntent
  <2>2. /\ attempts' = [attempts EXCEPT ![i] = row] /\ items' = [items EXCEPT ![i] = o]
        /\ UNCHANGED <<mode, generation, current, reservations, operations>>
        /\ mode = "legacy" => UNCHANGED hold
    BY <1>2 DEF SettleAttempt
  <2> HIDE DEF row
  <2>3. Attempted' = Attempted /\ Reserved' = Reserved /\ Operations' = Operations
    BY <2>1, <2>2 DEF TypeOK, Attempted, Reserved, Operations
  <2>4. \A j \in Attempted : attempts'[j].origin = attempts[j].origin
    BY <2>1, <2>2 DEF TypeOK, Attempted
  <2>5. items[i] # "pending"
    BY <2>1 DEF AttemptsLoad
  <2>6. ASSUME NEW j \in Items, reservations[j] # None PROVE ReservationLoads(j)'
    <3>1. ReservationLoads(j)
      BY <2>6 DEF NativeLoads
    <3>2. reservations[j].state = "reserved" => items'[j + 1] = "pending"
      BY <2>2, <2>5, <3>1 DEF TypeOK, ReservationLoads
    <3>3. Enqueued(j)' = Enqueued(j)
      BY <2>2 DEF Enqueued
    <3> QED
      BY <2>2, <2>3, <2>4, <3>1, <3>2, <3>3 DEF ReservationLoads
  <2> QED
    BY <2>2, <2>3, <2>4, <2>6 DEF NativeLoads
<1>3. ASSUME RecoverNative PROVE NativeLoads'
  <2>1. /\ mode = "native" /\ generation' = generation + 1
        /\ \A o \in Items \X NativeAction : operations'[o] = AfterCrash(operations[o])
        /\ UNCHANGED <<mode, current, items, attempts, reservations>>
    BY <1>3 DEF RecoverNative, FenceEarlierWork
  <2>2. Operations' = Operations
    BY <2>1, CrashUpdates DEF TypeOK, Operations
  <2>3. \A o \in Operations : operations'[o].generation = operations[o].generation
    BY <2>1, CrashUpdates DEF TypeOK, Operations
  <2>4. \A j \in Items : <<j, "play_next">> \in Operations => Enqueued(j)' = Enqueued(j)
    BY <2>1, CrashUpdates DEF TypeOK, Operations, Enqueued
  <2>5. ASSUME NEW j \in Items, reservations[j] # None PROVE ReservationLoads(j)'
    <3>1. ReservationLoads(j) /\ reservations[j].generation \in Nat
      BY <2>5 DEF NativeLoads, TypeOK, Reservation
    <3> QED
      BY <2>1, <2>2, <2>3, <2>4, <3>1 DEF ReservationLoads, Attempted, TypeOK
  <2>6. \A o \in Operations :
           /\ reservations[o[1]] # None
           /\ operations'[o].generation \in reservations[o[1]].generation .. generation'
    <3>1. \A o \in Operations : o[1] \in Items /\ operations[o].generation \in Nat
      BY DEF Operations, TypeOK, Operation
    <3>2. \A o \in Operations : reservations[o[1]] # None /\ reservations[o[1]].generation \in Nat
      BY <3>1 DEF NativeLoads, TypeOK, Reservation
    <3> QED
      BY <2>1, <2>3, <3>1, <3>2 DEF NativeLoads, TypeOK
  <2> QED
    BY <2>1, <2>2, <2>5, <2>6 DEF NativeLoads, Reserved, Attempted
<1>4. ASSUME RecoverLegacy PROVE NativeLoads'
  <2>1. \A j \in Items : reservations[j] = None
    BY <1>4 DEF RecoverLegacy, NativeLoads
  <2>2. \A j \in Attempted : attempts[j].origin # "native_observed"
    BY <2>1 DEF NativeLoads, Attempted, Items
  <2>3. \A j \in Items : attempts'[j] # None => j \in Attempted /\ attempts'[j].origin = attempts[j].origin
    BY <1>4 DEF RecoverLegacy, TypeOK, Attempted, Attempt
  <2>4. \A o \in Items \X NativeAction : operations[o] = None => operations'[o] = None
    BY <1>4, CrashUpdates DEF RecoverLegacy, FenceEarlierWork
  <2>5. ~hold' /\ UNCHANGED reservations
    BY <1>4 DEF RecoverLegacy, FenceEarlierWork, NativeLoads
  <2>6. \A j \in Attempted' : attempts'[j].origin # "native_observed"
    BY <2>2, <2>3 DEF Attempted
  <2> QED
    BY <1>n, <2>1, <2>4, <2>5, <2>6
<1>5. ASSUME NEW i \in Items, PrepareSuccessor(i) PROVE NativeLoads'
  <2> DEFINE row == [state |-> "reserved", adopted |-> FALSE, generation |-> generation]
  <2>1. /\ row \in Reservation /\ row.state = "reserved" /\ ~row.adopted
        /\ row.generation = generation
        /\ NewOperation \in Operation /\ NewOperation.generation = generation
    BY DEF TypeOK, Reservation, Operation, NewOperation, ExecState
  <2>2. /\ mode = "native" /\ Reserved = {} /\ i + 1 \in Items
        /\ current = i /\ i \in Attempted /\ items[i + 1] = "pending"
        /\ Content[i] # Content[i + 1] /\ reservations[i] = None
        /\ reservations' = [reservations EXCEPT ![i] = row]
        /\ operations' = [operations EXCEPT ![<<i, "play_next">>] = NewOperation]
        /\ UNCHANGED <<mode, generation, current, items, attempts>>
    BY <1>5 DEF PrepareSuccessor, MayReserve, LatestIs
  <2> HIDE DEF row
  <2>3. Operations' = Operations \cup {<<i, "play_next">>} /\ Attempted' = Attempted
    BY <2>1, <2>2 DEF TypeOK, Operations, Attempted, NativeAction
  <2>4. Reserved' = {i}
    BY <2>1, <2>2 DEF TypeOK, Reserved
  <2>5. \A o \in Operations : o[1] # i
    BY <2>2 DEF NativeLoads
  <2>6. i + 1 \notin Attempted
    BY <2>2 DEF AttemptsLoad
  <2>7. ReservationLoads(i)'
    <3>1. operations'[<<i, "play_next">>].generation = generation
      BY <2>1, <2>2 DEF TypeOK, NativeAction
    <3>2. reservations'[i] = row
      BY <2>2 DEF TypeOK
    <3> QED
      BY <2>1, <2>2, <2>3, <2>6, <3>1, <3>2 DEF TypeOK, ReservationLoads
  <2>8. ASSUME NEW j \in Items \ {i}, reservations[j] # None PROVE ReservationLoads(j)'
    <3>1. ReservationLoads(j)
      BY <2>8 DEF NativeLoads
    <3>2. reservations'[j] = reservations[j]
      BY <2>2 DEF TypeOK
    <3>3. operations'[<<j, "play_next">>] = operations[<<j, "play_next">>]
      BY <2>2 DEF TypeOK, NativeAction
    <3> QED
      BY <2>2, <2>3, <3>1, <3>2, <3>3 DEF ReservationLoads, Enqueued
  <2>9. \A o \in Operations' :
          /\ reservations'[o[1]] # None
          /\ operations'[o].generation \in reservations'[o[1]].generation .. generation'
    <3>1. ASSUME NEW o \in Operations
          PROVE  operations'[o] = operations[o] /\ reservations'[o[1]] = reservations[o[1]]
      BY <2>2, <2>5 DEF TypeOK, Operations
    <3>2. operations'[<<i, "play_next">>] = NewOperation /\ reservations'[i] = row
      BY <2>2 DEF TypeOK, NativeAction
    <3> QED
      BY <2>1, <2>2, <2>3, <3>1, <3>2 DEF TypeOK, NativeLoads
  <2>10. \A j \in Attempted' :
           attempts'[j].origin = "native_observed" =>
              j > 1 /\ reservations'[j - 1] # None /\ reservations'[j - 1].adopted
    <3>1. ASSUME NEW j \in Attempted, attempts[j].origin = "native_observed"
          PROVE  j > 1 /\ j - 1 \in Items /\ reservations[j - 1] # None /\ reservations[j - 1].adopted
      BY <3>1 DEF NativeLoads, Attempted, Items
    <3> QED
      BY <2>2, <2>3, <3>1 DEF TypeOK
  <2> QED
    BY <2>2, <2>4, <2>7, <2>8, <2>9, <2>10 DEF NativeLoads
<1>6. ASSUME NEW i \in Items, PrepareClear(i) PROVE NativeLoads'
  <2>1. NewOperation \in Operation /\ NewOperation.generation = generation
    BY DEF TypeOK, Operation, NewOperation, ExecState
  <2>2. /\ mode = "native" /\ reservations[i] # None
        /\ operations' = [operations EXCEPT ![<<i, "clear">>] = NewOperation]
        /\ UNCHANGED <<mode, generation, current, items, attempts, reservations>>
    BY <1>6 DEF PrepareClear
  <2>3. Operations' = Operations \cup {<<i, "clear">>}
    BY <2>1, <2>2 DEF TypeOK, Operations, NativeAction
  <2>4. \A j \in Items : operations'[<<j, "play_next">>] = operations[<<j, "play_next">>]
    BY <2>2 DEF TypeOK, NativeAction
  <2>5. ASSUME NEW j \in Items, reservations[j] # None PROVE ReservationLoads(j)'
    <3>1. ReservationLoads(j)
      BY <2>5 DEF NativeLoads
    <3> QED
      BY <2>2, <2>3, <2>4, <3>1 DEF ReservationLoads, Enqueued, Attempted
  <2>6. \A o \in Operations' :
          /\ reservations[o[1]] # None
          /\ operations'[o].generation \in reservations[o[1]].generation .. generation
    <3>1. reservations[i].generation \in Nat /\ reservations[i].generation <= generation
      <4>1. reservations[i] \in Reservation
        BY <2>2 DEF TypeOK
      <4>2. ReservationLoads(i)
        BY <2>2 DEF NativeLoads
      <4> QED
        BY <4>1, <4>2 DEF Reservation, ReservationLoads
    <3>2. operations'[<<i, "clear">>] = NewOperation
      BY <2>2 DEF TypeOK, NativeAction
    <3>3. \A o \in Operations \ {<<i, "clear">>} : operations'[o] = operations[o]
      BY <2>2 DEF TypeOK, Operations
    <3>4. operations'[<<i, "clear">>].generation = generation /\ generation \in Nat
      BY <3>2 DEF NewOperation, TypeOK
    <3>5. \A o \in Operations :
            /\ reservations[o[1]] # None
            /\ operations[o].generation \in reservations[o[1]].generation .. generation
      BY DEF NativeLoads
    <3> SUFFICES ASSUME NEW o \in Operations'
                 PROVE  /\ reservations[o[1]] # None
                        /\ operations'[o].generation \in reservations[o[1]].generation .. generation
      OBVIOUS
    <3>6. CASE o = <<i, "clear">>
      <4>1. o[1] = i
        BY <3>6
      <4> QED
        BY <2>2, <3>1, <3>4, <3>6, <4>1
    <3>7. CASE o # <<i, "clear">>
      BY <2>3, <3>3, <3>5, <3>7
    <3> QED
      BY <3>6, <3>7
  <2> QED
    BY <2>2, <2>5, <2>6 DEF NativeLoads, Reserved, Attempted
<1>7. ASSUME NEW i \in Items, NEW a \in NativeAction, MarkNativeDispatched(i, a)
      PROVE  NativeLoads'
  <2>1. operations[<<i, a>>] # None
    BY <1>7 DEF MarkNativeDispatched, Operations
  <2>2. mode = "native"
    BY <1>7 DEF MarkNativeDispatched, NativeLoads, Operations, TypeOK
  <2> QED
    BY <1>7, <1>o, <2>1, <2>2 DEF MarkNativeDispatched, ExecState
<1>8. ASSUME NEW i \in Items, NEW a \in NativeAction, NEW o \in Outcome,
             RecordNativeOutcome(i, a, o)
      PROVE  NativeLoads'
  <2>1. operations[<<i, a>>] # None
    BY <1>8 DEF RecordNativeOutcome, Operations
  <2>2. mode = "native"
    BY <1>8 DEF RecordNativeOutcome, NativeLoads, Operations, TypeOK
  <2>3. a = "play_next" /\ reservations[i].adopted => o \in {"dispatched", "acknowledged", "uncertain"}
    BY <1>8 DEF RecordNativeOutcome, ReloadAccepts, Outcome
  <2> QED
    BY <1>8, <1>o, <2>1, <2>2, <2>3 DEF RecordNativeOutcome, ExecState
<1>9. ASSUME NEW i \in Items, AdoptSuccessor(i) PROVE NativeLoads'
  <2>1. /\ mode = "native" /\ i \in Reserved /\ Enqueued(i) /\ ReservationLoads(i)
        /\ reservations[i] \in Reservation /\ reservations[i].state = "reserved"
    BY <1>9 DEF AdoptSuccessor, Reserved, NativeLoads, TypeOK
  <2>2. i \in Attempted /\ i + 1 \in Items /\ items[i + 1] = "pending" /\ current = i
    BY <2>1 DEF ReservationLoads
  <2> DEFINE row == [state |-> "adopted", adopted |-> TRUE, generation |-> reservations[i].generation]
             new == [intent |-> "current", decided |-> FALSE, origin |-> "native_observed"]
             old == IF attempts[i].intent \in {"current", "needs_attention"}
                    THEN Decided(attempts[i], "needs_attention") ELSE attempts[i]
  <2>3. /\ row \in Reservation /\ row.state = "adopted" /\ row.adopted
        /\ row.generation = reservations[i].generation
        /\ new \in Attempt /\ new.origin = "native_observed"
    BY <2>1 DEF Reservation, Attempt, QueueIntent
  <2>4. old \in Attempt /\ old.origin = attempts[i].origin
    BY <2>2, RowUpdates DEF TypeOK, Attempted, QueueIntent
  <2>5. /\ reservations' = [reservations EXCEPT ![i] = row]
        /\ attempts' = [attempts EXCEPT ![i] = old, ![i + 1] = new]
        /\ current' = i + 1
        /\ UNCHANGED <<mode, generation, operations>>
    BY <1>9 DEF AdoptSuccessor
  <2> HIDE DEF row, new, old
  <2>6. i \in Nat /\ i + 1 # i
    BY DEF Items
  <2>7. Attempted' = Attempted \cup {i + 1} /\ Operations' = Operations
    BY <2>2, <2>3, <2>4, <2>5, <2>6 DEF TypeOK, Attempted, Operations
  <2>8. Reserved' = {}
    BY <2>1, <2>3, <2>5 DEF TypeOK, Reserved, NativeLoads
  <2>9. \A j \in Attempted : j # i + 1 /\ attempts'[j].origin = attempts[j].origin
    BY <2>2, <2>4, <2>5 DEF TypeOK, Attempted, AttemptsLoad
  <2>10. attempts'[i + 1] = new /\ reservations'[i] = row
    BY <2>2, <2>5, <2>6 DEF TypeOK
  <2>11. ReservationLoads(i)'
    <3>1. i \in Attempted' /\ i + 1 \in Attempted'
      BY <2>2, <2>7
    <3> QED
      BY <2>1, <2>3, <2>5, <2>7, <2>10, <3>1 DEF ReservationLoads, Enqueued
  <2>12. ASSUME NEW j \in Items \ {i}, reservations[j] # None PROVE ReservationLoads(j)'
    <3>1. ReservationLoads(j) /\ reservations'[j] = reservations[j]
      BY <2>5, <2>12 DEF NativeLoads, TypeOK
    <3>2. reservations[j].state # "reserved"
      BY <2>1, <2>12 DEF Reserved, NativeLoads
    <3>3. j + 1 # i + 1
      BY <2>6, <2>12 DEF Items
    <3>4. j + 1 \in Attempted' <=> j + 1 \in Attempted
      BY <2>7, <3>3
    <3> QED
      BY <2>5, <2>7, <2>9, <3>1, <3>2, <3>4 DEF ReservationLoads, Enqueued
  <2>13. \A o \in Operations :
           /\ reservations'[o[1]] # None
           /\ reservations'[o[1]].generation = reservations[o[1]].generation
    BY <2>3, <2>5 DEF TypeOK, Operations, NativeLoads
  <2>14. ASSUME NEW j \in Attempted', attempts'[j].origin = "native_observed"
         PROVE  j > 1 /\ reservations'[j - 1] # None /\ reservations'[j - 1].adopted
    <3>1. CASE j = i + 1
      BY <3>1, <2>3, <2>6, <2>10 DEF Items
    <3>2. CASE j # i + 1
      <4>1. j \in Attempted /\ attempts[j].origin = "native_observed"
        BY <3>2, <2>7, <2>9, <2>14
      <4>2. j > 1 /\ j - 1 \in Items /\ reservations[j - 1] # None /\ reservations[j - 1].adopted
        BY <4>1 DEF NativeLoads, Attempted, Items
      <4> QED
        BY <4>2, <2>3, <2>5 DEF TypeOK
    <3> QED
      BY <3>1, <3>2
  <2>15. mode' = "native" /\ generation' = generation
    BY <2>1, <2>5
  <2>16. \A j \in Items : reservations'[j] # None => ReservationLoads(j)'
    <3> SUFFICES ASSUME NEW j \in Items, reservations'[j] # None PROVE ReservationLoads(j)'
      OBVIOUS
    <3>1. CASE j = i
      BY <3>1, <2>11
    <3>2. CASE j # i
      <4>1. reservations'[j] = reservations[j]
        BY <3>2, <2>5 DEF TypeOK
      <4> QED
        BY <3>2, <4>1, <2>12
    <3> QED
      BY <3>1, <3>2
  <2>17. \A o \in Operations' :
           /\ reservations'[o[1]] # None
           /\ operations'[o].generation \in reservations'[o[1]].generation .. generation'
    BY <2>5, <2>7, <2>13 DEF NativeLoads
  <2>18. \A j, k \in Reserved' : j = k
    BY <2>8
  <2> QED
    BY <2>14, <2>15, <2>16, <2>17, <2>18 DEF NativeLoads
<1>10. ASSUME NEW i \in Items, RecordSessionExit(i) PROVE NativeLoads'
  <2> DEFINE row == Now(reservations[i], "session_exit_observed")
  <2>1. /\ row \in Reservation /\ row.state = "session_exit_observed"
        /\ row.adopted = reservations[i].adopted /\ row.generation = reservations[i].generation
    BY <1>10, RowUpdates DEF RecordSessionExit, TypeOK
  <2>2. /\ mode = "native" /\ reservations[i] # None
        /\ reservations' = [reservations EXCEPT ![i] = row]
        /\ UNCHANGED <<mode, generation, current, items, attempts, operations>>
    BY <1>10 DEF RecordSessionExit
  <2> HIDE DEF row
  <2>3. \A j \in Items :
          /\ reservations'[j] = None <=> reservations[j] = None
          /\ reservations[j] # None =>
                /\ reservations'[j].adopted = reservations[j].adopted
                /\ reservations'[j].generation = reservations[j].generation
                /\ reservations'[j].state \in {reservations[j].state, "session_exit_observed"}
    BY <2>1, <2>2 DEF TypeOK
  <2>4. Reserved' \subseteq Reserved
    BY <2>3 DEF Reserved
  <2>5. ASSUME NEW j \in Items, reservations[j] # None PROVE ReservationLoads(j)'
    <3>1. ReservationLoads(j)
      BY <2>5 DEF NativeLoads
    <3> QED
      BY <2>2, <2>3, <2>5, <3>1 DEF ReservationLoads, Attempted, Operations, Enqueued
  <2>6. \A o \in Operations :
          reservations'[o[1]] # None /\ reservations'[o[1]].generation = reservations[o[1]].generation
    BY <2>3 DEF Operations, NativeLoads
  <2>7. ASSUME NEW j \in Attempted, attempts[j].origin = "native_observed"
        PROVE  j > 1 /\ reservations'[j - 1] # None /\ reservations'[j - 1].adopted
    <3>1. j > 1 /\ j - 1 \in Items /\ reservations[j - 1] # None /\ reservations[j - 1].adopted
      BY <2>7 DEF NativeLoads, Attempted, Items
    <3> QED
      BY <2>3, <3>1
  <2> QED
    BY <2>2, <2>3, <2>4, <2>5, <2>6, <2>7 DEF NativeLoads, Attempted, Operations
<1>11. CASE UNCHANGED storeVars
  BY <1>11, <1>a DEF storeVars
<1> QED
  <2>1. CASE CancelQueue
    BY <2>1, <1>a DEF CancelQueue
  <2>2. CASE HoldForReconciliation
    BY <2>2, <1>a DEF HoldForReconciliation
  <2>3. CASE \E i \in Items, c \in CommandIds :
                PrepareStop(i, c) \/ \E a \in ControlAction : PrepareControl(i, c, a)
    BY <2>3, <1>a DEF PrepareStop, PrepareControl
  <2>4. CASE \E c \in CommandIds :
                MarkDispatched(c) \/ \E o \in Outcome : RecordOutcome(c, o)
    BY <2>4, <1>a DEF MarkDispatched, RecordOutcome
  <2> QED
    BY <1>1, <1>2, <1>3, <1>4, <1>5, <1>6, <1>7, <1>8, <1>9, <1>10, <1>11, <2>1, <2>2, <2>3,
       <2>4 DEF Next

-----------------------------------------------------------------------------
\* Every call keeps the history facts.
LEMMA HistoryStep == IInv /\ [Next]_storeVars => History'
<1> SUFFICES ASSUME IInv, [Next]_storeVars PROVE History'
  OBVIOUS
<1>0. TypeOK /\ AttemptsLoad /\ NativeLoads /\ History
  BY DEF IInv
<1> USE <1>0, StoreAssumption, RowAssumption
\* The calls that touch only flags and reservations that exist already.
<1>a. ASSUME UNCHANGED <<generation, items, attempts, commands, operations>>,
             \A j \in Items : reservations'[j] # None => reservations[j] # None
      PROVE  History'
  BY <1>a DEF History, Attempted, Journaled, Operations, StartsOf
\* The calls that journal a control of an undecided or a release of a decided attempt.
<1>c. ASSUME NEW c \in CommandIds, commands[c] = None, NEW i \in Attempted,
             NEW action \in CommandAction \ {"start"},
             action = "release" => attempts[i].decided,
             commands' = [commands EXCEPT ![c] = NewCommand(i, action)],
             UNCHANGED <<items, attempts, current, generation, reservations, operations>>
      PROVE  History'
  <2>1. Journaled' = Journaled \cup {c} /\ \A j : StartsOf(j)' = StartsOf(j)
    BY <1>c, NewControl
  <2>2. /\ NewCommand(i, action).item = i /\ NewCommand(i, action).action = action
        /\ NewCommand(i, action).state = "pending"
    BY DEF NewCommand
  <2>3. \A d \in Journaled \ {c} : commands'[d] = commands[d]
    BY <1>c DEF TypeOK, Journaled
  <2>4. commands'[c] = NewCommand(i, action)
    BY <1>c DEF TypeOK
  <2>5. Attempted' = Attempted /\ Operations' = Operations
    BY <1>c DEF Attempted, Operations
  <2> QED
    BY <1>c, <2>1, <2>2, <2>3, <2>4, <2>5 DEF History
\* The calls that only move commands from state to state.
<1>s. ASSUME SameIntents,
             \A d \in Journaled :
                commands[d].generation < generation => commands'[d].state # "dispatched",
             UNCHANGED <<generation, items, attempts, reservations, operations>>
      PROVE  History'
  <2>1. Attempted' = Attempted /\ Operations' = Operations
    BY <1>s DEF Attempted, Operations
  <2>2. \A d \in Journaled :
          commands'[d].item = commands[d].item /\ commands'[d].action = commands[d].action
            /\ commands'[d].generation = commands[d].generation
    BY <1>s DEF SameIntents, Journaled
  <2> QED
    BY <1>s, <2>1, <2>2, SameStarts DEF History
\* The calls that only move or add native operations.
<1>o. ASSUME NEW o \in Items \X NativeAction, NEW row \in Operation,
             operations' = [operations EXCEPT ![o] = row],
             row.generation = generation,
             \A j \in Items : reservations'[j] # None =>
                reservations[j] # None \/ StartsOf(j + 1) = {},
             UNCHANGED <<generation, items, attempts, commands>>
      PROVE  History'
  <2>1. Operations' = Operations \cup {o}
    BY <1>o DEF TypeOK, Operations
  <2>2. \A p \in Operations' :
          operations'[p].generation < generation' => operations'[p].state # "dispatched"
    BY <1>o, <2>1 DEF TypeOK, Operations, History
  <2>3. Attempted' = Attempted /\ Journaled' = Journaled /\ \A j : StartsOf(j)' = StartsOf(j)
    BY <1>o DEF Attempted, Journaled, StartsOf
  <2> QED
    BY <1>o, <2>2, <2>3 DEF History
<1>1. ASSUME NEW i \in Items, NEW c \in CommandIds, PrepareStart(i, c) PROVE History'
  <2> DEFINE new == [intent |-> "current", decided |-> FALSE, origin |-> "local_start"]
             row == NewCommand(i, "start")
  <2>1. /\ row \in Command /\ row.item = i /\ row.action = "start" /\ row.state = "pending"
        /\ row.generation = generation /\ new \in Attempt
    BY DEF TypeOK, NewCommand, Command, ExecState, CommandAction, Attempt, QueueIntent
  <2>2. /\ commands[c] = None /\ items[i] = "pending"
        /\ commands' = [commands EXCEPT ![c] = row]
        /\ attempts' = [attempts EXCEPT ![i] = new]
        /\ items' = [items EXCEPT ![i] = "current"]
        /\ UNCHANGED <<generation, reservations, operations>>
    BY <1>1 DEF PrepareStart
  <2>3. \A j \in Items : reservations[j] = None
    BY <1>1 DEF PrepareStart, NativeMayStart, NativeLoads, ReservationLoads, TypeOK
  <2> HIDE DEF new, row
  <2>4. Attempted' = Attempted \cup {i} /\ Journaled' = Journaled \cup {c} /\ i \notin Attempted
    BY <2>1, <2>2 DEF TypeOK, Attempted, Journaled, AttemptsLoad
  <2>5. \A j \in Items : j \notin Attempted' => items'[j] = "pending"
    BY <2>2, <2>4 DEF TypeOK, History
  <2>6. \A d \in Journaled : commands'[d] = commands[d] /\ commands[d].item \in Attempted
    BY <2>2 DEF TypeOK, Journaled, AttemptsLoad
  <2>7. commands'[c] = row /\ c \notin Journaled
    BY <2>2 DEF TypeOK, Journaled
  <2>8. \A d \in Journaled' :
          commands'[d].action = "release" => attempts'[commands'[d].item].decided
    BY <2>1, <2>2, <2>4, <2>6, <2>7 DEF TypeOK, History
  <2>9. /\ \A d \in Journaled' :
             commands'[d].generation < generation' => commands'[d].state # "dispatched"
        /\ \A o \in Operations' :
             operations'[o].generation < generation' => operations'[o].state # "dispatched"
    BY <2>1, <2>2, <2>4, <2>6, <2>7 DEF History, Operations
  <2> QED
    BY <2>2, <2>3, <2>5, <2>8, <2>9 DEF History
<1>2. ASSUME NEW i \in Items, NEW c \in CommandIds, PrepareStop(i, c) PROVE History'
  BY <1>2, <1>c DEF PrepareStop, LatestIs, CommandAction
<1>3. ASSUME NEW i \in Items, NEW c \in CommandIds, NEW a \in ControlAction,
             PrepareControl(i, c, a) PROVE History'
  BY <1>3, <1>c DEF PrepareControl, LatestIs, CommandAction, MayRelease
<1>4. ASSUME NEW c \in CommandIds, MarkDispatched(c) PROVE History'
  <2>1. \A d \in Journaled \ {c} : commands'[d] = commands[d]
    BY <1>4 DEF MarkDispatched, TypeOK, Journaled
  <2>2. commands[c].generation = generation
    BY <1>4 DEF MarkDispatched
  <2>3. SameIntents /\ UNCHANGED <<generation, items, attempts, reservations, operations>>
    BY <1>4, SameIntentsSteps DEF MarkDispatched
  <2>4. \A d \in Journaled : commands[d].generation < generation => commands'[d].state # "dispatched"
    BY <2>1, <2>2 DEF History, TypeOK
  <2> QED
    BY <2>3, <2>4, <1>s
<1>5. ASSUME NEW c \in CommandIds, NEW o \in Outcome, RecordOutcome(c, o) PROVE History'
  <2>1. \A d \in Journaled \ {c} : commands'[d] = commands[d]
    BY <1>5 DEF RecordOutcome, TypeOK, Journaled
  <2>2. commands[c].generation = generation
    BY <1>5 DEF RecordOutcome, InFlight
  <2>3. SameIntents /\ UNCHANGED <<generation, items, attempts, reservations, operations>>
    BY <1>5, SameIntentsSteps DEF RecordOutcome
  <2>4. \A d \in Journaled : commands[d].generation < generation => commands'[d].state # "dispatched"
    BY <2>1, <2>2 DEF History, TypeOK
  <2> QED
    BY <2>3, <2>4, <1>s
<1>6. ASSUME NEW i \in Items, NEW o \in SettledIntent, SettleAttempt(i, o) PROVE History'
  <2> DEFINE row == Decided(attempts[i], o)
  <2>1. row \in Attempt /\ row.decided /\ i \in Attempted
    BY <1>6, RowUpdates DEF TypeOK, SettleAttempt, Attempted, SettledIntent, QueueIntent
  <2>2. /\ attempts' = [attempts EXCEPT ![i] = row] /\ items' = [items EXCEPT ![i] = o]
        /\ UNCHANGED <<generation, commands, reservations, operations>>
    BY <1>6 DEF SettleAttempt
  <2> HIDE DEF row
  <2>3. Attempted' = Attempted
    BY <2>1, <2>2 DEF TypeOK, Attempted
  <2>4. Journaled' = Journaled /\ Operations' = Operations /\ \A j : StartsOf(j)' = StartsOf(j)
    BY <2>2 DEF Journaled, Operations, StartsOf
  <2>5. \A d \in Journaled : commands[d].action = "release" => attempts'[commands[d].item].decided
    BY <2>1, <2>2 DEF TypeOK, History, AttemptsLoad, Attempted
  <2>6. \A j \in Items : j \notin Attempted => items'[j] = "pending"
    BY <2>1, <2>2 DEF TypeOK, History
  <2> QED
    BY <2>2, <2>3, <2>4, <2>5, <2>6 DEF History
\* Recovery, in either mode.
<1>7. ASSUME FenceEarlierWork, Attempted' = Attempted,
             \A j \in Items : j \notin Attempted => items'[j] = "pending",
             \A j \in Attempted : attempts'[j].decided = attempts[j].decided
      PROVE  History'
  <2>1. SameIntents /\ generation' = generation + 1 /\ UNCHANGED reservations
    BY <1>7, SameIntentsSteps DEF FenceEarlierWork
  <2>2. \A d \in Journaled : commands'[d].state # "dispatched"
    BY <1>7, CrashUpdates DEF FenceEarlierWork, TypeOK, Journaled
  <2>3. \A o \in Operations' : operations'[o].state # "dispatched"
    BY <1>7, CrashUpdates DEF FenceEarlierWork, TypeOK, Operations
  <2>4. \A d \in Journaled :
          commands'[d].item = commands[d].item /\ commands'[d].action = commands[d].action
            /\ commands[d].item \in Attempted
    BY <2>1 DEF SameIntents, Journaled, AttemptsLoad
  <2> QED
    BY <1>7, <2>1, <2>2, <2>3, <2>4, SameStarts DEF History
<1>8. ASSUME RecoverNative PROVE History'
  BY <1>7, <1>8 DEF RecoverNative, Attempted, History
<1>9. ASSUME RecoverLegacy PROVE History'
  <2>1. \A j \in Items :
          attempts'[j] = IF j \in Attempted /\ attempts[j].intent = "current"
                         THEN [attempts[j] EXCEPT !.intent = "needs_attention"] ELSE attempts[j]
    BY <1>9 DEF RecoverLegacy
  <2>2. \A j \in Attempted :
          [attempts[j] EXCEPT !.intent = "needs_attention"] \in Attempt
            /\ [attempts[j] EXCEPT !.intent = "needs_attention"].decided = attempts[j].decided
    BY DEF TypeOK, Attempted, Attempt, QueueIntent
  <2>3. Attempted' = Attempted /\ \A j \in Attempted : attempts'[j].decided = attempts[j].decided
    <3>1. ASSUME NEW j \in Attempted
          PROVE  attempts'[j] # None /\ attempts'[j].decided = attempts[j].decided
      <4>1. attempts[j] # None /\ attempts'[j] \in {attempts[j], [attempts[j] EXCEPT !.intent = "needs_attention"]}
        BY <2>1 DEF Attempted
      <4> QED
        BY <4>1, <2>2
    <3>2. \A j \in Items \ Attempted : attempts'[j] = None
      BY <2>1 DEF Attempted
    <3> QED
      BY <3>1, <3>2 DEF Attempted
  <2>4. \A j \in Items : j \notin Attempted => items'[j] = "pending"
    BY <1>9 DEF RecoverLegacy, History
  <2>5. FenceEarlierWork
    BY <1>9 DEF RecoverLegacy
  <2> QED
    BY <1>7, <2>3, <2>4, <2>5
<1>10. ASSUME NEW i \in Items, PrepareSuccessor(i) PROVE History'
  <2>1. NewOperation \in Operation /\ NewOperation.generation = generation
    BY DEF TypeOK, Operation, NewOperation, ExecState
  <2>2. /\ items[i + 1] = "pending" /\ i + 1 \in Items
        /\ \A j \in Items \ {i} : reservations'[j] = reservations[j]
        /\ operations' = [operations EXCEPT ![<<i, "play_next">>] = NewOperation]
        /\ UNCHANGED <<generation, items, attempts, commands>>
    BY <1>10 DEF PrepareSuccessor, MayReserve, TypeOK
  <2>3. StartsOf(i + 1) = {}
    BY <2>2 DEF AttemptsLoad, StartsOf
  <2> QED
    BY <1>o, <2>1, <2>2, <2>3 DEF NativeAction
<1>11. ASSUME NEW i \in Items, PrepareClear(i) PROVE History'
  <2>1. NewOperation \in Operation /\ NewOperation.generation = generation
    BY DEF TypeOK, Operation, NewOperation, ExecState
  <2> QED
    BY <1>11, <1>o, <2>1 DEF PrepareClear, NativeAction
<1>12. ASSUME NEW i \in Items, NEW a \in NativeAction, NEW st \in ExecState,
              <<i, a>> \in Operations, operations[<<i, a>>].generation = generation,
              operations' = [operations EXCEPT ![<<i, a>>] = Now(@, st)],
              UNCHANGED <<generation, items, attempts, commands, reservations>>
       PROVE  History'
  <2>1. operations[<<i, a>>] \in Operation
    BY <1>12 DEF TypeOK, Operations
  <2>2. /\ Now(operations[<<i, a>>], st) \in Operation
        /\ Now(operations[<<i, a>>], st).generation = generation
    BY <1>12, <2>1, RowUpdates
  <2> QED
    BY <1>12, <1>o, <2>2
<1>13. ASSUME NEW i \in Items, NEW a \in NativeAction, MarkNativeDispatched(i, a) PROVE History'
  BY <1>12, <1>13 DEF MarkNativeDispatched, ExecState
<1>14. ASSUME NEW i \in Items, NEW a \in NativeAction, NEW o \in Outcome,
              RecordNativeOutcome(i, a, o) PROVE History'
  BY <1>12, <1>14 DEF RecordNativeOutcome, InFlight, ExecState
<1>15. ASSUME NEW i \in Items, AdoptSuccessor(i) PROVE History'
  <2>1. /\ ReservationLoads(i) /\ reservations[i] # None /\ reservations[i].state = "reserved"
    BY <1>15 DEF AdoptSuccessor, Reserved, NativeLoads
  <2>2. i \in Attempted /\ i + 1 \in Items /\ items[i + 1] = "pending" /\ i + 1 # i
    BY <2>1 DEF ReservationLoads, Items
  <2> DEFINE new == [intent |-> "current", decided |-> FALSE, origin |-> "native_observed"]
             old == IF attempts[i].intent \in {"current", "needs_attention"}
                    THEN Decided(attempts[i], "needs_attention") ELSE attempts[i]
  <2>3. new \in Attempt
    BY DEF Attempt, QueueIntent
  <2>4. old \in Attempt /\ (attempts[i].decided => old.decided)
    BY <2>2, RowUpdates DEF TypeOK, Attempted, QueueIntent
  <2>5. /\ attempts' = [attempts EXCEPT ![i] = old, ![i + 1] = new]
        /\ \A j \in Items \ {i, i + 1} : items'[j] = items[j]
        /\ \A j \in Items \ {i} : reservations'[j] = reservations[j]
        /\ UNCHANGED <<generation, commands, operations>>
    BY <1>15 DEF AdoptSuccessor, TypeOK
  <2> HIDE DEF new, old
  <2>6. Attempted' = Attempted \cup {i + 1} /\ i + 1 \notin Attempted
    BY <2>2, <2>3, <2>4, <2>5 DEF TypeOK, Attempted, AttemptsLoad
  <2>7. \A j \in Items : j \notin Attempted' => items'[j] = "pending"
    BY <2>2, <2>5, <2>6 DEF History
  <2>8. \A j \in Attempted : attempts[j].decided => attempts'[j].decided
    BY <2>2, <2>4, <2>5, <2>6 DEF TypeOK, Attempted
  <2>9. Journaled' = Journaled /\ Operations' = Operations /\ \A j : StartsOf(j)' = StartsOf(j)
    BY <2>5 DEF Journaled, Operations, StartsOf
  <2>10. \A d \in Journaled : commands[d].action = "release" => attempts'[commands[d].item].decided
    BY <2>8 DEF History, AttemptsLoad
  <2> QED
    BY <2>1, <2>5, <2>7, <2>9, <2>10 DEF History
<1>16. ASSUME NEW i \in Items, RecordSessionExit(i) PROVE History'
  BY <1>16, <1>a DEF RecordSessionExit, TypeOK
<1>17. CASE UNCHANGED storeVars
  BY <1>17, <1>a DEF storeVars
<1> QED
  <2>1. CASE CancelQueue
    BY <2>1, <1>a DEF CancelQueue
  <2>2. CASE HoldForReconciliation
    BY <2>2, <1>a DEF HoldForReconciliation
  <2> QED
    BY <1>1, <1>2, <1>3, <1>4, <1>5, <1>6, <1>8, <1>9, <1>10, <1>11, <1>13, <1>14, <1>15,
       <1>16, <1>17, <2>1, <2>2 DEF Next

-----------------------------------------------------------------------------
\* Every call keeps a queue with unexplained work canceled or held.
LEMMA AttentionStep == IInv /\ [Next]_storeVars => AttentionStopsQueue'
<1> SUFFICES ASSUME IInv, [Next]_storeVars PROVE AttentionStopsQueue'
  OBVIOUS
<1>0. TypeOK /\ AttemptsLoad /\ NativeLoads /\ AttentionStopsQueue
  BY DEF IInv
<1> USE <1>0, StoreAssumption, RowAssumption
\* The calls that only raise flags, and work that becomes neither attention nor uncertain.
<1>a. ASSUME canceled => canceled', hold => hold',
             \A j \in Items : items'[j] = "needs_attention" =>
                items[j] = "needs_attention" \/ canceled' \/ hold',
             \A o \in Operations' : operations'[o].state = "uncertain" =>
                (o \in Operations /\ operations[o].state = "uncertain") \/ hold'
      PROVE  AttentionStopsQueue'
  BY <1>a DEF AttentionStopsQueue
<1>1. ASSUME NEW i \in Items, NEW c \in CommandIds, PrepareStart(i, c) PROVE AttentionStopsQueue'
  BY <1>1, <1>a DEF PrepareStart, TypeOK, Operations
<1>2. ASSUME NEW i \in Items, NEW o \in SettledIntent, SettleAttempt(i, o)
      PROVE  AttentionStopsQueue'
  <2>1. (canceled => canceled') /\ (hold => hold') /\ UNCHANGED operations
    BY <1>2 DEF SettleAttempt, TypeOK
  <2>2. o = "needs_attention" => canceled' \/ hold'
    BY <1>2 DEF SettleAttempt, AttentionCancels
  <2>3. items' = [items EXCEPT ![i] = o]
    BY <1>2 DEF SettleAttempt
  <2> QED
    BY <1>a, <2>1, <2>2, <2>3 DEF TypeOK, Operations
<1>3. ASSUME RecoverNative PROVE AttentionStopsQueue'
  BY <1>3 DEF RecoverNative, AttentionStopsQueue
<1>4. ASSUME RecoverLegacy PROVE AttentionStopsQueue'
  <2>1. canceled' /\ Operations' = {}
    <3>1. \A o \in Items \X NativeAction : operations[o] = None
      BY <1>4 DEF RecoverLegacy, NativeLoads, Operations
    <3> QED
      BY <1>4, <3>1, CrashUpdates DEF RecoverLegacy, FenceEarlierWork, Operations
  <2> QED
    BY <2>1 DEF AttentionStopsQueue
<1>5. ASSUME NEW i \in Items, PrepareSuccessor(i) PROVE AttentionStopsQueue'
  BY <1>5, <1>a DEF PrepareSuccessor, NewOperation, TypeOK, Operations
<1>6. ASSUME NEW i \in Items, PrepareClear(i) PROVE AttentionStopsQueue'
  BY <1>6, <1>a DEF PrepareClear, NewOperation, TypeOK, Operations
<1>7. ASSUME NEW i \in Items, NEW a \in NativeAction, NEW st \in ExecState,
             <<i, a>> \in Operations, operations' = [operations EXCEPT ![<<i, a>>] = Now(@, st)],
             hold => hold', st = "uncertain" => hold', UNCHANGED <<canceled, items>>
      PROVE  AttentionStopsQueue'
  <2>1. operations[<<i, a>>] \in Operation
    BY <1>7 DEF TypeOK, Operations
  <2>2. Now(operations[<<i, a>>], st).state = st
    BY <2>1, RowUpdates
  <2>3. \A o \in Operations' : operations'[o].state = "uncertain" =>
           (o \in Operations /\ operations[o].state = "uncertain") \/ st = "uncertain"
    BY <1>7, <2>2 DEF TypeOK, Operations
  <2> QED
    BY <1>7, <2>3, <1>a
<1>8. ASSUME NEW i \in Items, NEW a \in NativeAction, MarkNativeDispatched(i, a)
      PROVE  AttentionStopsQueue'
  <2>1. /\ <<i, a>> \in Operations /\ UNCHANGED <<canceled, hold, items>>
        /\ operations' = [operations EXCEPT ![<<i, a>>] = Now(@, "dispatched")]
    BY <1>8 DEF MarkNativeDispatched
  <2>2. "dispatched" \in ExecState /\ (hold => hold') /\ UNCHANGED <<canceled, items>>
    BY <2>1 DEF ExecState
  <2> QED
    BY <1>7, <2>1, <2>2
<1>9. ASSUME NEW i \in Items, NEW a \in NativeAction, NEW o \in Outcome,
             RecordNativeOutcome(i, a, o)
      PROVE  AttentionStopsQueue'
  BY <1>7, <1>9 DEF RecordNativeOutcome, ExecState
<1>10. ASSUME NEW i \in Items, AdoptSuccessor(i) PROVE AttentionStopsQueue'
  <2>1. /\ hold' = (hold \/ attempts[i].intent # "finished")
        /\ UNCHANGED <<canceled, operations>>
    BY <1>10 DEF AdoptSuccessor, EndUnobserved
  <2>2. \A j \in Items : items'[j] = "needs_attention" =>
           items[j] = "needs_attention" \/ attempts[i].intent \in {"current", "needs_attention"}
    BY <1>10 DEF AdoptSuccessor, TypeOK
  <2> QED
    BY <1>a, <2>1, <2>2 DEF Operations
<1> QED
  <2>1. CASE UNCHANGED <<items, operations>> /\ (canceled => canceled') /\ (hold => hold')
    BY <2>1, <1>a DEF Operations
  <2>2. CASE \E i \in Items, c \in CommandIds :
                PrepareStop(i, c) \/ \E a \in ControlAction : PrepareControl(i, c, a)
    <3>1. UNCHANGED <<items, operations, hold>> /\ (canceled' = TRUE \/ UNCHANGED canceled)
      BY <2>2 DEF PrepareStop, PrepareControl
    <3>2. (canceled => canceled') /\ (hold => hold')
      BY <3>1
    <3> QED
      BY <3>1, <3>2, <1>a DEF Operations
  <2>3. CASE \E c \in CommandIds :
                MarkDispatched(c) \/ \E o \in Outcome : RecordOutcome(c, o)
    BY <2>1, <2>3 DEF MarkDispatched, RecordOutcome
  <2>4. CASE \/ CancelQueue \/ HoldForReconciliation \/ UNCHANGED storeVars
             \/ \E i \in Items : RecordSessionExit(i)
    BY <2>1, <2>4 DEF CancelQueue, HoldForReconciliation, RecordSessionExit, storeVars
  <2> QED
    BY <1>1, <1>2, <1>3, <1>4, <1>5, <1>6, <1>8, <1>9, <1>10, <2>2, <2>3, <2>4 DEF Next

\* Every call keeps releases away from reserved predecessors: those of the state
\* before are undecided, and a release is journaled only while nothing is reserved.
LEMMA ReleaseStep == IInv /\ [Next]_storeVars => NoReleaseUnderReservation'
<1> SUFFICES ASSUME IInv, [Next]_storeVars PROVE NoReleaseUnderReservation'
  OBVIOUS
<1>0. TypeOK /\ AttemptsLoad /\ NativeLoads /\ History /\ NoReleaseUnderReservation
  BY DEF IInv
<1> USE <1>0, StoreAssumption, RowAssumption
\* Rows that only change their state, and reservations that only end.
<1>a. ASSUME Reserved' \subseteq Reserved,
             \A d \in Journaled' :
                \/ commands'[d].action # "release"
                \/ /\ d \in Journaled /\ commands[d].action = "release"
                   /\ commands'[d].item = commands[d].item
                \/ Reserved = {}
      PROVE  NoReleaseUnderReservation'
  BY <1>a DEF NoReleaseUnderReservation
<1>c. ASSUME NEW c \in CommandIds, NEW i \in Items, NEW a \in CommandAction,
             commands' = [commands EXCEPT ![c] = NewCommand(i, a)],
             a # "release" \/ Reserved = {}, UNCHANGED reservations
      PROVE  NoReleaseUnderReservation'
  <2>1. commands'[c].action = a
    BY <1>c DEF TypeOK, NewCommand
  <2>2. \A d \in CommandIds \ {c} : commands'[d] = commands[d]
    BY <1>c DEF TypeOK
  <2> QED
    BY <1>a, <1>c, <2>1, <2>2 DEF Journaled, Reserved
<1>s. ASSUME SameIntents, Reserved' \subseteq Reserved PROVE NoReleaseUnderReservation'
  BY <1>a, <1>s, SameStarts DEF SameIntents, Journaled
<1>1. ASSUME NEW i \in Items, NEW c \in CommandIds, PrepareStart(i, c)
      PROVE  NoReleaseUnderReservation'
  BY <1>1, <1>c DEF PrepareStart, CommandAction
<1>2. ASSUME NEW i \in Items, NEW c \in CommandIds, PrepareStop(i, c)
      PROVE  NoReleaseUnderReservation'
  BY <1>2, <1>c DEF PrepareStop, CommandAction
<1>3. ASSUME NEW i \in Items, NEW c \in CommandIds, NEW a \in ControlAction,
             PrepareControl(i, c, a)
      PROVE  NoReleaseUnderReservation'
  <2>1. a \in CommandAction
    BY DEF CommandAction
  <2> QED
    BY <1>3, <1>c, <2>1 DEF PrepareControl, MayRelease
<1>4. ASSUME NEW c \in CommandIds, MarkDispatched(c) PROVE NoReleaseUnderReservation'
  BY <1>4, <1>s, SameIntentsSteps DEF MarkDispatched, Reserved
<1>5. ASSUME NEW c \in CommandIds, NEW o \in Outcome, RecordOutcome(c, o)
      PROVE  NoReleaseUnderReservation'
  BY <1>5, <1>s, SameIntentsSteps DEF RecordOutcome, Reserved
<1>6. ASSUME FenceEarlierWork PROVE NoReleaseUnderReservation'
  <2>1. Reserved' = Reserved
    BY <1>6 DEF FenceEarlierWork, Reserved
  <2> QED
    BY <1>6, <1>s, <2>1, SameIntentsSteps
<1>7. ASSUME NEW i \in Items, PrepareSuccessor(i) PROVE NoReleaseUnderReservation'
  <2>1. i \in Attempted /\ attempts[i].intent = "current" /\ Reserved = {}
    BY <1>7 DEF PrepareSuccessor, MayReserve, LatestIs
  <2>2. \A d \in Journaled : ~(commands[d].item = i /\ commands[d].action = "release")
    BY <2>1 DEF History, AttemptsLoad
  <2>3. Reserved' \subseteq {i} /\ UNCHANGED commands
    BY <1>7, <2>1 DEF PrepareSuccessor, Reserved, TypeOK
  <2> QED
    BY <2>2, <2>3 DEF NoReleaseUnderReservation, Journaled
<1>8. ASSUME UNCHANGED commands, Reserved' \subseteq Reserved PROVE NoReleaseUnderReservation'
  BY <1>8 DEF NoReleaseUnderReservation, Journaled
<1>9. ASSUME NEW i \in Items, AdoptSuccessor(i) PROVE NoReleaseUnderReservation'
  <2>1. Reserved' \subseteq Reserved /\ UNCHANGED commands
    BY <1>9 DEF AdoptSuccessor, Reserved, TypeOK
  <2> QED
    BY <1>8, <2>1
<1>10. ASSUME NEW i \in Items, RecordSessionExit(i) PROVE NoReleaseUnderReservation'
  <2>1. \A j \in Items \ {i} : reservations'[j] = reservations[j]
    BY <1>10 DEF RecordSessionExit, TypeOK
  <2>2. reservations'[i].state = "session_exit_observed"
    BY <1>10, RowUpdates DEF RecordSessionExit, TypeOK
  <2> QED
    BY <1>8, <1>10, <2>1, <2>2 DEF RecordSessionExit, Reserved
<1> QED
  <2>1. CASE UNCHANGED <<commands, reservations>>
    BY <2>1, <1>8 DEF Reserved
  <2>2. CASE \/ CancelQueue \/ HoldForReconciliation \/ UNCHANGED storeVars
             \/ \E i \in Items : PrepareClear(i) \/ \E o \in SettledIntent : SettleAttempt(i, o)
    BY <2>1, <2>2 DEF CancelQueue, HoldForReconciliation, PrepareClear, SettleAttempt, storeVars
  <2>3. CASE \E i \in Items, a \in NativeAction :
                MarkNativeDispatched(i, a) \/ \E o \in Outcome : RecordNativeOutcome(i, a, o)
    BY <2>1, <2>3 DEF MarkNativeDispatched, RecordNativeOutcome
  <2>4. CASE RecoverNative \/ RecoverLegacy
    BY <2>4, <1>6 DEF RecoverNative, RecoverLegacy
  <2> QED
    BY <1>1, <1>2, <1>3, <1>4, <1>5, <1>7, <1>9, <1>10, <2>2, <2>3, <2>4 DEF Next

-----------------------------------------------------------------------------
\* Every call keeps the inductive invariant.
LEMMA IInvStep == IInv /\ [Next]_storeVars => IInv'
BY TypeStep, AttemptsStep, NativeStep, HistoryStep, AttentionStep, ReleaseStep DEF IInv

\* The inductive invariant holds in every reachable state.
THEOREM Invariance == Spec => []IInv
BY InitIInv, IInvStep, PTL DEF Spec

\* Rows have their types: no call stores a value load() cannot parse.
THEOREM TypeCorrect == Spec => []TypeOK
<1>1. IInv => TypeOK
  BY DEF IInv
<1> QED
  BY Invariance, <1>1, PTL

\* Every database a sequence of accepted calls leaves behind is one load() accepts.
THEOREM EveryHistoryLoads == Spec => []HistoryLoads
<1>1. IInv => HistoryLoads
  BY DEF IInv, HistoryLoads
<1> QED
  BY Invariance, <1>1, PTL

\* An item with a reservation before it was never started, and an attempt has at
\* most one start.
LEMMA OnePlay == IInv => OnePlayPerItem
<1> SUFFICES ASSUME IInv, NEW i \in Items
             PROVE  /\ \/ {c \in StartsOf(i) : commands[c].state # "pending"} = {}
                       \/ {o \in Operations : /\ o[1] + 1 = i /\ o[2] = "play_next"
                                              /\ operations[o].state # "pending"} = {}
                    /\ \A c, d \in StartsOf(i) : c = d
  BY DEF OnePlayPerItem
<1>1. ASSUME NEW o \in Operations, o[1] + 1 = i PROVE StartsOf(i) = {}
  <2>1. o[1] \in Items /\ reservations[o[1]] # None
    BY DEF IInv, NativeLoads, Operations
  <2> QED
    BY <2>1, <1>1 DEF IInv, History
<1>2. ASSUME NEW c \in StartsOf(i), NEW d \in StartsOf(i) PROVE c = d
  <2>1. i \in Attempted
    BY DEF StartsOf, IInv, AttemptsLoad
  <2>2. StartsOf(i) = {} \/ \E e \in Journaled : StartsOf(i) = {e}
    BY <2>1 DEF IInv, AttemptsLoad
  <2> QED
    BY <2>2
<1> QED
  BY <1>1, <1>2

\* No item is put on the receiver twice.
THEOREM PlayedOnce == Spec => []OnePlayPerItem
BY Invariance, OnePlay, PTL

\* A queue with an item that needs attention, or native work of unknown effect, is
\* canceled or held.
THEOREM AttentionStops == Spec => []AttentionStopsQueue
<1>1. IInv => AttentionStopsQueue
  BY DEF IInv
<1> QED
  BY Invariance, <1>1, PTL

\* The application is never released under a reserved successor.
THEOREM ReleaseWaits == Spec => []NoReleaseUnderReservation
<1>1. IInv => NoReleaseUnderReservation
  BY DEF IInv
<1> QED
  BY Invariance, <1>1, PTL

\* Only a row of the current generation is ever rewritten by a dispatch or an outcome.
LEMMA FenceStep ==
    ASSUME IInv, [Next]_storeVars
    PROVE  /\ \A c \in Journaled : commands[c].generation < generation' =>
                 /\ commands'[c].state # "dispatched"
                 /\ commands[c].generation < generation => commands'[c] = commands[c]
           /\ \A o \in Operations : operations[o].generation < generation' =>
                 /\ operations'[o].state # "dispatched"
                 /\ operations[o].generation < generation => operations'[o] = operations[o]
<1>0. TypeOK /\ AttemptsLoad /\ NativeLoads /\ History
  BY DEF IInv
<1> USE <1>0
\* Within a generation, earlier rows stay as they are.
<1>1. ASSUME UNCHANGED generation,
             \A c \in Journaled : commands[c].generation < generation => commands'[c] = commands[c],
             \A o \in Operations :
                operations[o].generation < generation => operations'[o] = operations[o]
      PROVE  /\ \A c \in Journaled : commands[c].generation < generation' =>
                   commands'[c].state # "dispatched"
             /\ \A o \in Operations : operations[o].generation < generation' =>
                   operations'[o].state # "dispatched"
  BY <1>1 DEF History
\* A recovery changes only what was dispatched, which no earlier row is.
<1>2. ASSUME FenceEarlierWork
      PROVE  /\ \A c \in Journaled :
                   /\ commands'[c].state # "dispatched"
                   /\ commands[c].generation < generation => commands'[c] = commands[c]
             /\ \A o \in Operations :
                   /\ operations'[o].state # "dispatched"
                   /\ operations[o].generation < generation => operations'[o] = operations[o]
  <2>1. \A c \in Journaled : commands'[c] = AfterCrash(commands[c]) /\ commands[c] \in Command
    BY <1>2 DEF FenceEarlierWork, Journaled, TypeOK
  <2>2. \A o \in Operations : operations'[o] = AfterCrash(operations[o]) /\ operations[o] \in Operation
    BY <1>2 DEF FenceEarlierWork, Operations, TypeOK
  <2>3. \A row \in Command \cup Operation : row.state # "dispatched" => AfterCrash(row) = row
    BY DEF AfterCrash
  <2>4. \A c \in Journaled : commands'[c].state # "dispatched"
    BY <2>1, CrashUpdates, RowAssumption
  <2>5. \A o \in Operations : operations'[o].state # "dispatched"
    BY <2>2, CrashUpdates, RowAssumption
  <2> QED
    BY <2>1, <2>2, <2>3, <2>4, <2>5 DEF History
<1>3. CASE UNCHANGED generation /\ UNCHANGED operations
           /\ \A c \in Journaled : commands[c].generation < generation => commands'[c] = commands[c]
  BY <1>1, <1>3
<1>4. CASE UNCHANGED generation /\ UNCHANGED commands
           /\ \A o \in Operations : operations[o].generation < generation => operations'[o] = operations[o]
  BY <1>1, <1>4
<1>5. ASSUME NEW c \in CommandIds, UNCHANGED generation, UNCHANGED operations,
             c \in Journaled => commands[c].generation = generation,
             \A d \in CommandIds \ {c} : commands'[d] = commands[d]
      PROVE  \A d \in Journaled : commands[d].generation < generation => commands'[d] = commands[d]
  BY <1>5 DEF Journaled, TypeOK
<1>6. ASSUME NEW p \in Items \X NativeAction,
             p \in Operations => operations[p].generation = generation,
             \A o \in (Items \X NativeAction) \ {p} : operations'[o] = operations[o]
      PROVE  \A o \in Operations :
                operations[o].generation < generation => operations'[o] = operations[o]
  BY <1>6 DEF Operations, TypeOK
<1>7. CASE \E i \in Items, c \in CommandIds :
              \/ PrepareStart(i, c) \/ PrepareStop(i, c)
              \/ \E a \in ControlAction : PrepareControl(i, c, a)
  <2>1. PICK c \in CommandIds : commands[c] = None /\ UNCHANGED generation /\ UNCHANGED operations
             /\ \A d \in CommandIds \ {c} : commands'[d] = commands[d]
    BY <1>7 DEF PrepareStart, PrepareStop, PrepareControl, TypeOK
  <2> QED
    BY <2>1, <1>3, <1>5 DEF Journaled
<1>8. CASE \E c \in CommandIds : MarkDispatched(c) \/ \E o \in Outcome : RecordOutcome(c, o)
  <2>1. PICK c \in CommandIds : commands[c].generation = generation /\ UNCHANGED generation
             /\ UNCHANGED operations
             /\ \A d \in CommandIds \ {c} : commands'[d] = commands[d]
    BY <1>8 DEF MarkDispatched, RecordOutcome, InFlight, TypeOK
  <2> QED
    BY <2>1, <1>3, <1>5
<1>9. CASE \E i \in Items : PrepareSuccessor(i) \/ PrepareClear(i)
  <2>1. PICK p \in Items \X NativeAction : p \notin Operations
             /\ UNCHANGED generation /\ UNCHANGED commands
             /\ \A o \in (Items \X NativeAction) \ {p} : operations'[o] = operations[o]
    <3>1. ASSUME NEW i \in Items, PrepareSuccessor(i)
          PROVE  /\ <<i, "play_next">> \in (Items \X NativeAction) \ Operations
                 /\ UNCHANGED generation /\ UNCHANGED commands
                 /\ \A o \in (Items \X NativeAction) \ {<<i, "play_next">>} :
                       operations'[o] = operations[o]
      BY <3>1 DEF PrepareSuccessor, TypeOK, NativeLoads, NativeAction
    <3>2. ASSUME NEW i \in Items, PrepareClear(i)
          PROVE  /\ <<i, "clear">> \in (Items \X NativeAction) \ Operations
                 /\ UNCHANGED generation /\ UNCHANGED commands
                 /\ \A o \in (Items \X NativeAction) \ {<<i, "clear">>} :
                       operations'[o] = operations[o]
      BY <3>2 DEF PrepareClear, TypeOK, Operations, NativeAction
    <3> QED
      BY <1>9, <3>1, <3>2
  <2> QED
    BY <2>1, <1>4, <1>6
<1>10. CASE \E i \in Items, a \in NativeAction :
              MarkNativeDispatched(i, a) \/ \E o \in Outcome : RecordNativeOutcome(i, a, o)
  <2>1. PICK p \in Items \X NativeAction : operations[p].generation = generation
             /\ UNCHANGED generation /\ UNCHANGED commands
             /\ \A o \in (Items \X NativeAction) \ {p} : operations'[o] = operations[o]
    BY <1>10 DEF MarkNativeDispatched, RecordNativeOutcome, InFlight, TypeOK
  <2> QED
    BY <2>1, <1>4, <1>6
<1>11. CASE UNCHANGED <<generation, commands, operations>>
  BY <1>3, <1>11
<1>12. CASE RecoverNative \/ RecoverLegacy
  BY <1>2, <1>12 DEF RecoverNative, RecoverLegacy
<1> QED
  <2>1. CASE \/ CancelQueue \/ HoldForReconciliation \/ UNCHANGED storeVars
             \/ \E i \in Items : \/ AdoptSuccessor(i) \/ RecordSessionExit(i)
                                \/ \E o \in SettledIntent : SettleAttempt(i, o)
    BY <2>1, <1>11 DEF CancelQueue, HoldForReconciliation, AdoptSuccessor, RecordSessionExit,
       SettleAttempt, storeVars
  <2> QED
    BY <1>7, <1>8, <1>9, <1>10, <1>12, <2>1 DEF Next

\* Recovery fences the earlier owner for good.
THEOREM EarlierOwnersAreFenced == Spec => EarlierWorkIsFenced
<1>1. IInv /\ [Next]_storeVars =>
        [/\ \A c \in Journaled : commands[c].generation < generation' =>
              /\ commands'[c].state # "dispatched"
              /\ commands[c].generation < generation => commands'[c] = commands[c]
         /\ \A o \in Operations : operations[o].generation < generation' =>
              /\ operations'[o].state # "dispatched"
              /\ operations[o].generation < generation => operations'[o] = operations[o]
        ]_storeVars
  BY FenceStep
<1> QED
  BY Invariance, <1>1, PTL DEF Spec, EarlierWorkIsFenced

-----------------------------------------------------------------------------
(* The executors.                                                          *)

\* Between the claim and the outcome the row stays claimed; until the receiver is
\* asked it was never asked, and the verdict is then the receiver's or a doubt.
CallInv ==
    /\ pc \in {"idle", "down"} <=> request = None
    /\ pc \in {"reload", "guard", "invoke", "record"} =>
          Row(request.effect) # None /\ Row(request.effect).state = "dispatched"
    /\ pc \in {"reload", "guard", "invoke"} => performed[request.effect] = 0
    /\ pc = "record" /\ verdict = "acknowledged" => answer[request.effect] = "accepted"
    /\ pc = "record" /\ verdict = "rejected" => answer[request.effect] = "rejected"

\* Nothing is performed unclaimed, or twice.
PerformedInv ==
    \A x \in Effects :
        /\ performed[x] \in {0, 1}
        /\ performed[x] = 1 => Row(x) # None /\ Row(x).state # "pending"

ExecIInv == IInv /\ ExecTypeOK /\ CallInv /\ PerformedInv

-----------------------------------------------------------------------------
(* Requests and rows.                                                      *)

\* A request is for a command identity, or for the native operation of its item.
LEMMA RequestKinds ==
    \A r \in Request :
        /\ r.effect \in Effects
        /\ r.item \in Items
        /\ ~IsNative(r) => r.effect \in CommandIds /\ r.action \in CommandAction
        /\ IsNative(r) => /\ r.action \in NativeAction
                          /\ r.effect = <<r.item, r.action>>
                          /\ r.effect \in Items \X NativeAction
                          /\ r.effect \notin CommandIds
<1> SUFFICES ASSUME NEW r \in Request
             PROVE  /\ r.effect \in Effects
                    /\ r.item \in Items
                    /\ ~IsNative(r) => r.effect \in CommandIds /\ r.action \in CommandAction
                    /\ IsNative(r) => /\ r.action \in NativeAction
                                      /\ r.effect = <<r.item, r.action>>
                                      /\ r.effect \in Items \X NativeAction
                                      /\ r.effect \notin CommandIds
  OBVIOUS
<1> USE DEF IsNative, Effects
<1>1. CASE r \in [effect : CommandIds, item : Items, action : CommandAction]
  BY <1>1 DEF CommandAction, NativeAction
<1>2. CASE \E i \in Items, a \in NativeAction : r = [effect |-> <<i, a>>, item |-> i, action |-> a]
  <2>1. PICK i \in Items, a \in NativeAction : r = [effect |-> <<i, a>>, item |-> i, action |-> a]
    BY <1>2
  <2>2. r.effect = <<i, a>> /\ r.item = i /\ r.action = a
    BY <2>1
  <2>3. <<i, a>> \notin CommandIds
    BY ExecutorAssumption
  <2> QED
    BY <2>2, <2>3
<1> QED
  BY <1>1, <1>2 DEF Request

\* The row of an effect is a command, an operation or none.
LEMMA RowType ==
    ASSUME TypeOK, NEW x \in Effects
    PROVE  /\ Row(x) \in Command \cup Operation \cup {None}
           /\ Row(x) # None => Row(x).state \in ExecState
BY DEF TypeOK, Row, Effects, Command, Operation

\* Nothing is written to the row of any effect but this one.
OthersKept(x) == \A y \in Effects \ {x} : Row(y)' = Row(y)

\* Writing one command, or one operation, leaves the other rows alone.
LEMMA OneCommand ==
    ASSUME TypeOK, NEW c \in CommandIds, NEW row,
           commands' = [commands EXCEPT ![c] = row], UNCHANGED operations
    PROVE  Row(c)' = row /\ OthersKept(c)
BY DEF TypeOK, Row, OthersKept, Effects

LEMMA OneOperation ==
    ASSUME TypeOK, NEW o \in Items \X NativeAction, NEW row,
           operations' = [operations EXCEPT ![o] = row], UNCHANGED commands
    PROVE  Row(o)' = row /\ OthersKept(o)
<1>1. o \notin CommandIds
  BY ExecutorAssumption
<1> QED
  BY <1>1 DEF TypeOK, Row, OthersKept, Effects

\* What the store's calls do to the row of the request.
LEMMA PrepareRow ==
    ASSUME IInv, NEW r \in Request, StorePrepare(r)
    PROVE  /\ Row(r.effect) = None
           /\ Row(r.effect)' # None /\ Row(r.effect)'.state = "pending"
           /\ OthersKept(r.effect)
<1>0. TypeOK /\ NativeLoads
  BY DEF IInv
<1>1. CASE ~IsNative(r)
  <2> DEFINE c == r.effect
             row == NewCommand(r.item, r.action)
  <2>1. c \in CommandIds /\ r.item \in Items /\ r.action \in CommandAction
    BY <1>1, RequestKinds
  <2>2. /\ commands[c] = None
        /\ commands' = [commands EXCEPT ![c] = row]
        /\ UNCHANGED operations
    BY <1>1, <2>1 DEF StorePrepare, IsNative, NativeAction, PrepareStart, PrepareStop,
                      PrepareControl
  <2>3. row \in Command /\ row.state = "pending"
    BY <1>0, <2>1 DEF NewCommand, Command, TypeOK, ExecState
  <2>4. row # None
    BY <2>3, RowAssumption
  <2> HIDE DEF row
  <2>5. Row(c)' = row /\ OthersKept(c)
    BY <1>0, <2>1, <2>2, OneCommand
  <2> QED
    BY <2>1, <2>2, <2>3, <2>4, <2>5 DEF Row
<1>2. CASE IsNative(r)
  <2>1. /\ r.item \in Items /\ r.effect = <<r.item, r.action>>
        /\ r.effect \in Items \X NativeAction /\ r.effect \notin CommandIds
        /\ r.action \in NativeAction
    BY <1>2, RequestKinds
  <2>2. /\ operations[r.effect] = None
        /\ operations' = [operations EXCEPT ![r.effect] = NewOperation]
        /\ UNCHANGED commands
    <3>1. CASE r.action = "play_next"
      <4>1. PrepareSuccessor(r.item)
        BY <3>1 DEF StorePrepare
      <4>2. reservations[r.item] = None
        BY <4>1 DEF PrepareSuccessor
      <4>3. r.effect \notin Operations
        BY <4>2, <2>1, <1>0 DEF NativeLoads
      <4> QED
        BY <4>1, <4>3, <2>1, <3>1 DEF PrepareSuccessor, Operations
    <3>2. CASE r.action = "clear"
      BY <3>2, <2>1 DEF StorePrepare, PrepareClear
    <3> QED
      BY <2>1, <3>1, <3>2 DEF NativeAction
  <2>3. NewOperation \in Operation /\ NewOperation.state = "pending" /\ NewOperation # None
    BY <1>0, RowAssumption DEF NewOperation, Operation, TypeOK, ExecState
  <2>4. Row(r.effect)' = NewOperation /\ OthersKept(r.effect)
    BY <1>0, <2>1, <2>2, OneOperation
  <2> QED
    BY <2>1, <2>2, <2>3, <2>4 DEF Row
<1> QED
  BY <1>1, <1>2

LEMMA ClaimRow ==
    ASSUME IInv, NEW r \in Request, StoreClaim(r)
    PROVE  /\ Row(r.effect) # None /\ Row(r.effect).state = "pending"
           /\ Row(r.effect)' # None /\ Row(r.effect)'.state = "dispatched"
           /\ OthersKept(r.effect)
<1>0. TypeOK
  BY DEF IInv
<1>1. CASE ~IsNative(r)
  <2> DEFINE c == r.effect
             row == Now(commands[c], "dispatched")
  <2>1. c \in CommandIds
    BY <1>1, RequestKinds
  <2>2. /\ commands[c] # None /\ commands[c].state = "pending"
        /\ commands' = [commands EXCEPT ![c] = row]
        /\ UNCHANGED operations
    BY <1>1 DEF StoreClaim, MarkDispatched, Journaled
  <2>3. commands[c] \in Command
    BY <1>0, <2>1, <2>2 DEF TypeOK
  <2>4. row \in Command /\ row.state = "dispatched"
    BY <2>3, RowUpdates DEF ExecState
  <2>5. row # None
    BY <2>4, RowAssumption
  <2> HIDE DEF row
  <2>6. Row(c)' = row /\ OthersKept(c)
    BY <1>0, <2>1, <2>2, OneCommand
  <2> QED
    BY <2>1, <2>2, <2>4, <2>5, <2>6 DEF Row
<1>2. CASE IsNative(r)
  <2> DEFINE o == r.effect
             row == Now(operations[o], "dispatched")
  <2>1. o = <<r.item, r.action>> /\ o \in Items \X NativeAction /\ o \notin CommandIds
    BY <1>2, RequestKinds
  <2>2. /\ operations[o] # None /\ operations[o].state = "pending"
        /\ operations' = [operations EXCEPT ![o] = row]
        /\ UNCHANGED commands
    BY <1>2, <2>1 DEF StoreClaim, MarkNativeDispatched, Operations
  <2>3. operations[o] \in Operation
    BY <1>0, <2>1, <2>2 DEF TypeOK
  <2>4. row \in Operation /\ row.state = "dispatched"
    BY <2>3, RowUpdates DEF ExecState
  <2>5. row # None
    BY <2>4, RowAssumption
  <2> HIDE DEF row
  <2>6. Row(o)' = row /\ OthersKept(o)
    BY <1>0, <2>1, <2>2, OneOperation
  <2> QED
    BY <2>1, <2>2, <2>4, <2>5, <2>6 DEF Row
<1> QED
  BY <1>1, <1>2

LEMMA RecordRow ==
    ASSUME IInv, NEW r \in Request, NEW outcome \in Outcome, StoreRecord(r, outcome)
    PROVE  /\ Row(r.effect)' # None /\ Row(r.effect)'.state = outcome
           /\ OthersKept(r.effect)
<1>0. TypeOK
  BY DEF IInv
<1>1. CASE ~IsNative(r)
  <2> DEFINE c == r.effect
             row == Now(commands[c], outcome)
  <2>1. c \in CommandIds
    BY <1>1, RequestKinds
  <2>2. /\ commands[c] # None
        /\ commands' = [commands EXCEPT ![c] = row]
        /\ UNCHANGED operations
    BY <1>1 DEF StoreRecord, RecordOutcome, Journaled
  <2>3. commands[c] \in Command
    BY <1>0, <2>1, <2>2 DEF TypeOK
  <2>4. row \in Command /\ row.state = outcome
    BY <2>3, RowUpdates DEF ExecState
  <2>5. row # None
    BY <2>4, RowAssumption
  <2> HIDE DEF row
  <2>6. Row(c)' = row /\ OthersKept(c)
    BY <1>0, <2>1, <2>2, OneCommand
  <2> QED
    BY <2>4, <2>5, <2>6
<1>2. CASE IsNative(r)
  <2> DEFINE o == r.effect
             row == Now(operations[o], outcome)
  <2>1. o = <<r.item, r.action>> /\ o \in Items \X NativeAction
    BY <1>2, RequestKinds
  <2>2. /\ operations[o] # None
        /\ operations' = [operations EXCEPT ![o] = row]
        /\ UNCHANGED commands
    BY <1>2, <2>1 DEF StoreRecord, RecordNativeOutcome, Operations
  <2>3. operations[o] \in Operation
    BY <1>0, <2>1, <2>2 DEF TypeOK
  <2>4. row \in Operation /\ row.state = outcome
    BY <2>3, RowUpdates DEF ExecState
  <2>5. row # None
    BY <2>4, RowAssumption
  <2> HIDE DEF row
  <2>6. Row(o)' = row /\ OthersKept(o)
    BY <1>0, <2>1, <2>2, OneOperation
  <2> QED
    BY <2>4, <2>5, <2>6
<1> QED
  BY <1>1, <1>2

\* A recovery puts every claim in doubt, and changes no other row.
LEMMA RecoverRows ==
    ASSUME TypeOK, FenceEarlierWork, NEW x \in Effects
    PROVE  /\ Row(x) = None => Row(x)' = None
           /\ Row(x) # None /\ Row(x).state = "dispatched" =>
                 Row(x)' # None /\ Row(x)'.state = "uncertain"
           /\ Row(x) # None /\ Row(x).state # "dispatched" => Row(x)' = Row(x)
<1>1. Row(x)' = AfterCrash(Row(x))
  BY DEF FenceEarlierWork, Row, Effects
<1>2. Row(x) \in Command \cup Operation \cup {None}
  BY RowType
<1>3. ASSUME Row(x) # None, Row(x).state = "dispatched"
      PROVE  AfterCrash(Row(x)) # None /\ AfterCrash(Row(x)).state = "uncertain"
  <2>1. AfterCrash(Row(x)) = Now(Row(x), "uncertain")
    BY <1>3 DEF AfterCrash
  <2>2. Now(Row(x), "uncertain").state = "uncertain"
        /\ Now(Row(x), "uncertain") \in Command \cup Operation
    BY <1>2, <1>3, RowUpdates DEF ExecState, Outcome
  <2> QED
    BY <2>1, <2>2, RowAssumption
<1> QED
  BY <1>1, <1>3 DEF AfterCrash

-----------------------------------------------------------------------------
(* The inductive invariant.                                                *)

\* A call in progress has a request the journal can take.
LEMMA InHand ==
    ASSUME ExecIInv, pc \notin {"idle", "down"}
    PROVE  request \in Request /\ request.action \in Asked /\ request.effect \in Effects
<1>1. request # None /\ request \in Request /\ request.action \in Asked
  BY DEF ExecIInv, CallInv, ExecTypeOK
<1> QED
  BY <1>1, RequestKinds

\* Every step of the executors is a call of the journal, or leaves it alone.
LEMMA StoreStep == ExecIInv /\ [ExecNext]_execVars => [Next]_storeVars
<1> SUFFICES ASSUME ExecIInv, [ExecNext]_execVars PROVE [Next]_storeVars
  OBVIOUS
<1>1. ASSUME Prepare PROVE Next
  <2>1. request \in Request /\ request.action \in Asked /\ StorePrepare(request)
    BY <1>1, InHand DEF Prepare
  <2>2. CASE ~IsNative(request)
    <3>1. request.item \in Items /\ request.effect \in CommandIds
      BY <2>1, <2>2, RequestKinds
    <3>2. request.action \in {"start", "stop"} \cup ControlAction
      BY <2>1, <2>2, ExecutorAssumption DEF IsNative
    <3>3. CASE request.action = "start"
      BY <2>1, <3>1, <3>3 DEF StorePrepare, Next
    <3>4. CASE request.action = "stop"
      BY <2>1, <3>1, <3>4 DEF StorePrepare, Next
    <3>5. CASE request.action \in ControlAction \ {"start", "stop"}
      <4>1. PrepareControl(request.item, request.effect, request.action)
        BY <2>1, <2>2, <3>5 DEF StorePrepare, IsNative, NativeAction
      <4> QED
        BY <3>1, <3>5, <4>1 DEF Next
    <3> QED
      BY <3>2, <3>3, <3>4, <3>5
  <2>3. CASE IsNative(request)
    <3>1. request.item \in Items /\ request.action \in NativeAction
      BY <2>1, <2>3, RequestKinds
    <3>2. PrepareSuccessor(request.item) \/ PrepareClear(request.item)
      BY <2>1, <3>1 DEF StorePrepare, NativeAction
    <3> QED
      BY <3>1, <3>2 DEF Next
  <2> QED
    BY <2>2, <2>3
<1>2. ASSUME Claim PROVE Next
  <2>1. request \in Request /\ StoreClaim(request)
    BY <1>2, InHand DEF Claim
  <2> QED
    BY <2>1, RequestKinds DEF StoreClaim, Next
<1>3. ASSUME Record PROVE Next
  <2>1. request \in Request /\ StoreRecord(request, verdict) /\ verdict \in Outcome
    BY <1>3, InHand DEF Record, ExecIInv, ExecTypeOK
  <2> QED
    BY <2>1, RequestKinds DEF StoreRecord, Next
<1>4. ASSUME OwnerWrites PROVE Next
  BY <1>4, ExecutorAssumption DEF OwnerWrites, Next
<1>5. ASSUME ConcurrentStop PROVE Next
  BY <1>5 DEF ConcurrentStop, Next
<1>6. ASSUME Recover PROVE [Next]_storeVars
  BY <1>6 DEF Recover, Next
<1>7. CASE UNCHANGED storeVars
  BY <1>7
<1> QED
  <2>1. CASE \/ \E r \in Request : Execute(r)
             \/ Historical \/ Raise \/ Reload \/ GuardAllows \/ GuardRefuses
             \/ Invoke \/ OperationRefuses \/ Crash \/ UNCHANGED execVars
    BY <2>1 DEF Execute, Historical, Raise, Reload, GuardAllows, GuardRefuses, Invoke,
       OperationRefuses, Crash, execVars
  <2> QED
    BY <1>1, <1>2, <1>3, <1>4, <1>5, <1>6, <2>1 DEF ExecNext, Call

\* The executors' own variables keep their types.
LEMMA ExecTypeStep == ExecIInv /\ TypeOK' /\ [ExecNext]_execVars => ExecTypeOK'
<1> SUFFICES ASSUME ExecIInv, TypeOK', [ExecNext]_execVars PROVE ExecTypeOK'
  OBVIOUS
<1>0. ExecTypeOK
  BY DEF ExecIInv
<1> USE <1>0 DEF ExecTypeOK
<1> DEFINE CallTypeOK ==
      /\ pc \in {"idle", "prepare", "claim", "reload", "guard", "invoke", "record", "down"}
      /\ request \in Request \cup {None}
      /\ request # None => request.action \in Asked
      /\ stale \in BOOLEAN /\ late \in BOOLEAN
      /\ verdict \in Outcome
<1>1. CallTypeOK /\ Leaves => CallTypeOK'
  BY DEF Leaves, Outcome
<1>2. CASE Historical \/ Raise \/ Record
  BY <1>1, <1>2 DEF Historical, Raise, Record, deviceVars
<1>3. CASE Prepare \/ Claim
  BY <1>1, <1>3 DEF Prepare, Claim, Committed, AfterPrepare, deviceVars
<1>4. CASE \E r \in Request : Execute(r)
  BY <1>4 DEF Execute, deviceVars
<1>5. CASE Reload \/ GuardAllows \/ GuardRefuses \/ OperationRefuses
  BY <1>5 DEF Reload, GuardAllows, GuardRefuses, OperationRefuses, deviceVars, Outcome
<1>6. CASE Invoke
  <2>1. request \in Request /\ request.effect \in Effects
    BY <1>6, InHand DEF Invoke
  <2>2. PICK a \in Receipt : /\ answer' = [answer EXCEPT ![request.effect] = a]
                             /\ verdict' = Recorded(a)
    BY <1>6 DEF Invoke
  <2>3. verdict' \in Outcome
    BY <2>2 DEF Recorded, Outcome
  <2>4. answer' \in [Effects -> Receipt]
    BY <2>1, <2>2
  <2>5. performed' \in [Effects -> Nat]
    BY <2>1, <1>6 DEF Invoke
  <2> QED
    BY <1>6, <2>3, <2>4, <2>5 DEF Invoke
<1>7. CASE OwnerWrites \/ UNCHANGED execVars
  BY <1>7 DEF OwnerWrites, execVars, callVars, deviceVars
<1>8. CASE ConcurrentStop
  <2>1. stale' \in BOOLEAN /\ late' \in BOOLEAN
    <3>1. /\ stale' = (pc \notin {"idle", "down"})
          /\ late' = (pc \in {"guard", "invoke"})
      BY <1>8 DEF ConcurrentStop
    <3>2. (pc \notin {"idle", "down"}) \in BOOLEAN /\ (pc \in {"guard", "invoke"}) \in BOOLEAN
      OBVIOUS
    <3> QED
      BY <3>1, <3>2
  <2>2. UNCHANGED <<pc, request, verdict, performed, answer>>
    BY <1>8 DEF ConcurrentStop, deviceVars
  <2> QED
    BY <2>1, <2>2
<1>9. CASE Crash \/ Recover
  BY <1>9 DEF Crash, Recover, deviceVars, Outcome
<1> QED
  BY <1>2, <1>3, <1>4, <1>5, <1>6, <1>7, <1>8, <1>9 DEF ExecNext, Call

\* A step that performs nothing, and takes no other row back, keeps PerformedInv.
LEMMA PerformedKept ==
    ASSUME PerformedInv, UNCHANGED performed,
           \A x \in Effects : Row(x) # None /\ Row(x).state # "pending" =>
              Row(x)' # None /\ Row(x)'.state # "pending"
    PROVE  PerformedInv'
BY DEF PerformedInv

\* Every step keeps the claim ahead of the effect, and the effect single.
LEMMA CallStep == ExecIInv /\ [ExecNext]_execVars => CallInv' /\ PerformedInv'
<1> SUFFICES ASSUME ExecIInv, [ExecNext]_execVars PROVE CallInv' /\ PerformedInv'
  OBVIOUS
<1>0. IInv /\ TypeOK /\ ExecTypeOK /\ CallInv /\ PerformedInv
  BY DEF ExecIInv, IInv
<1> USE <1>0
\* Calls of the store that touch no row, and steps outside the store.
<1>1. ASSUME UNCHANGED <<commands, operations>>, NEW x \in Effects
      PROVE  Row(x)' = Row(x)
  BY <1>1 DEF Row
<1>2. ASSUME UNCHANGED <<commands, operations, performed>> PROVE PerformedInv'
  BY <1>1, <1>2, PerformedKept
<1>3. ASSUME Leaves PROVE CallInv'
  BY <1>3 DEF Leaves, CallInv
<1>4. CASE \E r \in Request : Execute(r)
  <2>1. CallInv'
    BY <1>4, ExecutorAssumption DEF Execute, CallInv
  <2> QED
    BY <2>1, <1>2, <1>4 DEF Execute, storeVars, deviceVars
<1>5. CASE Historical \/ Raise
  BY <1>5, <1>2, <1>3 DEF Historical, Raise, storeVars, deviceVars
<1>6. CASE Prepare
  <2>1. request \in Request /\ request.effect \in Effects /\ StorePrepare(request)
    BY <1>6, InHand DEF Prepare
  <2>2. PerformedInv'
    <3>1. \A x \in Effects : Row(x) # None /\ Row(x).state # "pending" =>
             Row(x)' # None /\ Row(x)'.state # "pending"
      BY <2>1, PrepareRow DEF OthersKept
    <3> QED
      BY <3>1, <1>6, PerformedKept DEF Prepare, deviceVars
  <2>3. CASE pc' = "claim" /\ UNCHANGED <<request, stale, late, verdict>>
    <3>1. request # None
      BY <1>6 DEF Prepare, CallInv
    <3> QED
      BY <2>2, <2>3, <3>1 DEF CallInv
  <2> QED
    BY <1>3, <1>6, <2>2, <2>3 DEF Prepare, Committed, AfterPrepare
<1>7. CASE Claim
  <2>1. PICK r \in Request : r = request /\ r.effect \in Effects /\ StoreClaim(r)
    BY <1>7, InHand DEF Claim
  <2>2. /\ Row(r.effect) # None /\ Row(r.effect).state = "pending"
        /\ Row(r.effect)' # None /\ Row(r.effect)'.state = "dispatched"
        /\ OthersKept(r.effect)
    BY <2>1, ClaimRow
  <2>3. PerformedInv'
    <3>1. \A x \in Effects : Row(x) # None /\ Row(x).state # "pending" =>
             Row(x)' # None /\ Row(x)'.state # "pending"
      BY <2>1, <2>2 DEF OthersKept
    <3> QED
      BY <3>1, <1>7, PerformedKept DEF Claim, deviceVars
  <2>4. CASE pc' = "reload" /\ UNCHANGED <<request, stale, late, verdict>>
    <3>1. request # None
      BY <1>7 DEF Claim, CallInv
    <3>2. performed[r.effect] = 0 /\ performed' = performed /\ request' = r
      BY <1>7, <2>1, <2>2, <2>4 DEF PerformedInv, Claim, deviceVars
    <3>3. (Row(request.effect) # None /\ Row(request.effect).state = "dispatched")'
      BY <2>2, <3>2 DEF Row
    <3>4. pc' = "reload" /\ request' # None /\ performed'[request'.effect] = 0
      BY <2>1, <2>4, <3>1, <3>2
    <3>5. CallInv'
      BY <3>3, <3>4 DEF CallInv
    <3> QED
      BY <2>3, <3>5
  <2> QED
    BY <1>3, <1>7, <2>3, <2>4 DEF Claim, Committed
<1>8. CASE Reload \/ GuardAllows \/ GuardRefuses \/ OperationRefuses
  <2>1. UNCHANGED <<commands, operations, performed, answer, request>>
    BY <1>8 DEF Reload, GuardAllows, GuardRefuses, OperationRefuses, storeVars, deviceVars
  <2>2. Row(request.effect)' = Row(request.effect)
    BY <2>1 DEF Row
  <2>3. CallInv'
    BY <1>8, <2>1, <2>2 DEF Reload, GuardAllows, GuardRefuses, OperationRefuses, CallInv
  <2> QED
    BY <1>2, <2>1, <2>3
<1>9. CASE Invoke
  <2>1. request \in Request /\ request.effect \in Effects /\ request # None
    BY <1>9, InHand DEF Invoke, CallInv
  <2>2. PICK a \in Receipt : /\ answer' = [answer EXCEPT ![request.effect] = a]
                             /\ verdict' = Recorded(a)
    BY <1>9 DEF Invoke
  <2>3. /\ performed' = [performed EXCEPT ![request.effect] = performed[request.effect] + 1]
        /\ pc' = "record" /\ UNCHANGED <<commands, operations, request>>
    BY <1>9 DEF Invoke, storeVars
  <2>4. /\ performed[request.effect] = 0
        /\ Row(request.effect) # None /\ Row(request.effect).state = "dispatched"
    BY <1>9 DEF Invoke, CallInv
  <2>5. \A x \in Effects : Row(x)' = Row(x)
    BY <2>3, <1>1
  <2>6. /\ performed'[request.effect] = 1 /\ answer'[request.effect] = a
        /\ \A x \in Effects \ {request.effect} : performed'[x] = performed[x]
    BY <2>1, <2>2, <2>3, <2>4 DEF ExecTypeOK
  <2>7. PerformedInv'
    BY <2>4, <2>5, <2>6 DEF PerformedInv
  <2>8. /\ verdict' = "acknowledged" => a = "accepted"
        /\ verdict' = "rejected" => a = "rejected"
    BY <2>2 DEF Recorded, Receipt
  <2>9. CallInv'
    <3>1. (Row(request.effect) # None /\ Row(request.effect).state = "dispatched")'
      BY <2>3, <2>4 DEF Row
    <3> QED
      BY <2>1, <2>3, <2>6, <2>8, <3>1 DEF CallInv
  <2> QED
    BY <2>7, <2>9
<1>10. CASE Record
  <2>1. request \in Request /\ request.effect \in Effects /\ StoreRecord(request, verdict)
        /\ verdict \in Outcome
    BY <1>10, InHand DEF Record, ExecTypeOK
  <2>2. \A x \in Effects : Row(x) # None /\ Row(x).state # "pending" =>
           Row(x)' # None /\ Row(x)'.state # "pending"
    BY <2>1, RecordRow DEF OthersKept, Outcome
  <2> QED
    BY <2>2, <1>3, <1>10, PerformedKept DEF Record, deviceVars
<1>11. CASE OwnerWrites \/ ConcurrentStop \/ UNCHANGED execVars
  <2>1. UNCHANGED <<pc, request, verdict, commands, operations, performed, answer>>
    BY <1>11 DEF OwnerWrites, ConcurrentStop, SettleAttempt, AdoptSuccessor, RecordSessionExit,
       CancelQueue, HoldForReconciliation, execVars, storeVars, callVars, deviceVars
  <2>2. Row(request.effect)' = Row(request.effect)
    BY <2>1 DEF Row
  <2> QED
    BY <1>2, <2>1, <2>2 DEF CallInv
<1>12. CASE Crash
  BY <1>2, <1>12 DEF Crash, CallInv, storeVars, deviceVars
<1>13. CASE Recover
  <2>1. pc' = "idle" /\ request' = None /\ UNCHANGED performed
    BY <1>13 DEF Recover, CallInv, deviceVars
  <2>2. FenceEarlierWork \/ UNCHANGED <<commands, operations>>
    BY <1>13 DEF Recover, RecoverNative, RecoverLegacy, storeVars
  <2>3. PerformedInv'
    <3>1. CASE FenceEarlierWork
      <4>1. \A x \in Effects : Row(x) # None /\ Row(x).state # "pending" =>
               Row(x)' # None /\ Row(x)'.state # "pending"
        BY <3>1, RecoverRows
      <4> QED
        BY <2>1, <4>1, PerformedKept
    <3> QED
      BY <2>1, <2>2, <3>1, <1>2
  <2> QED
    BY <2>1, <2>3 DEF CallInv
<1> QED
  BY <1>4, <1>5, <1>6, <1>7, <1>8, <1>9, <1>10, <1>11, <1>12, <1>13 DEF ExecNext, Call

LEMMA ExecIInvStep == ExecIInv /\ [ExecNext]_execVars => ExecIInv'
<1> SUFFICES ASSUME ExecIInv, [ExecNext]_execVars PROVE ExecIInv'
  OBVIOUS
<1>1. IInv'
  BY StoreStep, IInvStep DEF ExecIInv
<1>2. TypeOK'
  BY <1>1 DEF IInv
<1> QED
  BY <1>1, <1>2, ExecTypeStep, CallStep DEF ExecIInv

\* Initially no effect was asked for.
LEMMA ExecInitIInv == ExecInit => ExecIInv
<1> SUFFICES ASSUME ExecInit PROVE ExecIInv
  OBVIOUS
<1>1. IInv
  BY InitIInv DEF ExecInit
<1>2. ExecTypeOK
  BY <1>1 DEF ExecInit, ExecTypeOK, IInv, Receipt, Outcome
<1>3. CallInv /\ PerformedInv
  BY DEF ExecInit, CallInv, PerformedInv
<1> QED
  BY <1>1, <1>2, <1>3 DEF ExecIInv

\* The inductive invariant of the executors holds in every reachable state.
THEOREM ExecInvariance == ExecSpec => []ExecIInv
BY ExecInitIInv, ExecIInvStep, PTL DEF ExecSpec

\* The variables of an executor over the journal keep their types.
THEOREM ExecTypeCorrect == ExecSpec => []ExecTypeOK
<1>1. ExecIInv => ExecTypeOK
  BY DEF ExecIInv
<1> QED
  BY ExecInvariance, <1>1, PTL

-----------------------------------------------------------------------------
(* What the executors promise.                                             *)

\* The receiver is asked to play an item at most once: of the rows that put an item
\* on the receiver at most one left the pending state, and it was performed once.
THEOREM AskedAtMostOnce == ExecSpec => []AskedOnce
<1>1. ExecIInv => AskedOnce
  <2> SUFFICES ASSUME ExecIInv, NEW i \in Items,
                      NEW x \in Effects, performed[x] > 0, Puts(x, i),
                      NEW y \in Effects, performed[y] > 0, Puts(y, i)
               PROVE  x = y /\ performed[x] = 1
    BY DEF AskedOnce
  <2>1. IInv /\ OnePlayPerItem /\ PerformedInv
    BY OnePlay DEF ExecIInv
  <2> DEFINE starts == {c \in StartsOf(i) : commands[c].state # "pending"}
             nexts  == {o \in Operations :
                          o[1] + 1 = i /\ o[2] = "play_next" /\ operations[o].state # "pending"}
  <2>2. (starts = {} \/ nexts = {}) /\ \A c, d \in starts : c = d
    BY <2>1 DEF OnePlayPerItem
  <2>3. ASSUME NEW z \in Effects, performed[z] > 0, Puts(z, i)
        PROVE  performed[z] = 1 /\ (z \in starts \/ z \in nexts)
    <3>1. performed[z] = 1 /\ Row(z) # None /\ Row(z).state # "pending"
      BY <2>1, <2>3 DEF PerformedInv
    <3>2. CASE z \in Journaled /\ commands[z].item = i /\ commands[z].action = "start"
      BY <3>1, <3>2 DEF Row, Journaled, StartsOf
    <3>3. CASE z \in Items \X {"play_next"} /\ z[1] + 1 = i
      <4>1. z \in Items \X NativeAction /\ z[2] = "play_next"
        BY <3>3 DEF NativeAction
      <4>2. z \notin CommandIds
        BY <4>1, ExecutorAssumption
      <4> QED
        BY <3>1, <3>3, <4>1, <4>2 DEF Row, Operations
    <3> QED
      BY <2>3, <3>1, <3>2, <3>3 DEF Puts
  <2>4. \A o, q \in nexts : o = q
    <3> SUFFICES ASSUME NEW o \in nexts, NEW q \in nexts PROVE o = q
      OBVIOUS
    <3>1. o \in Items \X NativeAction /\ q \in Items \X NativeAction
      BY DEF Operations
    <3>2. o[1] = q[1] /\ o[2] = q[2]
      BY <3>1 DEF Items
    <3> QED
      BY <3>1, <3>2
  <2> HIDE DEF starts, nexts
  <2> QED
    BY <2>2, <2>3, <2>4
<1> QED
  BY ExecInvariance, <1>1, PTL

\* A stop that was committed before the reload is seen by it; one that comes later
\* is remembered as late.
GapInv ==
    /\ pc = "reload" /\ ~stale /\ Guarded(request.action) /\ IsNative(request) =>
          ~canceled /\ ~hold
    /\ pc \in {"guard", "invoke"} /\ Guarded(request.action) =>
          late \/ (~canceled /\ (IsNative(request) => ~hold))

LEMMA GapStep == ExecIInv /\ GapInv /\ [ExecNext]_execVars => GapInv'
<1> SUFFICES ASSUME ExecIInv, GapInv, [ExecNext]_execVars PROVE GapInv'
  OBVIOUS
<1> USE DEF GapInv
<1>1. CASE Claim
  <2>1. request \in Request /\ StoreClaim(request)
    BY <1>1, InHand DEF Claim
  <2>2. IsNative(request) /\ Guarded(request.action) => request.action = "play_next"
    BY DEF IsNative, Guarded, NativeAction
  <2>3. IsNative(request) /\ Guarded(request.action) => ~canceled /\ ~hold
    BY <2>1, <2>2 DEF StoreClaim, MarkNativeDispatched, MayDispatchNative
  <2>4. UNCHANGED <<canceled, hold>>
    BY <2>1 DEF StoreClaim, MarkNativeDispatched, MarkDispatched
  <2>5. CASE pc' = "reload" /\ UNCHANGED <<request, stale, late, verdict>>
    BY <2>3, <2>4, <2>5 DEF IsNative, Guarded
  <2>6. CASE Leaves
    BY <2>6 DEF Leaves
  <2> QED
    BY <1>1, <2>5, <2>6 DEF Claim, Committed
<1>2. CASE Reload
  BY <1>2 DEF Reload, SeenUnchanged, storeVars, IsNative, Guarded
<1>3. CASE GuardAllows
  BY <1>3 DEF GuardAllows, storeVars, IsNative, Guarded
<1>4. CASE ConcurrentStop
  <2>1. pc' = pc /\ request' = request
    BY <1>4 DEF ConcurrentStop
  <2>2. CASE pc = "reload"
    <3>1. stale'
      BY <1>4, <2>2 DEF ConcurrentStop
    <3> QED
      BY <2>1, <2>2, <3>1
  <2>3. CASE pc \in {"guard", "invoke"}
    <3>1. late'
      BY <1>4, <2>3 DEF ConcurrentStop
    <3> QED
      BY <2>1, <2>3, <3>1
  <2> QED
    BY <2>1, <2>2, <2>3
<1>5. CASE \/ \E r \in Request : Execute(r)
           \/ Historical \/ Raise \/ Prepare \/ Record \/ GuardRefuses
           \/ Invoke \/ OperationRefuses \/ OwnerWrites \/ Crash \/ Recover
  <2>1. pc' \notin {"reload", "guard", "invoke"}
    BY <1>5 DEF Execute, Historical, Raise, Prepare, Record, GuardRefuses, Invoke,
       OperationRefuses, OwnerWrites, Crash, Recover, Committed, AfterPrepare, Leaves, callVars
  <2> QED
    BY <2>1
<1>6. CASE UNCHANGED execVars
  BY <1>6 DEF execVars, storeVars, callVars, IsNative, Guarded
<1> QED
  BY <1>1, <1>2, <1>3, <1>4, <1>5, <1>6 DEF ExecNext, Call

\* Only the receiver call performs anything.
LEMMA OnlyInvokePerforms == [ExecNext]_execVars => Invoke \/ UNCHANGED performed
BY DEF ExecNext, Call, Execute, Historical, Prepare, Claim, Raise, Reload, GuardAllows,
       GuardRefuses, OperationRefuses, Record, OwnerWrites, ConcurrentStop, Crash, Recover,
       execVars, callVars, deviceVars

\* No play-like effect is performed in a queue that the reload saw stopped.
THEOREM StopsBarEffects == ExecSpec => StopBarsEffects
<1>1. ExecInit => GapInv
  BY DEF ExecInit, GapInv
<1>2. ExecIInv /\ GapInv /\ [ExecNext]_execVars =>
        [performed' # performed /\ Guarded(request.action) =>
           late \/ (~canceled /\ (IsNative(request) => ~hold))]_execVars
  BY OnlyInvokePerforms DEF GapInv, Invoke
<1> QED
  BY ExecInvariance, <1>1, <1>2, GapStep, PTL DEF ExecSpec, StopBarsEffects

-----------------------------------------------------------------------------
(* The executors implement the ledger.                                     *)

\* Writing one row changes one status.
LEMMA StatusWritten ==
    ASSUME NEW x \in Effects, OthersKept(x)
    PROVE  [y \in Effects |-> StatusOf(Row(y)')] =
              [[y \in Effects |-> StatusOf(Row(y))] EXCEPT ![x] = StatusOf(Row(x)')]
BY DEF OthersKept

\* What the states of a row say in the ledger.
LEMMA StatusNames ==
    \A row \in Command \cup Operation \cup {None} :
        /\ row = None => StatusOf(row) = "none"
        /\ row # None /\ row.state = "pending" => StatusOf(row) = "intended"
        /\ row # None /\ row.state = "dispatched" <=> StatusOf(row) = "claimed"
        /\ row # None /\ row.state = "acknowledged" => StatusOf(row) = "accepted"
        /\ row # None /\ row.state = "rejected" => StatusOf(row) = "rejected"
        /\ row # None /\ row.state = "uncertain" => StatusOf(row) = "uncertain"
BY DEF StatusOf, Command, Operation, ExecState, Outcome

\* The initial state maps to the initial ledger.
LEMMA LedgerStart == ExecInit => Ledger!LedgerInit
<1> SUFFICES ASSUME ExecInit PROVE Ledger!LedgerInit
  OBVIOUS
<1>1. \A x \in Effects : Row(x) = None
  BY DEF ExecInit, Init, Row, Effects
<1> QED
  BY <1>1 DEF ExecInit, Ledger!LedgerInit, StatusOf

\* Every step maps to a step of the ledger, or to none.
LEMMA LedgerStep ==
    ExecIInv /\ [ExecNext]_execVars => [Ledger!LedgerNext]_(Ledger!ledgerVars)
<1> SUFFICES ASSUME ExecIInv, [ExecNext]_execVars
             PROVE  [Ledger!LedgerNext]_(Ledger!ledgerVars)
  OBVIOUS
<1>0. IInv /\ IInv' /\ TypeOK /\ TypeOK' /\ ExecTypeOK /\ CallInv /\ PerformedInv
  BY StoreStep, IInvStep DEF ExecIInv, IInv
<1> DEFINE status == [y \in Effects |-> StatusOf(Row(y))]
           after  == [y \in Effects |-> StatusOf(Row(y)')]
<1>1. status' = after
  OBVIOUS
<1>2. \A y \in Effects : Row(y) \in Command \cup Operation \cup {None}
                        /\ Row(y)' \in Command \cup Operation \cup {None}
  BY <1>0, RowType DEF TypeOK, Row, Effects
<1>3. CASE Prepare
  <2>1. PICK r \in Request : r = request /\ r.effect \in Effects /\ StorePrepare(r)
    BY <1>3, InHand DEF Prepare
  <2>2. /\ Row(r.effect) = None
        /\ Row(r.effect)' # None /\ Row(r.effect)'.state = "pending"
        /\ OthersKept(r.effect)
    BY <1>0, <2>1, PrepareRow
  <2>3. StatusOf(Row(r.effect)) = "none" /\ StatusOf(Row(r.effect)') = "intended"
    BY <1>2, <2>1, <2>2, StatusNames
  <2>4. after = [status EXCEPT ![r.effect] = "intended"] /\ status[r.effect] = "none"
    BY <2>1, <2>2, <2>3, StatusWritten
  <2>5. Ledger!Intend(r.effect)
    BY <1>1, <1>3, <2>4 DEF Ledger!Intend, Prepare, deviceVars
  <2> QED
    BY <2>1, <2>5 DEF Ledger!LedgerNext
<1>4. CASE Claim
  <2>1. PICK r \in Request : r = request /\ r.effect \in Effects /\ StoreClaim(r)
    BY <1>4, InHand DEF Claim
  <2>2. /\ Row(r.effect) # None /\ Row(r.effect).state = "pending"
        /\ Row(r.effect)' # None /\ Row(r.effect)'.state = "dispatched"
        /\ OthersKept(r.effect)
    BY <1>0, <2>1, ClaimRow
  <2>3. StatusOf(Row(r.effect)) = "intended" /\ StatusOf(Row(r.effect)') = "claimed"
    BY <1>2, <2>1, <2>2, StatusNames
  <2>4. after = [status EXCEPT ![r.effect] = "claimed"] /\ status[r.effect] = "intended"
    BY <2>1, <2>2, <2>3, StatusWritten
  <2>5. Ledger!Claim(r.effect)
    BY <1>1, <1>4, <2>4 DEF Ledger!Claim, Claim, deviceVars
  <2> QED
    BY <2>1, <2>5 DEF Ledger!LedgerNext
\* Steps that touch no row.
<1>5. ASSUME UNCHANGED <<commands, operations>> PROVE status' = status
  BY <1>5 DEF Row
<1>6. CASE Invoke
  <2>1. PICK r \in Request : r = request /\ r.effect \in Effects
    BY <1>6, InHand DEF Invoke
  <2>2. /\ performed[r.effect] = 0
        /\ Row(r.effect) # None /\ Row(r.effect).state = "dispatched"
    BY <1>0, <1>6, <2>1 DEF Invoke, CallInv
  <2>3. status[r.effect] = "claimed"
    BY <1>2, <2>1, <2>2, StatusNames
  <2>4. status' = status
    BY <1>5, <1>6 DEF Invoke, storeVars
  <2>5. performed' = [performed EXCEPT ![r.effect] = 1]
    BY <1>6, <2>1, <2>2 DEF Invoke
  <2>6. \E a \in Receipt : answer' = [answer EXCEPT ![r.effect] = a]
    BY <1>6, <2>1 DEF Invoke
  <2> HIDE DEF status
  <2>7. Ledger!Perform(r.effect)
    <3> USE DEF status
    <3> QED
      BY <2>2, <2>3, <2>4, <2>5, <2>6 DEF Ledger!Perform, Ledger!Answer, Receipt
  <2> QED
    BY <2>1, <2>7 DEF Ledger!LedgerNext
<1>7. CASE Record
  <2>1. PICK r \in Request : r = request /\ r.effect \in Effects
    BY <1>7, InHand DEF Record
  <2>2. PICK outcome \in Outcome : outcome = verdict /\ StoreRecord(r, outcome)
    BY <1>0, <1>7, <2>1 DEF Record, ExecTypeOK
  <2>3. /\ Row(r.effect) # None /\ Row(r.effect).state = "dispatched"
        /\ outcome = "acknowledged" => answer[r.effect] = "accepted"
        /\ outcome = "rejected" => answer[r.effect] = "rejected"
    BY <1>0, <1>7, <2>1, <2>2 DEF Record, CallInv
  <2>4. Row(r.effect)' # None /\ Row(r.effect)'.state = outcome /\ OthersKept(r.effect)
    BY <1>0, <2>1, <2>2, RecordRow
  <2>5. status[r.effect] = "claimed"
    BY <1>2, <2>1, <2>3, StatusNames
  <2>6. after = [status EXCEPT ![r.effect] = StatusOf(Row(r.effect)')]
    BY <2>1, <2>4, StatusWritten
  <2>7. UNCHANGED <<performed, answer>>
    BY <1>7 DEF Record, deviceVars
  <2>8. CASE outcome \in {"acknowledged", "rejected"}
    <3>1. /\ StatusOf(Row(r.effect)') = answer[r.effect]
          /\ answer[r.effect] \in {"accepted", "rejected"}
      BY <1>2, <2>1, <2>3, <2>4, <2>8, StatusNames
    <3>2. Ledger!Resolve(r.effect)
      BY <1>1, <2>5, <2>6, <2>7, <3>1 DEF Ledger!Resolve
    <3> QED
      BY <2>1, <3>2 DEF Ledger!LedgerNext
  <2>9. CASE outcome = "uncertain"
    <3>1. StatusOf(Row(r.effect)') = "uncertain"
      BY <1>2, <2>1, <2>4, <2>9, StatusNames
    <3>2. after = [x \in Effects |-> IF x \in {r.effect} THEN "uncertain" ELSE status[x]]
      BY <2>1, <2>6, <3>1
    <3>3. {r.effect} \in SUBSET {x \in Effects : status[x] = "claimed"}
      BY <2>1, <2>5
    <3>4. Ledger!Doubt
      BY <1>1, <2>7, <3>2, <3>3 DEF Ledger!Doubt
    <3> QED
      BY <3>4 DEF Ledger!LedgerNext
  <2> QED
    BY <2>8, <2>9 DEF Outcome
<1>8. ASSUME FenceEarlierWork, UNCHANGED deviceVars PROVE Ledger!Doubt
  <2> DEFINE S == {x \in Effects : status[x] = "claimed"}
  <2>1. ASSUME NEW x \in Effects
        PROVE  after[x] = IF x \in S THEN "uncertain" ELSE status[x]
    <3>1. /\ Row(x) = None => Row(x)' = None
          /\ Row(x) # None /\ Row(x).state = "dispatched" =>
                Row(x)' # None /\ Row(x)'.state = "uncertain"
          /\ Row(x) # None /\ Row(x).state # "dispatched" => Row(x)' = Row(x)
      BY <1>0, <1>8, RecoverRows
    <3>2. x \in S <=> Row(x) # None /\ Row(x).state = "dispatched"
      BY <1>2, StatusNames
    <3>3. CASE x \in S
      BY <1>2, <3>1, <3>2, <3>3, StatusNames
    <3>4. CASE x \notin S
      BY <3>1, <3>2, <3>4
    <3> QED
      BY <3>3, <3>4
  <2>2. after = [x \in Effects |-> IF x \in S THEN "uncertain" ELSE status[x]]
    BY <2>1
  <2> QED
    BY <1>1, <1>8, <2>2 DEF Ledger!Doubt, deviceVars
<1>9. CASE UNCHANGED <<commands, operations, performed, answer>>
  BY <1>5, <1>9 DEF Ledger!ledgerVars
<1>10. CASE Recover
  <2>1. UNCHANGED deviceVars
    BY <1>10 DEF Recover
  <2>2. FenceEarlierWork \/ UNCHANGED <<commands, operations>>
    BY <1>10 DEF Recover, RecoverNative, RecoverLegacy, storeVars
  <2> QED
    BY <1>8, <1>9, <2>1, <2>2 DEF deviceVars, Ledger!LedgerNext
<1>11. CASE \/ \E r \in Request : Execute(r)
            \/ Historical \/ Raise \/ Reload \/ GuardAllows \/ GuardRefuses
            \/ OperationRefuses \/ OwnerWrites \/ ConcurrentStop \/ Crash \/ UNCHANGED execVars
  <2>1. UNCHANGED <<commands, operations, performed, answer>>
    BY <1>11 DEF Execute, Historical, Raise, Reload, GuardAllows, GuardRefuses, OperationRefuses,
       OwnerWrites, SettleAttempt, AdoptSuccessor, RecordSessionExit, ConcurrentStop, CancelQueue,
       HoldForReconciliation, Crash, execVars, storeVars, deviceVars
  <2> QED
    BY <1>9, <2>1
<1> QED
  BY <1>3, <1>4, <1>6, <1>7, <1>10, <1>11 DEF ExecNext, Call

\* The executors over the journal implement the write-ahead ledger: nothing is
\* performed unclaimed or twice, and no verdict is written the receiver did not give.
THEOREM ImplementsLedger == ExecSpec => LedgerKept
BY ExecInvariance, LedgerStart, LedgerStep, PTL DEF ExecSpec, LedgerKept, Ledger!LedgerSpec
=============================================================================
