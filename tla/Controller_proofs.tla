------------------------- MODULE Controller_proofs -------------------------
(***************************************************************************)
(* TLAPS proofs about the one-shot commands, for any number of attempts,   *)
(* sessions, effects and crashes.                                          *)
(***************************************************************************)
EXTENDS Controller, TLAPS

USE FilesAssumption, DeviceAssumption

Starting  == {"start", "probe"}
Leaving   == Control \cup {"stop"}
Places    == {"idle", "mark", "baseline", "save", "point", "effect", "after", "judge", "report"}
Nexts     == {"effect", "judge", "report"}
Claims    == {"playing", "stopped", "finished"}

-----------------------------------------------------------------------------
(* The inductive invariant.                                                *)

CallType ==
    [command : Commands \cup {None}, rewrites : BOOLEAN, outcome : Outcome \cup {None},
     next : Nexts, earlier : SUBSET (Sessions \cup {Theirs, None}), seen : Nat]

TypeOK ==
    /\ files \in [Attempts -> Record \cup {None}]
    /\ active \in Attempts \cup {None}
    /\ receiver \in Sessions \cup {Theirs, None}
    /\ queueFile \in QueueState \cup {None}
    /\ pc \in Places
    /\ call \in CallType
    /\ own \in Snapshot \cup {None}
    /\ report \in Claims \cup {"unconfirmed"}
    /\ attempts \in Nat
    /\ stopsSent \subseteq Attempts
    /\ effects \in Nat /\ latest \in Nat /\ latest <= effects /\ claimed \in Nat

\* Where the call is, and which command may be there with which save before it.
PlaceInv ==
    /\ pc \in {"mark", "baseline", "effect", "after"} => call.next = "effect"
    /\ call.next = "judge" => call.command \in Starting
    /\ pc = "judge" => call.next = "judge"
    /\ pc \in {"effect", "after"} => call.command \in Starting \cup Leaving
    /\ pc \in {"save", "point"} /\ call.next = "effect" => call.command \in Leaving

\* Attempts are numbered in order, and one that is being started has no record yet.
AttemptInv ==
    /\ \A a \in Attempts : a > attempts => files[a] = None
    /\ call.command \in Starting /\ pc \in {"mark", "baseline", "effect"} =>
           attempts < MaxAttempts
    /\ call.command \in Starting /\ pc = "after" =>
           attempts \in Attempts /\ files[attempts] = None
    /\ own # None => own.attempt <= attempts

\* The snapshot in hand against the record on disk.
OwnInv ==
    /\ pc \in {"save", "point", "judge"} => own # None
    /\ pc \in {"effect", "after"} /\ call.command \in Leaving => own # None
    /\ pc = "point" => files[own.attempt] = Encoded(own)
    /\ pc = "effect" /\ call.command \in Leaving => files[own.attempt] = Encoded(own)
    /\ pc \in {"save", "point", "effect", "after"} /\ call.command = "stop" => own.stop
    /\ own # None /\ own.attempt \in stopsSent => own.stop

\* What the queue file and the report may claim.
ClaimInv ==
    /\ pc \notin {"idle", "mark", "report"} /\ call.command \in Control \cup {"start", "stop"} =>
           queueFile \notin Claims
    /\ call.next = "judge" => call.seen = effects
    /\ report # "unconfirmed" =>
           /\ call.seen = effects
           /\ pc \in {"save", "point", "report"}
           /\ pc # "report" => call.next = "report"

IInv ==
    /\ TypeOK /\ PlaceInv /\ AttemptInv /\ OwnInv /\ ClaimInv
    /\ CurrentLoads /\ StopIntentSurvives /\ ClaimsFollowEffects

-----------------------------------------------------------------------------
(* Snapshots and records.                                                  *)

\* A window leaves the attempt, its session and the stop intent alone.
LEMMA AppliedKeeps ==
    ASSUME NEW t \in Snapshot, NEW view
    PROVE  /\ Applied(t, view) \in Snapshot
           /\ Applied(t, view).attempt = t.attempt
           /\ Applied(t, view).stop = t.stop
BY DEF Applied, Snapshot

\* So does a reconnection.
LEMMA ReconciledKeeps ==
    ASSUME NEW t \in Snapshot
    PROVE  /\ Reconciled(t) \in Snapshot
           /\ Reconciled(t).attempt = t.attempt
           /\ Reconciled(t).stop = t.stop
BY DEF Reconciled, Snapshot

\* Recording the intent to stop.
LEMMA IntentKeeps ==
    ASSUME NEW t \in Snapshot
    PROVE  /\ [t EXCEPT !.stop = TRUE, !.boundary = TRUE] \in Snapshot
           /\ [t EXCEPT !.stop = TRUE, !.boundary = TRUE].attempt = t.attempt
           /\ [t EXCEPT !.stop = TRUE, !.boundary = TRUE].stop
BY DEF Snapshot

\* What a record keeps of a snapshot.
LEMMA EncodedKeeps ==
    ASSUME NEW t \in Snapshot
    PROVE  Encoded(t) \in Record /\ Encoded(t).stop = t.stop /\ t.attempt \in Attempts
BY DEF Encoded, Record, Snapshot

\* What a later process reads from a record.
LEMMA DecodedKeeps ==
    ASSUME NEW a \in Attempts, files[a] \in Record
    PROVE  Decoded(a) \in Snapshot /\ Decoded(a).attempt = a /\ Decoded(a).stop = files[a].stop
BY DEF Decoded, Record, Snapshot

\* The states a report may name.
LEMMA ReportedType == \A t : Reported(t) \in Claims \cup {"unconfirmed"}
BY DEF Reported, Claims

\* None is none of the values it stands beside.
LEMMA NoneIsApart ==
    /\ None \notin Record /\ None \notin Snapshot /\ None \notin Attempts
    /\ None \notin Outcome /\ None \notin Commands /\ None \notin QueueState
BY DEF Attempts

USE NoneIsApart

-----------------------------------------------------------------------------
(* One step after another.                                                 *)

\* Before the first command.
LEMMA InitHolds == Init => IInv
BY DEF Init, FilesInit, NoCall, IInv, TypeOK, PlaceInv, AttemptInv, OwnInv, ClaimInv, CallType, Nexts,
       CurrentLoads, CurrentRaises, StopIntentSurvives, ClaimsFollowEffects, Claims, Places,
       Starting, Leaving, Control

\* The receiver is not of this process.
LEMMA ReceiverStep == IInv /\ ReceiverChanges => IInv'
BY DEF ReceiverChanges, IInv, TypeOK, PlaceInv, AttemptInv, OwnInv, ClaimInv, Disk, History,
       CurrentLoads, CurrentRaises, StopIntentSurvives, ClaimsFollowEffects, Encoded

\* The queue command.
LEMMA QueueStep == IInv /\ Queue => IInv'
BY DEF Queue, IInv, TypeOK, PlaceInv, AttemptInv, OwnInv, ClaimInv, Disk, QueueState,
       CurrentLoads, CurrentRaises, StopIntentSurvives, ClaimsFollowEffects, Claims, Encoded

\* A process starts from what the disk says.
LEMMA InvokeStep == ASSUME IInv, NEW command \in Commands, Invoke(command) PROVE IInv'
<1>1. /\ call' \in CallType
      /\ call'.command = command /\ call'.next = "effect"
  BY DEF Invoke, NoCall, CallType, Nexts, IInv, TypeOK
<1>2. /\ own' \in Snapshot \cup {None}
      /\ own' # None => /\ own'.attempt = active /\ files[active] \in Record
                        /\ active \in Attempts /\ own'.stop = files[active].stop
  <2>1. CASE active = None
    BY <2>1 DEF Invoke, Current
  <2>2. CASE active # None
    <3>1. active \in Attempts /\ files[active] \in Record
      BY <2>2 DEF IInv, TypeOK, CurrentLoads, CurrentRaises
    <3> QED
      BY <2>2, <3>1, DecodedKeeps DEF Invoke, Current
  <2> QED
    BY <2>1, <2>2
<1>3. TypeOK'
  BY <1>1, <1>2 DEF Invoke, IInv, TypeOK, Disk, History, Places, Goes
<1>4. PlaceInv'
  BY <1>1 DEF Invoke, PlaceInv, Goes
<1>5. AttemptInv'
  <2>1. own' # None => own'.attempt <= attempts
    <3>1. SUFFICES ASSUME own' # None PROVE active <= attempts
      BY <1>2
    <3>2. active \in Attempts /\ files[active] # None
      BY <1>2, <3>1
    <3>3. ~(active > attempts)
      BY <3>2 DEF IInv, AttemptInv
    <3> QED
      BY <3>2, <3>3 DEF IInv, TypeOK, Attempts
  <2> QED
    BY <1>1, <2>1 DEF Invoke, IInv, AttemptInv, Disk, History, Goes, Starting
<1>6. OwnInv'
  BY <1>1, <1>2 DEF Invoke, IInv, OwnInv, StopIntentSurvives, History, Disk, Goes
<1>7. ClaimInv'
  BY <1>1 DEF Invoke, IInv, ClaimInv, History, Goes
<1> QED
  BY <1>3, <1>4, <1>5, <1>6, <1>7
  DEF Invoke, IInv, Disk, History, CurrentLoads, CurrentRaises, StopIntentSurvives,
      ClaimsFollowEffects

\* The uncertainty is on disk before anything else happens.
LEMMA MarkStep == IInv /\ Mark => IInv'
<1> SUFFICES ASSUME IInv, Mark PROVE IInv'
  OBVIOUS
<1>1. /\ call' \in CallType
      /\ call'.command = call.command /\ call'.next = call.next /\ call'.seen = call.seen
  <2>1. (queueFile # None /\ call.command \in Control \cup {"start", "stop"}) \in BOOLEAN
    OBVIOUS
  <2> QED
    BY <2>1 DEF Mark, CallType, IInv, TypeOK, PlaceInv
<1>2. /\ queueFile' \in QueueState \cup {None}
      /\ call.command \in Control \cup {"start", "stop"} => queueFile' \notin Claims
      /\ queueFile' \in Claims => queueFile' = queueFile
  BY DEF Mark, Marked, IInv, TypeOK, QueueState, Control, Claims
<1>3. TypeOK'
  BY <1>1, <1>2 DEF Mark, IInv, TypeOK, Disk, History, Places, Goes
<1>4. PlaceInv' /\ AttemptInv' /\ OwnInv'
  BY <1>1 DEF Mark, IInv, PlaceInv, AttemptInv, OwnInv, Goes, Disk, History, Starting
<1>5. ClaimInv' /\ ClaimsFollowEffects'
  BY <1>1, <1>2 DEF Mark, IInv, ClaimInv, ClaimsFollowEffects, Claims, History, Goes
<1> QED
  BY <1>3, <1>4, <1>5
  DEF Mark, IInv, Disk, History, CurrentLoads, CurrentRaises, StopIntentSurvives

\* The baseline of a start.
LEMMA StartBaselineStep == IInv /\ StartBaseline => IInv'
<1> SUFFICES ASSUME IInv, StartBaseline PROVE IInv'
  OBVIOUS
<1>1. /\ call' \in CallType
      /\ call'.command = call.command /\ call'.next = call.next /\ call'.seen = call.seen
  BY DEF StartBaseline, CallType, IInv, TypeOK, PlaceInv
<1>2. TypeOK'
  BY <1>1 DEF StartBaseline, IInv, TypeOK, Disk, History, Places, Goes
<1>3. PlaceInv' /\ AttemptInv' /\ OwnInv'
  BY <1>1 DEF StartBaseline, IInv, PlaceInv, AttemptInv, OwnInv, Goes, Disk, History, Starting,
              Leaving, Control
<1>4. ClaimInv'
  BY <1>1 DEF StartBaseline, IInv, ClaimInv, History, Goes
<1> QED
  BY <1>2, <1>3, <1>4
  DEF StartBaseline, IInv, Disk, History, CurrentLoads, CurrentRaises, StopIntentSurvives,
      ClaimsFollowEffects

\* A status saves what it could reconcile.
LEMMA StatusStep == ASSUME IInv, NEW view, Status(view) PROVE IInv'
<1>1. CASE Reconciles(own, view)
  <2>1. /\ call' \in CallType /\ call'.command = call.command
        /\ call'.next = "report" /\ call'.seen = effects
    <3>1. call' = [call EXCEPT !.seen = effects, !.next = "report"]
      BY <1>1 DEF Status
    <3>2. call \in CallType /\ effects \in Nat
      BY DEF IInv, TypeOK
    <3> QED
      BY <3>1, <3>2 DEF CallType, Nexts
  <2>2. own \in Snapshot
    BY <1>1 DEF Reconciles, IInv, TypeOK
  <2>3. own' \in Snapshot /\ own'.attempt = own.attempt /\ own'.stop = own.stop
    BY <1>1, <2>2, ReconciledKeeps, AppliedKeeps DEF Status
  <2>4. pc' = "save" /\ report' \in Claims \cup {"unconfirmed"}
    BY <1>1, ReportedType DEF Status, Goes
  <2>5. TypeOK'
    BY <2>1, <2>3, <2>4 DEF Status, IInv, TypeOK, Disk, History, Places
  <2>6. PlaceInv' /\ OwnInv'
    BY <2>1, <2>2, <2>3, <2>4
    DEF Status, IInv, PlaceInv, OwnInv, Disk, History
  <2>7. AttemptInv'
    BY <2>1, <2>2, <2>3, <2>4 DEF Status, IInv, AttemptInv, Disk, History, Starting
  <2>8. ClaimInv'
    BY <2>1, <2>4 DEF Status, IInv, ClaimInv, History, Control
  <2> QED
    BY <2>5, <2>6, <2>7, <2>8
    DEF Status, IInv, Disk, History, CurrentLoads, CurrentRaises, StopIntentSurvives,
        ClaimsFollowEffects
<1>2. CASE ~Reconciles(own, view)
  <2>1. /\ call' \in CallType /\ call'.command = call.command
        /\ call'.next = call.next /\ call'.seen = call.seen
    <3>1. StatusRewrites \in BOOLEAN
      BY DEF StatusRewrites
    <3> QED
      BY <1>2, <3>1 DEF Status, CallType, IInv, TypeOK, PlaceInv
  <2>2. pc' = "report" /\ report' = "unconfirmed" /\ own' = own
    BY <1>2 DEF Status, Ends, Goes
  <2>3. TypeOK'
    BY <2>1, <2>2 DEF Status, IInv, TypeOK, Disk, History, Places
  <2>4. PlaceInv' /\ AttemptInv' /\ OwnInv' /\ ClaimInv'
    BY <2>1, <2>2
    DEF Status, IInv, PlaceInv, AttemptInv, OwnInv, ClaimInv, Disk, History
  <2> QED
    BY <2>3, <2>4
    DEF Status, IInv, Disk, History, CurrentLoads, CurrentRaises, StopIntentSurvives,
        ClaimsFollowEffects
<1> QED
  BY <1>1, <1>2

\* A call that only ends: nothing new is claimed, nothing is saved.
LEMMA EndingStep ==
    ASSUME IInv, NEW state \in {"unconfirmed", report}, Ends(state),
           state # "unconfirmed" => call.next = "report",
           UNCHANGED <<Disk, receiver, queueFile, call, own, History>>
    PROVE  IInv'
BY DEF Ends, Goes, IInv, TypeOK, Places, PlaceInv, AttemptInv, OwnInv, ClaimInv, Disk, History,
       CurrentLoads, CurrentRaises, StopIntentSurvives, ClaimsFollowEffects, Encoded

\* A stop has its intent in the snapshot it is about to save.
LEMMA StopBaselineStep == ASSUME IInv, NEW view, StopBaseline(view) PROVE IInv'
<1>1. CASE Reconciles(own, view)
  <2>1. own \in Snapshot
    BY <1>1 DEF Reconciles, IInv, TypeOK
  <2>2. /\ Applied(Reconciled(own), view) \in Snapshot
        /\ Applied(Reconciled(own), view).attempt = own.attempt
    BY <2>1, ReconciledKeeps, AppliedKeeps
  <2>3. own' \in Snapshot /\ own'.attempt = own.attempt /\ own'.stop
    BY <1>1, <2>2, IntentKeeps DEF StopBaseline
  <2>4. pc' = "save" /\ report' = report /\ call' = call
    BY <1>1 DEF StopBaseline, Goes
  <2>5. TypeOK'
    BY <2>3, <2>4 DEF StopBaseline, IInv, TypeOK, Disk, History, Places
  <2>6. PlaceInv' /\ AttemptInv' /\ OwnInv' /\ ClaimInv'
    BY <2>1, <2>3, <2>4
    DEF StopBaseline, IInv, PlaceInv, AttemptInv, OwnInv, ClaimInv, Disk, History, Leaving, Starting
  <2> QED
    BY <2>5, <2>6
    DEF StopBaseline, IInv, Disk, History, CurrentLoads, CurrentRaises, StopIntentSurvives,
        ClaimsFollowEffects
<1>2. CASE ~Reconciles(own, view)
  BY <1>2, EndingStep DEF StopBaseline
<1> QED
  BY <1>1, <1>2

\* A pause or a resume, up to its first save.
LEMMA ControlBaselineStep == ASSUME IInv, NEW view, ControlBaseline(view) PROVE IInv'
<1>1. CASE own # None /\ ~own.stop /\ Reconciles(own, view)
  <2>1. own \in Snapshot
    BY <1>1 DEF IInv, TypeOK
  <2>2. own' \in Snapshot /\ own'.attempt = own.attempt /\ own'.stop = own.stop
    BY <1>1, <2>1, ReconciledKeeps, AppliedKeeps DEF ControlBaseline
  <2>3. /\ call' \in CallType /\ call'.command = call.command
        /\ call'.next = "effect" /\ call'.seen = effects
    <3>1. call' = [call EXCEPT !.seen = effects]
      BY <1>1 DEF ControlBaseline
    <3>2. call \in CallType /\ effects \in Nat /\ call.next = "effect"
      BY DEF IInv, TypeOK, PlaceInv, ControlBaseline
    <3> QED
      BY <3>1, <3>2 DEF CallType
  <2>4. \/ pc' = "save" /\ report' = report
        \/ pc' = "report" /\ report' \in Claims \cup {"unconfirmed"}
    BY <1>1, ReportedType DEF ControlBaseline, Goes, Ends
  <2>5. TypeOK'
    BY <2>2, <2>3, <2>4 DEF ControlBaseline, IInv, TypeOK, Disk, History, Places
  <2>6. PlaceInv' /\ AttemptInv'
    BY <2>1, <2>2, <2>3, <2>4
    DEF ControlBaseline, IInv, PlaceInv, AttemptInv, Disk, History, Leaving
  <2>7. OwnInv'
    BY <2>1, <2>2, <2>3, <2>4 DEF ControlBaseline, IInv, OwnInv, Disk, History, Control
  <2>8. ClaimInv'
    BY <2>3, <2>4 DEF ControlBaseline, IInv, ClaimInv, History
  <2> QED
    BY <2>5, <2>6, <2>7, <2>8
    DEF ControlBaseline, IInv, Disk, History, CurrentLoads, CurrentRaises, StopIntentSurvives,
        ClaimsFollowEffects
<1>2. CASE ~(own # None /\ ~own.stop /\ Reconciles(own, view))
  BY <1>2, EndingStep DEF ControlBaseline
<1> QED
  BY <1>1, <1>2

\* The record is replaced: whoever was told to stop is still told so.
LEMMA SaveKeeps == IInv /\ Save => IInv'
<1> SUFFICES ASSUME IInv, Save PROVE IInv'
  OBVIOUS
<1>1. own \in Snapshot
  BY DEF Save, IInv, TypeOK, OwnInv
<1>2. files' = [files EXCEPT ![own.attempt] = Encoded(own)] /\ active' = active
  BY DEF Save, SaveStep, WriteRecord
<1>3. Encoded(own) \in Record /\ Encoded(own).stop = own.stop /\ own.attempt \in Attempts
  BY <1>1, EncodedKeeps
<1>4. /\ files' \in [Attempts -> Record \cup {None}]
      /\ \A a \in Attempts \ {own.attempt} : files'[a] = files[a]
      /\ files'[own.attempt] = Encoded(own)
  BY <1>2, <1>3 DEF IInv, TypeOK
<1>5. TypeOK'
  BY <1>2, <1>4 DEF Save, IInv, TypeOK, History, Places, Goes
<1>6. PlaceInv'
  BY DEF Save, IInv, PlaceInv, History, Goes
<1>7. AttemptInv'
  <2>1. ASSUME NEW a \in Attempts, a > attempts PROVE files'[a] = None
    <3>1. a # own.attempt
      BY <1>1, <1>3, <2>1 DEF IInv, AttemptInv, TypeOK, Attempts
    <3> QED
      BY <1>4, <2>1, <3>1 DEF IInv, AttemptInv
  <2> QED
    BY <2>1 DEF Save, IInv, AttemptInv, History, Goes
<1>8. OwnInv' /\ ClaimInv'
  <2>1. Encoded(own)' = Encoded(own)
    BY DEF Save, Encoded
  <2> QED
    BY <1>1, <1>4, <2>1 DEF Save, IInv, OwnInv, ClaimInv, History, Goes
<1>9. CurrentLoads'
  BY <1>2, <1>3, <1>4 DEF IInv, TypeOK, CurrentLoads, CurrentRaises
<1>10. StopIntentSurvives'
  <2>1. stopsSent' = stopsSent /\ stopsSent \subseteq Attempts
    BY DEF Save, History, IInv, TypeOK
  <2>2. own.attempt \in stopsSent => own.stop
    BY <1>1 DEF IInv, OwnInv
  <2> QED
    BY <1>3, <1>4, <2>1, <2>2 DEF IInv, StopIntentSurvives
<1> QED
  BY <1>5, <1>6, <1>7, <1>8, <1>9, <1>10 DEF Save, IInv, History, ClaimsFollowEffects

\* The pointer is replaced by one to a record that is there.
LEMMA PointStep == IInv /\ Point => IInv'
<1> SUFFICES ASSUME IInv, Point PROVE IInv'
  OBVIOUS
<1>1. own \in Snapshot /\ files[own.attempt] = Encoded(own)
  BY DEF Point, IInv, TypeOK, OwnInv
<1>2. active' = own.attempt /\ files' = files
  BY DEF Point, SaveStep, WritePointer
<1>3. Encoded(own) \in Record /\ Encoded(own).stop = own.stop /\ own.attempt \in Attempts
  BY <1>1, EncodedKeeps
<1>4. /\ call' \in CallType /\ call'.command = call.command
      /\ call'.next = call.next /\ call'.seen = call.seen
  <2>1. (call.rewrites \/ (call.command = "status" /\ StatusRewrites)) \in BOOLEAN
    BY DEF IInv, TypeOK, CallType
  <2> QED
    BY <2>1 DEF Point, CallType, IInv, TypeOK
<1>5. pc' = call.next /\ call.next \in Nexts
  BY DEF Point, Goes, IInv, TypeOK, CallType
<1>6. TypeOK'
  BY <1>2, <1>3, <1>4, <1>5 DEF Point, IInv, TypeOK, History, Places, Nexts
<1>7. PlaceInv' /\ AttemptInv'
  <2>1. pc = "point" /\ UNCHANGED <<files, own, attempts>>
    BY <1>2 DEF Point, History
  <2>2. call.next = "effect" => call.command \in Leaving /\ call.command \notin Starting
    BY <2>1 DEF IInv, PlaceInv, Leaving, Starting, Control
  <2>3. PlaceInv'
    BY <1>4, <1>5, <2>1, <2>2 DEF IInv, PlaceInv, Nexts
  <2>4. AttemptInv'
    BY <1>4, <1>5, <2>1, <2>2 DEF IInv, AttemptInv, Nexts
  <2> QED
    BY <2>3, <2>4
<1>8. OwnInv'
  <2>1. Encoded(own)' = Encoded(own)
    BY DEF Point, Encoded
  <2> QED
    BY <1>1, <1>2, <1>4, <1>5, <2>1 DEF Point, IInv, OwnInv, History
<1>9. ClaimInv'
  <2>1. report' = report /\ effects' = effects /\ queueFile' = queueFile /\ pc = "point"
    BY DEF Point, History
  <2>2. report # "unconfirmed" => pc' = "report"
    <3>1. SUFFICES ASSUME report # "unconfirmed" PROVE call.next = "report"
      BY <1>5
    <3> QED
      BY <2>1, <3>1 DEF IInv, ClaimInv
  <2> QED
    BY <1>4, <1>5, <2>1, <2>2 DEF IInv, ClaimInv
<1> QED
  BY <1>1, <1>2, <1>3, <1>6, <1>7, <1>8, <1>9
  DEF Point, IInv, History, CurrentLoads, CurrentRaises, StopIntentSurvives, ClaimsFollowEffects

\* The device is told something: only with the uncertainty and, for a stop, the intent on disk.
LEMMA EffectStep == ASSUME IInv, NEW outcome \in Outcome, Effect(outcome) PROVE IInv'
<1> DEFINE starts == call.command \in Starting
<1>1. /\ call' \in CallType /\ call'.command = call.command
      /\ call'.next = call.next /\ call'.seen = call.seen
  <2>1. call' = [call EXCEPT !.outcome = outcome]
    BY DEF Effect
  <2> QED
    BY <2>1 DEF CallType, IInv, TypeOK
<1>2. /\ attempts' = IF starts THEN attempts + 1 ELSE attempts
      /\ starts => attempts < MaxAttempts
  BY DEF Effect, IInv, AttemptInv, Starting
<1>3. /\ stopsSent' \in {stopsSent, stopsSent \cup {own.attempt}}
      /\ stopsSent' # stopsSent => call.command = "stop"
  BY DEF Effect
<1>4. call.command \in Leaving => /\ own \in Snapshot /\ files[own.attempt] = Encoded(own)
                                  /\ Encoded(own) \in Record /\ Encoded(own).stop = own.stop
                                  /\ own.attempt \in Attempts
  BY EncodedKeeps DEF Effect, IInv, TypeOK, OwnInv
<1>5. call.command \in Starting \cup Leaving /\ pc = "effect" /\ pc' = "after"
  BY DEF Effect, Goes, IInv, PlaceInv
<1>6. /\ effects' \in {effects, effects + 1}
      /\ latest' \in {latest, effects'}
      /\ latest' # latest => call.command # "probe"
      /\ UNCHANGED <<files, active, queueFile, own, report, claimed>>
  BY DEF Effect, Disk
<1>7. TypeOK'
  <2>1. receiver' \in Sessions \cup {Theirs, None}
    BY DEF Effect, IInv, TypeOK
  <2>2. attempts' \in Nat /\ effects' \in Nat /\ latest' \in Nat /\ latest' <= effects'
    BY <1>2, <1>6 DEF IInv, TypeOK
  <2>3. stopsSent' \subseteq Attempts
    BY <1>3, <1>4 DEF IInv, TypeOK, Leaving
  <2> QED
    BY <1>1, <1>5, <1>6, <2>1, <2>2, <2>3 DEF IInv, TypeOK, Places
<1>8. PlaceInv'
  BY <1>1, <1>5 DEF IInv, PlaceInv
<1>9. AttemptInv'
  <2>1. starts => attempts' \in Attempts /\ files[attempts'] = None
    BY <1>2 DEF IInv, TypeOK, AttemptInv, Attempts
  <2>2. \A a \in Attempts : a > attempts' => files[a] = None
    BY <1>2 DEF IInv, TypeOK, AttemptInv, Attempts
  <2>3. own # None => own.attempt <= attempts'
    BY <1>2 DEF IInv, TypeOK, AttemptInv, Attempts, Snapshot
  <2> QED
    BY <1>1, <1>5, <1>6, <2>1, <2>2, <2>3 DEF AttemptInv
<1>10. OwnInv'
  <2>1. own' # None /\ own'.attempt \in stopsSent' => own'.stop
    BY <1>3, <1>5, <1>6 DEF IInv, OwnInv
  <2> QED
    BY <1>1, <1>4, <1>5, <1>6, <2>1 DEF IInv, OwnInv
<1>11. ClaimInv'
  <2>1. call.next = "effect" /\ report = "unconfirmed"
    BY <1>5 DEF IInv, PlaceInv, ClaimInv
  <2> QED
    BY <1>1, <1>5, <1>6, <2>1 DEF IInv, ClaimInv
<1>12. CurrentLoads'
  BY <1>6 DEF IInv, CurrentLoads, CurrentRaises
<1>13. StopIntentSurvives'
  <2>1. call.command = "stop" => own.stop
    BY <1>5 DEF IInv, OwnInv
  <2> QED
    BY <1>3, <1>4, <1>6, <2>1 DEF IInv, StopIntentSurvives, Leaving
<1>14. ClaimsFollowEffects'
  <2>1. call.command # "probe" => queueFile \notin Claims
    BY <1>5 DEF IInv, ClaimInv, Starting, Leaving
  <2> QED
    BY <1>6, <2>1 DEF IInv, ClaimsFollowEffects, Claims
<1> QED
  BY <1>7, <1>8, <1>9, <1>10, <1>11, <1>12, <1>13, <1>14 DEF IInv

\* A start that found its session saves it as an attempt of its own.
LEMMA StartAfterStep == IInv /\ StartAfter => IInv'
<1> SUFFICES ASSUME IInv, StartAfter PROVE IInv'
  OBVIOUS
<1>1. CASE Ends("unconfirmed") /\ UNCHANGED <<own, call>>
  BY <1>1, EndingStep DEF StartAfter
<1>2. CASE ~(Ends("unconfirmed") /\ UNCHANGED <<own, call>>)
  <2>1. /\ receiver \in Sessions
        /\ own' = [attempt |-> attempts, session |-> receiver, stop |-> FALSE, boundary |-> FALSE,
                   ended |-> FALSE, lost |-> FALSE, state |-> "unknown"]
        /\ pc' = "save" /\ report' = report
        /\ call' = [call EXCEPT !.next = "judge", !.seen = effects]
    BY <1>2 DEF StartAfter, Candidate, Goes
  <2>2. attempts \in Attempts /\ files[attempts] = None /\ attempts \notin stopsSent
    BY DEF StartAfter, IInv, AttemptInv, StopIntentSurvives, Starting
  <2>3. own' \in Snapshot /\ own'.attempt = attempts
    BY <2>1, <2>2 DEF Snapshot
  <2>4. /\ call' \in CallType /\ call'.command = call.command
        /\ call'.next = "judge" /\ call'.seen = effects
    BY <2>1 DEF CallType, Nexts, IInv, TypeOK
  <2>5. /\ UNCHANGED <<files, active, receiver, queueFile, attempts, stopsSent, effects, latest,
                       claimed>>
        /\ pc = "after" /\ call.command \in Starting
    BY DEF StartAfter, Disk, History, Starting
  <2>6. TypeOK'
    BY <2>1, <2>3, <2>4, <2>5 DEF IInv, TypeOK, Places
  <2>7. PlaceInv' /\ OwnInv'
    BY <2>1, <2>2, <2>3, <2>4, <2>5 DEF IInv, PlaceInv, OwnInv, Starting
  <2>8. AttemptInv'
    BY <2>1, <2>2, <2>3, <2>4, <2>5 DEF IInv, AttemptInv, Attempts
  <2>9. ClaimInv'
    BY <2>1, <2>4, <2>5 DEF IInv, ClaimInv
  <2> QED
    BY <2>5, <2>6, <2>7, <2>8, <2>9
    DEF IInv, CurrentLoads, CurrentRaises, StopIntentSurvives, ClaimsFollowEffects
<1> QED
  BY <1>1, <1>2

\* What was seen once the session was saved.
LEMMA JudgeStep == ASSUME IInv, NEW view, Judge(view) PROVE IInv'
<1>1. own' \in Snapshot /\ own'.attempt = own.attempt /\ own'.stop = own.stop /\ own \in Snapshot
  BY AppliedKeeps DEF Judge, IInv, TypeOK, OwnInv
<1>2. /\ call' \in CallType /\ call'.command = call.command
      /\ call'.next = "report" /\ call'.seen = effects
  <2>1. call' = [call EXCEPT !.next = "report"] /\ call.seen = effects
    BY DEF Judge, IInv, PlaceInv, ClaimInv
  <2> QED
    BY <2>1 DEF CallType, Nexts, IInv, TypeOK
<1>3. report' \in Claims \cup {"unconfirmed"} /\ pc' = "save" /\ pc = "judge"
  BY ReportedType DEF Judge, Goes
<1>4. UNCHANGED <<files, active, receiver, queueFile, attempts, stopsSent, effects, latest,
                  claimed>>
  BY DEF Judge, Disk, History
<1>5. TypeOK'
  BY <1>1, <1>2, <1>3, <1>4 DEF IInv, TypeOK, Places
<1>6. PlaceInv' /\ AttemptInv'
  BY <1>1, <1>2, <1>3, <1>4 DEF IInv, PlaceInv, AttemptInv
<1>7. OwnInv'
  BY <1>1, <1>2, <1>3, <1>4 DEF IInv, PlaceInv, OwnInv, Starting
<1>8. ClaimInv'
  BY <1>2, <1>3, <1>4 DEF IInv, ClaimInv
<1> QED
  BY <1>4, <1>5, <1>6, <1>7, <1>8
  DEF IInv, CurrentLoads, CurrentRaises, StopIntentSurvives, ClaimsFollowEffects

\* The window after an effect or a refusal.
LEMMA AfterStep == ASSUME IInv, NEW view, After(view) PROVE IInv'
<1>1. own' \in Snapshot /\ own'.attempt = own.attempt /\ own'.stop = own.stop /\ own \in Snapshot
  BY AppliedKeeps DEF After, IInv, TypeOK, OwnInv, Leaving
<1>2. /\ call' \in CallType /\ call'.command = call.command
      /\ call'.next = "report" /\ call'.seen = effects
  <2>1. call' = [call EXCEPT !.seen = effects, !.next = "report"]
    BY DEF After
  <2> QED
    BY <2>1 DEF CallType, Nexts, IInv, TypeOK
<1>3. report' \in Claims \cup {"unconfirmed"} /\ pc' = "save" /\ pc = "after"
  BY ReportedType DEF After, Goes
<1>4. /\ UNCHANGED <<files, active, receiver, queueFile, attempts, stopsSent, effects, latest,
                     claimed>>
      /\ call.command \in Leaving
  BY DEF After, Disk, History, Leaving
<1>5. TypeOK'
  BY <1>1, <1>2, <1>3, <1>4 DEF IInv, TypeOK, Places
<1>6. PlaceInv' /\ AttemptInv'
  BY <1>1, <1>2, <1>3, <1>4 DEF IInv, PlaceInv, AttemptInv
<1>7. OwnInv'
  BY <1>1, <1>2, <1>3, <1>4 DEF IInv, OwnInv
<1>8. ClaimInv'
  BY <1>2, <1>3, <1>4 DEF IInv, ClaimInv
<1> QED
  BY <1>4, <1>5, <1>6, <1>7, <1>8
  DEF IInv, CurrentLoads, CurrentRaises, StopIntentSurvives, ClaimsFollowEffects

\* The queue file is rewritten with what was seen since the last effect.
LEMMA ReportStep == IInv /\ Report => IInv'
<1> SUFFICES ASSUME IInv, Report PROVE IInv'
  OBVIOUS
<1>1. /\ UNCHANGED <<files, active, receiver, attempts, stopsSent, effects, latest>>
      /\ call' = NoCall /\ own' = None /\ report' = "unconfirmed" /\ pc' = "idle"
  BY DEF Report, Disk, Goes
<1>2. /\ queueFile' \in QueueState \cup {None} /\ claimed' \in Nat
      /\ queueFile' \in Claims => claimed' >= latest
  BY DEF Report, IInv, TypeOK, ClaimInv, ClaimsFollowEffects, QueueState, Claims, CallType
<1>3. TypeOK'
  BY <1>1, <1>2 DEF IInv, TypeOK, NoCall, CallType, Nexts, Places
<1>4. PlaceInv' /\ AttemptInv' /\ OwnInv' /\ ClaimInv'
  BY <1>1 DEF IInv, PlaceInv, AttemptInv, OwnInv, ClaimInv, NoCall
<1> QED
  BY <1>1, <1>2, <1>3, <1>4
  DEF IInv, CurrentLoads, CurrentRaises, StopIntentSurvives, ClaimsFollowEffects, Claims

\* A dead process leaves the disk as it was.
LEMMA CrashStep == IInv /\ Crash => IInv'
<1> SUFFICES ASSUME IInv, Crash PROVE IInv'
  OBVIOUS
<1>1. /\ UNCHANGED <<files, active, receiver, queueFile, attempts, stopsSent, effects, latest,
                     claimed>>
      /\ call' = NoCall /\ own' = None /\ report' = "unconfirmed" /\ pc' = "idle"
  BY DEF Crash, Disk, History, Goes
<1>2. TypeOK'
  BY <1>1 DEF IInv, TypeOK, NoCall, CallType, Nexts, Places
<1>3. PlaceInv' /\ AttemptInv' /\ OwnInv' /\ ClaimInv'
  BY <1>1 DEF IInv, PlaceInv, AttemptInv, OwnInv, ClaimInv, NoCall
<1> QED
  BY <1>1, <1>2, <1>3
  DEF IInv, CurrentLoads, CurrentRaises, StopIntentSurvives, ClaimsFollowEffects

\* Every step of every process.
LEMMA StepKeeps == IInv /\ [Next]_vars => IInv'
<1> SUFFICES ASSUME IInv, [Next]_vars PROVE IInv'
  OBVIOUS
<1>1. CASE Next
  <2>1. ASSUME NEW view \in View,
               \/ Status(view) \/ StopBaseline(view)
               \/ ControlBaseline(view) \/ Judge(view) \/ After(view)
        PROVE  IInv'
    BY <2>1, StatusStep, StopBaselineStep, ControlBaselineStep, JudgeStep, AfterStep
  <2>2. CASE Raise
    <3>1. CASE Shown
      BY <2>2, <3>1, EndingStep DEF Raise, Shown
    <3>2. CASE ~Shown
      BY <2>2, <3>2, EndingStep DEF Raise
    <3> QED
      BY <3>1, <3>2
  <2> QED
    BY <1>1, <2>1, <2>2, ReceiverStep, QueueStep, InvokeStep, MarkStep, StartBaselineStep,
       SaveKeeps, PointStep, EffectStep, StartAfterStep, ReportStep, CrashStep
    DEF Next
<1>2. CASE UNCHANGED vars
  BY <1>2 DEF vars, IInv, TypeOK, PlaceInv, AttemptInv, OwnInv, ClaimInv, CurrentLoads,
     CurrentRaises, StopIntentSurvives, ClaimsFollowEffects, Encoded
<1> QED
  BY <1>1, <1>2

\* The invariant always holds.
LEMMA Invariance == Spec => []IInv
BY InitHolds, StepKeeps, PTL DEF Spec

-----------------------------------------------------------------------------
\* For any number of commands and any crash between the two replacements of a save: what
\* active.json names can be loaded.
THEOREM ActiveIsLoadable == Spec => []CurrentLoads
<1>1. IInv => CurrentLoads
  BY DEF IInv
<1> QED
  BY <1>1, Invariance, PTL

\* For any later commands, crashes and reconnections: a session the device was told to end
\* keeps its stop intent on disk.
THEOREM StopIntentsLast == Spec => []StopIntentSurvives
<1>1. IInv => StopIntentSurvives
  BY DEF IInv
<1> QED
  BY <1>1, Invariance, PTL

\* For any command, failure or death at any step: what the queue file claims was seen after
\* the last effect of a start, stop, pause or resume; only a probe may follow it.
THEOREM ClaimsAreCurrent == Spec => []ClaimsFollowEffects
<1>1. IInv => ClaimsFollowEffects
  BY DEF IInv
<1> QED
  BY <1>1, Invariance, PTL
=============================================================================
