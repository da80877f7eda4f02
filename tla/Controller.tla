----------------------------- MODULE Controller -----------------------------
(***************************************************************************)
(* One command after another, each a process of its own: the command line  *)
(* of src/tellyq/controller.py over the use cases of                       *)
(* src/tellyq/application.py and the snapshots of SessionFiles.            *)
(*                                                                         *)
(* A process holds the command lock from its first read to its last write. *)
(* It may die between any two of its steps, and the device, the receiver   *)
(* and the file system may refuse it at any step.  Somebody else may use   *)
(* the receiver at any time.  What an observation window says of the       *)
(* session is one of `Views'; how it is concluded is in EvidencePolicy.    *)
(* One device, one programme; reports, discovery and the unversioned       *)
(* session file of earlier releases are left out.                          *)
(***************************************************************************)
EXTENDS SessionFiles

CONSTANTS
    Theirs,           \* a receiver session of somebody else
    MaxEffects        \* bound on the commands sent to the device

Control  == {"pause", "resume"}
Commands == {"start", "probe", "status", "stop"} \cup Control

QueueState ==
    {"queued", "starting", "playing", "failed", "unconfirmed", "stopped", "finished"}

\* SessionSnapshot, as far as its owner decides by it; boundary: a stop was requested in
\* this process, ended: completion is not None.
Snapshot ==
    [attempt : Attempts, session : Sessions, stop : BOOLEAN, boundary : BOOLEAN,
     ended : BOOLEAN, lost : BOOLEAN, state : {"unknown", "playing", "stopped", "ended"}]

\* The device does it, now or never, and says so or not; a refusal had no effect.
Outcome == {"accepted", "unknown", "rejected"}

ASSUME DeviceAssumption ==
    /\ Theirs \notin Sessions \cup {None} /\ MaxEffects \in Nat
    /\ None \notin Snapshot \cup QueueState \cup Commands \cup Outcome

VARIABLES
    receiver,         \* external: the session running on the receiver
    queueFile,        \* state of the item in queue.json; None: no such file
    pc,               \* where the process is; "idle": no process runs
    call,             \* the command, whether it rewrites the queue, its receipt, what
                      \* follows its next save, and the sessions of its baseline
    own,              \* the snapshot it works on
    report,           \* report["state"]
    attempts,         \* attempts so far
    stopsSent,        \* history: attempts whose session the device was told to leave
    effects,          \* history: effects sent
    latest,           \* history: number of the last of them that was not a probe's
    claimed           \* history: effects sent before what the queue file says was seen

vars == <<files, active, receiver, queueFile, pc, call, own, report, attempts, stopsSent,
          effects, latest, claimed>>

NoCall == [command |-> None, rewrites |-> FALSE, outcome |-> None, next |-> "effect",
           earlier |-> {}, seen |-> 0]

Init ==
    /\ FilesInit
    /\ receiver = None
    /\ queueFile = None
    /\ pc = "idle"
    /\ call = NoCall
    /\ own = None
    /\ report = "unconfirmed"
    /\ attempts = 0
    /\ stopsSent = {}
    /\ effects = 0 /\ latest = 0 /\ claimed = 0

Disk     == <<files, active>>
History  == <<attempts, stopsSent, effects, latest, claimed>>

-----------------------------------------------------------------------------
(* Evidence.                                                               *)

\* What a window may show of a session; a window may show nothing.
Views(session) ==
    {"nothing"} \cup
        CASE receiver = session -> {"alive", "playing", "finished", "canceled"}
          [] receiver = None    -> {"exit"}
          [] OTHER              -> {"other"}

Ours(view) == view \in {"alive", "playing", "finished", "canceled"}

\* _apply() of one window.
Applied(t, view) ==
    IF t.lost THEN t
    ELSE CASE view = "other" -> [t EXCEPT !.lost = TRUE, !.state = "unknown"]
           [] view = "exit" /\ t.boundary -> [t EXCEPT !.state = "stopped"]
           [] view = "exit" /\ ~t.boundary -> [t EXCEPT !.lost = TRUE, !.state = "unknown"]
           [] view = "canceled" /\ t.stop -> [t EXCEPT !.state = "stopped"]
           [] view = "finished" /\ ~t.stop -> [t EXCEPT !.ended = TRUE, !.state = "ended"]
           [] view = "playing" /\ ~t.ended -> [t EXCEPT !.state = "playing"]
           [] OTHER -> [t EXCEPT !.state = IF t.ended THEN "ended" ELSE "unknown"]

\* Mutant of Reconciled: the stop intent is not carried over.
ReconciledAnew(t) ==
    [t EXCEPT !.stop = FALSE, !.boundary = FALSE, !.lost = FALSE, !.state = "unknown"]

\* The snapshot that _reconcile() begins with on a connection of its own.
Reconciled(t) == [t EXCEPT !.boundary = FALSE, !.lost = FALSE, !.state = "unknown"]

\* _reconcile() raises unless the window shows the saved session alive.
Reconciles(t, view) == t # None /\ Ours(view)

\* _result_report()
Reported(t) ==
    IF t = None THEN "unconfirmed"
    ELSE IF t.state \in {"playing", "stopped"} THEN t.state
    ELSE IF t.ended THEN "finished" ELSE "unconfirmed"

-----------------------------------------------------------------------------
(* The receiver.                                                           *)

ReceiverChanges ==
    /\ receiver' \in {None, Theirs} \ {receiver}
    /\ UNCHANGED <<Disk, queueFile, pc, call, own, report, History>>

-----------------------------------------------------------------------------
(* The process.                                                            *)

Goes(place) == pc' = place

\* The queue command replaces the queue file.
Queue ==
    /\ pc = "idle"
    /\ queueFile' = "queued"
    /\ claimed' = effects
    /\ UNCHANGED <<Disk, receiver, pc, call, own, report, attempts, stopsSent, effects,
                   latest>>

MayStart == queueFile \in {"queued", "stopped", "finished", "failed"}

\* execute() up to the first change: everything is read and checked first.
Invoke(command) ==
    /\ pc = "idle"
    /\ effects < MaxEffects
    /\ ~CurrentRaises
    /\ command = "start" => MayStart
    /\ command \in {"start", "probe"} => attempts < MaxAttempts
    /\ own' = Current
    /\ call' = [NoCall EXCEPT !.command = command]
    /\ report' = "unconfirmed"
    /\ Goes("mark")
    /\ UNCHANGED <<Disk, receiver, queueFile, History>>

\* Mutant of Marked: the uncertainty is recorded only with the result.
MarkedLater(command) == queueFile

\* What the queue file says before the effect.
Marked(command) ==
    IF queueFile = None THEN None
    ELSE CASE command = "start"                   -> "starting"
           [] command \in Control \cup {"stop"}   -> "unconfirmed"
           [] OTHER                               -> queueFile

Mark ==
    /\ pc = "mark"
    /\ queueFile' = Marked(call.command)
    /\ call' = [call EXCEPT !.rewrites =
                  queueFile # None /\ call.command \in Control \cup {"start", "stop"}]
    /\ Goes("baseline")
    /\ UNCHANGED <<Disk, receiver, own, report, History>>

\* Only a status that returns rewrites the queue file, and only an unsettled one.
StatusRewrites == queueFile \in {"starting", "playing", "unconfirmed"}

\* Beyond the last step that may fail only the reports are written.
Ends(state) ==
    /\ report' = state
    /\ Goes("report")

\* The first window of _start() may miss the session that is there.
StartBaseline ==
    /\ pc = "baseline" /\ call.command \in {"start", "probe"}
    /\ \E earlier \in SUBSET {receiver} : call' = [call EXCEPT !.earlier = earlier]
    /\ Goes("effect")
    /\ UNCHANGED <<Disk, receiver, queueFile, own, report, History>>

\* status(): a session that cannot be reconciled is not saved, its end is lost with the
\* process that saw it.
Status(view) ==
    /\ pc = "baseline" /\ call.command = "status"
    /\ IF Reconciles(own, view)
       THEN /\ own' = Applied(Reconciled(own), view)
            /\ report' = Reported(own')
            /\ Goes("save")
            /\ call' = [call EXCEPT !.seen = effects, !.next = "report"]
       ELSE /\ Ends("unconfirmed")
            /\ call' = [call EXCEPT !.rewrites = StatusRewrites]
            /\ UNCHANGED own
    /\ UNCHANGED <<Disk, receiver, queueFile, History>>

\* The first window of _stop(), and the intent.
StopBaseline(view) ==
    /\ pc = "baseline" /\ call.command = "stop"
    /\ IF Reconciles(own, view)
       THEN /\ own' = [Applied(Reconciled(own), view) EXCEPT !.stop = TRUE, !.boundary = TRUE]
            /\ Goes("save")
            /\ UNCHANGED report
       ELSE Ends("unconfirmed") /\ UNCHANGED own
    /\ UNCHANGED <<Disk, receiver, queueFile, call, History>>

\* The first window of _run_control(); without the receiver's support its result is the
\* snapshot, any other refusal is raised (Raise).
ControlBaseline(view) ==
    /\ pc = "baseline" /\ call.command \in Control
    /\ IF own # None /\ ~own.stop /\ Reconciles(own, view)
       THEN /\ own' = Applied(Reconciled(own), view)
            /\ call' = [call EXCEPT !.seen = effects]
            /\ \/ Goes("save") /\ UNCHANGED report
               \/ Ends(Reported(own'))
       ELSE Ends("unconfirmed") /\ UNCHANGED <<own, call>>
    /\ UNCHANGED <<Disk, receiver, queueFile, History>>

\* store.save(): the record, then the pointer.
Save ==
    /\ pc = "save"
    /\ SaveStep(1, own)
    /\ Goes("point")
    /\ UNCHANGED <<receiver, queueFile, call, own, report, History>>

Point ==
    /\ pc = "point"
    /\ SaveStep(2, own)
    /\ call' = [call EXCEPT !.rewrites = @ \/ (call.command = "status" /\ StatusRewrites)]
    /\ Goes(call.next)
    /\ UNCHANGED <<receiver, queueFile, own, report, History>>

\* A probe plays the programme like a start, but bypasses the queue: its file is neither
\* marked before nor rewritten after.
Effect(outcome) ==
    /\ pc = "effect"
    /\ call' = [call EXCEPT !.outcome = outcome]
    /\ LET done == outcome # "rejected"
           starts == call.command \in {"start", "probe"} IN
       /\ receiver' \in {receiver} \cup
            CASE ~done \/ call.command \in Control -> {}
              [] done /\ starts                    -> Sessions
              [] OTHER                             -> {None}
       /\ effects' = IF done THEN effects + 1 ELSE effects
       /\ latest' = IF done /\ call.command # "probe" THEN effects + 1 ELSE latest
       /\ attempts' = IF starts THEN attempts + 1 ELSE attempts
       /\ stopsSent' = IF done /\ call.command = "stop" THEN stopsSent \cup {own.attempt}
                       ELSE stopsSent
    /\ Goes("after")
    /\ UNCHANGED <<Disk, queueFile, own, report, claimed>>

\* The second window of _start(): a session is owned when it shows this programme, and,
\* when the start was not confirmed, was not there before.
Candidate ==
    /\ call.outcome # "rejected"
    /\ receiver \in Sessions
    /\ call.outcome = "accepted" \/ receiver \notin call.earlier

StartAfter ==
    /\ pc = "after" /\ call.command \in {"start", "probe"}
    /\ \/ /\ Candidate
          /\ own' = [attempt |-> attempts, session |-> receiver, stop |-> FALSE,
                     boundary |-> FALSE, ended |-> FALSE, lost |-> FALSE, state |-> "unknown"]
          /\ call' = [call EXCEPT !.next = "judge", !.seen = effects]
          /\ Goes("save")
          /\ UNCHANGED report
       \/ /\ Ends("unconfirmed")
          /\ UNCHANGED <<own, call>>
    /\ UNCHANGED <<Disk, receiver, queueFile, History>>

\* The rest of that window is applied to the session that was just saved.
Judge(view) ==
    /\ pc = "judge"
    /\ own' = Applied(own, view)
    /\ report' = Reported(own')
    /\ call' = [call EXCEPT !.next = "report"]
    /\ Goes("save")
    /\ UNCHANGED <<Disk, receiver, queueFile, History>>

\* The second window of _stop() and _run_control().  After an effect it outlasts the
\* evidence of the first; after a refusal that may still stand.
After(view) ==
    /\ pc = "after" /\ call.command \in Control \cup {"stop"}
    /\ \/ own' = Applied(own, view)
       \/ call.outcome = "rejected" /\ view \in {"nothing", "alive"} /\ own' = own
    /\ report' = IF call.command = "stop" /\ Reported(own') # "stopped" THEN "unconfirmed"
                 ELSE Reported(own')
    /\ call' = [call EXCEPT !.seen = effects, !.next = "report"]
    /\ Goes("save")
    /\ UNCHANGED <<Disk, receiver, queueFile, History>>

\* Once the second window is applied and only its save is left, _failed() returns a result
\* with a snapshot; unless the command was accepted _result_report() returns with what that
\* snapshot shows, before it looks at the failure.
Shown ==
    /\ pc \in {"save", "point"} /\ call.next = "report"
    /\ call.outcome \in {"unknown", "rejected"}

\* Any other exception, and one between the result and its report, leaves it uncertain.
Raise ==
    /\ pc # "idle"
    /\ Ends(IF Shown THEN report ELSE "unconfirmed")
    /\ UNCHANGED <<Disk, receiver, queueFile, call, own, History>>

\* The queue file is rewritten last.
Report ==
    /\ pc = "report"
    /\ \/ /\ call.rewrites
          /\ queueFile' = report
          /\ claimed' = IF report = "unconfirmed" THEN effects ELSE call.seen
       \/ UNCHANGED <<queueFile, claimed>>
    /\ Goes("idle")
    /\ call' = NoCall /\ own' = None /\ report' = "unconfirmed"
    /\ UNCHANGED <<Disk, receiver, attempts, stopsSent, effects, latest>>

\* The process dies; the lock dies with it.
Crash ==
    /\ pc # "idle"
    /\ Goes("idle")
    /\ call' = NoCall /\ own' = None /\ report' = "unconfirmed"
    /\ UNCHANGED <<Disk, receiver, queueFile, History>>

View == IF own = None THEN {"nothing"} ELSE Views(own.session)

Next ==
    \/ ReceiverChanges
    \/ Queue \/ \E command \in Commands : Invoke(command)
    \/ Mark \/ StartBaseline
    \/ \E view \in View : Status(view) \/ StopBaseline(view) \/ ControlBaseline(view)
                              \/ Judge(view) \/ After(view)
    \/ Save \/ Point
    \/ \E outcome \in Outcome : Effect(outcome)
    \/ StartAfter \/ Raise \/ Report \/ Crash

Spec == Init /\ [][Next]_vars

-----------------------------------------------------------------------------
\* What the pointer names can always be loaded: no crash leaves the commands without the
\* session they could control.
CurrentLoads == ~CurrentRaises

\* Once the device was told to end a session, its record says so to every later process:
\* no status, no control and no crash lets a stop look as if it had never been asked for.
StopIntentSurvives == \A a \in stopsSent : files[a] # None /\ files[a].stop

\* The queue file never claims that the programme plays, ended or was stopped on what was
\* seen before the last start, stop, pause or resume sent to the device.  Only a probe may
\* follow what it claims: the diagnostic that bypasses the queue leaves the file as it is.
ClaimsFollowEffects == queueFile \in {"playing", "stopped", "finished"} => claimed >= latest
=============================================================================
