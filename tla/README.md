# Verification of tellyq

## The system

tellyq plays a fixed list of programmes on one Cast receiver.  It separates a
foreground owner process, which holds the device locks and the only connection
to the receiver, from clients that talk to it over a local socket, and keeps
every decision and every command in a SQLite journal so that a restart never
repeats an effect.

| Part (src/tellyq) | State it keeps | Operations | Interacts with | Hard behaviour | What makes it correct |
|---|---|---|---|---|---|
| `runner.py` foreground owner | mailbox, reserved stop, active ticket, cancellation latch, cached snapshot, owner thread, file locks | start, submit, stop, cancel, shutdown; take, step, handle, clean up | clients (threads), the task, other processes through lock files | client calls against the owner thread; failures at every step; shutdown races | tickets settle exactly once, cancellation beats plays, an accepted stop is handled, locks outlive the task |
| `queue_store.py`, `domain/queue.py` journal | queue, item, attempt, command, reservation, operation rows; revision; owner generation | prepare, dispatch, record, settle, recover; native reserve, adopt, clear, exit | executors, playback and native tasks | long call sequences, recovery by a new owner, late outcomes | every reachable history loads, earlier owners are fenced, attention stops the queue |
| `queue_execution.py`, `native_queue_execution.py` executors | none (program counter of a call) | execute, record, recover | journal, device operation, cancellation latch | crash at every step, outcome write that fails after committing, cancellation between claim and call | at most one invocation per claim, nothing invoked before its claim is durable |
| `domain/policy.py`, `domain/values.py` session evidence | one immutable session snapshot | advance by observation, record intent, record receipt | application, tasks | sequence gaps, late observations across a release or stop boundary | completion and stop are only ever concluded from fresh evidence of this session |
| `domain/queue_policy.py` queue decision | none | decide | playback task | evidence of different ages, cancellation | never starts a successor over a receiver that is not known idle |
| `handoff.py` release observation | tracker with terminal and first veto | start, track, ready | playback task, controller | replayed and batched events | a veto is permanent |
| `playback_task.py` legacy owner task | sessions, pending release, evidence cursor | step, command, close | runner, executor, policies, controller | cancellation from another thread, unconfirmed effects | holds the queue after anything ambiguous |
| `native_task.py`, `native_observation.py` native owner task | owned scope, pending stop, observation | step, command, adopt | runner, native executor, journal, controller | adoption before snapshot save, reconnects, time-limited stop | never fills a second reservation, never releases over one |
| `application.py`, `session_store.py` one-session application | active pointer, session file | start, observe, stop, release | policy, controller | crash between two file writes | intent is durable before its effect |
| `runner_ipc.py`, `runner_codec.py` local IPC | ticket map, retained history, socket endpoint | serve, submit, status, close; client retries | runner | bounded history, stale sockets | a retried request returns the same ticket |
| `service.py`, `service_cli.py`, `__main__.py`, `mcp.py` | threads, signal flags | run, stop | runner, IPC | exit loops | leaves only with the runner finished |
| `cast_backend.py`, `cast.py`, `cast_messages.py`, `youtube_*.py` receiver | connection, poll counter, identity witnesses, event buffer | poll, observe, launch, play, stop, release | pychromecast | reconnects, delayed replies, bounded histories | a status is only attributed to the poll it answers; identity loss is never forgotten |
| `controller.py`, `state.py` one-shot commands | `queue.json`, the command lock, reports | queue, start, probe, status, pause, resume, stop | application, session store, device | a process that dies between its writes, another one after it | the queue file claims nothing seen before the last start, stop, pause or resume |
| `lifecycle.py`, `checkpoint.py`, `service_checkpoint.py`, `scripts/` | local variables of one run, reports | captures and acceptance runs | device | one run at a time | nothing reads what they write |

## Modules

| Module | Models | Code it stands for |
|---|---|---|
| `SessionRunner` | `ForegroundSessionRunner`: clients, owner thread, lock files | `runner.py` |
| `RunnerIPC` | the endpoint of that runner and of a second service on the same directory | `runner_ipc.py`, `service.py` |
| `QueueStore` | `SQLiteQueueStore`: the rows of one queue, every transaction | `queue_store.py`, `domain/queue.py` |
| `EffectLedger` | abstract: what an executor promises about effects | `docs/QUEUE-EXECUTION.md`, "Dispatch sequence" |
| `QueueExecutor` | both claim-before-invoke executors, composed with `QueueStore` | `queue_execution.py`, `native_queue_execution.py` |
| `EvidencePolicy` | one session's snapshot, advanced by observations and by the application | `domain/policy.py`, `domain/values.py`, the snapshot changes of `application.py` |
| `Handoff` | operators: the snapshot as the task reads it, the release tracker, the receiver check | `handoff.py`, `domain/queue_policy.py` |
| `PlaybackTask` | the task of a running service over a queue it plays item by item | `playback_task.py`, the use cases of `application.py` |
| `NativeTracking` | operators: the trackers of a queue the receiver plays by itself | `native_observation.py` |
| `NativeTask` | the task of a running service over such a queue | `native_task.py` |
| `StatusPoll` | status polls, their answers and the socket thread | `cast.py`, `cast_messages.py` |
| `IdentityWitnesses` | operators: the bounded record of who was seen, and the takeover query | `cast_backend.py` |
| `CastBackend` | the adapter over `StatusPoll`: normalization and the guards of every effect | `cast_backend.py` |
| `SessionFiles` | the snapshot files and the active pointer | `session_store.py`, `state.py` |
| `Controller` | one-shot commands, each a process, over `SessionFiles` | `controller.py`, `application.py` |
| `MC*` | small instances for TLC | |
| `WindowFolds` | lemmas: induction along an observation window | |
| `*_proofs` | theorems; those of `SessionRunner` are in `RunnerIPC_proofs` and those of `QueueStore` in `QueueExecutor_proofs`, whose modules extend them | |

How they compose.  `RunnerIPC` extends `SessionRunner`: every request it lets through is
one of the runner's own actions.  `QueueExecutor` extends `QueueStore` and is shown to
implement `EffectLedger`.  `CastBackend` extends `StatusPoll` and instantiates
`IdentityWitnesses`.  `Controller` extends `SessionFiles`, `PlaybackTask` extends
`Handoff`, `NativeTask` extends `NativeTracking`.

What one module shows another takes for granted at its boundary.  `EvidencePolicy` says
how a snapshot comes to its conclusions, from every field of an observation; the tasks
and the controller read only those conclusions, and their observations are reduced to
what they say of the owned session.  `CastBackend` says what an observation may be
believed to say.  `QueueExecutor` has every step of a claim; the tasks keep those between
which somebody else can act, and of the journal the rows they decide by.  The tasks run on the owner
thread of `SessionRunner`, one call after another, beside its cancellation latch.

`QueueExecutor` extends `QueueStore`: each of its journal writes is the store's
own action, and the store never moves otherwise, so every execution of the
executors is an execution of the journal (lemma `StoreStep`), and what is proved
of the journal holds under them.

### SessionRunner

A client call runs under the runner's condition from its first to its last
statement, so it is one action: `Start` and `StartFails` (`start`), `Submit`
(`submit` of a regular command), `Stop` (`stop`, and `submit` of a stop),
`Cancel`, `Shutdown`.  Refused calls and calls that find their identity known
change nothing and are disabled guards.  The blocking tails of `start` and
`shutdown` only wait, so they are not steps.  `Forget` is the caller's own: a
settled ticket that nobody refers to may be made again.

The owner thread leaves the condition to call its task, and its program counter
`pc` stops at each of those points: `acquire`, `locked`, `claimed` (ownership
published), `built`, `loop`, `stepping`, `handling`, then the two `finally`
blocks of `_run` around the closing of the task (`cleanup`, `close`, `release`,
`exit`).  Client actions interleave at all of them.  Every task call may return or
raise.  The mailbox deque is a set with, for each ticket, the tickets in front of
it; `_publish` is the operator `Publish`, used by exactly the actions that publish.
`TypeOK` includes the mailbox's bound (`Mailboxes`) and that of the published count, which
may be one more, for the reserved stop.
The two lock files are one `lock`, which another process may take and drop.

### QueueStore

Each public method of `SQLiteQueueStore` that changes rows is one action, since
each is one `BEGIN IMMEDIATE` transaction; its guards are the method's checks.
An item is its position.  There is at most one attempt per item and one
reservation per predecessor (UNIQUE constraints of the schema), so rows are
functions of the item.  A native operation is identified by its reservation and
its action.  The revision counter is left out here: a call with another revision
raises and changes nothing.  It returns in `QueueExecutor`, where it decides.

`_changed` loads the whole queue again before it commits and refuses a change
whose result does not load.  The model states that validation as an invariant
(`HistoryLoads`) and not as a guard: if the methods' own checks were too weak, the
run would show it.  They are sufficient but for one call, a rejected `play_next`
recorded after its successor was adopted, and that refusal is the guard
`ReloadAccepts`.

### EffectLedger and QueueExecutor

`QueueExecutor` is the owner's thread inside `execute()`: `Execute` (the caller
hands over a request decided on a loaded snapshot), `Historical`, `Prepare`,
`Claim`, `Reload`, `GuardAllows` / `GuardRefuses`, `Invoke` / `OperationRefuses`,
`Record`, and `Raise` where a write is refused or fails.  A write may also commit
and then fail to report it (`Committed`), as when the process is interrupted
between `COMMIT` and the return.  `ConcurrentStop` is another connection, or a
call of the same owner, that cancels or holds the queue between any two steps;
`Crash` may happen anywhere and `Recover` is the first thing a new owner does.

A revision check compares the counter in hand with the row; since every write
moves the counter it fails exactly when somebody else has written since, and
that is the variable `stale`.  `late` is a history variable: the stop arrived
after the reload, inside the one gap no check covers.

`EffectLedger` has three variables for each effect: what the journal says, how
often the receiver was asked, what it answered.  The refinement mapping takes
the journal's status from the row's state (`StatusOf`); the other two are the
executor's own variables.  A recovery, which marks every dispatched row
uncertain, maps to one `Doubt` step.

### EvidencePolicy

The policy is a pure function: snapshot and observation in, snapshot out.  The
module keeps that shape.  `Observe(o)` is `observe` of an observation it accepts,
and the operators it is built from are the function's branches in their order:
`Refreshed`, `Accepts`, `Tracked` (the gap), `Judged` (reset, exit, foreign,
heartbeat, history) and `Media` / `Content` (identity, ads, continuity, end,
progress).  An observation that is not accepted has only `refresh`'s effect, which
is the action `Refresh`.  The other actions are the application's own changes of
the snapshot: `RequestStop`, `RequestRelease`, `WithdrawRelease`, `RecordReceipt`,
`Disown` (`status` of an ended session that can no longer be reconciled) and
`InvalidateHistory`.

The adapter is the environment: an observation with any sample, any number and any
earlier time may come next, so observations are late, lost, repeated and reordered
freely.  The session and application identifiers of a sample are one field;
contents are this session's or another.  A release receipt is kept as the one bit
that is ever read of it.  What `_reconcile` does, giving a snapshot a new scope
after a reconnect, is in `Handoff` and `Controller` (`Reconciled`).

Two history variables serve the properties alone: `watch`, the accepted
observations that follow one another without a missing number, and `seen`, times
of requests and exits.  The properties are written over them, so that they do not
repeat the snapshot's own bookkeeping: `CompletionWitnessed` does not ask whether an
anchor was set, it asks for the two samples between which the position advanced and
for the unbroken watch from there to the end.  One fact is weaker than one might
expect: after a gap followed by a heartbeat the evidence still says `playing`, as it
describes the latest sample, so `ConfirmedByAdvance` speaks of the step at which
playback becomes confirmed.

### StatusPoll, IdentityWitnesses and CastBackend

The owner's thread is inside `observe()` or `observe_until()`; the socket thread may deliver a
message between any two of its steps.  `pc` is where the owner is: `loop`, `sending` (the
lock is released while the library numbers and sends the request, and the number appears in an
object the observer already holds), `normalize` (a drained batch, one event at a time),
`candidate` and `recheck` (an answer is accepted only after the poll is retired and the queue
was read again), `tail`, and `abandon` for a call that failed. A call may fail (`CallFails`)
wherever it polls, waits, drains, normalizes or asks `ready()`, between any two events of a
batch; only `observe()` normalizes when the transport has already returned, so that an
interrupt there leaves the queue alone (`CutShort`).  An interrupt inside the translation of
one event, and a second one while the first is being handled, are left out. `ReceiveAnswer`,
`ReceiveBroadcast`, `ReceiveMedia` and `ConnectionLost` are the callbacks.

The receiver is external and may say anything; a request of this connection may be
answered at any later time or never, and a lost connection numbers its requests from 1
again, so that an answer may carry the number of another poll.  `Asked` marks which
poll an answer really belongs to.  It is history: the code sees the number alone, and
`AbsenceIsCurrent` relates the two.

`CastBackend` takes the events one by one (`Normalize`), keeps the last receiver and media
status, and the witnesses of `Remembered`: for each field, the latest sighting of the last
two different values.  `log` is history, everything seen on this connection.
`WitnessesSuffice` says that the few answer `TakenOver` as the log would.  Each effect
(`Stop`, `Control`, `NativeQueue`) takes any scope of any generation and any time, and its
guard decides; `EffectsOwned` judges by the log what was let out.  The log holds what was
normalized: a sighting that was abandoned is in neither.

`reconnect` is the one run that expects a violation.  `docs/m1/application.md:35` says that a
reconnect invalidates cached identity, `docs/M2-CONTROLS.md:98` that "reconnecting starts with
fresh evidence".  When an observation call raises, the queue is drained into raw records only
(`Abandon`, `cast_backend.py:470-475` and `501-508`); a reset among them is never normalized,
and receiver, media, witnesses and generation of the lost connection stay in force for what is
observed next.  `EffectsOwned` holds all the same in `link`: the witnesses stay too, so the
old scope is refused as soon as another identity shows.

### SessionFiles and Controller

Each command is a process of its own that holds the command lock from its first read to its
last write; it may die (`Crash`) or fail (`Raise`) at any step.  The steps are those that
something outside sees: `Mark` (the queue file says what is uncertain), the baseline window,
`Save` and `Point` (the two file replacements of one `save()`), `Effect`, the second window,
and `Report`, which rewrites the queue file last.  A window is one of `Views`: what it shows
of the session, or nothing.  `Decoded` is what a later process knows of a session: no
evidence, no end, no moment of a stop request, but the stop intent.

`call.next` is what follows a save: the effect, the judgement of a start's second window, or
the report.  A failure of the last save after an answer that was not an acceptance is reported
with what the snapshot shows (`Shown`), any other failure as unconfirmed (`Raise`).

The histories: `stopsSent`, the attempts the device was told to leave; `effects`, how many
effects were sent, `claimed`, how many of them before what the queue file claims was seen, and
`latest`, the number of the last one that was not a probe's.  `ClaimsFollowEffects` asks that
`claimed` is not behind `latest`.  A probe is left out on purpose: it plays on the device
like a start, but `controller.py:319-324` neither marks nor rewrites the queue file for it,
as the repository's `README.md:174-175` says: it is a direct diagnostic that bypasses the owner
and the persistent queue.  After a probe the queue file may claim what was seen before it.

### Handoff and PlaybackTask

A window is a short sequence of observations, each one of the kinds the task tells
apart, with a mark: it may follow a missing number, come late, or be stale when it is
judged.  `Seen` is `policy.observe`, `Reconciled` is `_reconcile`, `Tracked` is `track_release`.

`step()` is one of `StatusStep`, `ObserveStep`, `ReleaseStep`, `HandoffStep`;
`handle()` one of `StartCommand`, `StopCommand`, `ControlCommand`.  A command then passes
`Claim`, `EnterOperation` (the guard is asked for the first time), `Baseline` (a window, some
seconds long), `CheckQueue` and `Send` (the guard reads the journal, then the latch), `After`
and `Record`.  Between any two of them another thread may request cancellation
(`CancelRequested`), another connection may cancel the queue (`OtherCancels`), and the
process may die; `Restart` is `_recover_queue`.

`unrest` and `halted` are histories: whether anything observed since the end of the owned
playback contradicts it, and whether a cancellation preceded the close of the last window.

### NativeTracking and NativeTask

The receiver plays the queue by itself; the task enqueues one successor while its predecessor
plays and adopts it when its playback is seen.  The trackers of `native_observation.py` are
the operators `Tracks` and `Ready`; the tracker of a successor may still see its predecessor's
content until its own was entered.  `_observe_native()` runs in steps, and may be called by
`step()`, by a STOP and at its conclusion: `Observe` (rotated on another connection, tracked
on this one), `ReconcileCurrent`, `Adopt` (in the journal) and `Save` (the snapshot) with a
crash between them; then `FinishStop` or `StopNow`, `StopOperation`, `Conclude`, `Stage` and
`Enqueue`.  A stop that arrives during a handoff is kept (`pending`) until one of the two
contents is known to be there, or ten seconds have passed; when they have is an open choice of
`FinishStop`. The launch of the first item and the effect of a STOP are one step each, as
their own steps are those of `PlaybackTask`.

`witness` is history, from the observations alone: the successor's session and its
playback were seen on one connection and nothing else in between, and for which handoff
a stop is kept.

### RunnerIPC

Two independent parts share the module because the same process runs both.  The registry:
a request is handled under the registry lock, so it is one action, and any request may be
repeated at any time since its reply may be lost.  The runner forgets settled tickets, so
what keeps a command from running twice is the registry, which refuses new identities
when it is full.  `HandleStop`, `HandleHostedStop` and `HandleStopAgain` are the three ways a
stop is answered; `HostStop` is the service's own.

The endpoint: `start()` and `_cleanup_endpoint` as their system calls, on one path, one
lease file and inode numbers the file system may reuse; a second service does the same and
may die anywhere (`TheirDeath`).

## Runs

| Run | Question | Instance |
|---|---|---|
| `runner` | do tickets settle once, is a stop honoured, do the locks cover the task, over all interleavings of clients, owner, failures and another process; with fairness, does every ticket settle, does a shutdown complete, does a due step begin | six tickets (start, pause, resume, release, two stops; one stop reuses the start's identity), mailbox capacity 2 |
| `ipc` | is a command accepted once however often a client repeats it, is a listening endpoint reachable | five tickets, three of one identity, a registry of one; two services, two inodes |
| `store` | does every history of calls load, is an earlier owner fenced, one play per item, no release under a reservation | two items in either mode, three identities, one recovery |
| `executor_legacy` | do the executors implement the ledger, does a stop bar effects | two items, three identities, start / stop / release, one crash |
| `executor_native` | the same over start / play_next / clear, and is each item asked for once | two items, two identities, one crash |
| `evidence_watch` | are playback and a natural end concluded only from an unbroken watch of this content | ten samples, four time units, freshness 2, history invalidated at any time |
| `evidence_leave` | do a stop and a release rest on later evidence, is a conclusion final | five samples, six time units, freshness 1, all requests and receipts at any time |
| `task` | does a start find an idle receiver and a release an unbroken end, does nothing play after a cancellation | two items, windows of up to two observations with every mark, one reset, crashes |
| `native` | is a successor adopted only when witnessed, does a kept stop reach only its handoff, does the journal lead the sessions | three items, windows of up to two observations, one STOP, one lost connection, crashes |
| `link` | is absence believed only from the current poll, do the witnesses suffice, do effects leave only for a session that is still owned | two windows, two requests, three callbacks, two time units |
| `reconnect` | does a reconnection start with fresh evidence (no: see above) | as `link` |
| `controller` | does the pointer always load, does a stop intent survive, was every claim of the queue file seen after the last start, stop, pause or resume | two attempts, four effects, two sessions, any number of commands and crashes |

Why these bounds are enough for the interesting cases.

- Runner: with capacity 2 a third regular command meets a full mailbox, a stop
  arrives at a full mailbox, and cancellation has to remove one ticket in front
  of another.  The reused identity makes `Known` matter.  `Forget` makes the
  number of commands in a lifetime unbounded.
- Endpoint: two tickets of one command, and a stop under the same identity, are what a
  retry can look like after the first was forgotten; with a registry of one a second
  identity finds it full.  Two inodes are enough for one to be reused while the other
  service still remembers it.
- Store: two items give a settled and a current one, or a reservation with its adoption
  and the first item's late outcomes; three identities let one be reused.  One recovery
  separates earlier from present rows.
- Executors: one crash, at any of the eight program points, with a second owner
  that may execute every identity again.  `Asked` and `Settlements` bound the
  actions requested and the settlements between calls; stopping and skipping
  differ from them only in the item's label.
- Evidence: the shortest natural end takes three accepted observations, and a second end,
  which must not count, takes six; `evidence_leave` has time for both, and `evidence_watch`
  for one with a gap, an ad, a heartbeat or another playback anywhere in it.  Freshness 2
  separates an anonymous end attributed to a recent sample from one that came too late.
  `Observe` considers gaps of one number, as the code treats every gap alike.  A silence in
  which evidence expires fits into four time units only once, so that what follows it is
  better covered by the theorems.  `KeepWatch` drops the history `watch` where no property
  reads it, `Changes` the requests a run is not about.
- Task: the shortest hand-over takes four windows (start, end, release, idle) and numbers up
  to 10 leave room for two more, a gap or a reset anywhere among them.  Windows of two
  observations contain those where the later one decides (`<<"idle", "play">>`) and where the
  terminal is not the last.  Observations of different windows are never compared by time.
- Native: three items let the task stage a second successor after it adopted the first,
  so that a tracker, a reservation or a kept stop of an earlier handoff could be
  mistaken for the present one.  In both tasks a process loses its connection once
  (`MaxResets`): the code only compares generations, and two of them give either answer.
- Link: within two time units evidence never grows too old for an effect; the properties are
  about who was seen, not when.  Two windows let an answer of the first arrive in the second;
  two requests on each of up to four connections let a number recur; three callbacks let
  somebody else be seen and the owner's session come back, or a reset fall between two
  statuses.
- Controller: two attempts let the pointer name the older one while the record of the newer is
  written; four effects let one follow a stop whose record another command rewrote, and a
  probe come between the two.  Commands that are only refused, and crashes, are not bounded.
- Command identities are interchangeable and each run of the store and the
  executors declares that symmetry, the controller's run that of its sessions; none of
  these runs has a liveness property.

Deadlock is checked in the runs of the runner, the evidence, the tasks and the
controller.  `CHECK_DEADLOCK FALSE` is set for the store and the executors, where a queue
whose items are settled and whose identities are used up is finished and the generation
bound stops recoveries; for the link, where clock, callbacks and windows are
bounded; and for `ipc`, where a closed endpoint is the end.

## Fairness

Only `SessionRunner` has liveness properties.  `FairSpec` assumes

- weak fairness of the owner thread: it is a running thread, and the
  `RunnerTask` protocol asks that its calls return;
- weak fairness of `StepBecomesDue`: time passes;
- strong fairness of taking a mailbox head: the next step is due a positive
  interval after the last one returned, and the owner looks at the mailbox at
  once when it is not due, so due steps cannot come first for ever.

Nothing is assumed of clients, and nothing of the other process: if it keeps
the lock, `OwnershipFails` is what the nonblocking lock does.

## Proofs

The theorems hold for every value of the constants that satisfies the named
assumptions: `RunnerAssumption` (finitely many tickets, a positive capacity,
`NoTicket` no ticket), `StoreAssumption` and `RowAssumption` (at least one item,
known modes and controls, `None` no row and no item), `ExecutorAssumption` (the
requests are actions the store has; a command identity is no native operation),
`HandoffAssumption`, `ItemAssumption` and the two `WindowAssumption`s (at least one item,
windows are sequences of what an observation may say, `None` is no snapshot, tracker or
number), and those named below.  In particular the bounds of the runs (`MaxNumber`,
`MaxStops`, `MaxResets`, `Windows`) are arbitrary in the theorems.

**SessionRunner** (in `RunnerIPC_proofs`).  `IInv` is `TypeOK` and four parts.  `QueueInv`
says where tickets of each state are (queued ones are exactly the mailbox and a queued
reserved stop) and that a latched cancellation left no play among them; `OwnerInv` ties `pc`
to the active ticket, the closing flag and the published phase; `StopInv` says that a canceled
stop has its failure recorded and published; `LockInv` ties `pc` to the lock, the task and
`owns`.  None of the invariants checked by the runs is inductive alone: that no ticket is
stranded at the end needs to know what the cleanup before it did.  From `IInv` follow
`NothingStranded`, `CancellationWins`, `StopIsHonoured`, `OwnershipIsCovered`, and
`SettledOnce`, an action property.

**QueueStore** (in `QueueExecutor_proofs`).  `IInv` conjoins `TypeOK`, the two parts of
`HistoryLoads`, `AttentionStopsQueue`, `NoReleaseUnderReservation` and `History`, which keeps
what the rows remember and the loader does not ask: an item without an attempt is pending, the
successor of a reservation has no local start, a release belongs to a decided attempt, and
nothing of an earlier generation is still dispatched. From it follow `EveryHistoryLoads`,
`PlayedOnce`, `AttentionStops`, `ReleaseWaits` and the action property
`EarlierOwnersAreFenced`.

**QueueExecutor.**  `ExecIInv` adds to the store's `IInv` that a program counter
inside a call has its row in the state that point implies (`CallInv`: past the
claim the row is dispatched, before `Invoke` its effect was not performed, and the
verdict in hand is the receiver's), and that nothing is performed twice or with a
row that is absent or pending (`PerformedInv`).  `StoreStep` shows that every step is a step of the
store or leaves it alone, which carries the store's invariant over.
`AskedAtMostOnce` combines `PerformedInv` with the store's one play per item;
`StopsBarEffects` needs `GapInv`, that between the reload and the call only `late`
can make the queue stopped; `ImplementsLedger` is the refinement, by
`LedgerStart` and a case per action in `LedgerStep`.

**EvidencePolicy.**  From `PolicyAssumption` and `NoneAssumption` (the freshness
window holds the progress interval, an exit names no session, `None` is no
observation).  The policy is a composition of functions of a snapshot, and there is
one lemma for each: `Keeps` and `Follows` say that it returns a good snapshot with the
same request and completion, `Advances` that only a session without a stop request may
complete.  `PolicyTypeOK` is inductive because of its coherent part: an end that is
attributed to the anchor needs the anchor to be an exact, earlier sample.  `StepGood`
gives `PolicyTypeCorrect` and `ConclusionsAreFinal` together.

`StopsAreObserved` and `ReleasesAreObserved` follow from `Observed`, which adds
`Remembered` to the type invariant: the snapshot's boundaries are never earlier than the
requests in the history `seen`, and a release that is confirmed has its boundary
between the last unrest and the exit.  A second family of lemmas (`...Shows`) says what
each function of the policy may conclude from one observation.

`CompletionsAreWitnessed` and `ConfirmationsAdvance` relate entries of the history `watch`,
which is kept while `KeepWatch` holds; that is their hypothesis.  The snapshot keeps an
anchor, a start of progress and a bit `confirmed`, the history keeps observations, and
`WatchInv` ties the two: the progress is that of one entry of the watch and everything
recorded since is an exact sample of the same playback (`Measured`); a confirmed snapshot has
two entries between which the position advanced, and from the later one on every entry is a
heartbeat or renews the playback in time (`Proved`, `Chain`); the watch has each number once
and ends at the last one accepted (`Numbered`).  None of this is visible in the snapshot
alone, which forgets every sample but the latest, so the property is not inductive without it.

**CastBackend.**  From `PollAssumption` and `AdapterAssumption` (`None` is no identity and
nothing a message says, an absent application has no identity).  `AdapterInv` has two halves.
`PollInv` strengthens `AbsenceIsCurrent` by these facts: a poll is pending only while the
owner may still await it (`PendingInv`); request numbers of the open requests are used ones
and the number of the pending poll belongs to no other (`NumberInv`), which is where a
reconnection, that starts the numbers again, must have retired the poll; and what lies behind
the last drained batch at the end of a call tells of no absence (`TailInv`, with `UntilInv`:
`observe()` drains only there).  The other half, for `WitnessesSuffice`, is `Ordered`
(sightings have different instants) and `Answers`: whoever was seen with another value of a
field is outlived by a witness with another value of that field.  `RememberedAnswers` picks
that witness as the greatest of a bounded set of instants, by well-founded induction on the
naturals. `EffectsAreOwned` adds `EffectInv`: the receiver status kept is one of the sightings
in the log, so that what a guard reads there was really reported; that nobody took the scope
over on the whole log is `AnswersAgree` again, as the guard only asks the witnesses.

**WindowFolds.**  The trackers fold a window with a recursive function.  No theorem can be
stated about such a function for every operator it might apply, as the provers cannot
instantiate an operator parameter; but the operator can be handed over as a function of the
window's positions.  `FoldExists` says, by well-founded induction on the naturals, that such
a fold has a value, and `Along` that what each observation keeps, the window keeps.  With
them `NativeTask_proofs` and `PlaybackTask_proofs` show of a whole window what they show
of one observation.

**PlaybackTask.**  The guards of a start and of a release look at the tracker, whereas
`unrest` looks at each window as a whole.  `IInv` closes that distance with `TrackInv`:
there is a tracker exactly while the followed session has ended, it has taken in every
number up to the last window (`Taken`), and it is blocked if anything since the end, shown or
missing, contradicts it.  `TrackInv` is kept along a window by `TrackedTakes`, which needs that
the adapter's numbers only rise and that a number is missing where the mark says so (`Rising`): a
window is given to the tracker twice, by `_observed()` and by `_accept()`, once alone and once
behind the window before the effect, and the second time must change nothing (`AcceptedAgain`).
`Continues` and `SnapInv` say that a snapshot the application computes is of the session
being followed and that an end never changes, also across a reconnection; `StartInv`
and `QueueInv` keep what `decide_queue()` found until the effect.  `CancelInv`
is the argument for `CancellationStopsPlays`: neither of the two readings of `_may_effect()`
suffices alone, but a cancellation of the journal that came after the claim has touched it, and the
latch never falls while the process lives.  From `IInv` follow `StartsAreClean`,
`ReleasesAreClean` and `CancellationStopsPlays`.

**NativeTask.**  A window is folded by the trackers and by the history `witness`.  `WitnessInv`
says that the tracker of a successor, unless it refused, has seen what the history says was
said; `SuccessorInv` and `AwaitedInv` that a tracker is of the reservation outstanding
now, on the present connection, and that a successor without a tracker has no history yet;
`QueueInv` that attempts are made in order and only the latest has a reserved
successor; `OwnInv`, `CurrentInv` and `ClaimInv` which attempt and connection the sessions belong
to; `StopInv` that a kept stop carries its handoff and connection.  From them follow
`JournalIsAhead`, `AdoptionIsWitnessed` and `KeptStopStaysInScope`.

**RunnerIPC.**  From `IPCAssumption`.  `ListenersAreReachable` rests on `EndpointInv`: between
taking and dropping the lease a service holds it alone, and only a holder changes the
path.  `EndpointKeepsRunner` shows that the composition is a `SessionRunner`, so that the
theorems above hold of it; with them `AcceptedInv` (what was accepted is the runner's stop
or is still registered, one ticket for an identity) gives `CommandsAreAcceptedOnce`.

**Controller.**  From `FilesAssumption` and `DeviceAssumption` (`None` is no record, snapshot, state
or command).  `IInv` conjoins the three properties with `PlaceInv` (which command may be
where, with which receipt), `AttemptInv` (an attempt that is being started has no record
yet), `OwnInv` (past `Save` the record on disk is that of the snapshot in hand, and a stop
has its intent there before its effect) and `ClaimInv` (past `Mark` the queue file claims
nothing, except during a probe or a status, which leave it alone, and a report that claims
something was seen after the last effect of all, as nobody else runs meanwhile).  That a probe
may come after what the file claims is why the theorem speaks of `latest`, not of `effects`.
From it follow `ActiveIsLoadable`,
`StopIntentsLast` and `ClaimsAreCurrent`.

**Only model-checked:** `EveryTicketSettles`, `ShutdownCompletes` and `DueStepRuns`, which are
liveness under fairness, beyond the provers at hand.  `ReconnectStartsAfresh` does not hold.
Every invariant and every action property of a passing run is a theorem.

## Not modelled

- Timestamps, formats and codecs of rows, snapshots and messages (`runner_codec.py`,
  `models.py`, the field validation of `cast_messages.py`, `youtube_state.py`,
  `youtube_metadata.py`): stateless conversions of one value.
- The import of a legacy state file and the schema migration of the journal
  (`import_legacy`, `_migrate`): one-shot conversions, run once before the first owner.
- Argument and manifest parsing (`__main__.py`, `service_cli.py`), `mcp.py`, which wraps the client,
  and the client's own deadlines and the saturation of the server's threads in `runner_ipc.py`: a
  request that is refused or times out may be repeated at any time, which is modelled.
- PAUSE and RESUME of `NativeTask`: the same path as in `PlaybackTask`, over the journal rows of
  `QueueStore`.
- The diagnostic views of the tasks (`_handoff`, the `TaskView`): they change nothing.
- `lifecycle.py`, `checkpoint.py`, `service_checkpoint.py` and `scripts/`: operator tools that
  drive a live device once; nothing in the service reads what they write.
- `clock.py`, `programs.py`: the clock is the models' `now`, the programmes are their items.
- pychromecast and the YouTube receiver: external.  They appear as the answers, statuses
  and outcomes the actions choose from.

## Plan

Modelled and checked: every module of the table above.  Proved: every safety property of a
passing run.  Left, in this order.

1. The task over the ledger: a history of what the device was asked in `PlaybackTask`, checked
   and proved to implement `EffectLedger` as `QueueExecutor` does, so that the reduced claim of
   the task is tied to the full one.
2. The same for `NativeTask` and its enqueues, and its reservations as steps of `QueueStore`.
3. `Handoff.Seen` against `EvidencePolicy.Observe`: what the tasks read of a snapshot is what
   the policy concludes.
