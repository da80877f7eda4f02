----------------------------- MODULE StatusPoll -----------------------------
(***************************************************************************)
(* Status polls of the receiver and their answers: src/tellyq/cast.py with *)
(* the decoding of src/tellyq/cast_messages.py.                            *)
(*                                                                         *)
(* The owner's thread polls inside observe() and observe_until(); the      *)
(* library's socket thread delivers messages and connection changes at any *)
(* time.  The receiver and the library are external: a status may say      *)
(* anything and answer any open request; a lost connection takes its open  *)
(* requests with it, and the next one numbers its requests from 1 again.   *)
(* `now' has the resolution of the deadlines; two callbacks never share an *)
(* instant, and `order' is their order.                                    *)
(***************************************************************************)
EXTENDS Integers, Sequences

CONSTANTS
    Apps,             \* what the receiver may be running
    Absent,           \* the member of Apps that stands for no application
    Media,            \* what a media status may say
    None,             \* Python's None
    PollEvery,        \* seconds between two polls
    Windows,          \* lengths of the observation windows
    Horizon,          \* bound on the clock
    MaxCallbacks,     \* bound on the callbacks
    MaxRounds,        \* bound on the observation windows
    MaxRequests       \* bound on the requests of one connection

ASSUME PollAssumption ==
    /\ Absent \in Apps
    /\ None \notin Apps /\ None \notin Media
    /\ PollEvery \in Nat \ {0}
    /\ Windows \subseteq Nat \ {0}
    /\ Horizon \in Nat /\ MaxCallbacks \in Nat /\ MaxRounds \in Nat /\ MaxRequests \in Nat

\* The poll a message answers: `round' and `conn' are those it was sent in.
Asked == [round : Nat, conn : Nat]

\* A request the receiver has not answered; asked is None for those of the library.
Request == [id : Nat, asked : Asked \cup {None}]

\* An Observation in the observer's queue.
Event ==
    [kind : {"receiver", "invalid", "reset", "media"}, body : Apps \cup Media \cup {None},
     order : Nat, at : Nat, conn : Nat, asked : Asked \cup {None}]

Place == {"idle", "loop", "sending", "normalize", "candidate", "recheck", "tail", "abandon"}

VARIABLES
    now,              \* monotonic()
    order,            \* callbacks so far
    requests,         \* external: requests of this connection that may yet be answered
    conn,             \* external: connections so far
    counter,          \* external: request numbers used on this connection
    pending,          \* Observer._status_request with its deadline; id 0 is not assigned yet
    events,           \* Connection.events
    left,             \* how many of them the owner has drained and not normalized yet
    pc,               \* where the owner's thread is
    poll,             \* the call's locals: is it observe_until, end, next_poll, and
                      \* the place that drained the batch
    round             \* history: observation windows so far

pollVars == <<now, order, requests, conn, counter, pending, events, left, pc, poll, round>>

\* No call is running, so it has no locals.
NoCall == [until |-> FALSE, end |-> 0, next |-> 0, stage |-> "loop"]

PollInit ==
    /\ now = 0 /\ order = 0 /\ conn = 0 /\ counter = 0 /\ round = 0
    /\ requests = {}
    /\ events = <<>> /\ left = 0
    /\ pending = None
    /\ pc = "idle"
    /\ poll = NoCall

-----------------------------------------------------------------------------
(* The receiver and the library.                                           *)

\* A request that the receiver answers with its status, later or never.
Requests(asked) ==
    /\ counter < MaxRequests
    /\ counter' = counter + 1
    /\ requests' = requests \cup {[id |-> counter + 1, asked |-> asked]}

\* A request of the library's own, on the same counter.
LibraryRequests ==
    /\ Requests(None)
    /\ UNCHANGED <<now, order, conn, pending, events, left, pc, poll, round>>

Tick ==
    /\ now < Horizon
    /\ now' = now + 1
    /\ UNCHANGED <<order, requests, conn, counter, pending, events, left, pc, poll, round>>

-----------------------------------------------------------------------------
(* The socket thread, under the observer's lock.                           *)

Queued(kind, body, asked) ==
    /\ order < MaxCallbacks
    /\ order' = order + 1
    /\ events' = Append(events, [kind |-> kind, body |-> body, order |-> order + 1,
                                 at |-> now, conn |-> conn, asked |-> asked])

Expired == pending # None /\ now >= pending.deadline

\* _matching_request_id()
Matches(id) ==
    /\ pending # None
    /\ ~Expired
    /\ pending.id > 0
    /\ id = pending.id

\* receive_message() of a receiver status, `said' None when it cannot be decoded; an
\* absent application is believed only as the answer to the current poll.
Received(id, asked, said) ==
    LET believed == said # None /\ (said = Absent => Matches(id)) IN
    /\ Queued(IF believed THEN "receiver" ELSE "invalid", IF believed THEN said ELSE None, asked)
    /\ pending' = IF Expired \/ Matches(id) THEN None ELSE pending

\* The answer to a request, however late.
ReceiveAnswer(request, said) ==
    /\ request \in requests
    /\ Received(request.id, request.asked, said)
    /\ requests' = requests \ {request}
    /\ UNCHANGED <<now, conn, counter, left, pc, poll, round>>

\* A broadcast has no request number.
ReceiveBroadcast(said) ==
    /\ Received(0, None, said)
    /\ UNCHANGED <<now, requests, conn, counter, left, pc, poll, round>>

\* receive_message() of a media status, in the other observer.
ReceiveMedia(m) ==
    /\ Queued("media", m, None)
    /\ UNCHANGED <<now, requests, conn, counter, pending, left, pc, poll, round>>

\* Mutant of Retired: a lost connection leaves the poll pending.
KeptPending == pending

\* cancel_status_request(), and the first half of new_connection_status()
Retired == None

\* new_connection_status() of a lost connection, and the reconnection.
ConnectionLost ==
    /\ Queued("reset", None, None)
    /\ conn' = conn + 1
    /\ counter' = 0
    /\ requests' = {}
    /\ pending' = Retired
    /\ UNCHANGED <<now, left, pc, poll, round>>

-----------------------------------------------------------------------------
(* The owner's thread.                                                     *)

Earlier(a, b) == IF a <= b THEN a ELSE b

Goes(place) == pc' = place

OwnerOnly == UNCHANGED <<now, order, conn, round>>

\* observe() or observe_until() begins.
Begin(until, seconds) ==
    /\ pc = "idle"
    /\ round < MaxRounds
    /\ round' = round + 1
    /\ poll' = [NoCall EXCEPT !.until = until, !.end = now + seconds, !.next = now]
    /\ Goes("loop")
    /\ UNCHANGED <<now, order, requests, conn, counter, pending, events, left>>

\* request_status() up to the release of the lock.
AskStatus ==
    /\ pc = "loop"
    /\ now < poll.end /\ now >= poll.next
    /\ poll' = [poll EXCEPT !.next = Earlier(poll.end, now + PollEvery)]
    /\ pending' = [id |-> 0, deadline |-> poll'.next]
    /\ Goes("sending")
    /\ OwnerOnly
    /\ UNCHANGED <<requests, counter, events, left>>

\* The library numbers the request, in the very object the observer holds, and sends it.
RequestSent ==
    /\ pc = "sending"
    /\ Requests([round |-> round, conn |-> conn])
    /\ pending' = IF pending = None THEN None ELSE [pending EXCEPT !.id = counter + 1]
    /\ Goes("loop")
    /\ OwnerOnly
    /\ UNCHANGED <<events, left, poll>>

\* The finally clause: the poll is retired, the queue is drained afterwards.
Finally(place) ==
    /\ pending' = Retired
    /\ Goes(place)
    /\ OwnerOnly
    /\ UNCHANGED <<requests, counter, events, left, poll>>

\* A request cannot be sent, ready() raises, or an interrupt; observe() hands its batch on
\* only after the transport has returned.
CallFails ==
    /\ pc \notin {"idle", "abandon"}
    /\ pc = "normalize" => poll.until
    /\ Finally("abandon")

\* A batch is drained; it stays in front of what is queued meanwhile.
Drain(stage) ==
    /\ events # <<>>
    /\ left' = Len(events)
    /\ poll' = [poll EXCEPT !.stage = stage]
    /\ Goes("normalize")
    /\ OwnerOnly
    /\ UNCHANGED <<requests, counter, pending, events>>

\* observe_until() is woken by a callback.
Wake ==
    /\ pc = "loop" /\ poll.until
    /\ now < poll.end /\ now < poll.next
    /\ Drain("loop")

WindowCloses ==
    /\ pc = "loop"
    /\ now >= poll.end
    /\ Finally("tail")

\* One event of the batch goes through the adapter.
TakeOne ==
    /\ pc = "normalize"
    /\ left > 0
    /\ left' = left - 1
    /\ events' = Tail(events)
    /\ OwnerOnly
    /\ UNCHANGED <<requests, counter, pending, pc, poll>>

\* ready() has judged the batch; whatever was queued meanwhile is judged as well.
Judge(complete) ==
    /\ pc = "normalize" /\ left = 0 /\ poll.stage # "tail"
    /\ IF poll.until /\ events # <<>>
       THEN complete /\ left' = Len(events) /\ UNCHANGED <<pc, poll>>
       ELSE /\ left' = 0
            /\ poll' = IF poll.stage = "candidate" /\ ~complete
                       THEN [poll EXCEPT !.next = now] ELSE poll
            /\ Goes(IF ~complete THEN "loop"
                    ELSE IF poll.stage = "loop" THEN "candidate" ELSE "tail")
    /\ OwnerOnly
    /\ UNCHANGED <<requests, counter, pending, events>>

\* A candidate is accepted only after the poll is retired and the queue read again; the
\* finally clause then finds nothing to retire.
RetireCandidate ==
    /\ pc = "candidate"
    /\ pending' = Retired
    /\ Goes("recheck")
    /\ OwnerOnly
    /\ UNCHANGED <<requests, counter, events, left, poll>>

Recheck ==
    /\ pc = "recheck"
    /\ \/ Drain("candidate")
       \/ /\ events = <<>>
          /\ Goes("tail")
          /\ OwnerOnly
          /\ UNCHANGED <<requests, counter, pending, events, left, poll>>

\* Mutant of TailLeft: what arrived since the last drain waits for the next window.
TailSkipped == FALSE

TailLeft == events # <<>>

\* The rest of the queue belongs to this window too; observe() drains once.
TailDrain ==
    /\ pc = "tail"
    /\ TailLeft
    /\ Drain("tail")

TailDone ==
    /\ \/ pc = "tail" /\ ~TailLeft
       \/ pc = "normalize" /\ left = 0 /\ poll.stage = "tail" /\ (poll.until => events = <<>>)
    /\ Goes("idle")
    /\ poll' = NoCall
    /\ OwnerOnly
    /\ UNCHANGED <<requests, counter, pending, events, left>>

TailAgain ==
    /\ pc = "normalize" /\ left = 0 /\ poll.stage = "tail" /\ poll.until
    /\ Drain("tail")

\* drain_pending() after a failure: what was queued is recorded and not looked at.
Abandon ==
    /\ pc = "abandon"
    /\ events' = <<>>
    /\ left' = 0
    /\ Goes("idle")
    /\ poll' = NoCall
    /\ OwnerOnly
    /\ UNCHANGED <<requests, counter, pending>>

\* An interrupt while observe() normalizes: the rest of its batch is lost, what was queued
\* meanwhile waits for the next window.
CutShort ==
    /\ pc = "normalize" /\ ~poll.until
    /\ events' = SubSeq(events, left + 1, Len(events))
    /\ left' = 0
    /\ Goes("idle")
    /\ poll' = NoCall
    /\ OwnerOnly
    /\ UNCHANGED <<requests, counter, pending>>

-----------------------------------------------------------------------------
\* An application's absence is read from the queue only inside the window in which it was
\* asked for, on the connection on which it arrived: no late answer, no answer to somebody
\* else's request and none of an earlier connection can pass for the exit of a stop.
AbsenceIsCurrent ==
    \A i \in DOMAIN events :
        events[i].kind = "receiver" /\ events[i].body = Absent =>
            /\ pc # "idle"
            /\ events[i].asked = [round |-> round, conn |-> events[i].conn]
=============================================================================
