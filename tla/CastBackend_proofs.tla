------------------------- MODULE CastBackend_proofs -------------------------
(***************************************************************************)
(* TLAPS proofs about the adapter, for every receiver, every clock and     *)
(* every number of polls, callbacks and reconnections.                     *)
(***************************************************************************)
EXTENDS CastBackend, SequenceTheorems, WellFoundedInduction, TLAPS

USE PollAssumption

-----------------------------------------------------------------------------
(* The witnesses of IdentityWitnesses: whoever was seen with another value *)
(* of a field is outlived by a witness with another value of that field.   *)

\* A bounded, inhabited set of numbers has a greatest one.
LEMMA Greatest ==
    ASSUME NEW n \in Nat, NEW T, T \subseteq 0..n, T # {}
    PROVE  \E x \in T : \A y \in T : y <= x
<1> DEFINE R == OpToRel(<, Nat)
           U == {n - x : x \in T}
<1>1. U \subseteq Nat /\ U # {}
  <2>1. \A x \in T : n - x \in Nat
    OBVIOUS
  <2>2. PICK x \in T : TRUE
    OBVIOUS
  <2>3. n - x \in U
    OBVIOUS
  <2> QED
    BY <2>1, <2>3
<1>2. IsWellFoundedOn(R, Nat)
  BY NatLessThanWellFounded
<1>3. PICK m \in U : \A k \in U : ~(<<k, m>> \in R)
  <2> HIDE DEF R, U
  <2> QED
    BY <1>1, <1>2, WFMin
<1>4. \A k \in U : ~(k < m)
  BY <1>1, <1>3 DEF OpToRel
<1>5. PICK x \in T : m = n - x
  OBVIOUS
<1> SUFFICES ASSUME NEW y \in T PROVE y <= x
  OBVIOUS
<1>6. ~(n - y < m)
  BY <1>4
<1> QED
  BY <1>5, <1>6

Ordered(S, n) == \A e \in S : e.order \in 0..n

\* e says of f something that is not v.
Differs(e, f, v) == e.ids[f] # None /\ e.ids[f] # v

\* H answers for L.
Answers(H, L) ==
    /\ H \subseteq L
    /\ \A f \in Fields : \A v : \A e \in L :
          Differs(e, f, v) => \E d \in H : d.order >= e.order /\ Differs(d, f, v)

\* What _remember_identity() keeps answers for what it was given.
LEMMA RememberedAnswers ==
    ASSUME NEW n \in Nat, NEW S, Ordered(S, n)
    PROVE  Answers(Remembered(S), S)
<1> SUFFICES ASSUME NEW f \in Fields, NEW v, NEW e \in S, Differs(e, f, v)
             PROVE  \E d \in Remembered(S) : d.order >= e.order /\ Differs(d, f, v)
  BY DEF Answers, Remembered
<1> DEFINE D == {d \in S : Differs(d, f, v)}
           T == {d.order : d \in D}
<1>1. T \subseteq 0..n /\ T # {}
  BY DEF Ordered
<1>2. PICK x \in T : \A y \in T : y <= x
  <2> HIDE DEF T
  <2> QED
    BY <1>1, Greatest
<1>3. PICK d \in D : d.order = x
  OBVIOUS
<1>4. \A c \in D : c.order <= d.order
  BY <1>2, <1>3
<1>5. \A c \in Later(S, d, f) : c.ids[f] = v
  BY <1>3, <1>4 DEF Later, Differs, Ordered
<1>6. Witnesses(S, d, f)
  BY <1>3, <1>5 DEF Witnesses, Differs
<1> QED
  BY <1>3, <1>4, <1>6 DEF Remembered

\* One sighting more, on both sides.
LEMMA AnsweringIsKept ==
    ASSUME NEW n \in Nat, NEW H, NEW L, NEW o, Ordered(L, n), o.order \in 0..n, Answers(H, L)
    PROVE  Answers(Remembered(H \cup {o}), L \cup {o})
<1> DEFINE S == H \cup {o}
<1>1. Answers(S, L \cup {o})
  BY DEF Answers, Ordered
<1>2. Ordered(S, n) /\ Ordered(L \cup {o}, n)
  BY DEF Answers, Ordered
<1>3. Answers(Remembered(S), S)
  BY <1>2, RememberedAnswers
<1> HIDE DEF S
<1> SUFFICES ASSUME NEW f \in Fields, NEW v, NEW e \in L \cup {o}, Differs(e, f, v)
             PROVE  \E d \in Remembered(S) : d.order >= e.order /\ Differs(d, f, v)
  BY <1>1, <1>3 DEF Answers, S
<1>4. PICK d \in S : d.order >= e.order /\ Differs(d, f, v)
  BY <1>1 DEF Answers
<1>5. PICK c \in Remembered(S) : c.order >= d.order /\ Differs(c, f, v)
  BY <1>3, <1>4 DEF Answers
<1> QED
  BY <1>2, <1>4, <1>5 DEF Ordered, Remembered

\* An answering set gives every scope the same answer.
LEMMA AnswersAgree ==
    ASSUME NEW n \in Nat, NEW H, NEW L, Ordered(L, n), Answers(H, L), NEW scope,
           scope.started \in Nat
    PROVE  TakenOver(scope, H) <=> TakenOver(scope, L)
<1>1. TakenOver(scope, H) => TakenOver(scope, L)
  BY DEF TakenOver, Answers
<1>2. ASSUME NEW e \in L, NEW f \in Fields, e.order > scope.started,
             Differs(e, f, scope.ids[f])
      PROVE  TakenOver(scope, H)
  <2>1. PICK d \in H : d.order >= e.order /\ Differs(d, f, scope.ids[f])
    BY <1>2 DEF Answers
  <2> QED
    BY <1>2, <2>1 DEF TakenOver, Differs, Ordered, Answers
<1> QED
  BY <1>1, <1>2 DEF TakenOver, Differs

-----------------------------------------------------------------------------
(* The polls of StatusPoll.                                                *)

Stage == {"loop", "candidate", "tail"}

Call == [until : BOOLEAN, end : Nat, next : Nat, stage : Stage]

PollType ==
    /\ now \in Nat /\ order \in Nat /\ conn \in Nat /\ counter \in Nat /\ round \in Nat
    /\ requests \subseteq Request
    /\ pending \in [id : Nat, deadline : Nat] \cup {None}
    /\ events \in Seq(Event)
    /\ \A i \in 1..Len(events) : events[i].order <= order
    /\ left \in 0..Len(events)
    /\ pc \in Place
    /\ poll \in Call

\* An event that says that no application runs.
AbsentAt(i) == events[i].kind = "receiver" /\ events[i].body = Absent

\* A poll is pending only inside its window, and its number is that of no other request;
\* what is queued once a window has read its queue for the last time is no absence.
PendingInv ==
    pending # None => \/ pc \in {"loop", "sending", "candidate"}
                      \/ pc = "normalize" /\ poll.stage = "loop"

NumberInv ==
    /\ \A r \in requests : r.id <= counter
    /\ pending # None /\ pending.id > 0 =>
          /\ pending.id <= counter
          /\ \A r \in requests : r.id = pending.id => r.asked = [round |-> round, conn |-> conn]

TailInv ==
    pc = "normalize" /\ poll.stage = "tail" =>
        \A i \in 1..Len(events) : i > left => ~AbsentAt(i)

\* observe() drains once, at its end.
UntilInv ==
    \/ poll.until
    \/ pc = "normalize" /\ poll.stage = "tail"
    \/ pc \notin {"normalize", "candidate", "recheck"}

PollInv == AbsenceIsCurrent /\ PendingInv /\ NumberInv /\ TailInv /\ UntilInv

\* The steps of the polls.
Callbacks ==
    \/ \E said \in Apps \cup {None} :
          ReceiveBroadcast(said) \/ \E request \in requests : ReceiveAnswer(request, said)
    \/ \E m \in Media : ReceiveMedia(m)
    \/ ConnectionLost

PollActions ==
    \/ LibraryRequests \/ Tick \/ Callbacks \/ Owner \/ TakeOne
    \/ TailDone \/ Abandon \/ CutShort
    \/ \E until \in BOOLEAN, seconds \in Windows : Begin(until, seconds)
    \/ UNCHANGED pollVars

\* A step of the adapter is one of the owner's poll, of the socket thread, or of neither.
LEMMA PollsAct == window \in Windows /\ [Next]_vars => PollActions
<1> SUFFICES ASSUME window \in Windows, [Next]_vars PROVE PollActions
  OBVIOUS
<1>1. CASE LibraryRequests \/ Tick \/ Owner \/ Normalize \/ CallEnds
  BY <1>1 DEF PollActions, Normalize, CallEnds
<1>2. CASE Callback
  BY <1>2 DEF PollActions, Callback, Callbacks
<1>3. ASSUME NEW until \in BOOLEAN, Observe(until) PROVE PollActions
  <2>1. window \in Windows
    OBVIOUS
  <2> QED
    BY <1>3, <2>1 DEF PollActions, Observe
<1>4. CASE Effects
  <2>1. LibraryRequests \/ UNCHANGED pollVars
    BY <1>4 DEF Effects, Start, Stop, Control, NativeQueue
  <2> QED
    BY <2>1 DEF PollActions
<1>5. CASE UNCHANGED vars
  BY <1>5 DEF vars, PollActions
<1> QED
  BY <1>1, <1>2, <1>3, <1>4, <1>5 DEF Next

\* One more event at the end of the queue.
LEMMA Appended ==
    ASSUME NEW e \in Event, NEW s \in Seq(Event)
    PROVE  /\ Append(s, e) \in Seq(Event) /\ Len(Append(s, e)) = Len(s) + 1
           /\ \A i \in 1..Len(s) : Append(s, e)[i] = s[i]
           /\ Append(s, e)[Len(s) + 1] = e
OBVIOUS

\* The first n events of the queue are dropped.
LEMMA Rest ==
    ASSUME NEW s \in Seq(Event), NEW n \in 0..Len(s)
    PROVE  LET t == SubSeq(s, n + 1, Len(s)) IN
           /\ t \in Seq(Event) /\ Len(t) = Len(s) - n
           /\ \A i \in 1..Len(t) : t[i] = s[n + i]
<1>1. n + 1 \in Int /\ Len(s) \in Int /\ \A i \in (n + 1)..Len(s) : s[i] \in Event
  OBVIOUS
<1> QED
  BY <1>1, SubSeqProperties

\* A callback queues one event; nothing else of the events changes.
LEMMA QueuedType ==
    ASSUME PollType, NEW kind \in {"receiver", "invalid", "reset", "media"},
           NEW body \in Apps \cup Media \cup {None}, NEW asked \in Asked \cup {None},
           Queued(kind, body, asked)
    PROVE  /\ order' = order + 1
           /\ events' \in Seq(Event) /\ Len(events') = Len(events) + 1
           /\ \A i \in 1..Len(events) : events'[i] = events[i]
           /\ events'[Len(events) + 1] =
                 [kind |-> kind, body |-> body, order |-> order + 1, at |-> now,
                  conn |-> conn, asked |-> asked]
<1> DEFINE e == [kind |-> kind, body |-> body, order |-> order + 1, at |-> now,
                 conn |-> conn, asked |-> asked]
<1>1. e \in Event
  BY DEF PollType, Event
<1>2. order' = order + 1 /\ events' = Append(events, e)
  BY DEF Queued
<1> HIDE DEF e
<1>3. events \in Seq(Event)
  BY DEF PollType
<1> QED
  BY <1>1, <1>2, <1>3, Appended DEF e

\* What a callback does to the types: the queue grows by one.
LEMMA GrowingKeepsType ==
    ASSUME PollType, NEW kind \in {"receiver", "invalid", "reset", "media"},
           NEW body \in Apps \cup Media \cup {None}, NEW asked \in Asked \cup {None},
           Queued(kind, body, asked),
           UNCHANGED <<now, left, pc, poll, round>>, conn' \in Nat, counter' \in Nat,
           requests' \subseteq Request, pending' \in {None, pending}
    PROVE  PollType'
<1>1. /\ order' = order + 1
      /\ events' \in Seq(Event) /\ Len(events') = Len(events) + 1
      /\ \A i \in 1..Len(events) : events'[i] = events[i]
      /\ events'[Len(events) + 1] =
            [kind |-> kind, body |-> body, order |-> order + 1, at |-> now,
             conn |-> conn, asked |-> asked]
  BY QueuedType
<1>2. \A i \in 1..Len(events') : events'[i].order <= order'
  <2> SUFFICES ASSUME NEW i \in 1..Len(events') PROVE events'[i].order <= order'
    OBVIOUS
  <2>1. CASE i = Len(events) + 1
    BY <1>1, <2>1 DEF PollType
  <2>2. CASE i \in 1..Len(events)
    <3>1. events[i] \in Event /\ events[i].order <= order
      BY <2>2 DEF PollType
    <3>2. events[i].order \in Nat /\ order \in Nat
      BY <3>1 DEF PollType, Event
    <3>3. events'[i] = events[i] /\ order' = order + 1
      BY <1>1, <2>2
    <3> QED
      BY <3>1, <3>2, <3>3
  <2> QED
    BY <1>1, <2>1, <2>2 DEF PollType
<1> QED
  BY <1>1, <1>2 DEF PollType

\* The socket thread's callbacks keep the types.
LEMMA CallbackType == PollType /\ Callbacks => PollType'
<1> SUFFICES ASSUME PollType, Callbacks PROVE PollType'
  OBVIOUS
<1>1. ASSUME NEW said \in Apps \cup {None}, NEW id, NEW asked \in Asked \cup {None},
             Received(id, asked, said), UNCHANGED <<now, conn, counter, left, pc, poll, round>>,
             requests' \subseteq requests
      PROVE  PollType'
  <2>1. PICK kind \in {"receiver", "invalid"}, body \in Apps \cup {None} :
           Queued(kind, body, asked)
    BY <1>1 DEF Received
  <2>2. pending' \in {None, pending}
    BY <1>1 DEF Received
  <2> QED
    BY <1>1, <2>1, <2>2, GrowingKeepsType DEF PollType
<1>2. ASSUME NEW said \in Apps \cup {None}, ReceiveBroadcast(said) PROVE PollType'
  BY <1>1, <1>2 DEF ReceiveBroadcast
<1>3. ASSUME NEW said \in Apps \cup {None}, NEW r \in requests, ReceiveAnswer(r, said)
      PROVE  PollType'
  BY <1>1, <1>3 DEF ReceiveAnswer, PollType, Request
<1>4. ASSUME NEW m \in Media, ReceiveMedia(m) PROVE PollType'
  BY <1>4, GrowingKeepsType DEF ReceiveMedia, PollType
<1>5. ASSUME ConnectionLost PROVE PollType'
  BY <1>5, GrowingKeepsType DEF ConnectionLost, Retired, PollType
<1> QED
  BY <1>2, <1>3, <1>4, <1>5 DEF Callbacks

\* So does every step of the poll.
LEMMA PollTypeStep == PollType /\ PollActions => PollType'
<1> SUFFICES ASSUME PollType, PollActions PROVE PollType'
  OBVIOUS
<1> USE DEF PollType, OwnerOnly, Goes, Place
<1>1. ASSUME NEW asked \in Asked \cup {None}, Requests(asked)
      PROVE  counter' \in Nat /\ requests' \subseteq Request
  BY <1>1 DEF Requests, Request
<1>2. ASSUME LibraryRequests PROVE PollType'
  BY <1>1, <1>2 DEF LibraryRequests
<1>3. ASSUME Tick PROVE PollType'
  BY <1>3 DEF Tick
<1>4. ASSUME AskStatus PROVE PollType'
  <2>1. Earlier(poll.end, now + PollEvery) \in Nat
    BY DEF Earlier, Call
  <2>2. poll' \in Call /\ poll'.next \in Nat
    BY <1>4, <2>1 DEF AskStatus, Call
  <2> QED
    BY <1>4, <2>2 DEF AskStatus
<1>5. ASSUME RequestSent PROVE PollType'
  <2>1. [round |-> round, conn |-> conn] \in Asked
    BY DEF Asked
  <2>2. counter' \in Nat /\ requests' \subseteq Request
    BY <1>1, <1>5, <2>1 DEF RequestSent
  <2>3. pending' \in [id : Nat, deadline : Nat] \cup {None}
    <3>1. CASE pending = None
      BY <1>5, <3>1 DEF RequestSent
    <3>2. CASE pending # None
      <4>1. pending \in [id : Nat, deadline : Nat] /\ counter + 1 \in Nat
        BY <3>2
      <4>2. pending' = [pending EXCEPT !.id = counter + 1]
        BY <1>5, <3>2 DEF RequestSent
      <4> QED
        BY <4>1, <4>2
    <3> QED
      BY <3>1, <3>2
  <2> QED
    BY <1>5, <2>2, <2>3 DEF RequestSent
<1>6. ASSUME CallFails \/ WindowCloses PROVE PollType'
  BY <1>6 DEF CallFails, WindowCloses, Finally, Retired
<1>7. ASSUME NEW stage \in Stage, Drain(stage) PROVE PollType'
  <2>1. poll' \in Call
    BY <1>7 DEF Drain, Call
  <2> QED
    BY <1>7, <2>1 DEF Drain
<1>8. ASSUME NEW complete \in BOOLEAN, Judge(complete) PROVE PollType'
  <2>1. CASE poll.until /\ events # <<>>
    BY <1>8, <2>1 DEF Judge
  <2>2. CASE ~(poll.until /\ events # <<>>)
    <3>1. poll' \in {poll, [poll EXCEPT !.next = now]} /\ left' = 0
      BY <1>8, <2>2 DEF Judge
    <3>2. poll' \in Call
      BY <3>1 DEF Call
    <3>3. pc' \in {"loop", "candidate", "tail"}
      BY <1>8, <2>2 DEF Judge
    <3> QED
      BY <1>8, <3>1, <3>2, <3>3 DEF Judge
  <2> QED
    BY <2>1, <2>2
<1>9. ASSUME RetireCandidate \/ Recheck \/ Wake \/ TailDrain \/ TailAgain PROVE PollType'
  BY <1>7, <1>9 DEF RetireCandidate, Retired, Recheck, Wake, TailDrain, TailAgain, Stage
<1>10. ASSUME TakeOne PROVE PollType'
  <2>1. events # <<>> /\ Len(events) > 0
    BY <1>10 DEF TakeOne
  <2>2. /\ events' \in Seq(Event) /\ Len(events') = Len(events) - 1
        /\ \A i \in 1..Len(events') : events'[i] = events[i + 1]
    BY <1>10, <2>1 DEF TakeOne
  <2> QED
    BY <1>10, <2>1, <2>2 DEF TakeOne
<1>11. ASSUME TailDone \/ Abandon \/ CutShort PROVE PollType'
  <2>1. NoCall \in Call
    BY DEF NoCall, Call, Stage
  <2>2. CASE TailDone
    BY <2>1, <2>2 DEF TailDone
  <2>3. CASE Abandon
    BY <2>1, <2>3 DEF Abandon
  <2>4. CASE CutShort
    <3>1. /\ events' \in Seq(Event) /\ Len(events') = Len(events) - left
          /\ \A i \in 1..Len(events') : events'[i] = events[left + i]
      BY <2>4, Rest DEF CutShort
    <3>2. \A i \in 1..Len(events') : left + i \in 1..Len(events)
      BY <3>1
    <3> QED
      BY <2>1, <2>4, <3>1, <3>2 DEF CutShort
  <2> QED
    BY <1>11, <2>2, <2>3, <2>4
<1>12. ASSUME NEW until \in BOOLEAN, NEW seconds \in Windows, Begin(until, seconds)
       PROVE  PollType'
  <2>1. poll' = [until |-> until, end |-> now + seconds, next |-> now, stage |-> "loop"]
    BY <1>12 DEF Begin, NoCall
  <2>2. poll' \in Call
    BY <2>1 DEF Call, Stage
  <2> QED
    BY <1>12, <2>2 DEF Begin
<1>13. CASE UNCHANGED pollVars
  BY <1>13 DEF pollVars
<1> QED
  BY <1>2, <1>3, <1>4, <1>5, <1>6, <1>8, <1>9, <1>10, <1>11, <1>12, <1>13, CallbackType
  DEF PollActions, Owner

\* What a callback queues says that no application runs only while its poll is pending.
LEMMA GrowingKeepsAbsence ==
    ASSUME PollType, PollInv, NEW kind \in {"receiver", "invalid", "reset", "media"},
           NEW body \in Apps \cup Media \cup {None}, NEW asked \in Asked \cup {None},
           Queued(kind, body, asked), UNCHANGED <<left, pc, poll, round>>,
           kind = "receiver" /\ body = Absent =>
              pending # None /\ asked = [round |-> round, conn |-> conn]
    PROVE  AbsenceIsCurrent' /\ TailInv'
<1> DEFINE e == [kind |-> kind, body |-> body, order |-> order + 1, at |-> now,
                 conn |-> conn, asked |-> asked]
<1>1. /\ events' \in Seq(Event) /\ Len(events') = Len(events) + 1
      /\ \A i \in 1..Len(events) : events'[i] = events[i]
      /\ events'[Len(events) + 1] = e
  BY QueuedType
<1>2. e.kind = kind /\ e.body = body /\ e.conn = conn /\ e.asked = asked
  OBVIOUS
<1> HIDE DEF e
<1>3. events \in Seq(Event) /\ DOMAIN events = 1..Len(events) /\ DOMAIN events' = 1..Len(events')
      /\ Len(events) \in Nat
  BY <1>1 DEF PollType
<1>4. ASSUME NEW i \in 1..Len(events'), AbsentAt(i)'
      PROVE  /\ pc # "idle" /\ events'[i].asked = [round |-> round, conn |-> events'[i].conn]
             /\ ~(pc = "normalize" /\ poll.stage = "tail" /\ i > left)
  <2>1. CASE i = Len(events) + 1
    <3>1. pending # None /\ asked = [round |-> round, conn |-> conn]
      BY <1>1, <1>2, <1>4, <2>1 DEF AbsentAt
    <3> QED
      BY <1>1, <1>2, <2>1, <3>1 DEF PollInv, PendingInv
  <2>2. CASE i \in 1..Len(events)
    <3>1. events'[i] = events[i]
      BY <1>1, <2>2
    <3> QED
      BY <1>3, <1>4, <2>2, <3>1 DEF PollInv, AbsenceIsCurrent, TailInv, AbsentAt
  <2> QED
    BY <1>1, <1>3, <2>1, <2>2
<1> QED
  BY <1>3, <1>4 DEF AbsenceIsCurrent, TailInv, AbsentAt

\* A callback leaves every reported absence attributed to its poll.
LEMMA CallbackStep == PollType /\ PollInv /\ Callbacks => PollInv'
<1> SUFFICES ASSUME PollType, PollInv, Callbacks PROVE PollInv'
  OBVIOUS
<1>1. ASSUME NEW said \in Apps \cup {None}, NEW id, NEW asked \in Asked \cup {None},
             Received(id, asked, said), UNCHANGED <<now, conn, counter, left, pc, poll, round>>,
             requests' \subseteq requests,
             Matches(id) => asked = [round |-> round, conn |-> conn]
      PROVE  PollInv'
  <2> DEFINE believed == said # None /\ (said = Absent => Matches(id))
             kind == IF believed THEN "receiver" ELSE "invalid"
             body == IF believed THEN said ELSE None
  <2>1. Queued(kind, body, asked) /\ pending' \in {None, pending}
    BY <1>1 DEF Received
  <2>2. kind = "receiver" /\ body = Absent => Matches(id)
    OBVIOUS
  <2>3. kind \in {"receiver", "invalid"} /\ body \in Apps \cup {None}
    OBVIOUS
  <2> HIDE DEF kind, body
  <2>4. AbsenceIsCurrent' /\ TailInv'
    BY <1>1, <2>1, <2>2, <2>3, GrowingKeepsAbsence DEF Matches
  <2>5. PendingInv' /\ NumberInv'
    BY <1>1, <2>1 DEF PollInv, PendingInv, NumberInv
  <2>6. UntilInv'
    BY <1>1 DEF PollInv, UntilInv
  <2> QED
    BY <2>4, <2>5, <2>6 DEF PollInv
<1>2. ASSUME NEW said \in Apps \cup {None}, ReceiveBroadcast(said) PROVE PollInv'
  <2>1. ~Matches(0)
    BY DEF Matches
  <2> QED
    BY <1>1, <1>2, <2>1 DEF ReceiveBroadcast
<1>3. ASSUME NEW said \in Apps \cup {None}, NEW r \in requests, ReceiveAnswer(r, said)
      PROVE  PollInv'
  <2>1. Matches(r.id) => r.asked = [round |-> round, conn |-> conn]
    BY DEF Matches, PollInv, NumberInv
  <2>2. r.asked \in Asked \cup {None}
    BY DEF PollType, Request
  <2> QED
    BY <1>1, <1>3, <2>1, <2>2 DEF ReceiveAnswer
<1>4. ASSUME NEW m \in Media, ReceiveMedia(m) PROVE PollInv'
  BY <1>4, GrowingKeepsAbsence DEF ReceiveMedia, PollInv, PendingInv, NumberInv, UntilInv
<1>5. ASSUME ConnectionLost PROVE PollInv'
  <2>1. AbsenceIsCurrent' /\ TailInv'
    BY <1>5, GrowingKeepsAbsence DEF ConnectionLost
  <2>2. pending' = None /\ requests' = {}
    BY <1>5 DEF ConnectionLost, Retired
  <2> QED
    BY <1>5, <2>1, <2>2 DEF ConnectionLost, PollInv, PendingInv, NumberInv, UntilInv
<1> QED
  BY <1>2, <1>3, <1>4, <1>5 DEF Callbacks

\* The owner's steps that leave the queue alone.
LEMMA QuietAbsence ==
    ASSUME AbsenceIsCurrent, UNCHANGED <<events, round>>, pc # "idle" => pc' # "idle"
    PROVE  AbsenceIsCurrent'
BY DEF AbsenceIsCurrent

\* Whatever is drained is looked at, so that nothing lies behind it.
LEMMA DrainStep ==
    ASSUME PollType, PollInv, NEW stage, Drain(stage), pc # "idle",
           stage # "loop" => pending = None, stage = "tail" \/ poll.until
    PROVE  PollInv'
<1>1. /\ UNCHANGED <<now, order, conn, round, requests, counter, pending, events>>
      /\ left' = Len(events) /\ pc' = "normalize" /\ poll' = [poll EXCEPT !.stage = stage]
  BY DEF Drain, OwnerOnly, Goes
<1>2. poll'.stage = stage
  BY <1>1 DEF PollType, Call
<1>3. AbsenceIsCurrent'
  BY <1>1, QuietAbsence DEF PollInv
<1>4. TailInv'
  BY <1>1 DEF TailInv, PollType
<1>5. PendingInv' /\ NumberInv'
  BY <1>1, <1>2 DEF PollInv, PendingInv, NumberInv
<1>6. UntilInv'
  BY <1>1, <1>2 DEF UntilInv, PollType, Call
<1> QED
  BY <1>3, <1>4, <1>5, <1>6 DEF PollInv

\* Retiring the poll lets nobody answer it any more.
LEMMA FinallyStep ==
    ASSUME PollType, PollInv, NEW place \in {"abandon", "tail"}, Finally(place)
    PROVE  PollInv'
<1>1. /\ UNCHANGED <<now, order, conn, round, requests, counter, events, left, poll>>
      /\ pending' = None /\ pc' = place
  BY DEF Finally, OwnerOnly, Goes, Retired
<1>2. AbsenceIsCurrent'
  BY <1>1, QuietAbsence DEF PollInv
<1> QED
  BY <1>1, <1>2 DEF PollInv, PendingInv, NumberInv, TailInv, UntilInv

\* One event goes through the adapter.
LEMMA TakeOneStep ==
    ASSUME PollType, PollInv, TakeOne
    PROVE  PollInv'
<1>1. /\ UNCHANGED <<now, order, conn, round, requests, counter, pending, pc, poll>>
      /\ left > 0 /\ left' = left - 1 /\ events' = Tail(events) /\ pc = "normalize"
  BY DEF TakeOne, OwnerOnly
<1>2. /\ events \in Seq(Event) /\ Len(events) \in Nat /\ Len(events) > 0 /\ left \in Nat
  BY <1>1 DEF PollType
<1>3. /\ events' \in Seq(Event) /\ Len(events') = Len(events) - 1
      /\ \A i \in 1..Len(events') : events'[i] = events[i + 1]
  BY <1>1, <1>2
<1>4. /\ DOMAIN events = 1..Len(events) /\ DOMAIN events' = 1..Len(events')
      /\ \A i \in 1..Len(events') : i + 1 \in 1..Len(events)
  BY <1>2, <1>3
<1>5. AbsenceIsCurrent'
  BY <1>1, <1>3, <1>4 DEF PollInv, AbsenceIsCurrent
<1>6. TailInv'
  <2> SUFFICES ASSUME pc = "normalize", poll.stage = "tail",
                      NEW i \in 1..Len(events'), i > left'
               PROVE  ~AbsentAt(i)'
    BY <1>1 DEF TailInv
  <2>1. i + 1 \in 1..Len(events) /\ i + 1 > left
    BY <1>1, <1>2, <1>4
  <2>2. ~AbsentAt(i + 1)
    BY <2>1 DEF PollInv, TailInv
  <2> QED
    BY <1>3, <2>2 DEF AbsentAt
<1> QED
  BY <1>1, <1>5, <1>6 DEF PollInv, PendingInv, NumberInv, UntilInv

\* A call ends: what is left in the queue says of no application that it is gone.
LEMMA TailDoneStep ==
    ASSUME PollType, PollInv, TailDone
    PROVE  PollInv'
<1>1. /\ UNCHANGED <<now, order, conn, round, requests, counter, pending, events, left>>
      /\ pc' = "idle" /\ pc # "idle"
  BY DEF TailDone, OwnerOnly, Goes
<1>2. pending = None
  BY DEF TailDone, PollInv, PendingInv
<1>3. events \in Seq(Event) /\ DOMAIN events = 1..Len(events)
  BY DEF PollType
<1>4. \A i \in 1..Len(events) : ~AbsentAt(i)
  <2>1. CASE pc = "tail" /\ ~TailLeft
    BY <1>3, <2>1 DEF TailLeft
  <2>2. CASE pc = "normalize" /\ left = 0 /\ poll.stage = "tail"
    BY <2>2 DEF PollInv, TailInv
  <2> QED
    BY <2>1, <2>2 DEF TailDone
<1>5. AbsenceIsCurrent'
  BY <1>1, <1>3, <1>4 DEF AbsenceIsCurrent, AbsentAt
<1> QED
  BY <1>1, <1>2, <1>5 DEF PollInv, PendingInv, NumberInv, TailInv, UntilInv

\* Nor does what lies behind a batch that observe() could not finish.
LEMMA CutShortStep ==
    ASSUME PollType, PollInv, CutShort
    PROVE  PollInv'
<1>1. /\ UNCHANGED <<now, order, conn, round, requests, counter, pending>>
      /\ pc = "normalize" /\ ~poll.until /\ pc' = "idle"
      /\ events' = SubSeq(events, left + 1, Len(events))
  BY DEF CutShort, OwnerOnly, Goes
<1>2. pending = None /\ poll.stage = "tail"
  BY <1>1 DEF PollInv, PendingInv, UntilInv
<1>3. /\ events' \in Seq(Event) /\ Len(events') = Len(events) - left
      /\ \A i \in 1..Len(events') : events'[i] = events[left + i]
  BY <1>1, Rest DEF PollType
<1>4. ASSUME NEW i \in 1..Len(events') PROVE ~AbsentAt(i)'
  <2>1. left + i \in 1..Len(events) /\ left + i > left
    BY <1>3 DEF PollType
  <2>2. ~AbsentAt(left + i)
    BY <1>1, <1>2, <2>1 DEF PollInv, TailInv
  <2> QED
    BY <1>3, <2>2 DEF AbsentAt
<1>5. AbsenceIsCurrent'
  BY <1>3, <1>4 DEF AbsenceIsCurrent, AbsentAt
<1> QED
  BY <1>1, <1>2, <1>5 DEF PollInv, PendingInv, NumberInv, TailInv, UntilInv

\* So does every step of the poll.
LEMMA PollStep == PollType /\ PollInv /\ PollActions => PollInv'
<1> SUFFICES ASSUME PollType, PollInv, PollActions PROVE PollInv'
  OBVIOUS
<1>1. ASSUME LibraryRequests PROVE PollInv'
  <2>1. /\ counter' = counter + 1 /\ requests' = requests \cup {[id |-> counter + 1, asked |-> None]}
        /\ UNCHANGED <<now, order, conn, pending, events, left, pc, poll, round>>
    BY <1>1 DEF LibraryRequests, Requests
  <2>2. \A r \in requests : r.id \in Nat
    BY DEF PollType, Request
  <2>3. NumberInv'
    BY <2>1, <2>2 DEF PollType, PollInv, NumberInv
  <2> QED
    BY <2>1, <2>3, QuietAbsence DEF PollInv, PendingInv, TailInv, UntilInv, AbsentAt
<1>2. ASSUME Tick PROVE PollInv'
  BY <1>2, QuietAbsence DEF Tick, PollInv, PendingInv, NumberInv, TailInv, UntilInv, AbsentAt
<1>3. ASSUME AskStatus PROVE PollInv'
  <2>1. /\ UNCHANGED <<now, order, conn, round, requests, counter, events, left>>
        /\ pc = "loop" /\ pc' = "sending" /\ pending'.id = 0
    BY <1>3 DEF AskStatus, OwnerOnly, Goes
  <2> QED
    BY <2>1, QuietAbsence DEF PollInv, PendingInv, NumberInv, TailInv, UntilInv
<1>4. ASSUME RequestSent PROVE PollInv'
  <2> DEFINE a == [round |-> round, conn |-> conn]
  <2>1. /\ UNCHANGED <<now, order, conn, round, events, left, poll>>
        /\ pc = "sending" /\ pc' = "loop"
        /\ counter' = counter + 1 /\ requests' = requests \cup {[id |-> counter + 1, asked |-> a]}
        /\ pending' = IF pending = None THEN None ELSE [pending EXCEPT !.id = counter + 1]
    BY <1>4 DEF RequestSent, Requests, OwnerOnly, Goes
  <2>2. \A r \in requests : r.id \in Nat /\ r.id <= counter /\ counter \in Nat
    BY DEF PollType, Request, PollInv, NumberInv
  <2>3. \A r \in requests' : r.id <= counter' /\ (r.id = counter + 1 => r.asked = a)
    BY <2>1, <2>2 DEF PollType
  <2>4. pending' # None => pending'.id = counter + 1
    <3>1. pending # None => pending \in [id : Nat, deadline : Nat]
      BY DEF PollType
    <3> QED
      BY <2>1, <3>1
  <2>5. NumberInv'
    BY <2>1, <2>3, <2>4 DEF NumberInv, PollType
  <2> QED
    BY <2>1, <2>5, QuietAbsence DEF PollInv, PendingInv, TailInv, UntilInv
<1>5. ASSUME CallFails \/ WindowCloses PROVE PollInv'
  BY <1>5, FinallyStep DEF CallFails, WindowCloses
<1>6. ASSUME Wake PROVE PollInv'
  BY <1>6, DrainStep DEF Wake
<1>7. ASSUME TailDrain \/ TailAgain PROVE PollInv'
  BY <1>7, DrainStep DEF TailDrain, TailAgain, PollInv, PendingInv
<1>8. ASSUME NEW complete \in BOOLEAN, Judge(complete) PROVE PollInv'
  <2>1. /\ UNCHANGED <<now, order, conn, round, requests, counter, pending, events>>
        /\ pc = "normalize" /\ left = 0 /\ poll.stage # "tail"
    BY <1>8 DEF Judge, OwnerOnly
  <2>2. CASE poll.until /\ events # <<>>
    BY <1>8, <2>1, <2>2, QuietAbsence DEF Judge, PollInv, PendingInv, NumberInv, TailInv, UntilInv
  <2>3. CASE ~(poll.until /\ events # <<>>)
    <3>1. /\ \/ pc' = "loop"
             \/ pc' = "candidate"
             \/ pc' = "tail" /\ poll.stage # "loop"
          /\ poll' \in {poll, [poll EXCEPT !.next = now]}
      BY <1>8, <2>3 DEF Judge, Goes
    <3>2. poll.until /\ poll'.until
      BY <2>1, <3>1 DEF PollInv, UntilInv, PollType, Call
    <3> QED
      BY <2>1, <3>1, <3>2, QuietAbsence DEF PollInv, PendingInv, NumberInv, TailInv, UntilInv
  <2> QED
    BY <2>2, <2>3
<1>9. ASSUME RetireCandidate PROVE PollInv'
  BY <1>9, QuietAbsence
  DEF RetireCandidate, Retired, OwnerOnly, Goes, PollInv, PendingInv, NumberInv, TailInv, UntilInv
<1>10. ASSUME Recheck PROVE PollInv'
  <2>1. pc = "recheck" /\ pending = None /\ poll.until
    BY <1>10 DEF Recheck, PollInv, PendingInv, UntilInv
  <2>2. CASE Drain("candidate")
    BY <2>1, <2>2, DrainStep
  <2>3. CASE ~Drain("candidate")
    <3>1. /\ UNCHANGED <<now, order, conn, round, requests, counter, pending, events, left, poll>>
          /\ pc' = "tail"
      BY <1>10, <2>3 DEF Recheck, OwnerOnly, Goes
    <3> QED
      BY <2>1, <3>1, QuietAbsence DEF PollInv, PendingInv, NumberInv, TailInv, UntilInv
  <2> QED
    BY <2>2, <2>3
<1>11. ASSUME Abandon PROVE PollInv'
  <2>1. /\ UNCHANGED <<now, order, conn, round, requests, counter, pending>>
        /\ events' = <<>> /\ pc = "abandon" /\ pc' = "idle"
    BY <1>11 DEF Abandon, OwnerOnly, Goes
  <2>2. DOMAIN events' = {}
    BY <2>1
  <2> QED
    BY <2>1, <2>2 DEF PollInv, AbsenceIsCurrent, PendingInv, NumberInv, TailInv, UntilInv
<1>12. ASSUME NEW until \in BOOLEAN, NEW seconds \in Windows, Begin(until, seconds)
       PROVE  PollInv'
  <2>1. /\ UNCHANGED <<now, order, requests, conn, counter, pending, events, left>>
        /\ pc = "idle" /\ pc' = "loop"
    BY <1>12 DEF Begin, Goes
  <2>2. pending = None
    BY <2>1 DEF PollInv, PendingInv
  <2> QED
    BY <2>1, <2>2 DEF PollInv, AbsenceIsCurrent, PendingInv, NumberInv, TailInv, UntilInv
<1>13. CASE UNCHANGED pollVars
  BY <1>13, QuietAbsence DEF pollVars, PollInv, PendingInv, NumberInv, TailInv, UntilInv, AbsentAt
<1> QED
  BY <1>1, <1>2, <1>3, <1>4, <1>5, <1>6, <1>7, <1>8, <1>9, <1>10, <1>11, <1>12, <1>13,
     CallbackStep, TakeOneStep, TailDoneStep, CutShortStep
  DEF PollActions, Owner

-----------------------------------------------------------------------------
(* The adapter.                                                            *)

AdapterInv ==
    /\ PollType /\ PollInv
    /\ window \in Windows
    /\ lastEvent \in Nat
    /\ Ordered(log, lastEvent)
    /\ Answers(history, log)

\* The witnesses follow the events, each later than the one before it.
LEMMA NormalizeStep ==
    ASSUME AdapterInv, Normalize
    PROVE  lastEvent' \in Nat /\ Ordered(log', lastEvent') /\ Answers(history', log')
<1> DEFINE event == Head(events)
           o == Said(event)
<1>1. event \in Event
  <2>1. events \in Seq(Event) /\ Len(events) > 0
    BY DEF AdapterInv, PollType, Normalize, TakeOne
  <2> QED
    BY <2>1
<1>2. o.order = event.order /\ event.order \in Nat
  BY <1>1 DEF Said, Event
<1>3. \/ lastEvent' = lastEvent /\ log' = log /\ history' = history
      \/ /\ Passes(event) /\ lastEvent' = event.order
         /\ \/ history' = Remembered({o}) /\ log' = {o}
            \/ history' = Remembered(history \cup {o}) /\ log' = log \cup {o}
  BY DEF Normalize, Held
<1> HIDE DEF o, event
<1>4. CASE lastEvent' = lastEvent /\ log' = log /\ history' = history
  BY <1>4 DEF AdapterInv
<1>5. CASE Passes(event) /\ lastEvent' = event.order
  <2>1. lastEvent' \in Nat /\ lastEvent < lastEvent' /\ o.order = lastEvent' /\ lastEvent \in Nat
    BY <1>2, <1>5 DEF Passes, AdapterInv
  <2>2. Ordered(log, lastEvent') /\ Ordered({o}, lastEvent') /\ Ordered(log \cup {o}, lastEvent')
    BY <2>1 DEF AdapterInv, Ordered
  <2>3. Answers(Remembered({o}), {o})
    BY <2>1, <2>2, RememberedAnswers
  <2>4. Answers(Remembered(history \cup {o}), log \cup {o})
    <3>1. o.order \in 0..lastEvent' /\ Answers(history, log)
      BY <2>1 DEF AdapterInv
    <3> QED
      BY <2>1, <2>2, <3>1, AnsweringIsKept
  <2>5. CASE history' = Remembered({o}) /\ log' = {o}
    BY <2>1, <2>2, <2>3, <2>5
  <2>6. CASE history' = Remembered(history \cup {o}) /\ log' = log \cup {o}
    BY <2>1, <2>2, <2>4, <2>6
  <2>7. \/ lastEvent' = lastEvent
        \/ history' = Remembered({o}) /\ log' = {o}
        \/ history' = Remembered(history \cup {o}) /\ log' = log \cup {o}
    BY <1>3
  <2> QED
    BY <2>1, <2>5, <2>6, <2>7
<1> QED
  BY <1>3, <1>4, <1>5

\* The adapter's invariant, step by step.
LEMMA AdapterStep == AdapterInv /\ [Next]_vars => AdapterInv'
<1> SUFFICES ASSUME AdapterInv, [Next]_vars PROVE AdapterInv'
  OBVIOUS
<1>1. PollType' /\ PollInv'
  BY PollsAct, PollTypeStep, PollStep DEF AdapterInv
<1>2. window' \in Windows
  BY AdapterAssumption
  DEF AdapterInv, Next, vars, adapterVars, Normalize, CallEnds, Observe, Effects, Start, Stop,
      Control, NativeQueue
<1>3. lastEvent' \in Nat /\ Ordered(log', lastEvent') /\ Answers(history', log')
  <2>1. CASE Normalize
    BY <2>1, NormalizeStep
  <2>2. CASE UNCHANGED <<lastEvent, log, history>>
    BY <2>2 DEF AdapterInv
  <2> QED
    BY <2>1, <2>2
    DEF Next, vars, adapterVars, Held, CallEnds, Observe, Effects, Start, Stop, Control,
        NativeQueue
<1> QED
  BY <1>1, <1>2, <1>3 DEF AdapterInv, Ordered, Answers

\* The adapter's invariant holds before the first poll.
LEMMA InitAdapter == Init => AdapterInv
<1> SUFFICES ASSUME Init PROVE AdapterInv
  OBVIOUS
<1>1. PollType
  <2>1. NoCall \in Call
    BY DEF NoCall, Call, Stage
  <2>2. events = <<>> /\ events \in Seq(Event) /\ Len(events) = 0
    BY DEF Init, PollInit
  <2> QED
    BY <2>1, <2>2 DEF Init, PollInit, PollType, Place
<1>2. PollInv
  <2>1. DOMAIN events = {}
    BY DEF Init, PollInit
  <2> QED
    BY <2>1 DEF Init, PollInit, PollInv, AbsenceIsCurrent, PendingInv, NumberInv, TailInv, UntilInv
<1>3. Ordered(log, lastEvent) /\ Answers(history, log)
  BY DEF Init, Ordered, Answers
<1> QED
  BY <1>1, <1>2, <1>3, AdapterAssumption DEF Init, AdapterInv

\* The adapter's invariant always holds.
LEMMA Invariance == Spec => []AdapterInv
BY InitAdapter, AdapterStep, PTL DEF Spec

\* For any receiver and any number of polls, reconnections and late answers: an absent
\* application is read only inside the window that asked for it, on its own connection.
THEOREM AbsencesAreCurrent == Spec => []AbsenceIsCurrent
<1>1. AdapterInv => AbsenceIsCurrent
  BY DEF AdapterInv, PollInv
<1> QED
  BY <1>1, Invariance, PTL

\* For every scope and any observations: the witnesses _remember_identity() keeps, at most
\* two of a field, answer for a takeover as all that was observed would.
THEOREM WitnessesAlwaysSuffice == Spec => []WitnessesSuffice
<1>1. AdapterInv => WitnessesSuffice
  <2> SUFFICES ASSUME AdapterInv, NEW ids \in Scopes, NEW t \in 0..order
               PROVE  LET scope == [generation |-> generation, started |-> t, ids |-> ids] IN
                      TakenOver(scope, history) <=> TakenOver(scope, log)
    BY DEF WitnessesSuffice
  <2> DEFINE scope == [generation |-> generation, started |-> t, ids |-> ids]
  <2>1. scope.started \in Nat
    BY DEF AdapterInv, PollType
  <2> HIDE DEF scope
  <2>2. TakenOver(scope, history) <=> TakenOver(scope, log)
    BY <2>1, AnswersAgree DEF AdapterInv
  <2> QED
    BY <2>2 DEF scope
<1> QED
  BY <1>1, Invariance, PTL

-----------------------------------------------------------------------------
(* The effects.                                                            *)

\* Somebody in L was of the session of scope.
Reported(scope, L) ==
    \E e \in L : \A f \in {"session", "application"} : e.ids[f] = scope.ids[f]

\* An effect let out is supported by all that was observed, and stays so while no call runs.
EffectInv ==
    /\ receiver # None =>
         \E e \in log : \A f \in {"session", "application"} : e.ids[f] = AppIds[receiver.app][f]
    /\ sent # None =>
         /\ pc = "idle"
         /\ sent.generation = generation
         /\ ~TakenOver(sent, log)
         /\ Reported(sent, log)

\* The receiver status kept is one of the observations recorded.
LEMMA NormalizeKeepsReceiver ==
    ASSUME AdapterInv, EffectInv, Normalize
    PROVE  EffectInv'
<1> DEFINE event == Head(events)
           o == Said(event)
<1>1. sent = None /\ sent' = None
  BY DEF EffectInv, Normalize, TakeOne
<1>2. CASE ~Passes(event)
  BY <1>1, <1>2 DEF EffectInv, Normalize, Held
<1>3. CASE Passes(event) /\ event.kind = "receiver"
  <2>1. receiver'.app = event.body /\ o \in log'
    BY <1>3 DEF Normalize
  <2>2. o.ids = AppIdentity(event.body)
    BY <1>3 DEF Said
  <2>3. \A f \in {"session", "application"} : o.ids[f] = AppIds[event.body][f]
    BY <2>2 DEF AppIdentity, Fields
  <2> QED
    BY <1>1, <2>1, <2>3 DEF EffectInv
<1>4. CASE Passes(event) /\ event.kind = "media"
  <2>1. receiver' = receiver /\ log \subseteq log'
    BY <1>4 DEF Normalize
  <2> QED
    BY <1>1, <2>1 DEF EffectInv
<1>5. CASE Passes(event) /\ event.kind \notin {"receiver", "media"}
  <2>1. receiver' = None
    BY <1>5 DEF Normalize
  <2> QED
    BY <1>1, <2>1 DEF EffectInv
<1> QED
  BY <1>2, <1>3, <1>4, <1>5

\* The guards of an effect, asked of the witnesses, hold of all that was observed.
LEMMA OwnedIsSupported ==
    ASSUME AdapterInv, EffectInv, NEW ids \in Scopes, NEW g \in 0..generation,
           NEW t \in 0..order,
           OwnsReceiver([generation |-> g, started |-> t, ids |-> ids])
    PROVE  LET scope == [generation |-> g, started |-> t, ids |-> ids] IN
           /\ scope.generation = generation
           /\ ~TakenOver(scope, log)
           /\ Reported(scope, log)
<1> DEFINE scope == [generation |-> g, started |-> t, ids |-> ids]
<1>1. scope.started \in Nat
  BY DEF AdapterInv, PollType
<1> HIDE DEF scope
<1>2. OwnsReceiver(scope)
  BY DEF scope
<1>3. TakenOver(scope, history) <=> TakenOver(scope, log)
  BY <1>1, AnswersAgree DEF AdapterInv
<1>4. scope.generation = generation /\ ~TakenOver(scope, log)
  BY <1>2, <1>3 DEF OwnsReceiver
<1>5. Reported(scope, log)
  BY <1>2 DEF OwnsReceiver, EffectInv, Reported
<1> QED
  BY <1>4, <1>5 DEF scope

\* An effect is let out by its guard.
LEMMA EffectsStep ==
    ASSUME AdapterInv, EffectInv, Effects
    PROVE  EffectInv'
<1>1. receiver' = receiver /\ log' = log /\ generation' = generation /\ pc' = pc
  BY DEF Effects, Start, Stop, Control, NativeQueue, Held, LibraryRequests, pollVars
<1>2. CASE sent' = sent \/ sent' = None
  BY <1>1, <1>2 DEF EffectInv, TakenOver, Reported
<1>3. ASSUME NEW ids \in Scopes, NEW g \in 0..generation, NEW t \in 0..order,
             pc = "idle",
             OwnsReceiver([generation |-> g, started |-> t, ids |-> ids]),
             sent' = [generation |-> g, started |-> t, ids |-> ids]
      PROVE  EffectInv'
  BY <1>1, <1>3, OwnedIsSupported DEF EffectInv, TakenOver, Reported
<1>4. ASSUME NEW ids \in Scopes, NEW g \in 0..generation, NEW t \in 0..order,
             NEW playback, NEW action,
             LET scope == [generation |-> g, started |-> t, ids |-> ids] IN
             Stop(scope) \/ Control(scope, playback, action) \/ NativeQueue(scope, playback, action)
      PROVE  EffectInv'
  <2> DEFINE scope == [generation |-> g, started |-> t, ids |-> ids]
  <2>1. pc = "idle" /\ OwnsReceiver(scope) /\ (sent' = scope \/ sent' = None)
    <3> HIDE DEF scope
    <3>1. Stop(scope) \/ Control(scope, playback, action) \/ NativeQueue(scope, playback, action)
      BY <1>4 DEF scope
    <3> QED
      BY <3>1 DEF Stop, Control, NativeQueue, MayStop, MayControl, MayQueue, Effect
  <2> QED
    BY <1>2, <1>3, <2>1
<1>5. CASE Start
  BY <1>2, <1>5 DEF Start
<1> QED
  BY <1>4, <1>5 DEF Effects

\* Every step: an observation takes back what an effect rested on before it begins.
LEMMA EffectStep == AdapterInv /\ EffectInv /\ [Next]_vars => EffectInv'
<1> SUFFICES ASSUME AdapterInv, EffectInv, [Next]_vars PROVE EffectInv'
  OBVIOUS
<1>1. CASE Normalize
  BY <1>1, NormalizeKeepsReceiver
<1>2. CASE Effects
  BY <1>2, EffectsStep
<1>3. ASSUME NEW until \in BOOLEAN, Observe(until) PROVE EffectInv'
  BY <1>3 DEF Observe, Held, EffectInv
<1>4. CASE /\ UNCHANGED <<receiver, log, generation, sent>>
           /\ pc' = pc \/ pc # "idle" \/ pc' = "idle"
  BY <1>4 DEF EffectInv, TakenOver, Reported
<1>5. CASE CallEnds
  BY <1>4, <1>5 DEF CallEnds, TailDone, Abandon, CutShort, Goes, Held
<1>6. CASE (LibraryRequests \/ Tick \/ Owner) /\ UNCHANGED adapterVars
  BY <1>4, <1>6
  DEF LibraryRequests, Tick, Owner, adapterVars, AskStatus, RequestSent, CallFails, Wake,
      WindowCloses, Judge, RetireCandidate, Recheck, TailDrain, TailAgain
<1>7. CASE Callback /\ Held /\ UNCHANGED <<window, sent>>
  BY <1>4, <1>7
  DEF Callback, Held, ReceiveBroadcast, ReceiveAnswer, ReceiveMedia, ConnectionLost
<1>8. CASE UNCHANGED vars
  BY <1>4, <1>8 DEF vars, pollVars, adapterVars
<1> QED
  BY <1>1, <1>2, <1>3, <1>5, <1>6, <1>7, <1>8 DEF Next

\* For every receiver, every scope and any observations: an effect on a scope is let out only
\* if all that was observed on this connection since the scope began, and not only the few
\* witnesses kept, was of the scope, and its session was among what was reported.
THEOREM EffectsAreOwned == Spec => []EffectsOwned
<1>1. Init => EffectInv
  BY DEF Init, EffectInv
<1>2. EffectInv => EffectsOwned
  BY DEF EffectInv, EffectsOwned, Reported
<1> QED
  BY <1>1, <1>2, EffectStep, Invariance, PTL DEF Spec
=============================================================================
