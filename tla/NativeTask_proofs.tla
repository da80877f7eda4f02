-------------------------- MODULE NativeTask_proofs --------------------------
(***************************************************************************)
(* TLAPS proofs about the native playback task, for every number of items, *)
(* every observation window and every number of stops, crashes and         *)
(* restarts.                                                               *)
(*                                                                         *)
(* A window is folded twice: by the trackers, which are the code, and by   *)
(* the history of what was said.  The argument runs along the window with  *)
(* both, and along the behaviour with the invariant IInv: which attempt,   *)
(* connection and reservation each tracker belongs to.                     *)
(***************************************************************************)
EXTENDS NativeTask, WindowFolds, FiniteSetTheorems, TLAPS

USE ItemAssumption, WindowAssumption

Place == {"idle", "reconcile", "adopt", "save", "step", "stop", "stopping", "conclude", "stage",
          "claimed", "down"}

History == [alive : BOOLEAN, entered : BOOLEAN, broken : BOOLEAN, deferred : Nat \cup {None}]

TypeInv ==
    /\ intent \in [Items -> Intent]
    /\ reservation \in [Items -> Reservation]
    /\ enqueue \in [Items -> ExecState] /\ clear \in [Items -> ExecState]
    /\ canceled \in BOOLEAN /\ hold \in BOOLEAN
    /\ stops \in Nat /\ asked \in Nat /\ gen \in Nat
    /\ saved \subseteq Items
    /\ latch \in BOOLEAN /\ active \in BOOLEAN /\ recovering \in BOOLEAN
    /\ seen \in Nat \cup {None}
    /\ own \in Snapshot \cup {None}
    /\ current \in Tracker \cup {None} /\ successor \in Tracker \cup {None}
    /\ pending \in Items \cup {None}
    /\ pc \in Place /\ then \in {"step", "stop", "conclude"}
    /\ witness \in History

\* The attempts are made in order, and only the latest may have a reserved successor.
QueueInv ==
    /\ Attempt \in 0..ItemCount /\ Attempted = 1..Attempt
    /\ Outstanding \subseteq {Attempt} \ {ItemCount}
    /\ pc = "save" => Outstanding = {}

\* A tracker's snapshot is of its own content, on its own connection.
Proper(r) == r.snap # None => r.snap.item = r.item /\ r.snap.gen = r.gen

\* What is not lost is of the present connection.
Present(t) == t.lost \/ t.gen = gen
Tracking(r) == seen # None /\ Proper(r) /\ (r.refused \/ (r.gen = gen /\ seen = gen))

OwnInv ==
    own # None =>
        /\ own.item \in Attempted /\ (pc # "save" => own.item = Attempt)
        /\ Present(own)
        /\ own.lost => ~own.confirmed
        /\ own.confirmed /\ ~canceled => seen = gen

CurrentInv ==
    current # None => Tracking(current) /\ (pc # "save" => current.item = Attempt)

SuccessorInv ==
    /\ successor # None =>
         /\ Tracking(successor)
         /\ pc # "save" => /\ successor.item = Attempt + 1 /\ successor.waiting = Attempt
                           /\ canceled \/ Attempt \in Outstanding
    /\ pc = "save" => Ready(successor) /\ successor.item = Attempt

\* A sent successor is tracked as soon as anything is observed.
AwaitedInv ==
    \A i \in Outstanding :
        Sent(i) /\ successor = None =>
            /\ ~witness.alive /\ ~witness.entered /\ ~witness.broken
            /\ pc # "claimed" => own = None /\ current = None

\* The tracker of item i + 1 has seen what the history says was said.
Tied(r, h) ==
    \/ r.refused
    \/ /\ r.receiver = h.alive
       /\ h.entered => r.snap # None
       /\ r.snap # None /\ r.snap.confirmed => h.entered
       /\ ~h.broken

WitnessInv == successor # None /\ pc # "save" => Tied(successor, witness)

\* A stop is kept for one handoff, on the connection on which it was asked for.
StopInv ==
    /\ pending # None => canceled /\ seen # None /\ witness.deferred = pending
    /\ then # "step" => canceled
    /\ pc \in {"stop", "stopping"} => canceled
    /\ pc = "stopping" => pending = None /\ own # None

ClaimInv ==
    pc = "claimed" =>
        /\ Outstanding = {Attempt} /\ successor = None
        /\ own # None /\ own.confirmed /\ ~own.lost /\ ~canceled
        /\ ~witness.alive /\ ~witness.entered /\ ~witness.broken

IInv ==
    /\ TypeInv /\ QueueInv
    /\ OwnInv /\ CurrentInv /\ SuccessorInv /\ AwaitedInv
    /\ WitnessInv /\ StopInv /\ ClaimInv
    /\ saved \subseteq Attempted

-----------------------------------------------------------------------------
(* Trackers, snapshots and the history, one observation at a time.         *)

LEMMA SeenType ==
    ASSUME NEW t \in Snapshot, NEW e \in Event
    PROVE  /\ Seen(t, e) \in Snapshot
           /\ Seen(t, e).item = t.item /\ Seen(t, e).gen = t.gen
BY DEF Snapshot, Event, Kind, Seen, LostSession

LEMMA ForgottenType ==
    ASSUME NEW t \in Snapshot \cup {None}
    PROVE  /\ Forgotten(t) \in Snapshot \cup {None} /\ (Forgotten(t) = None <=> t = None)
           /\ t # None => Forgotten(t).item = t.item /\ Forgotten(t).gen = t.gen
                          /\ ~Forgotten(t).confirmed
BY DEF Snapshot, Forgotten

LEMMA TracksType ==
    ASSUME NEW r \in Tracker, NEW e \in Event
    PROVE  /\ Tracks(r, e) \in Tracker
           /\ Tracks(r, e).item = r.item /\ Tracks(r, e).waiting = r.waiting
           /\ Tracks(r, e).gen = r.gen
           /\ Proper(r) => Proper(Tracks(r, e))
<1> DEFINE s == IF e.gap THEN [r EXCEPT !.receiver = FALSE, !.snap = Forgotten(@)] ELSE r
           begun == IF s.snap = None THEN NewSnapshot(r.item, r.gen) ELSE s.snap
<1>1. /\ s \in Tracker
      /\ s.item = r.item /\ s.waiting = r.waiting /\ s.gen = r.gen
      /\ Proper(r) => Proper(s)
  BY ForgottenType DEF Tracker, Proper
<1>2. begun \in Snapshot /\ (Proper(r) => begun.item = r.item /\ begun.gen = r.gen)
  BY <1>1 DEF Tracker, Proper, NewSnapshot, Snapshot, Event
<1>3. Seen(begun, e) \in Snapshot
      /\ (Proper(r) => Seen(begun, e).item = r.item /\ Seen(begun, e).gen = r.gen)
  BY <1>2, SeenType
<1>4. s.snap # None => LostSession(s.snap) \in Snapshot
                       /\ LostSession(s.snap).item = s.snap.item
                       /\ LostSession(s.snap).gen = s.snap.gen
  BY <1>1 DEF Tracker, Snapshot, LostSession
<1> HIDE DEF begun
<1>5. \/ Tracks(r, e) = r
      \/ Tracks(r, e) = [s EXCEPT !.refused = TRUE, !.receiver = FALSE,
                                  !.snap = IF @ = None THEN None ELSE LostSession(@)]
      \/ Tracks(r, e) = [s EXCEPT !.receiver = TRUE]
      \/ Tracks(r, e) = [s EXCEPT !.snap = Forgotten(@)]
      \/ Tracks(r, e) = [s EXCEPT !.snap = Seen(begun, e)]
      \/ Tracks(r, e) = s
  BY DEF Tracks, begun
<1> HIDE DEF s
<1>6. CASE Tracks(r, e) \in {r, s, [s EXCEPT !.receiver = TRUE]}
  BY <1>1, <1>6 DEF Tracker, Proper
<1>7. CASE Tracks(r, e) = [s EXCEPT !.snap = Seen(begun, e)]
  BY <1>1, <1>3, <1>7 DEF Tracker, Proper
<1>8. CASE Tracks(r, e) = [s EXCEPT !.snap = Forgotten(@)]
  BY <1>1, <1>8, ForgottenType DEF Tracker, Proper
<1>9. CASE Tracks(r, e) = [s EXCEPT !.refused = TRUE, !.receiver = FALSE,
                                    !.snap = IF @ = None THEN None ELSE LostSession(@)]
  BY <1>1, <1>4, <1>9 DEF Tracker, Proper
<1> QED
  BY <1>5, <1>6, <1>7, <1>8, <1>9

LEMMA NoteType ==
    ASSUME NEW h \in History, NEW e \in Event
    PROVE  Note(h, e) \in History /\ Note(h, e).deferred = h.deferred
BY DEF History, Event, Kind, Note

-----------------------------------------------------------------------------
(* Trackers, snapshots and the history along a window.                     *)

\* A tracker takes a window one observation after the other.
LEMMA TracksAlong ==
    ASSUME NEW r \in Tracker, NEW w \in Seq(Event)
    PROVE  \E f \in [0..Len(w) -> Tracker] :
              /\ f[0] = r /\ TracksAll(r, w) = f[Len(w)]
              /\ \A k \in 1..Len(w) : f[k] = Tracks(f[k - 1], w[k])
<1> DEFINE n == Len(w)
           After(f) == f = [k \in 0..n |-> IF k = 0 THEN r ELSE Tracks(f[k - 1], w[k])]
           next == [k \in 1..n |-> [y \in Tracker |-> Tracks(y, w[k])]]
<1>1. n \in Nat /\ \A k \in 1..n : w[k] \in Event
  OBVIOUS
<1>2. Steps(next, n, Tracker)
  BY <1>1, TracksType DEF Steps
<1>3. PICK g : Leads(g, r, next, n, Tracker)
  <2>1. n \in Nat /\ r \in Tracker
    BY <1>1
  <2> HIDE DEF n, next
  <2> QED
    BY <1>2, <2>1, FoldExists
<1>4. After(g)
  <2>1. g \in [0..n -> Tracker] /\ g[0] = r /\ \A k \in 1..n : g[k] = next[k][g[k - 1]]
    BY <1>3 DEF Leads
  <2>2. ASSUME NEW k \in 1..n PROVE g[k] = Tracks(g[k - 1], w[k])
    <3>1. g[k - 1] \in Tracker /\ next[k] = [y \in Tracker |-> Tracks(y, w[k])]
      BY <2>1
    <3> QED
      BY <2>1, <3>1
  <2> QED
    BY <1>1, <2>1, <2>2
<1> DEFINE h == CHOOSE f : After(f)
<1>5. After(h)
  <2> HIDE DEF After
  <2> QED
    BY <1>4
<1>6. TracksAll(r, w) = h[n]
  BY DEF TracksAll
<1> HIDE DEF h, n, next
<1>7. h[0] = r /\ \A k \in 1..n : h[k] = Tracks(h[k - 1], w[k])
  BY <1>1, <1>5
<1> DEFINE S == {k \in 0..n : h[k] \in Tracker}
<1>8. 0..n \subseteq S
  <2>1. 0 \in S
    BY <1>1, <1>7
  <2>2. ASSUME NEW k \in 1..n, k - 1 \in S PROVE k \in S
    <3>1. h[k] = Tracks(h[k - 1], w[k]) /\ h[k - 1] \in Tracker /\ w[k] \in Event
      BY <1>1, <1>7, <2>2
    <3> QED
      BY <3>1, TracksType
  <2> HIDE DEF S
  <2> QED
    BY <1>1, <2>1, <2>2, Along
<1>9. h \in [0..n -> Tracker]
  BY <1>5, <1>8
<1> QED
  BY <1>6, <1>7, <1>9 DEF n

\* So does a snapshot ...
LEMMA SeenAlong ==
    ASSUME NEW t \in Snapshot, NEW w \in Seq(Event)
    PROVE  \E f \in [0..Len(w) -> Snapshot] :
              /\ f[0] = t /\ Applied(t, w) = f[Len(w)]
              /\ \A k \in 1..Len(w) : f[k] = Seen(f[k - 1], w[k])
<1> DEFINE n == Len(w)
           After(f) == f = [k \in 0..n |-> IF k = 0 THEN t ELSE Seen(f[k - 1], w[k])]
           next == [k \in 1..n |-> [y \in Snapshot |-> Seen(y, w[k])]]
<1>1. n \in Nat /\ \A k \in 1..n : w[k] \in Event
  OBVIOUS
<1>2. Steps(next, n, Snapshot)
  BY <1>1, SeenType DEF Steps
<1>3. PICK g : Leads(g, t, next, n, Snapshot)
  <2>1. n \in Nat /\ t \in Snapshot
    BY <1>1
  <2> HIDE DEF n, next
  <2> QED
    BY <1>2, <2>1, FoldExists
<1>4. After(g)
  <2>1. g \in [0..n -> Snapshot] /\ g[0] = t /\ \A k \in 1..n : g[k] = next[k][g[k - 1]]
    BY <1>3 DEF Leads
  <2>2. ASSUME NEW k \in 1..n PROVE g[k] = Seen(g[k - 1], w[k])
    <3>1. g[k - 1] \in Snapshot /\ next[k] = [y \in Snapshot |-> Seen(y, w[k])]
      BY <2>1
    <3> QED
      BY <2>1, <3>1
  <2> QED
    BY <1>1, <2>1, <2>2
<1> DEFINE h == CHOOSE f : After(f)
<1>5. After(h)
  <2> HIDE DEF After
  <2> QED
    BY <1>4
<1>6. Applied(t, w) = h[n]
  BY DEF Applied
<1> HIDE DEF h, n, next
<1>7. h[0] = t /\ \A k \in 1..n : h[k] = Seen(h[k - 1], w[k])
  BY <1>1, <1>5
<1> DEFINE S == {k \in 0..n : h[k] \in Snapshot}
<1>8. 0..n \subseteq S
  <2>1. 0 \in S
    BY <1>1, <1>7
  <2>2. ASSUME NEW k \in 1..n, k - 1 \in S PROVE k \in S
    <3>1. h[k] = Seen(h[k - 1], w[k]) /\ h[k - 1] \in Snapshot /\ w[k] \in Event
      BY <1>1, <1>7, <2>2
    <3> QED
      BY <3>1, SeenType
  <2> HIDE DEF S
  <2> QED
    BY <1>1, <2>1, <2>2, Along
<1>9. h \in [0..n -> Snapshot]
  BY <1>5, <1>8
<1> QED
  BY <1>6, <1>7, <1>9 DEF n

\* ... and the history.
LEMMA NoteAlong ==
    ASSUME NEW h0 \in History, NEW w \in Seq(Event)
    PROVE  \E f \in [0..Len(w) -> History] :
              /\ f[0] = h0 /\ Noted(h0, w) = f[Len(w)]
              /\ \A k \in 1..Len(w) : f[k] = Note(f[k - 1], w[k])
<1> DEFINE n == Len(w)
           After(f) == f = [k \in 0..n |-> IF k = 0 THEN h0 ELSE Note(f[k - 1], w[k])]
           next == [k \in 1..n |-> [y \in History |-> Note(y, w[k])]]
<1>1. n \in Nat /\ \A k \in 1..n : w[k] \in Event
  OBVIOUS
<1>2. Steps(next, n, History)
  BY <1>1, NoteType DEF Steps
<1>3. PICK g : Leads(g, h0, next, n, History)
  <2>1. n \in Nat /\ h0 \in History
    BY <1>1
  <2> HIDE DEF n, next
  <2> QED
    BY <1>2, <2>1, FoldExists
<1>4. After(g)
  <2>1. g \in [0..n -> History] /\ g[0] = h0 /\ \A k \in 1..n : g[k] = next[k][g[k - 1]]
    BY <1>3 DEF Leads
  <2>2. ASSUME NEW k \in 1..n PROVE g[k] = Note(g[k - 1], w[k])
    <3>1. g[k - 1] \in History /\ next[k] = [y \in History |-> Note(y, w[k])]
      BY <2>1
    <3> QED
      BY <2>1, <3>1
  <2> QED
    BY <1>1, <2>1, <2>2
<1> DEFINE h == CHOOSE f : After(f)
<1>5. After(h)
  <2> HIDE DEF After
  <2> QED
    BY <1>4
<1>6. Noted(h0, w) = h[n]
  BY DEF Noted
<1> HIDE DEF h, n, next
<1>7. h[0] = h0 /\ \A k \in 1..n : h[k] = Note(h[k - 1], w[k])
  BY <1>1, <1>5
<1> DEFINE S == {k \in 0..n : h[k] \in History}
<1>8. 0..n \subseteq S
  <2>1. 0 \in S
    BY <1>1, <1>7
  <2>2. ASSUME NEW k \in 1..n, k - 1 \in S PROVE k \in S
    <3>1. h[k] = Note(h[k - 1], w[k]) /\ h[k - 1] \in History /\ w[k] \in Event
      BY <1>1, <1>7, <2>2
    <3> QED
      BY <3>1, NoteType
  <2> HIDE DEF S
  <2> QED
    BY <1>1, <2>1, <2>2, Along
<1>9. h \in [0..n -> History]
  BY <1>5, <1>8
<1> QED
  BY <1>6, <1>7, <1>9 DEF n

-----------------------------------------------------------------------------
(* Windows.                                                                *)

\* Whether one of the first k observations says that the connection was lost.
ResetBy(w, k) == \E j \in 1..k : w[j].kind = "reset"

\* A window is a sequence of observations, of the present connection up to its loss.
LEMMA WindowType ==
    ASSUME gen \in Nat, NEW said \in Windows, NEW gap \in BOOLEAN
    PROVE  /\ Window(said, gap) \in Seq(Event)
           /\ \A k \in 1..Len(Window(said, gap)) :
                 ResetBy(Window(said, gap), k - 1) \/ Window(said, gap)[k].gen = gen
<1> DEFINE w == Window(said, gap)
           n == Len(said)
<1>1. said \in Seq(Said) /\ n \in Nat /\ DOMAIN said = 1..n
  OBVIOUS
<1>2. ASSUME NEW k \in 1..n PROVE Resets(said, k) \in Nat
  <2>1. {j \in 1..(k - 1) : said[j].kind = "reset"} \subseteq 1..(k - 1)
    OBVIOUS
  <2>2. IsFiniteSet(1..(k - 1))
    BY FS_Interval
  <2> QED
    BY <2>1, <2>2, FS_Subset, FS_CardinalityType DEF Resets
<1>3. \A k \in 1..n : said[k].kind \in Kind /\ said[k].item \in {0} \cup Items
  <2>1. \A k \in 1..n : said[k] \in Said
    BY <1>1
  <2> QED
    BY <2>1 DEF Said
<1>4. \A k \in 1..n : w[k] \in Event
  BY <1>1, <1>2, <1>3 DEF Window, Event
<1>5. w \in Seq(Event) /\ Len(w) = n
  BY <1>1, <1>4 DEF Window
<1>6. ASSUME NEW k \in 1..n, ~ResetBy(w, k - 1) PROVE w[k].gen = gen
  <2>1. \A j \in 1..(k - 1) : w[j].kind = said[j].kind
    BY <1>1 DEF Window
  <2>2. {j \in 1..(k - 1) : said[j].kind = "reset"} = {}
    BY <1>6, <2>1 DEF ResetBy
  <2>3. Resets(said, k) = 0
    BY <2>2, FS_EmptySet DEF Resets
  <2> QED
    BY <1>1, <2>3 DEF Window
<1> QED
  BY <1>5, <1>6

\* What a window is in the steps below.
Windowing(w) ==
    /\ w \in Seq(Event)
    /\ \A k \in 1..Len(w) : ResetBy(w, k - 1) \/ w[k].gen = gen

LEMMA ResetIsBy ==
    ASSUME NEW w \in Seq(Event)
    PROVE  HasReset(w) <=> ResetBy(w, Len(w))
BY DEF HasReset, ResetBy

\* A window without a loss is all of the present connection.
LEMMA CalmWindow ==
    ASSUME NEW w, Windowing(w), ~HasReset(w)
    PROVE  \A k \in 1..Len(w) : w[k].gen = gen /\ w[k].kind # "reset"
BY DEF Windowing, HasReset, ResetBy

-----------------------------------------------------------------------------
(* Each of them along a window.                                            *)

\* A snapshot keeps its item and connection, and does not outlive the connection's loss.
LEMMA AppliedKeeps ==
    ASSUME NEW w, Windowing(w), NEW t \in Snapshot, Present(t), t.lost => ~t.confirmed
    PROVE  LET u == Applied(t, w) IN
           /\ u \in Snapshot /\ u.item = t.item /\ u.gen = t.gen
           /\ u.lost => ~u.confirmed
           /\ u.lost \/ (u.gen = gen /\ ~HasReset(w))
<1>1. w \in Seq(Event)
  BY DEF Windowing
<1>2. PICK f \in [0..Len(w) -> Snapshot] :
         /\ f[0] = t /\ Applied(t, w) = f[Len(w)]
         /\ \A k \in 1..Len(w) : f[k] = Seen(f[k - 1], w[k])
  BY <1>1, SeenAlong
<1> DEFINE n == Len(w)
           S == {k \in 0..n : /\ f[k].item = t.item /\ f[k].gen = t.gen
                              /\ f[k].lost => ~f[k].confirmed
                              /\ f[k].lost \/ (f[k].gen = gen /\ ~ResetBy(w, k))}
<1>3. n \in Nat
  BY <1>1
<1>4. 0 \in S
  BY <1>2, <1>3 DEF Present, ResetBy
<1>5. ASSUME NEW k \in 1..n, k - 1 \in S PROVE k \in S
  <2>1. /\ f[k] = Seen(f[k - 1], w[k]) /\ f[k - 1] \in Snapshot /\ w[k] \in Event
        /\ ResetBy(w, k - 1) \/ w[k].gen = gen
        /\ ResetBy(w, k) <=> ResetBy(w, k - 1) \/ w[k].kind = "reset"
    BY <1>1, <1>2, <1>3 DEF Windowing, ResetBy
  <2>2. f[k].item = t.item /\ f[k].gen = t.gen
    BY <1>5, <2>1, SeenType
  <2>3. /\ f[k].lost => ~f[k].confirmed
        /\ f[k].lost \/ (f[k].gen = gen /\ ~ResetBy(w, k))
    <3>1. CASE f[k - 1].lost
      BY <1>5, <2>1, <3>1 DEF Seen
    <3>2. CASE ~f[k - 1].lost
      <4>1. f[k - 1].gen = gen /\ w[k].gen = gen /\ ~ResetBy(w, k - 1)
        BY <1>5, <2>1, <3>2
      <4>2. f[k].lost => ~f[k].confirmed
        BY <1>5, <2>1, <3>2, <4>1 DEF Seen, Departs, LostSession, Snapshot
      <4>3. w[k].kind = "reset" => f[k].lost
        BY <1>5, <2>1, <3>2, <4>1 DEF Seen, Departs, LostSession, Snapshot
      <4> QED
        BY <2>1, <2>2, <4>1, <4>2, <4>3, <1>5
    <3> QED
      BY <3>1, <3>2
  <2> QED
    BY <2>2, <2>3
<1>6. 0..n \subseteq S
  <2> HIDE DEF S
  <2> QED
    BY <1>3, <1>4, <1>5, Along
<1>7. n \in S /\ f[n] \in Snapshot
  BY <1>2, <1>3, <1>6
<1> QED
  BY <1>1, <1>2, <1>7, ResetIsBy

\* A tracker keeps its content and connection, and refuses the connection's loss.
LEMMA TrackedKeeps ==
    ASSUME NEW w, Windowing(w), NEW r \in Tracker, Proper(r), r.refused \/ r.gen = gen
    PROVE  LET q == TracksAll(r, w) IN
           /\ q \in Tracker /\ Proper(q)
           /\ q.item = r.item /\ q.waiting = r.waiting /\ q.gen = r.gen
           /\ q.refused \/ (q.gen = gen /\ ~HasReset(w))
           /\ r.refused => q.refused
<1>1. w \in Seq(Event)
  BY DEF Windowing
<1>2. PICK f \in [0..Len(w) -> Tracker] :
         /\ f[0] = r /\ TracksAll(r, w) = f[Len(w)]
         /\ \A k \in 1..Len(w) : f[k] = Tracks(f[k - 1], w[k])
  BY <1>1, TracksAlong
<1> DEFINE n == Len(w)
           S == {k \in 0..n : /\ Proper(f[k])
                              /\ f[k].item = r.item /\ f[k].waiting = r.waiting
                              /\ f[k].gen = r.gen
                              /\ f[k].refused \/ (f[k].gen = gen /\ ~ResetBy(w, k))
                              /\ r.refused => f[k].refused}
<1>3. n \in Nat
  BY <1>1
<1>4. 0 \in S
  BY <1>2, <1>3 DEF ResetBy
<1>5. ASSUME NEW k \in 1..n, k - 1 \in S PROVE k \in S
  <2>1. /\ f[k] = Tracks(f[k - 1], w[k]) /\ f[k - 1] \in Tracker /\ w[k] \in Event
        /\ ResetBy(w, k) <=> ResetBy(w, k - 1) \/ w[k].kind = "reset"
    BY <1>1, <1>2, <1>3 DEF ResetBy
  <2>2. Proper(f[k]) /\ f[k].item = r.item /\ f[k].waiting = r.waiting /\ f[k].gen = r.gen
    BY <1>5, <2>1, TracksType
  <2>3. /\ f[k].refused \/ (f[k].gen = gen /\ ~ResetBy(w, k))
        /\ r.refused => f[k].refused
    <3>1. CASE f[k - 1].refused
      BY <2>1, <3>1 DEF Tracks
    <3>2. CASE ~f[k - 1].refused
      <4>1. (w[k].kind = "reset" => f[k].refused) /\ ~r.refused
        BY <1>5, <2>1, <3>2, ForgottenType DEF Tracks, Refusal, Tracker
      <4> QED
        BY <1>5, <2>1, <2>2, <3>2, <4>1
    <3> QED
      BY <3>1, <3>2
  <2> QED
    BY <2>2, <2>3
<1>6. 0..n \subseteq S
  <2> HIDE DEF S
  <2> QED
    BY <1>3, <1>4, <1>5, Along
<1>7. n \in S /\ f[n] \in Tracker
  BY <1>2, <1>3, <1>6
<1> QED
  BY <1>1, <1>2, <1>7, ResetIsBy

-----------------------------------------------------------------------------
(* The tracker and the history.                                            *)

\* The tracker of the item after the latest attempt.
Follows(r, i) == r.item = i + 1 /\ r.waiting = i

\* One observation leaves the tracker and the history tied.
LEMMA TiedStep ==
    ASSUME NEW r \in Tracker, NEW h \in History, NEW e \in Event,
           Attempt \in Nat, Follows(r, Attempt), Tied(r, h)
    PROVE  Tied(Tracks(r, e), Note(h, e))
<1> DEFINE s == IF e.gap THEN [r EXCEPT !.receiver = FALSE, !.snap = Forgotten(@)] ELSE r
           g == IF e.gap THEN [h EXCEPT !.alive = FALSE, !.entered = FALSE] ELSE h
           begun == IF s.snap = None THEN NewSnapshot(r.item, r.gen) ELSE s.snap
<1>1. CASE r.refused
  BY <1>1 DEF Tracks, Tied
<1>2. CASE Refusal(r, e)
  <2>1. Tracks(r, e).refused
    BY <1>2, ForgottenType DEF Tracks, Tracker
  <2> QED
    BY <2>1 DEF Tied
<1>3. CASE ~r.refused /\ ~Refusal(r, e)
  <2>1. /\ s \in Tracker /\ ~s.refused /\ g \in History
        /\ s.receiver = g.alive /\ (g.entered => s.snap # None)
        /\ s.snap # None /\ s.snap.confirmed => g.entered
        /\ ~g.broken /\ (s.snap = None <=> r.snap = None)
    BY <1>3, ForgottenType DEF Tied, Tracker, History
  <2>2. /\ e.kind \in {"alive", "play", "end"}
        /\ e.kind # "alive" => e.item = Attempt + 1 \/ (e.item = Attempt /\ r.snap = None)
    BY <1>3 DEF Refusal, Unexpected, Playback, Event, Kind, Follows
  <2>3. begun \in Snapshot
    BY <2>1 DEF Tracker, NewSnapshot, Snapshot, Event
  <2>4. CASE e.kind = "alive"
    <3>1. Tracks(r, e) = [s EXCEPT !.receiver = TRUE]
      BY <1>3, <2>4 DEF Tracks, Playback
    <3>2. Note(h, e) = [g EXCEPT !.alive = TRUE]
      BY <2>4 DEF Note
    <3> HIDE DEF s, g
    <3> QED
      BY <2>1, <3>1, <3>2 DEF Tied, Tracker, History
  <2>5. CASE e.kind # "alive" /\ ~s.receiver
    <3>1. Tracks(r, e) = [s EXCEPT !.snap = Forgotten(@)]
      BY <1>3, <2>2, <2>5 DEF Tracks, Playback
    <3>2. CASE e.kind = "play" /\ e.item = Attempt + 1
      <4>1. Note(h, e) = [g EXCEPT !.entered = g.alive]
        BY <3>2 DEF Note
      <4> HIDE DEF s, g
      <4> QED
        BY <2>1, <2>5, <3>1, <4>1, ForgottenType DEF Tied, Tracker, History
    <3>3. CASE e.kind = "play" /\ e.item = Attempt
      <4>1. Note(h, e) = [g EXCEPT !.broken = @ \/ g.entered]
        BY <3>3 DEF Note
      <4>2. r.snap = None
        BY <2>2, <3>3
      <4> HIDE DEF s, g
      <4> QED
        BY <2>1, <2>5, <3>1, <4>1, <4>2, ForgottenType DEF Tied, Tracker, History
    <3>4. CASE e.kind = "end"
      <4>1. Note(h, e) = g
        BY <2>2, <3>4 DEF Note
      <4> HIDE DEF s, g
      <4> QED
        BY <2>1, <2>5, <3>1, <4>1, ForgottenType DEF Tied, Tracker, History
    <3> QED
      BY <2>2, <2>5, <3>2, <3>3, <3>4
  <2>6. CASE e.kind # "alive" /\ s.receiver /\ e.item = r.item
    <3>1. Tracks(r, e) = [s EXCEPT !.snap = Seen(begun, e)]
      BY <1>3, <2>2, <2>6 DEF Tracks, Playback
    <3>2. Seen(begun, e) \in Snapshot
      BY <2>3, SeenType
    <3>3. CASE e.kind = "play"
      <4>1. Note(h, e) = [g EXCEPT !.entered = g.alive]
        BY <2>6, <3>3 DEF Note, Follows
      <4> HIDE DEF s, g, begun
      <4> QED
        <5>1. /\ Note(h, e).alive = g.alive /\ Note(h, e).entered /\ ~Note(h, e).broken
              /\ Note(h, e).alive
          BY <2>1, <2>6, <4>1 DEF Tracker, History
        <5>2. /\ Tracks(r, e).receiver = s.receiver
              /\ Tracks(r, e).snap = Seen(begun, e)
          BY <2>1, <3>1 DEF Tracker
        <5>3. Seen(begun, e) # None
          BY <3>2
        <5> QED
          BY <2>1, <5>1, <5>2, <5>3 DEF Tied
    <3>4. CASE e.kind = "end"
      <4>1. Note(h, e) = g
        BY <2>6, <3>4 DEF Note, Follows
      <4>2. Seen(begun, e).confirmed => begun.confirmed
        BY <2>3, <3>4 DEF Seen, Departs, Playback, LostSession, Snapshot
      <4>3. begun.confirmed => s.snap # None /\ s.snap.confirmed
        BY DEF NewSnapshot
      <4> HIDE DEF s, g, begun
      <4> QED
        <5>1. /\ Tracks(r, e).receiver = s.receiver
              /\ Tracks(r, e).snap = Seen(begun, e)
          BY <2>1, <3>1 DEF Tracker
        <5>2. Seen(begun, e) # None
          BY <3>2
        <5> QED
          BY <2>1, <4>1, <4>2, <4>3, <5>1, <5>2 DEF Tied
    <3> QED
      BY <2>2, <2>6, <3>3, <3>4
  <2>7. CASE e.kind # "alive" /\ s.receiver /\ e.item # r.item
    <3>1. Tracks(r, e) = s /\ r.snap = None /\ e.item = Attempt
      BY <1>3, <2>2, <2>7 DEF Tracks, Follows
    <3>2. Note(h, e) \in {g, [g EXCEPT !.broken = @ \/ g.entered]}
      BY <2>2, <2>7, <3>1 DEF Note, Follows
    <3> HIDE DEF s, g
    <3> QED
      BY <2>1, <2>7, <3>1, <3>2 DEF Tied, Tracker, History
  <2> QED
    BY <2>4, <2>5, <2>6, <2>7
<1> QED
  BY <1>1, <1>2, <1>3

\* So does a whole window.
LEMMA TiedAlong ==
    ASSUME NEW w \in Seq(Event), NEW r \in Tracker, NEW h0 \in History,
           Attempt \in Nat, Follows(r, Attempt), Tied(r, h0)
    PROVE  /\ Tied(TracksAll(r, w), Noted(h0, w))
           /\ Noted(h0, w) \in History /\ Noted(h0, w).deferred = h0.deferred
<1>1. PICK f \in [0..Len(w) -> Tracker] :
         /\ f[0] = r /\ TracksAll(r, w) = f[Len(w)]
         /\ \A k \in 1..Len(w) : f[k] = Tracks(f[k - 1], w[k])
  BY TracksAlong
<1>2. PICK d \in [0..Len(w) -> History] :
         /\ d[0] = h0 /\ Noted(h0, w) = d[Len(w)]
         /\ \A k \in 1..Len(w) : d[k] = Note(d[k - 1], w[k])
  BY NoteAlong
<1> DEFINE n == Len(w)
           S == {k \in 0..n : /\ Tied(f[k], d[k]) /\ Follows(f[k], Attempt)
                              /\ d[k].deferred = h0.deferred}
<1>3. n \in Nat
  OBVIOUS
<1>4. 0 \in S
  BY <1>1, <1>2, <1>3
<1>5. ASSUME NEW k \in 1..n, k - 1 \in S PROVE k \in S
  <2>1. /\ f[k] = Tracks(f[k - 1], w[k]) /\ f[k - 1] \in Tracker /\ w[k] \in Event
        /\ d[k] = Note(d[k - 1], w[k]) /\ d[k - 1] \in History
    BY <1>1, <1>2, <1>3
  <2>2. Tied(f[k], d[k])
    BY <1>5, <2>1, TiedStep
  <2>3. Follows(f[k], Attempt)
    BY <1>5, <2>1, TracksType DEF Follows
  <2>4. d[k].deferred = h0.deferred
    BY <1>5, <2>1, NoteType
  <2> QED
    BY <2>2, <2>3, <2>4
<1>6. 0..n \subseteq S
  <2> HIDE DEF S
  <2> QED
    BY <1>3, <1>4, <1>5, Along
<1>7. n \in S /\ d[n] \in History
  BY <1>2, <1>3, <1>6
<1> QED
  BY <1>1, <1>2, <1>7

\* The history keeps its type, and the handoff a stop waits for, whatever is said.
LEMMA NotedType ==
    ASSUME NEW w \in Seq(Event), NEW h0 \in History
    PROVE  Noted(h0, w) \in History /\ Noted(h0, w).deferred = h0.deferred
<1>1. PICK d \in [0..Len(w) -> History] :
         /\ d[0] = h0 /\ Noted(h0, w) = d[Len(w)]
         /\ \A k \in 1..Len(w) : d[k] = Note(d[k - 1], w[k])
  BY NoteAlong
<1> DEFINE n == Len(w)
           S == {k \in 0..n : d[k].deferred = h0.deferred}
<1>2. n \in Nat /\ 0 \in S
  BY <1>1
<1>3. ASSUME NEW k \in 1..n, k - 1 \in S PROVE k \in S
  <2>1. d[k] = Note(d[k - 1], w[k]) /\ d[k - 1] \in History /\ w[k] \in Event
    BY <1>1, <1>2
  <2> QED
    BY <1>3, <2>1, NoteType
<1>4. 0..n \subseteq S
  <2> HIDE DEF S
  <2> QED
    BY <1>2, <1>3, Along
<1>5. n \in S /\ d[n] \in History
  BY <1>1, <1>2, <1>4
<1> QED
  BY <1>1, <1>5

-----------------------------------------------------------------------------
(* The invariant, step by step.                                            *)

\* An empty window changes nothing.
LEMMA NothingSaid ==
    /\ \A t \in Snapshot \cup {None} : Applied(t, <<>>) = t
    /\ \A r \in Tracker \cup {None} : TracksAll(r, <<>>) = r
    /\ \A h \in History : Noted(h, <<>>) = h
<1>1. <<>> \in Seq(Event) /\ Len(<<>>) = 0
  OBVIOUS
<1>2. ASSUME NEW t \in Snapshot PROVE Applied(t, <<>>) = t
  <2> DEFINE w == <<>>
  <2>1. w \in Seq(Event) /\ Len(w) = 0
    BY <1>1
  <2> HIDE DEF w
  <2>2. PICK f \in [0..Len(w) -> Snapshot] :
           /\ f[0] = t /\ Applied(t, w) = f[Len(w)]
           /\ \A k \in 1..Len(w) : f[k] = Seen(f[k - 1], w[k])
    BY <2>1, SeenAlong
  <2> QED
    BY <2>1, <2>2 DEF w
<1>3. ASSUME NEW r \in Tracker PROVE TracksAll(r, <<>>) = r
  <2> DEFINE w == <<>>
  <2>1. w \in Seq(Event) /\ Len(w) = 0
    BY <1>1
  <2> HIDE DEF w
  <2>2. PICK f \in [0..Len(w) -> Tracker] :
           /\ f[0] = r /\ TracksAll(r, w) = f[Len(w)]
           /\ \A k \in 1..Len(w) : f[k] = Tracks(f[k - 1], w[k])
    BY <2>1, TracksAlong
  <2> QED
    BY <2>1, <2>2 DEF w
<1>4. ASSUME NEW h \in History PROVE Noted(h, <<>>) = h
  <2> DEFINE w == <<>>
  <2>1. w \in Seq(Event) /\ Len(w) = 0
    BY <1>1
  <2> HIDE DEF w
  <2>2. PICK f \in [0..Len(w) -> History] :
           /\ f[0] = h /\ Noted(h, w) = f[Len(w)]
           /\ \A k \in 1..Len(w) : f[k] = Note(f[k - 1], w[k])
    BY <2>1, NoteAlong
  <2> QED
    BY <2>1, <2>2 DEF w
<1>5. Applied(None, <<>>) = None /\ TracksAll(None, <<>>) = None
  BY DEF Applied, TracksAll
<1> QED
  BY <1>2, <1>3, <1>4, <1>5

LEMMA Count == \A n \in Nat : Cardinality(1..n) = n
<1> SUFFICES ASSUME NEW n \in Nat PROVE Cardinality(1..n) = n
  OBVIOUS
<1> QED
  BY FS_Interval

\* Where no attempt is made and none reserved, the queue is as it was.
LEMMA SameQueue ==
    ASSUME UNCHANGED <<intent, reservation>>
    PROVE  Attempted' = Attempted /\ Attempt' = Attempt /\ Outstanding' = Outstanding
BY DEF Attempted, Attempt, Outstanding

\* So it is where an attempt changes only between its later states.
LEMMA SameAttempts ==
    ASSUME IInv, NEW s \in Intent \ {"pending"}, UNCHANGED reservation,
           intent[Attempt] # "pending",
           intent' = intent \/ intent' = [intent EXCEPT ![Attempt] = s]
    PROVE  /\ Attempted' = Attempted /\ Attempt' = Attempt /\ Outstanding' = Outstanding
           /\ intent' \in [Items -> Intent]
<1>1. Attempted' = Attempted
  BY DEF IInv, TypeInv, QueueInv, Attempted
<1> QED
  BY <1>1 DEF IInv, TypeInv, Attempt, Outstanding

LEMMA InitIInv == Init => IInv
<1> SUFFICES ASSUME Init PROVE IInv
  OBVIOUS
<1>1. Attempted = {} /\ Outstanding = {}
  BY DEF Init, Attempted, Outstanding
<1>2. Attempt = 0 /\ Attempted = 1..0
  BY <1>1, FS_EmptySet DEF Attempt
<1>3. TypeInv
  BY DEF Init, TypeInv, Intent, Reservation, ExecState, Place, History, NoWitness
<1>4. QueueInv
  BY <1>1, <1>2 DEF Init, QueueInv
<1> QED
  BY <1>1, <1>3, <1>4
     DEF Init, IInv, OwnInv, CurrentInv, SuccessorInv, AwaitedInv, WitnessInv, StopInv, ClaimInv

LEMMA CancelKeeps == IInv /\ CancelRequested => IInv'
<1> SUFFICES ASSUME IInv, CancelRequested PROVE IInv'
  OBVIOUS
<1> USE DEF CancelRequested, Journal, Process, Rows
<1>1. Attempted' = Attempted /\ Attempt' = Attempt /\ Outstanding' = Outstanding
  BY SameQueue
<1>2. TypeInv'
  BY DEF IInv, TypeInv
<1>3. QueueInv' /\ (saved \subseteq Attempted)'
  BY <1>1 DEF IInv, QueueInv
<1>4. OwnInv' /\ CurrentInv' /\ SuccessorInv'
  BY <1>1 DEF IInv, OwnInv, CurrentInv, SuccessorInv, Present, Tracking
<1>5. AwaitedInv' /\ WitnessInv' /\ StopInv' /\ ClaimInv'
  BY <1>1 DEF IInv, AwaitedInv, WitnessInv, StopInv, ClaimInv, Sent
<1> QED
  BY <1>2, <1>3, <1>4, <1>5 DEF IInv

LEMMA CrashKeeps == IInv /\ Crash => IInv'
<1> SUFFICES ASSUME IInv, Crash PROVE IInv'
  OBVIOUS
<1> USE DEF Crash, Journal, Rows
<1>1. Attempted' = Attempted /\ Attempt' = Attempt /\ Outstanding' = Outstanding
  BY SameQueue
<1>2. TypeInv'
  BY DEF IInv, TypeInv, Place, History, NoWitness
<1>3. QueueInv' /\ (saved \subseteq Attempted)'
  BY <1>1 DEF IInv, QueueInv
<1>4. OwnInv' /\ CurrentInv' /\ SuccessorInv'
  BY DEF OwnInv, CurrentInv, SuccessorInv
<1>5. AwaitedInv' /\ WitnessInv' /\ StopInv' /\ ClaimInv'
  BY DEF AwaitedInv, WitnessInv, StopInv, ClaimInv, NoWitness
<1> QED
  BY <1>2, <1>3, <1>4, <1>5 DEF IInv

LEMMA RestartKeeps == IInv /\ Restart => IInv'
<1> SUFFICES ASSUME IInv, Restart PROVE IInv'
  OBVIOUS
<1> USE DEF Restart
<1>1. Attempted' = Attempted /\ Attempt' = Attempt /\ Outstanding' = Outstanding
  BY SameQueue
<1>2. \A i \in Items : enqueue'[i] \in ExecState /\ (Sent(i)' <=> Sent(i))
  BY DEF IInv, TypeInv, ExecState, Unsettled, Sent
<1>3. TypeInv'
  BY <1>2 DEF IInv, TypeInv, Place, Rest
<1>4. QueueInv' /\ (saved \subseteq Attempted)'
  BY <1>1 DEF IInv, QueueInv
<1>5. OwnInv' /\ CurrentInv' /\ SuccessorInv'
  BY <1>1 DEF IInv, OwnInv, CurrentInv, SuccessorInv, Present, Tracking, Rest
<1>6. AwaitedInv'
  BY <1>1, <1>2 DEF IInv, AwaitedInv, Outstanding
<1>7. WitnessInv' /\ StopInv' /\ ClaimInv'
  BY <1>1 DEF IInv, WitnessInv, StopInv, ClaimInv
<1> QED
  BY <1>3, <1>4, <1>5, <1>6, <1>7 DEF IInv

LEMMA LaunchKeeps == IInv /\ Launch => IInv'
<1> SUFFICES ASSUME IInv, Launch PROVE IInv'
  OBVIOUS
<1>1. Attempt = 0 /\ Outstanding = {} /\ pc = "idle"
  <2>1. Attempt = 0
    BY FS_EmptySet DEF Launch, Attempt
  <2> QED
    BY <2>1 DEF IInv, QueueInv, Launch, Outstanding, Items
<1>2. own = None /\ current = None /\ successor = None
  <2>1. own = None
    BY DEF IInv, OwnInv, Launch
  <2>2. current = None
    BY <1>1 DEF IInv, TypeInv, CurrentInv, Tracker
  <2>3. successor = None
    BY <1>1 DEF IInv, TypeInv, SuccessorInv, Tracker, Launch
  <2> QED
    BY <2>1, <2>2, <2>3
<1>3. 1 \in Items /\ Items \subseteq Nat
  BY DEF Items
<1>4. Attempted' = 1..1 /\ Outstanding' = {}
  <2>1. \E s \in Intent \ {"pending"} : intent' = [intent EXCEPT ![1] = s]
    BY DEF Launch, Intent
  <2>2. Attempted' = {1}
    BY <1>3, <2>1 DEF Launch, IInv, TypeInv, Attempted
  <2>3. Outstanding' = {}
    BY <1>1 DEF Launch, Rows, Outstanding
  <2> QED
    BY <2>2, <2>3
<1>5. Attempt' = 1
  BY <1>4, Count DEF Attempt
<1>6. own' # None => /\ own' \in Snapshot /\ own'.item = 1 /\ own'.gen = gen
                     /\ ~own'.lost /\ ~own'.confirmed
  <2>1. NewSnapshot(1, gen) \in Snapshot
    BY <1>3 DEF NewSnapshot, Snapshot, IInv, TypeInv
  <2>2. own' = None \/ own' = NewSnapshot(1, gen)
    BY <1>2 DEF Launch
  <2>3. LET n == NewSnapshot(1, gen) IN n.item = 1 /\ n.gen = gen /\ ~n.lost /\ ~n.confirmed
    BY DEF NewSnapshot
  <2> QED
    BY <2>1, <2>2, <2>3
<1>7. saved' \subseteq {1}
  BY <1>3 DEF Launch, IInv, Attempted
<1>8. UNCHANGED <<reservation, enqueue, clear, canceled, stops, recovering, seen, current,
                  successor, pending, pc, then, latch, asked, gen, witness>>
  BY DEF Launch, Rows, Rest
<1>9. TypeInv'
  <2>1. intent' \in [Items -> Intent] /\ hold' \in BOOLEAN /\ active' \in BOOLEAN
    BY <1>3 DEF Launch, IInv, TypeInv, Intent
  <2>2. own' \in Snapshot \cup {None} /\ saved' \subseteq Items
    BY <1>3, <1>6, <1>7
  <2> QED
    BY <1>8, <2>1, <2>2 DEF IInv, TypeInv
<1>10. QueueInv' /\ (saved \subseteq Attempted)'
  BY <1>1, <1>4, <1>5, <1>7, <1>8 DEF QueueInv
<1>11. OwnInv' /\ CurrentInv' /\ SuccessorInv'
  BY <1>1, <1>2, <1>4, <1>5, <1>6, <1>8 DEF OwnInv, CurrentInv, SuccessorInv, Present
<1>12. AwaitedInv' /\ WitnessInv'
  BY <1>2, <1>4, <1>8 DEF AwaitedInv, WitnessInv
<1>13. StopInv' /\ ClaimInv'
  BY <1>1, <1>8 DEF IInv, StopInv, ClaimInv
<1> QED
  BY <1>9, <1>10, <1>11, <1>12, <1>13 DEF IInv

LEMMA ReconcileKeeps == IInv /\ ReconcileCurrent => IInv'
<1> SUFFICES ASSUME IInv, ReconcileCurrent PROVE IInv'
  OBVIOUS
<1>1. /\ UNCHANGED <<reservation, enqueue, clear, canceled, hold, stops, active, recovering, seen,
                     successor, pending, then, latch, asked, gen, witness>>
      /\ pc = "reconcile" /\ pc' = "adopt"
  BY DEF ReconcileCurrent, Rows, Rest
<1>2. /\ Attempted' = Attempted /\ Attempt' = Attempt /\ Outstanding' = Outstanding
      /\ intent' \in [Items -> Intent]
  <2>1. CASE UNCHANGED intent
    BY <1>1, <2>1, SameQueue DEF IInv, TypeInv
  <2>2. CASE intent' # intent
    <3>1. intent' = [intent EXCEPT ![Attempt] = "finished"] /\ intent[Attempt] = "current"
      BY <2>2 DEF ReconcileCurrent, Settles
    <3> QED
      BY <1>1, <3>1, SameAttempts DEF Intent
  <2> QED
    BY <2>1, <2>2
<1>3. \/ /\ own = None /\ Ready(current)
         /\ own' = current.snap /\ saved' = saved \cup {current.item} /\ current' = None
      \/ UNCHANGED <<own, saved, current>>
  BY DEF ReconcileCurrent
<1>4. TypeInv' /\ QueueInv' /\ OwnInv' /\ CurrentInv' /\ AwaitedInv' /\ (saved \subseteq Attempted)'
  <2>1. CASE UNCHANGED <<own, saved, current>>
    <3>1. TypeInv' /\ QueueInv' /\ (saved \subseteq Attempted)'
      BY <1>1, <1>2, <2>1 DEF IInv, TypeInv, Place, QueueInv
    <3>2. OwnInv' /\ CurrentInv'
      BY <1>1, <1>2, <2>1 DEF IInv, OwnInv, CurrentInv, Present, Tracking
    <3>3. AwaitedInv'
      BY <1>1, <1>2, <2>1 DEF IInv, AwaitedInv, Sent
    <3> QED
      BY <3>1, <3>2, <3>3
  <2>2. CASE own = None /\ Ready(current) /\ own' = current.snap
             /\ saved' = saved \cup {current.item} /\ current' = None
    <3>1. /\ current \in Tracker /\ current.snap \in Snapshot /\ current.item \in Items
          /\ current.item = Attempt /\ ~current.refused
          /\ current.snap.item = Attempt /\ current.snap.gen = gen /\ seen = gen
          /\ ~current.snap.lost
      BY <1>1, <2>2 DEF IInv, TypeInv, CurrentInv, Tracking, Proper, Ready, Tracker
    <3>2. Attempt \in Attempted
      BY <3>1 DEF IInv, QueueInv, Items
    <3>3. TypeInv' /\ QueueInv' /\ (saved \subseteq Attempted)'
      BY <1>1, <1>2, <2>2, <3>1, <3>2 DEF IInv, TypeInv, Place, QueueInv
    <3>4. OwnInv' /\ CurrentInv'
      BY <1>1, <1>2, <2>2, <3>1, <3>2 DEF OwnInv, CurrentInv, Present
    <3>5. AwaitedInv'
      <4>1. current # None
        BY <2>2 DEF Ready
      <4> QED
        BY <1>1, <1>2, <4>1 DEF IInv, AwaitedInv, Sent
    <3> QED
      BY <3>3, <3>4, <3>5
  <2> QED
    BY <1>3, <2>1, <2>2
<1>5. SuccessorInv' /\ WitnessInv'
  BY <1>1, <1>2 DEF IInv, SuccessorInv, WitnessInv, Tracking
<1>6. StopInv' /\ ClaimInv'
  BY <1>1 DEF IInv, StopInv, ClaimInv
<1> QED
  BY <1>4, <1>5, <1>6 DEF IInv

LEMMA AdoptKeeps == IInv /\ Adopt => IInv'
<1> SUFFICES ASSUME IInv, Adopt PROVE IInv'
  OBVIOUS
<1>1. PICK i \in Outstanding : Ready(successor) /\ successor.item = i + 1 /\ i = Attempt /\ Adopts(i)
  BY DEF Adopt
<1>2. /\ UNCHANGED <<enqueue, clear, canceled, stops, saved, active, recovering, seen, own, current,
                     successor, pending, then, latch, asked, gen, witness>>
      /\ pc = "adopt" /\ pc' = "save"
  BY DEF Adopt, Process, Rest
<1>3. i \in Items /\ i + 1 \in Items /\ i \in Attempted /\ intent[i] # "pending"
  <2>1. i \in Items /\ i # ItemCount
    BY <1>1 DEF IInv, QueueInv, Outstanding
  <2>2. i \in Attempted
    BY <1>1, <2>1 DEF IInv, QueueInv, Items
  <2> QED
    BY <2>1, <2>2 DEF Attempted, Items
<1>4. intent' \in [Items -> Intent] /\ reservation' \in [Items -> Reservation] /\ hold' \in BOOLEAN
  BY <1>1, <1>3 DEF Adopts, IInv, TypeInv, Intent, Reservation
<1>5. Attempted' = 1..(Attempt + 1)
  <2>1. \A j \in Items : intent'[j] # "pending" <=> j = i + 1 \/ intent[j] # "pending"
    BY <1>1, <1>3 DEF Adopts, IInv, TypeInv
  <2>2. Attempted' = Attempted \cup {i + 1}
    BY <1>3, <2>1 DEF Attempted
  <2> QED
    BY <1>1, <1>3, <2>2 DEF IInv, QueueInv
<1>6. Attempt' = Attempt + 1
  <2>1. Attempt \in Nat
    BY DEF IInv, QueueInv
  <2> QED
    BY <1>5, <2>1, Count DEF Attempt
<1>7. Outstanding' = {}
  <2>1. Outstanding = {i}
    BY <1>1 DEF IInv, QueueInv
  <2> QED
    BY <1>1, <1>3, <2>1 DEF Adopts, IInv, TypeInv, Outstanding
<1>8. TypeInv'
  BY <1>2, <1>4 DEF IInv, TypeInv, Place
<1>9. QueueInv' /\ (saved \subseteq Attempted)'
  BY <1>1, <1>2, <1>3, <1>5, <1>6, <1>7 DEF IInv, QueueInv
<1>10. OwnInv' /\ CurrentInv' /\ SuccessorInv'
  BY <1>1, <1>2, <1>3, <1>5, <1>6
     DEF IInv, OwnInv, CurrentInv, SuccessorInv, QueueInv, Present, Tracking
<1>11. AwaitedInv' /\ WitnessInv' /\ StopInv' /\ ClaimInv'
  BY <1>2, <1>7 DEF IInv, AwaitedInv, WitnessInv, StopInv, ClaimInv
<1> QED
  BY <1>8, <1>9, <1>10, <1>11 DEF IInv

LEMMA SaveKeeps == IInv /\ Save => IInv'
<1> SUFFICES ASSUME IInv, Save PROVE IInv'
  OBVIOUS
<1>1. /\ UNCHANGED <<intent, reservation, enqueue, clear, canceled, hold, stops, active, recovering,
                     seen, pending, then, latch, asked, gen, witness>>
      /\ pc = "save" /\ pc' = then /\ current' = None /\ successor' = None
      /\ own' = successor.snap /\ saved' = saved \cup {successor.item}
  BY DEF Save, Journal, Rows, Rest
<1>2. Attempted' = Attempted /\ Attempt' = Attempt /\ Outstanding' = Outstanding
  BY <1>1, SameQueue
<1>3. /\ successor \in Tracker /\ successor.snap \in Snapshot /\ successor.item \in Items
      /\ successor.item = Attempt /\ successor.snap.item = Attempt
      /\ successor.snap.gen = gen /\ seen = gen /\ ~successor.snap.lost
  BY <1>1 DEF IInv, TypeInv, SuccessorInv, Tracking, Proper, Ready, Tracker
<1>4. Attempt \in Attempted
  BY <1>3 DEF IInv, QueueInv, Items
<1>5. TypeInv'
  BY <1>1, <1>3 DEF IInv, TypeInv, Place
<1>6. QueueInv' /\ (saved \subseteq Attempted)' /\ Outstanding' = {}
  BY <1>1, <1>2, <1>3, <1>4 DEF IInv, QueueInv
<1>7. OwnInv' /\ CurrentInv' /\ SuccessorInv'
  BY <1>1, <1>2, <1>3, <1>4 DEF IInv, TypeInv, OwnInv, CurrentInv, SuccessorInv, Present
<1>8. AwaitedInv' /\ WitnessInv'
  BY <1>1, <1>6 DEF AwaitedInv, WitnessInv
<1>9. StopInv' /\ ClaimInv'
  BY <1>1 DEF IInv, TypeInv, StopInv, ClaimInv
<1> QED
  BY <1>5, <1>6, <1>7, <1>8, <1>9 DEF IInv

LEMMA AdoptNothingKeeps == IInv /\ AdoptNothing => IInv'
<1> SUFFICES ASSUME IInv, AdoptNothing PROVE IInv'
  OBVIOUS
<1>1. /\ UNCHANGED <<intent, reservation, enqueue, clear, canceled, stops, saved, active, recovering,
                     seen, own, current, successor, pending, then, latch, asked, gen, witness>>
      /\ pc = "adopt" /\ pc' = then /\ hold' \in BOOLEAN
  BY DEF AdoptNothing, Rows, Process, Rest, IInv, TypeInv, Tracker
<1>2. Attempted' = Attempted /\ Attempt' = Attempt /\ Outstanding' = Outstanding
  BY <1>1, SameQueue
<1>3. TypeInv'
  BY <1>1 DEF IInv, TypeInv, Place
<1>4. QueueInv' /\ (saved \subseteq Attempted)'
  BY <1>1, <1>2 DEF IInv, TypeInv, QueueInv
<1>5. OwnInv' /\ CurrentInv' /\ SuccessorInv'
  BY <1>1, <1>2 DEF IInv, TypeInv, OwnInv, CurrentInv, SuccessorInv, Present, Tracking
<1>6. AwaitedInv' /\ WitnessInv' /\ StopInv' /\ ClaimInv'
  BY <1>1, <1>2 DEF IInv, TypeInv, AwaitedInv, WitnessInv, StopInv, ClaimInv, Sent
<1> QED
  BY <1>3, <1>4, <1>5, <1>6 DEF IInv

LEMMA StopNowKeeps == IInv /\ StopNow => IInv'
<1> SUFFICES ASSUME IInv, StopNow PROVE IInv'
  OBVIOUS
<1>1. /\ UNCHANGED <<intent, reservation, enqueue, canceled, saved, active, recovering, seen,
                     own, current, successor, then, latch, asked, gen>>
      /\ pc = "stop" /\ canceled
  BY DEF StopNow, Rest, IInv, StopInv
<1>2. Attempted' = Attempted /\ Attempt' = Attempt /\ Outstanding' = Outstanding
  BY <1>1, SameQueue
<1>3. clear' \in [Items -> ExecState] /\ hold' \in BOOLEAN
  BY DEF StopNow, Clears, IInv, TypeInv, ExecState
<1>4. \/ /\ Outstanding # {} /\ successor # None /\ stops' = stops /\ pc' = "idle"
         /\ pending' = IF pending = None THEN CHOOSE i \in Outstanding : TRUE ELSE pending
         /\ witness' = [witness EXCEPT !.deferred = IF pending = None THEN Attempt ELSE @]
      \/ /\ pending' = None /\ stops' \in Nat
         /\ pc' = "conclude" \/ (pc' = "stopping" /\ own # None)
         /\ witness' = [witness EXCEPT !.deferred = None]
  BY DEF StopNow, Defers, ClaimsStop, Owns, IInv, TypeInv
<1>5. /\ witness' \in History /\ pending' \in Items \cup {None} /\ stops' \in Nat
      /\ pc' \in {"idle", "conclude", "stopping"}
      /\ witness'.alive = witness.alive /\ witness'.entered = witness.entered
      /\ witness'.broken = witness.broken
      /\ pending' # None => seen # None /\ witness'.deferred = pending'
      /\ pc' = "stopping" => pending' = None /\ own # None
  <2>1. CASE pending' = None
    BY <1>4, <2>1 DEF IInv, TypeInv, History, Outstanding, QueueInv
  <2>2. CASE pending' # None
    <3>1. Outstanding = {Attempt} /\ Attempt \in Items /\ successor # None
      BY <1>4, <2>2 DEF IInv, QueueInv, Outstanding
    <3>2. pending' \in Items /\ witness'.deferred = pending'
      BY <1>4, <2>2, <3>1 DEF IInv, TypeInv, History, StopInv
    <3>3. seen # None
      BY <3>1 DEF IInv, SuccessorInv, Tracking
    <3> QED
      BY <1>4, <2>2, <3>1, <3>2, <3>3 DEF IInv, TypeInv, History, QueueInv
  <2> QED
    BY <2>1, <2>2
<1>6. TypeInv'
  BY <1>1, <1>3, <1>5 DEF IInv, TypeInv, Place
<1>7. QueueInv' /\ (saved \subseteq Attempted)'
  BY <1>1, <1>2, <1>5 DEF IInv, QueueInv
<1>8. OwnInv' /\ CurrentInv' /\ SuccessorInv'
  BY <1>1, <1>2, <1>5 DEF IInv, OwnInv, CurrentInv, SuccessorInv, Present, Tracking
<1>9. AwaitedInv' /\ WitnessInv'
  BY <1>1, <1>2, <1>5 DEF IInv, AwaitedInv, WitnessInv, Tied, Sent
<1>10. StopInv' /\ ClaimInv'
  BY <1>1, <1>5 DEF IInv, StopInv, ClaimInv
<1> QED
  BY <1>6, <1>7, <1>8, <1>9, <1>10 DEF IInv

LEMMA FinishStopKeeps == IInv /\ FinishStop => IInv'
<1> SUFFICES ASSUME IInv, FinishStop PROVE IInv'
  OBVIOUS
<1>1. /\ UNCHANGED <<intent, reservation, enqueue, canceled, saved, active, recovering, seen,
                     own, current, successor, then, latch, asked, gen>>
      /\ pc = "step"
  BY DEF FinishStop, Rest
<1>2. Attempted' = Attempted /\ Attempt' = Attempt /\ Outstanding' = Outstanding
  BY <1>1, SameQueue
<1>3. clear' \in [Items -> ExecState] /\ hold' \in BOOLEAN
  BY DEF FinishStop, Clears, IInv, TypeInv, ExecState
<1>4. /\ stops' \in Nat
      /\ \/ pending' = None /\ witness' = [witness EXCEPT !.deferred = None]
         \/ witness' = witness /\ pending' \in {pending, None}
      /\ \/ pc' = "conclude"
         \/ pc' = "stopping" /\ pending' = None /\ pending # None /\ own # None
  <2>1. CASE pending = None
    BY <2>1 DEF FinishStop, IInv, TypeInv
  <2>2. CASE pending # None
    BY <2>2 DEF FinishStop, ClaimsStop, Owns, IInv, TypeInv
  <2> QED
    BY <2>1, <2>2
<1>5. /\ witness' \in History /\ pending' \in Items \cup {None}
      /\ witness'.alive = witness.alive /\ witness'.entered = witness.entered
      /\ witness'.broken = witness.broken
      /\ pending' # None => pending' = pending /\ witness'.deferred = witness.deferred
  BY <1>4 DEF IInv, TypeInv, History
<1>6. TypeInv'
  BY <1>1, <1>3, <1>4, <1>5 DEF IInv, TypeInv, Place
<1>7. QueueInv' /\ (saved \subseteq Attempted)'
  BY <1>1, <1>2, <1>4 DEF IInv, QueueInv
<1>8. OwnInv' /\ CurrentInv' /\ SuccessorInv'
  BY <1>1, <1>2, <1>4 DEF IInv, OwnInv, CurrentInv, SuccessorInv, Present, Tracking
<1>9. AwaitedInv' /\ WitnessInv'
  BY <1>1, <1>2, <1>4, <1>5 DEF IInv, AwaitedInv, WitnessInv, Tied, Sent
<1>10. StopInv' /\ ClaimInv'
  BY <1>1, <1>4, <1>5 DEF IInv, StopInv, ClaimInv
<1> QED
  BY <1>6, <1>7, <1>8, <1>9, <1>10 DEF IInv

LEMMA ConcludeKeeps == IInv /\ Conclude => IInv'
<1> SUFFICES ASSUME IInv, Conclude PROVE IInv'
  OBVIOUS
<1>1. /\ UNCHANGED <<intent, enqueue, clear, canceled, hold, stops, saved, active, recovering, seen,
                     own, current, successor, pending, then, latch, asked, gen, witness>>
      /\ pc = "conclude" /\ pc' = "stage"
  BY DEF Conclude, Process, Rest
<1>2. Attempted' = Attempted /\ Attempt' = Attempt
  BY <1>1 DEF Attempted, Attempt
<1>3. /\ reservation' \in [Items -> Reservation]
      /\ Outstanding' \subseteq Outstanding
      /\ ~canceled => Outstanding' = Outstanding
  <2>1. CASE reservation' = reservation
    BY <2>1 DEF IInv, TypeInv, Outstanding
  <2>2. CASE reservation' # reservation
    <3>1. reservation' = [i \in Items |-> IF reservation[i] = "none" THEN "none" ELSE "exit"]
          /\ canceled
      BY <2>2 DEF Conclude
    <3> QED
      BY <3>1 DEF Outstanding, Reservation
  <2> QED
    BY <2>1, <2>2
<1>4. TypeInv'
  BY <1>1, <1>3 DEF IInv, TypeInv, Place
<1>5. QueueInv' /\ (saved \subseteq Attempted)'
  BY <1>1, <1>2, <1>3 DEF IInv, QueueInv
<1>6. OwnInv' /\ CurrentInv' /\ SuccessorInv'
  BY <1>1, <1>2, <1>3 DEF IInv, OwnInv, CurrentInv, SuccessorInv, Present, Tracking
<1>7. AwaitedInv' /\ WitnessInv'
  BY <1>1, <1>2, <1>3 DEF IInv, AwaitedInv, WitnessInv, Sent
<1>8. StopInv' /\ ClaimInv'
  BY <1>1 DEF IInv, StopInv, ClaimInv
<1> QED
  BY <1>4, <1>5, <1>6, <1>7, <1>8 DEF IInv

LEMMA StageKeeps == IInv /\ Stage => IInv'
<1> SUFFICES ASSUME IInv, Stage PROVE IInv'
  OBVIOUS
<1>1. /\ UNCHANGED <<intent, clear, hold, stops, saved, active, recovering, seen, own, current,
                     successor, pending, then, latch, asked, gen>>
      /\ pc = "stage" /\ canceled' \in BOOLEAN /\ (canceled => canceled')
  BY DEF Stage, Process, Rest, IInv, TypeInv
<1>2. Attempted' = Attempted /\ Attempt' = Attempt
  BY <1>1 DEF Attempted, Attempt
<1>3. CASE pc' = "idle"
  <2>1. UNCHANGED <<reservation, enqueue, witness>>
    BY <1>3 DEF Stage
  <2>2. Outstanding' = Outstanding
    BY <2>1 DEF Outstanding
  <2>3. TypeInv'
    BY <1>1, <1>3, <2>1 DEF IInv, TypeInv, Place
  <2>4. QueueInv' /\ (saved \subseteq Attempted)'
    BY <1>1, <1>2, <1>3, <2>2 DEF IInv, QueueInv
  <2>5. OwnInv' /\ CurrentInv' /\ SuccessorInv'
    BY <1>1, <1>2, <1>3, <2>2 DEF IInv, OwnInv, CurrentInv, SuccessorInv, Present, Tracking
  <2>6. AwaitedInv' /\ WitnessInv'
    BY <1>1, <1>2, <1>3, <2>1, <2>2 DEF IInv, AwaitedInv, WitnessInv, Sent
  <2>7. StopInv' /\ ClaimInv'
    BY <1>1, <1>3, <2>1 DEF IInv, StopInv, ClaimInv
  <2> QED
    BY <2>3, <2>4, <2>5, <2>6, <2>7 DEF IInv
<1>4. CASE pc' = "claimed"
  <2>1. /\ MayStage /\ then # "stop"
        /\ reservation' = [reservation EXCEPT ![Attempt] = "reserved"]
        /\ enqueue' = [enqueue EXCEPT ![Attempt] = "dispatched"]
        /\ witness' = [NoWitness EXCEPT !.deferred = witness.deferred]
    BY <1>4 DEF Stage
  <2>2. ~canceled /\ ~canceled' /\ Outstanding = {} /\ Attempt \in Items /\ Attempt < ItemCount
    BY <2>1 DEF Stage, MayStage, IInv, TypeInv, QueueInv, Items
  <2>3. successor = None /\ pending = None /\ then = "step"
    BY <1>1, <2>2 DEF IInv, TypeInv, SuccessorInv, StopInv
  <2>4. Outstanding' = {Attempt}
    BY <2>1, <2>2 DEF IInv, TypeInv, Outstanding
  <2>5. /\ witness' \in History
        /\ ~witness'.alive /\ ~witness'.entered /\ ~witness'.broken
    BY <2>1 DEF NoWitness, History, IInv, TypeInv
  <2>6. TypeInv'
    BY <1>1, <1>4, <2>1, <2>5 DEF IInv, TypeInv, Place, ExecState, Reservation
  <2>7. QueueInv' /\ (saved \subseteq Attempted)'
    BY <1>1, <1>2, <1>4, <2>2, <2>4 DEF IInv, QueueInv
  <2>8. OwnInv' /\ CurrentInv' /\ SuccessorInv'
    BY <1>1, <1>2, <1>4, <2>2, <2>3 DEF IInv, OwnInv, CurrentInv, SuccessorInv, Present, Tracking
  <2>9. AwaitedInv' /\ WitnessInv'
    BY <1>1, <1>4, <2>3, <2>5 DEF AwaitedInv, WitnessInv
  <2>10. StopInv' /\ ClaimInv'
    BY <1>1, <1>2, <1>4, <2>1, <2>2, <2>3, <2>4, <2>5 DEF StopInv, ClaimInv, MayStage, Owns
  <2> QED
    BY <2>6, <2>7, <2>8, <2>9, <2>10 DEF IInv
<1> QED
  BY <1>3, <1>4 DEF Stage

LEMMA EnqueueKeeps == IInv /\ Enqueue => IInv'
<1> SUFFICES ASSUME IInv, Enqueue PROVE IInv'
  OBVIOUS
<1>1. /\ UNCHANGED <<intent, reservation, clear, canceled, stops, saved, active, recovering, seen,
                     own, current, pending, then, latch, asked, gen, witness>>
      /\ pc = "claimed" /\ pc' = "idle"
  BY DEF Enqueue, Rest
<1>2. Attempted' = Attempted /\ Attempt' = Attempt /\ Outstanding' = Outstanding
  BY <1>1, SameQueue
<1>3. /\ Outstanding = {Attempt} /\ successor = None /\ own # None /\ own.gen = gen /\ seen = gen
      /\ ~canceled /\ ~witness.alive /\ ~witness.entered /\ ~witness.broken
  BY <1>1 DEF IInv, ClaimInv, OwnInv, Present
<1>4. Attempt \in Items /\ Attempt + 1 \in Items /\ gen \in Nat
  <2>1. Attempt \in Items /\ gen \in Nat
    BY <1>3 DEF IInv, TypeInv, Outstanding
  <2>2. Attempt # ItemCount
    BY <1>3 DEF IInv, QueueInv
  <2> QED
    BY <2>1, <2>2 DEF Items
<1>5. PICK outcome \in {"acknowledged", "rejected", "uncertain"} :
         /\ enqueue' = [enqueue EXCEPT ![Attempt] = outcome]
         /\ hold' = (hold \/ outcome # "acknowledged")
         /\ successor' = IF outcome = "rejected" THEN successor
                         ELSE NewTracker(Attempt + 1, Attempt, own.gen)
  BY DEF Enqueue
<1> DEFINE r == NewTracker(Attempt + 1, Attempt, gen)
<1>6. /\ r \in Tracker /\ Proper(r) /\ r.gen = gen
      /\ r.item = Attempt + 1 /\ r.waiting = Attempt /\ Tied(r, witness)
  BY <1>3, <1>4 DEF NewTracker, Tracker, Proper, Tied, IInv, TypeInv, History
<1>7. successor' # None => successor' = r
  BY <1>3, <1>5
<1> HIDE DEF r
<1>8. TypeInv'
  BY <1>1, <1>3, <1>5, <1>6, <1>7 DEF IInv, TypeInv, ExecState, Place
<1>9. QueueInv' /\ (saved \subseteq Attempted)'
  BY <1>1, <1>2 DEF IInv, QueueInv
<1>10. OwnInv' /\ CurrentInv'
  BY <1>1, <1>2 DEF IInv, OwnInv, CurrentInv, Present, Tracking
<1>11. SuccessorInv' /\ WitnessInv'
  BY <1>1, <1>2, <1>3, <1>4, <1>6, <1>7 DEF SuccessorInv, WitnessInv, Tracking, Proper
<1>12. AwaitedInv'
  <2>1. CASE outcome = "rejected"
    BY <1>2, <1>3, <1>4, <1>5, <2>1 DEF IInv, TypeInv, AwaitedInv, Sent
  <2>2. CASE outcome # "rejected"
    BY <1>3, <1>5, <1>6, <2>2 DEF AwaitedInv, r
  <2> QED
    BY <2>1, <2>2
<1>13. StopInv' /\ ClaimInv'
  BY <1>1 DEF IInv, StopInv, ClaimInv
<1> QED
  BY <1>8, <1>9, <1>10, <1>11, <1>12, <1>13 DEF IInv

\* What a window leaves of the trackers and of the history, where it is applied to them all.
LEMMA WindowKeeps ==
    ASSUME IInv, NEW w, Windowing(w), gen' = IF HasReset(w) THEN gen + 1 ELSE gen,
           NEW t \in Snapshot \cup {None}, t # None => Present(t) /\ (t.lost => ~t.confirmed),
           NEW r \in Tracker \cup {None}, r # None => Proper(r) /\ (r.refused \/ r.gen = gen)
    PROVE  /\ gen' \in Nat /\ (~HasReset(w) => gen' = gen)
           /\ LET u == Applied(t, w) IN
              /\ u \in Snapshot \cup {None} /\ (u = None <=> t = None)
              /\ u # None => /\ u.item = t.item /\ u.gen = t.gen
                             /\ u.lost => ~u.confirmed
                             /\ u.lost \/ (u.gen = gen' /\ ~HasReset(w))
           /\ LET q == TracksAll(r, w) IN
              /\ q \in Tracker \cup {None} /\ (q = None <=> r = None)
              /\ q # None => /\ q.item = r.item /\ q.waiting = r.waiting /\ Proper(q)
                             /\ q.refused \/ (q.gen = gen' /\ ~HasReset(w))
                             /\ r.refused => q.refused
           /\ Noted(witness, w) \in History /\ Noted(witness, w).deferred = witness.deferred
           /\ Witnessed(w) \in History
<1>1. gen' \in Nat /\ (~HasReset(w) => gen' = gen) /\ w \in Seq(Event) /\ witness \in History
  BY DEF IInv, TypeInv, Windowing
<1>2. t # None => LET u == Applied(t, w) IN
              /\ u \in Snapshot /\ u.item = t.item /\ u.gen = t.gen
              /\ u.lost => ~u.confirmed
              /\ u.lost \/ (u.gen = gen' /\ ~HasReset(w))
  <2> SUFFICES ASSUME t \in Snapshot PROVE LET u == Applied(t, w) IN
              /\ u \in Snapshot /\ u.item = t.item /\ u.gen = t.gen
              /\ u.lost => ~u.confirmed
              /\ u.lost \/ (u.gen = gen' /\ ~HasReset(w))
    OBVIOUS
  <2> QED
    BY <1>1, AppliedKeeps
<1>3. r # None => LET q == TracksAll(r, w) IN
              /\ q \in Tracker /\ q.item = r.item /\ q.waiting = r.waiting /\ Proper(q)
              /\ q.refused \/ (q.gen = gen' /\ ~HasReset(w))
              /\ r.refused => q.refused
  <2> SUFFICES ASSUME r \in Tracker PROVE LET q == TracksAll(r, w) IN
              /\ q \in Tracker /\ q.item = r.item /\ q.waiting = r.waiting /\ Proper(q)
              /\ q.refused \/ (q.gen = gen' /\ ~HasReset(w))
              /\ r.refused => q.refused
    OBVIOUS
  <2> QED
    BY <1>1, TrackedKeeps
<1>4. (t = None => Applied(t, w) = None) /\ (r = None => TracksAll(r, w) = None)
  BY DEF Applied, TracksAll
<1>5. Noted(witness, w) \in History /\ Noted(witness, w).deferred = witness.deferred
  BY <1>1, NotedType
<1>6. Witnessed(w) \in History
  BY <1>1, <1>5 DEF Witnessed, NoWitness, History
<1> QED
  BY <1>1, <1>2, <1>3, <1>4, <1>5, <1>6

\* What a step and a STOP have in common.
Observing(w) ==
    /\ Windowing(w) /\ gen' = IF HasReset(w) THEN gen + 1 ELSE gen
    /\ Observe(w)
    /\ pc = "idle" /\ pc' = "reconcile"
    /\ UNCHANGED <<intent, Rows, stops, saved, active, latch>>
    /\ asked' \in Nat /\ canceled' \in BOOLEAN /\ (canceled => canceled')
    /\ then' \in {"step", "stop"} /\ (then' = "stop" => canceled')

\* What does not depend on what is observed.
LEMMA ObservingSame ==
    ASSUME IInv, NEW w, Observing(w)
    PROVE  /\ Attempted' = Attempted /\ Attempt' = Attempt /\ Outstanding' = Outstanding
           /\ UNCHANGED <<reservation, enqueue>>
           /\ QueueInv' /\ (saved \subseteq Attempted)' /\ ClaimInv'
           /\ gen' \in Nat /\ w \in Seq(Event) /\ (~HasReset(w) => gen' = gen)
           /\ hold' \in BOOLEAN /\ recovering' \in BOOLEAN
           /\ seen' \in Nat \cup {None} /\ own' \in Snapshot \cup {None}
              /\ current' \in Tracker \cup {None} /\ successor' \in Tracker \cup {None}
              /\ pending' \in Items \cup {None} /\ witness' \in History
              => TypeInv'
<1>1. UNCHANGED <<intent, reservation, enqueue, clear, stops, saved, active, latch>>
  BY DEF Observing, Rows
<1>2. Attempted' = Attempted /\ Attempt' = Attempt /\ Outstanding' = Outstanding
  BY <1>1, SameQueue
<1>3. QueueInv' /\ (saved \subseteq Attempted)' /\ ClaimInv'
  BY <1>1, <1>2 DEF Observing, IInv, QueueInv, ClaimInv
<1>4. gen' \in Nat /\ w \in Seq(Event) /\ (~HasReset(w) => gen' = gen)
  BY DEF Observing, Windowing, IInv, TypeInv
<1>5. hold' \in BOOLEAN /\ recovering' \in BOOLEAN
  BY DEF Observing, Observe, Accepted, Rotated, Tracked, IInv, TypeInv
<1>6. seen' \in Nat \cup {None} /\ own' \in Snapshot \cup {None}
      /\ current' \in Tracker \cup {None} /\ successor' \in Tracker \cup {None}
      /\ pending' \in Items \cup {None} /\ witness' \in History
      => TypeInv'
  BY <1>1, <1>4, <1>5 DEF Observing, IInv, TypeInv, Place
<1> QED
  BY <1>1, <1>2, <1>3, <1>4, <1>5, <1>6

\* An empty window, and the loss of a connection that nothing was known of.
LEMMA AcceptedKeeps ==
    ASSUME IInv, NEW w, Observing(w), Accepted(w), w = <<>> \/ (seen = None /\ HasReset(w))
    PROVE  IInv'
<1>1. /\ Attempted' = Attempted /\ Attempt' = Attempt /\ Outstanding' = Outstanding
      /\ UNCHANGED <<reservation, enqueue, hold, recovering, seen, pending>>
      /\ pc = "idle" /\ pc' = "reconcile" /\ (canceled => canceled')
      /\ own' = Applied(own, w) /\ current' = TracksAll(current, w)
      /\ successor' = TracksAll(successor, w) /\ witness' = Witnessed(w)
  BY ObservingSame DEF Observing, Observe, Accepted
<1>2. CASE w = <<>>
  <2>1. ~HasReset(w)
    BY <1>2 DEF HasReset
  <2>2. UNCHANGED <<own, current, successor, witness, gen>>
    <3>1. witness' = Noted(witness, <<>>)
      BY <1>1, <1>2, <2>1 DEF Witnessed
    <3>2. own \in Snapshot \cup {None} /\ current \in Tracker \cup {None}
          /\ successor \in Tracker \cup {None} /\ witness \in History
      BY DEF IInv, TypeInv
    <3> QED
      BY <1>1, <1>2, <2>1, <3>1, <3>2, NothingSaid, ObservingSame
  <2>3. TypeInv'
    BY <1>1, <2>2, ObservingSame DEF IInv, TypeInv
  <2>4. OwnInv' /\ CurrentInv' /\ SuccessorInv'
    BY <1>1, <2>2 DEF IInv, OwnInv, CurrentInv, SuccessorInv, Present, Tracking
  <2>5. AwaitedInv' /\ WitnessInv'
    BY <1>1, <2>2 DEF IInv, AwaitedInv, WitnessInv, Sent
  <2>6. StopInv'
    BY <1>1, <2>2 DEF Observing, IInv, StopInv
  <2> QED
    BY <2>3, <2>4, <2>5, <2>6, ObservingSame DEF IInv
<1>3. CASE seen = None /\ HasReset(w)
  <2>1. current = None /\ successor = None /\ pending = None
    BY <1>3 DEF IInv, CurrentInv, SuccessorInv, StopInv, Tracking
  <2>2. /\ own' \in Snapshot \cup {None} /\ (own' = None <=> own = None)
        /\ own' # None => own'.item = own.item /\ own'.lost /\ ~own'.confirmed
        /\ current' = None /\ successor' = None /\ witness' \in History
    <3>1. /\ own \in Snapshot \cup {None} /\ (own # None => Present(own) /\ (own.lost => ~own.confirmed))
          /\ None # None => Proper(None) /\ (None.refused \/ None.gen = gen)
          /\ Windowing(w) /\ gen' = IF HasReset(w) THEN gen + 1 ELSE gen
      BY DEF IInv, TypeInv, OwnInv, Observing
    <3>2. /\ Applied(own, w) \in Snapshot \cup {None} /\ (Applied(own, w) = None <=> own = None)
          /\ Applied(own, w) # None =>
                /\ Applied(own, w).item = own.item /\ Applied(own, w).lost
                /\ ~Applied(own, w).confirmed
          /\ Witnessed(w) \in History
      BY <1>3, <3>1, WindowKeeps
    <3> QED
      BY <1>1, <2>1, <3>2 DEF TracksAll
  <2>3. ~witness'.alive /\ ~witness'.entered /\ ~witness'.broken
    BY <1>1, <1>3 DEF Witnessed, NoWitness
  <2>4. TypeInv'
    BY <1>1, <2>2, ObservingSame DEF IInv, TypeInv
  <2>5. OwnInv' /\ CurrentInv' /\ SuccessorInv'
    BY <1>1, <2>2 DEF IInv, OwnInv, CurrentInv, SuccessorInv, Present
  <2>6. AwaitedInv' /\ WitnessInv'
    BY <1>1, <2>1, <2>2, <2>3 DEF IInv, AwaitedInv, WitnessInv, Sent
  <2>7. StopInv'
    BY <1>1, <2>1 DEF Observing, IInv, StopInv
  <2> QED
    BY <2>4, <2>5, <2>6, <2>7, ObservingSame DEF IInv
<1> QED
  BY <1>2, <1>3

\* Another connection than the one known.
LEMMA RotatedKeeps ==
    ASSUME IInv, NEW w, Observing(w), Rotated, w # <<>>, seen # None,
           Last(w).gen # seen \/ HasReset(w)
    PROVE  IInv'
<1>1. /\ Attempted' = Attempted /\ Attempt' = Attempt /\ Outstanding' = Outstanding
      /\ pc' = "reconcile"
      /\ seen' = None /\ own' = None /\ current' = None /\ successor' = None /\ pending' = None
      /\ witness' = Witnessed(w)
  BY ObservingSame DEF Observing, Observe, Rotated
<1>2. witness' \in History /\ ~witness'.alive /\ ~witness'.entered /\ ~witness'.broken
  BY <1>1 DEF Witnessed, NoWitness, History
<1>3. TypeInv'
  BY <1>1, <1>2, ObservingSame
<1>4. OwnInv' /\ CurrentInv' /\ SuccessorInv'
  BY <1>1 DEF OwnInv, CurrentInv, SuccessorInv
<1>5. AwaitedInv' /\ WitnessInv'
  BY <1>1, <1>2 DEF AwaitedInv, WitnessInv
<1>6. StopInv'
  BY <1>1 DEF Observing, IInv, StopInv
<1> QED
  BY <1>3, <1>4, <1>5, <1>6, ObservingSame DEF IInv

\* The connection known, or the first one.
LEMMA TrackedKeepsInv ==
    ASSUME IInv, NEW w, Observing(w), Tracked(w), w # <<>>, ~HasReset(w),
           seen = None \/ Last(w).gen = seen
    PROVE  IInv'
<1> DEFINE g == Last(w).gen
           c == IF recovering /\ own = None /\ current = None /\ Attempted # {}
                THEN NewTracker(Recovered, 0, g) ELSE current
           s == IF successor = None /\ \E i \in Outstanding : Sent(i)
                THEN LET i == CHOOSE i \in Outstanding : Sent(i) IN NewTracker(i + 1, i, g)
                ELSE successor
<1>1. /\ Attempted' = Attempted /\ Attempt' = Attempt /\ Outstanding' = Outstanding
      /\ UNCHANGED <<reservation, enqueue, hold, recovering, pending>>
      /\ pc = "idle" /\ pc' = "reconcile" /\ (canceled => canceled')
      /\ gen' = gen /\ gen \in Nat /\ w \in Seq(Event) /\ Windowing(w)
  BY ObservingSame DEF Observing, Tracked, IInv, TypeInv
<1>2. /\ seen' = g
      /\ current' = TracksAll(c, w) /\ successor' = TracksAll(s, w) /\ own' = Applied(own, w)
  BY DEF Tracked
<1>3. g = gen
  <2>1. Len(w) \in 1..Len(w) /\ Last(w) = w[Len(w)]
    BY <1>1 DEF Last
  <2> QED
    BY <1>1, <2>1, CalmWindow
<1>4. witness' = Noted(witness, w)
  BY <1>3 DEF Observing, Observe, Witnessed
<1>5. c # None => /\ c \in Tracker /\ Proper(c) /\ (c.refused \/ c.gen = gen)
                  /\ c.item = Attempt
  <2>1. CASE c = current
    BY <1>1, <2>1 DEF IInv, TypeInv, CurrentInv, Tracking
  <2>2. CASE c # current
    <3>1. c = NewTracker(Attempt, 0, gen) /\ Attempted # {}
      BY <1>3, <2>2 DEF Recovered
    <3>2. Attempt \in Items
      BY <3>1 DEF IInv, QueueInv, Items
    <3> HIDE DEF c
    <3> QED
      BY <1>1, <3>1, <3>2 DEF NewTracker, Tracker, Proper
  <2> QED
    BY <2>1, <2>2
<1>6. s # None => /\ s \in Tracker /\ Proper(s) /\ (s.refused \/ s.gen = gen)
                  /\ Follows(s, Attempt) /\ (canceled \/ Attempt \in Outstanding)
                  /\ Tied(s, witness)
  <2>1. CASE successor # None
    <3>1. s = successor
      BY <2>1
    <3> QED
      BY <1>1, <2>1, <3>1 DEF IInv, TypeInv, SuccessorInv, WitnessInv, Tracking, Follows
  <2>2. CASE successor = None /\ \E i \in Outstanding : Sent(i)
    <3>1. PICK i \in Outstanding : Sent(i)
      BY <2>2
    <3>2. Outstanding = {Attempt} /\ Attempt # ItemCount /\ Attempt \in Items /\ Sent(Attempt)
      BY <3>1 DEF IInv, QueueInv, Outstanding
    <3>3. (CHOOSE j \in Outstanding : Sent(j)) = Attempt
      BY <3>1, <3>2
    <3>4. s = NewTracker(Attempt + 1, Attempt, gen)
      BY <1>3, <2>2, <3>3
    <3>5. Attempt + 1 \in Items
      BY <3>2 DEF Items
    <3>6. ~witness.alive /\ ~witness.entered /\ ~witness.broken
      BY <2>2, <3>2 DEF IInv, AwaitedInv
    <3> HIDE DEF s
    <3>7. s \in Tracker /\ Proper(s) /\ s.gen = gen /\ Follows(s, Attempt)
      BY <1>1, <3>2, <3>4, <3>5 DEF NewTracker, Tracker, Proper, Follows
    <3>8. Tied(s, witness)
      BY <3>4, <3>6 DEF NewTracker, Tied, IInv, TypeInv, History
    <3> QED
      BY <3>2, <3>7, <3>8
  <2>3. CASE successor = None /\ ~\E i \in Outstanding : Sent(i)
    <3>1. s = None
      BY <2>3
    <3> QED
      BY <3>1
  <2> QED
    BY <2>1, <2>2, <2>3
<1>7. \A i \in Outstanding : Sent(i) => s # None
  <2> SUFFICES ASSUME NEW i \in Outstanding, Sent(i), successor = None PROVE s # None
    OBVIOUS
  <2> DEFINE j == CHOOSE j \in Outstanding : Sent(j)
  <2>1. j \in Outstanding
    OBVIOUS
  <2>2. s = NewTracker(j + 1, j, g)
    OBVIOUS
  <2>3. j + 1 \in Items /\ j \in Items /\ g \in Nat
    <3>1. j \in Items /\ j # ItemCount
      BY <2>1 DEF IInv, QueueInv, Outstanding
    <3> QED
      BY <1>1, <1>3, <3>1 DEF Items
  <2> HIDE DEF s, j, g
  <2>4. NewTracker(j + 1, j, g) \in Tracker
    BY <2>3 DEF NewTracker, Tracker
  <2> QED
    BY <2>2, <2>4
<1> HIDE DEF c, s, g
<1>8. /\ own \in Snapshot \cup {None}
      /\ own # None => Present(own) /\ (own.lost => ~own.confirmed)
      /\ own # None => own.item \in Attempted /\ own.item = Attempt
  BY <1>1 DEF IInv, TypeInv, OwnInv
<1>9. gen' = IF HasReset(w) THEN gen + 1 ELSE gen
  BY DEF Observing
<1>10. /\ own' \in Snapshot \cup {None} /\ (own' = None <=> own = None)
       /\ own' # None => /\ own'.item = own.item /\ (own'.lost => ~own'.confirmed)
                         /\ own'.lost \/ own'.gen = gen'
       /\ current' \in Tracker \cup {None} /\ (current' = None <=> c = None)
       /\ current' # None => /\ current'.item = c.item /\ Proper(current')
                             /\ current'.refused \/ current'.gen = gen'
       /\ witness' \in History /\ witness'.deferred = witness.deferred
  <2>1. c \in Tracker \cup {None} /\ (c # None => Proper(c) /\ (c.refused \/ c.gen = gen))
    BY <1>5
  <2> QED
    BY <1>1, <1>2, <1>4, <1>8, <1>9, <2>1, WindowKeeps
<1>11. /\ successor' \in Tracker \cup {None} /\ (successor' = None <=> s = None)
       /\ successor' # None => /\ successor'.item = s.item /\ successor'.waiting = s.waiting
                               /\ Proper(successor')
                               /\ successor'.refused \/ successor'.gen = gen'
  <2>1. s \in Tracker \cup {None} /\ (s # None => Proper(s) /\ (s.refused \/ s.gen = gen))
    BY <1>6
  <2> QED
    BY <1>1, <1>2, <1>8, <1>9, <2>1, WindowKeeps
<1>12. successor' # None => Tied(successor', witness')
  <2> SUFFICES ASSUME s # None PROVE Tied(TracksAll(s, w), Noted(witness, w))
    BY <1>2, <1>4, <1>11
  <2>1. witness \in History /\ Attempt \in Nat
    BY DEF IInv, TypeInv, QueueInv
  <2> QED
    BY <1>1, <1>6, <2>1, TiedAlong
<1>13. seen' = gen' /\ seen' \in Nat /\ seen' # None
  BY <1>1, <1>2, <1>3
<1>14. TypeInv'
  BY <1>1, <1>10, <1>11, <1>13, ObservingSame DEF IInv, TypeInv
<1>15. OwnInv' /\ CurrentInv'
  BY <1>1, <1>5, <1>8, <1>10, <1>13 DEF OwnInv, CurrentInv, Present, Tracking
<1>16. SuccessorInv' /\ WitnessInv'
  BY <1>1, <1>6, <1>11, <1>12, <1>13 DEF SuccessorInv, WitnessInv, Tracking, Follows
<1>17. AwaitedInv'
  BY <1>1, <1>7, <1>11 DEF AwaitedInv, Sent
<1>18. StopInv'
  BY <1>1, <1>10, <1>13 DEF Observing, IInv, StopInv
<1> QED
  BY <1>14, <1>15, <1>16, <1>17, <1>18, ObservingSame DEF IInv

LEMMA ObserveKeeps == ASSUME IInv, NEW w, Observing(w) PROVE IInv'
<1>1. CASE w = <<>>
  BY <1>1, AcceptedKeeps DEF Observing, Observe
<1>2. CASE w # <<>> /\ seen # None /\ (Last(w).gen # seen \/ HasReset(w))
  BY <1>2, RotatedKeeps DEF Observing, Observe
<1>3. CASE w # <<>> /\ seen = None /\ HasReset(w)
  BY <1>3, AcceptedKeeps DEF Observing, Observe
<1>4. CASE w # <<>> /\ ~HasReset(w) /\ (seen = None \/ Last(w).gen = seen)
  BY <1>4, TrackedKeepsInv DEF Observing, Observe
<1> QED
  BY <1>1, <1>2, <1>3, <1>4

\* What an observation window of a step is.
LEMMA WindowingOf ==
    ASSUME IInv, NEW said \in Windows, NEW gap \in BOOLEAN
    PROVE  Windowing(Window(said, gap))
BY WindowType DEF IInv, TypeInv, Windowing

LEMMA StepKeeps == IInv /\ Step => IInv'
<1> SUFFICES ASSUME IInv, Step PROVE IInv'
  OBVIOUS
<1>1. PICK said \in Windows, gap \in BOOLEAN :
         LET w == Window(said, gap) IN
         /\ gen' = IF HasReset(w) THEN gen + 1 ELSE gen
         /\ Observe(w)
  BY DEF Step, Windowed
<1> DEFINE w == Window(said, gap)
<1>2. Windowing(w)
  BY WindowingOf
<1> HIDE DEF w
<1>3. Observing(w)
  BY <1>1, <1>2 DEF Step, Observing, Observe, w, IInv, TypeInv, StopInv
<1> QED
  BY <1>3, ObserveKeeps

LEMMA StopCommandKeeps == IInv /\ StopCommand => IInv'
<1> SUFFICES ASSUME IInv, StopCommand PROVE IInv'
  OBVIOUS
<1>1. PICK said \in Windows, gap \in BOOLEAN :
         LET w == Window(said, gap) IN
         /\ gen' = IF HasReset(w) THEN gen + 1 ELSE gen
         /\ Observe(w)
  BY DEF StopCommand, Windowed
<1> DEFINE w == Window(said, gap)
<1>2. Windowing(w)
  BY WindowingOf
<1> HIDE DEF w
<1>3. Observing(w)
  BY <1>1, <1>2 DEF StopCommand, Observing, Observe, w, IInv, TypeInv, StopInv
<1> QED
  BY <1>3, ObserveKeeps

LEMMA StopOperationKeeps == IInv /\ StopOperation => IInv'
<1> SUFFICES ASSUME IInv, StopOperation PROVE IInv'
  OBVIOUS
<1>1. PICK said \in Windows, gap \in BOOLEAN :
         LET w == Window(said, gap) IN
         /\ gen' = IF HasReset(w) THEN gen + 1 ELSE gen
         /\ \E sent \in BOOLEAN :
              own' = Applied(IF sent THEN [own EXCEPT !.stop = TRUE] ELSE own, w)
         /\ current' = TracksAll(current, w) /\ successor' = TracksAll(successor, w)
         /\ witness' = [Witnessed(w) EXCEPT !.deferred = None]
  BY DEF StopOperation, Windowed
<1> DEFINE w == Window(said, gap)
<1>2. Windowing(w)
  BY WindowingOf
<1> HIDE DEF w
<1>3. PICK sent \in BOOLEAN : own' = Applied(IF sent THEN [own EXCEPT !.stop = TRUE] ELSE own, w)
  BY <1>1 DEF w
<1>4. /\ UNCHANGED <<reservation, enqueue, clear, canceled, hold, stops, saved, active, recovering,
                     seen, pending, latch, asked>>
      /\ pc = "stopping" /\ pc' = "reconcile" /\ then' = "conclude"
      /\ canceled /\ pending = None /\ own # None
  BY DEF StopOperation, Rows, IInv, StopInv
<1>5. /\ gen' = IF HasReset(w) THEN gen + 1 ELSE gen
      /\ current' = TracksAll(current, w) /\ successor' = TracksAll(successor, w)
      /\ witness' = [Witnessed(w) EXCEPT !.deferred = None]
  BY <1>1 DEF w
<1>6. /\ Attempted' = Attempted /\ Attempt' = Attempt /\ Outstanding' = Outstanding
      /\ intent' \in [Items -> Intent]
  <2>1. CASE UNCHANGED intent
    BY <1>4, <2>1, SameQueue DEF IInv, TypeInv
  <2>2. CASE intent' # intent
    <3>1. intent' = [intent EXCEPT ![Attempt] = "stopped"] /\ intent[Attempt] = "current"
      BY <2>2 DEF StopOperation
    <3> QED
      BY <1>4, <3>1, SameAttempts DEF Intent
  <2> QED
    BY <2>1, <2>2
<1> DEFINE t == IF sent THEN [own EXCEPT !.stop = TRUE] ELSE own
<1>7. /\ t \in Snapshot /\ t # None /\ Present(t) /\ (t.lost => ~t.confirmed)
      /\ t.item = own.item /\ t.item \in Attempted /\ t.item = Attempt
  BY <1>4 DEF IInv, TypeInv, OwnInv, Present, Snapshot
<1>8. own' = Applied(t, w)
  BY <1>3
<1> HIDE DEF t
<1>9. /\ own' \in Snapshot \cup {None} /\ own' # None
      /\ own'.item = t.item /\ (own'.lost => ~own'.confirmed) /\ (own'.lost \/ own'.gen = gen')
      /\ current' \in Tracker \cup {None} /\ (current' = None <=> current = None)
      /\ current' # None => /\ current'.item = current.item /\ Proper(current')
                            /\ current'.refused \/ (current'.gen = gen' /\ ~HasReset(w))
                            /\ current.refused => current'.refused
      /\ gen' \in Nat /\ (~HasReset(w) => gen' = gen)
      /\ Witnessed(w) \in History
  <2>1. current \in Tracker \cup {None}
        /\ (current # None => Proper(current) /\ (current.refused \/ current.gen = gen))
    BY DEF IInv, TypeInv, CurrentInv, Tracking
  <2> QED
    BY <1>2, <1>5, <1>7, <1>8, <2>1, WindowKeeps
<1>10. /\ successor' \in Tracker \cup {None} /\ (successor' = None <=> successor = None)
       /\ successor' # None => /\ successor'.item = successor.item
                               /\ successor'.waiting = successor.waiting /\ Proper(successor')
                               /\ successor'.refused \/ (successor'.gen = gen' /\ ~HasReset(w))
                               /\ successor.refused => successor'.refused
  <2>1. successor \in Tracker \cup {None}
        /\ (successor # None => Proper(successor) /\ (successor.refused \/ successor.gen = gen))
    BY DEF IInv, TypeInv, SuccessorInv, Tracking
  <2>2. t \in Snapshot \cup {None}
    BY <1>7
  <2> QED
    BY <1>2, <1>5, <1>7, <2>1, <2>2, WindowKeeps
<1>11. witness' \in History
  BY <1>5, <1>9 DEF History
<1>12. TypeInv'
  BY <1>4, <1>6, <1>9, <1>10, <1>11 DEF IInv, TypeInv, Place
<1>13. QueueInv' /\ (saved \subseteq Attempted)'
  BY <1>4, <1>6 DEF IInv, QueueInv
<1>14. OwnInv' /\ CurrentInv'
  BY <1>4, <1>6, <1>7, <1>9 DEF IInv, OwnInv, CurrentInv, Present, Tracking
<1>15. SuccessorInv'
  BY <1>4, <1>6, <1>9, <1>10 DEF IInv, SuccessorInv, Tracking
<1>16. AwaitedInv'
  BY <1>4, <1>6, <1>10 DEF IInv, AwaitedInv, Sent
<1>17. WitnessInv'
  <2> SUFFICES ASSUME successor' # None, ~successor'.refused PROVE Tied(successor', witness')
    BY DEF WitnessInv, Tied
  <2>1. /\ successor \in Tracker /\ Tracking(successor) /\ ~successor.refused /\ ~HasReset(w)
        /\ Follows(successor, Attempt) /\ Tied(successor, witness)
    BY <1>4, <1>10 DEF IInv, TypeInv, SuccessorInv, WitnessInv, Follows
  <2>2. seen = gen
    BY <2>1 DEF Tracking
  <2>3. w # <<>> => Last(w).gen = gen
    <3> SUFFICES ASSUME w # <<>> PROVE Last(w).gen = gen
      OBVIOUS
    <3>1. w \in Seq(Event)
      BY <1>2 DEF Windowing
    <3>2. Len(w) \in 1..Len(w) /\ Last(w) = w[Len(w)]
      BY <3>1 DEF Last
    <3> QED
      BY <1>2, <2>1, <3>2, CalmWindow
  <2>4. Witnessed(w) = Noted(witness, w)
    BY <2>1, <2>2, <2>3 DEF Witnessed
  <2>5. Tied(TracksAll(successor, w), Noted(witness, w))
    <3>1. w \in Seq(Event) /\ witness \in History /\ Attempt \in Nat
      BY <1>2 DEF Windowing, IInv, TypeInv, QueueInv
    <3> QED
      BY <2>1, <3>1, TiedAlong
  <2> QED
    BY <1>5, <1>9, <2>4, <2>5 DEF Tied, History
<1>18. StopInv' /\ ClaimInv'
  BY <1>4 DEF StopInv, ClaimInv
<1> QED
  BY <1>12, <1>13, <1>14, <1>15, <1>16, <1>17, <1>18 DEF IInv

LEMMA StutterKeeps == IInv /\ UNCHANGED vars => IInv'
<1> SUFFICES ASSUME IInv, UNCHANGED vars PROVE IInv'
  OBVIOUS
<1> USE DEF vars, Journal, Rows, Process, Rest
<1>1. Attempted' = Attempted /\ Attempt' = Attempt /\ Outstanding' = Outstanding
  BY SameQueue
<1>2. TypeInv' /\ QueueInv' /\ (saved \subseteq Attempted)'
  BY <1>1 DEF IInv, TypeInv, QueueInv
<1>3. OwnInv' /\ CurrentInv' /\ SuccessorInv'
  BY <1>1 DEF IInv, OwnInv, CurrentInv, SuccessorInv, Present, Tracking
<1>4. AwaitedInv' /\ WitnessInv' /\ StopInv' /\ ClaimInv'
  BY <1>1 DEF IInv, AwaitedInv, WitnessInv, StopInv, ClaimInv, Sent
<1> QED
  BY <1>2, <1>3, <1>4 DEF IInv

LEMMA NextKeeps == IInv /\ [Next]_vars => IInv'
BY CancelKeeps, CrashKeeps, RestartKeeps, LaunchKeeps, StepKeeps, StopCommandKeeps,
   ReconcileKeeps, AdoptKeeps, SaveKeeps, AdoptNothingKeeps, StopNowKeeps, FinishStopKeeps,
   StopOperationKeeps, ConcludeKeeps, StageKeeps, EnqueueKeeps, StutterKeeps DEF Next

-----------------------------------------------------------------------------
(* Theorems.                                                               *)

\* In every reachable state the trackers of native_task.py belong to the latest attempt, its
\* connection and its reservation, and the successor's tracker agrees with what was said.
THEOREM Invariance == Spec => []IInv
<1>1. Init => IInv
  BY InitIInv
<1>2. IInv /\ [Next]_vars => IInv'
  BY NextKeeps
<1> QED
  BY <1>1, <1>2, PTL DEF Spec

\* A session is saved, or owned, only for an attempt that the journal has, also when the
\* process died between the adoption of a successor and the snapshot of its session.
THEOREM JournalIsAhead == Spec => []JournalLeads
<1>1. IInv => JournalLeads
  BY DEF IInv, OwnInv, JournalLeads
<1> QED
  BY <1>1, Invariance, PTL

\* A successor is adopted only on what this process saw itself, on one connection: first its
\* receiver session, then its playback, and nothing that contradicts them.
THEOREM AdoptionIsWitnessed == Spec => AdoptsWitnessed
<1> DEFINE A == \A i \in Items : reservation[i] = "reserved" /\ reservation'[i] = "adopted" =>
                   witness.alive /\ witness.entered /\ ~witness.broken
<1>1. IInv /\ [Next]_vars => A
  <2> SUFFICES ASSUME IInv, [Next]_vars, NEW i \in Items,
                      reservation[i] = "reserved", reservation'[i] = "adopted"
               PROVE  witness.alive /\ witness.entered /\ ~witness.broken
    OBVIOUS
  <2>1. Adopt
    <3>1. ~UNCHANGED reservation
      OBVIOUS
    <3>2. ~Stage
      BY DEF Stage, IInv, TypeInv
    <3>3. ~Conclude
      BY DEF Conclude, IInv, TypeInv
    <3> QED
      BY <3>1, <3>2, <3>3
         DEF Next, CancelRequested, Crash, Restart, Launch, Step, StopCommand, ReconcileCurrent, Save,
             AdoptNothing, StopNow, FinishStop, StopOperation, Enqueue, vars, Journal, Rows
  <2>2. Ready(successor) /\ successor # None /\ pc = "adopt"
    BY <2>1 DEF Adopt, Ready
  <2>3. Tied(successor, witness) /\ successor \in Tracker /\ witness \in History
    BY <2>2 DEF IInv, WitnessInv, TypeInv
  <2> QED
    BY <2>2, <2>3 DEF Tied, Ready, Tracker, History
<1>2. Spec => [][A]_vars
  BY <1>1, Invariance, PTL DEF Spec
<1> QED
  BY <1>2 DEF AdoptsWitnessed

\* A stop kept for a handoff acts only on a session of that handoff, on the connection on
\* which it was asked for.
THEOREM KeptStopStaysInScope == Spec => KeptStopIsScoped
<1> DEFINE A == pc = "step" /\ stops' # stops =>
                   /\ witness.deferred \in Items
                   /\ own.item \in {witness.deferred, witness.deferred + 1}
<1>1. IInv /\ [Next]_vars => A
  <2> SUFFICES ASSUME IInv, [Next]_vars, pc = "step", stops' # stops
               PROVE  /\ witness.deferred \in Items
                      /\ own.item \in {witness.deferred, witness.deferred + 1}
    OBVIOUS
  <2>1. FinishStop
    BY DEF Next, CancelRequested, Crash, Restart, Launch, Step, StopCommand, ReconcileCurrent, Adopt,
           Save, AdoptNothing, StopNow, StopOperation, Conclude, Stage, Enqueue, vars, Journal, Rows
  <2>2. pending # None /\ Expected(pending)
    BY <2>1 DEF FinishStop
  <2> QED
    BY <2>2 DEF Expected, IInv, TypeInv, StopInv
<1>2. Spec => [][A]_vars
  BY <1>1, Invariance, PTL DEF Spec
<1> QED
  BY <1>2 DEF KeptStopIsScoped
=============================================================================
