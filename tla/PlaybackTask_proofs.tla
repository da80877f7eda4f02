------------------------ MODULE PlaybackTask_proofs ------------------------
(***************************************************************************)
(* TLAPS proofs about the playback task and the evidence it hands over by, *)
(* for every number of items, every set of observation windows and every   *)
(* number of cancellations, crashes and restarts.                          *)
(*                                                                         *)
(* The tracker folds a window while the history `unrest' looks at it as a  *)
(* whole.  The argument runs along a window, and then along the behaviour  *)
(* with the invariant IInv: what the tracker has taken in is everything    *)
(* the task was shown since the end of the playback it follows.            *)
(***************************************************************************)
EXTENDS PlaybackTask, WindowFolds, FiniteSetTheorems, TLAPS

USE HandoffAssumption, WindowAssumption

Place == {"idle", "claimed", "window", "ready", "go", "sent", "record", "down"}
Busy  == Place \ {"idle", "down"}

Work == [action : Action \cup {"none"}, item : Items, next : BOOLEAN, entered : BOOLEAN,
         snap : Snapshot \cup {None}, sent : BOOLEAN,
         outcome : {"acknowledged", "rejected", "uncertain"}, failed : BOOLEAN]

TypeInv ==
    /\ intent \in [Items -> Intent]
    /\ command \in [Items -> [start : ExecState, release : ExecState]]
    /\ canceled \in BOOLEAN /\ touched \in BOOLEAN /\ latch \in BOOLEAN
    /\ started \in BOOLEAN /\ authority \in Nat \cup {None}
    /\ own \in Snapshot \cup {None} /\ release \in Authority \cup {None}
    /\ events \in Seq(Event) /\ seq \in Nat /\ gen \in Nat
    /\ pc \in Place /\ work \in Work
    /\ unrest \in BOOLEAN /\ halted \in BOOLEAN

\* The observations of w are numbered as the adapter counts them, up to last, and a missing
\* number is missing.
Rising(w, last) ==
    /\ \A k \in 1..Len(w) : w[k].number \in 1..last
    /\ \A j, k \in 1..Len(w) : j < k => w[j].number < w[k].number
    /\ \A j, k \in 1..Len(w) : w[k].mark = "gap" => w[j].number + 1 # w[k].number

\* s is the session t after the window w.
Continues(t, s, w) ==
    /\ s.attempt = t.attempt
    /\ t.ended > 0 => s.ended = t.ended
    /\ t.ended = 0 => s.ended = 0 \/ \E k \in 1..Len(w) : w[k].number = s.ended

\* What a command needs of the queue while it is under way.
QueueInv ==
    /\ own # None => own.attempt \in Attempted
    /\ own # None \/ pc \in Busy => started
    /\ pc \in Busy => work.item \in Attempted

\* A start is never of the item whose session is followed, and the item before it is over.
StartInv ==
    pc \in Busy /\ work.action = "start" =>
        /\ pc # "record" /\ own # None => own.attempt # work.item
        /\ pc # "record" /\ work.item > 1 =>
             /\ work.next
             /\ intent[work.item - 1] = "finished"
             /\ command[work.item - 1].release = "acknowledged"

\* The application's snapshot is of the session that is followed.
SnapInv ==
    pc \in {"ready", "go", "sent"} /\ work.action # "start" =>
        own # None /\ work.snap # None /\ Continues(own, work.snap, events)

\* A cancellation that came before the window closed is found by one of the two checks.
CancelInv ==
    /\ pc \in {"claimed", "window", "ready", "go"} /\ work.action # "stop" /\ canceled => touched
    /\ pc = "ready" /\ halted => latch \/ canceled
    /\ pc = "go" /\ work.action # "stop" /\ halted => latch

\* The tracker a of the session t has taken in the window w.
Taken(t, a, w) ==
    /\ a.terminal = t.ended /\ a.terminal <= a.last
    /\ \A k \in 1..Len(w) :
          /\ w[k].number <= a.last
          /\ w[k].number > t.ended /\ Disturbs(w[k]) => a.blocked

\* There is a tracker from the end of the playback on, and it saw all that was shown.
TrackInv ==
    /\ own = None => release = None /\ ~unrest
    /\ own # None => own.ended <= seq /\ (own.ended > 0 <=> release # None)
    /\ unrest => release # None /\ release.blocked
    /\ release # None => release.last <= seq /\ Taken(own, release, events)

IInv ==
    /\ TypeInv /\ QueueInv /\ StartInv /\ SnapInv /\ CancelInv
    /\ Rising(events, seq) /\ TrackInv

-----------------------------------------------------------------------------
(* One observation.                                                        *)

\* s is t but for what an observation may change.
Same(t, s) == s \in Snapshot /\ s.attempt = t.attempt /\ s.gen = t.gen

LEMMA UnreleasedType ==
    ASSUME NEW t \in Snapshot
    PROVE  Same(t, Unreleased(t)) /\ Unreleased(t).ended = t.ended
BY DEF Snapshot, Unreleased, Same

LEMMA LostType ==
    ASSUME NEW t \in Snapshot
    PROVE  Same(t, Lost(t)) /\ Lost(t).ended = t.ended
<1> DEFINE u == Unreleased(t)
<1>1. Same(t, u) /\ u.ended = t.ended
  BY UnreleasedType
<1> HIDE DEF u
<1>2. Lost(t) = [u EXCEPT !.lost = TRUE, !.confirmed = FALSE]
  BY DEF Lost, u
<1> QED
  BY <1>1, <1>2 DEF Snapshot, Same

LEMMA AgedType ==
    ASSUME NEW t \in Snapshot, NEW e \in Event
    PROVE  Same(t, Aged(t, e)) /\ Aged(t, e).ended = t.ended
<1> DEFINE u == IF t.last > 0 /\ e.number > t.last + 1
                THEN [Unreleased(t) EXCEPT !.confirmed = FALSE]
                ELSE [t EXCEPT !.confirmed = @ /\ e.mark # "late"]
           v == IF e.kind \in {"play", "ad"} THEN Unreleased(u) ELSE u
<1>1. Same(t, u) /\ u.ended = t.ended
  <2>1. Same(t, Unreleased(t)) /\ Unreleased(t).ended = t.ended
    BY UnreleasedType
  <2>2. Same(t, [Unreleased(t) EXCEPT !.confirmed = FALSE])
        /\ [Unreleased(t) EXCEPT !.confirmed = FALSE].ended = t.ended
    BY <2>1 DEF Snapshot, Same
  <2>3. Same(t, [t EXCEPT !.confirmed = @ /\ e.mark # "late"])
        /\ [t EXCEPT !.confirmed = @ /\ e.mark # "late"].ended = t.ended
    BY DEF Snapshot, Same
  <2> QED
    BY <2>2, <2>3
<1> HIDE DEF u
<1>2. Same(t, v) /\ v.ended = t.ended
  BY <1>1, UnreleasedType DEF Same
<1>3. Aged(t, e) = [v EXCEPT !.last = e.number]
  BY DEF Aged, u
<1> HIDE DEF v
<1> QED
  BY <1>2, <1>3 DEF Snapshot, Same, Event

LEMMA ExitedType ==
    ASSUME NEW t \in Snapshot
    PROVE  Same(t, Exited(t)) /\ Exited(t).ended = t.ended
<1>1. Same(t, [t EXCEPT !.released = TRUE]) /\ [t EXCEPT !.released = TRUE].ended = t.ended
  BY DEF Snapshot, Same
<1>2. Same(t, [t EXCEPT !.stopped = TRUE]) /\ [t EXCEPT !.stopped = TRUE].ended = t.ended
  BY DEF Snapshot, Same
<1> QED
  BY <1>1, <1>2, LostType DEF Exited

\* An end is final, and is that of an observation.
LEMMA SeenType ==
    ASSUME NEW t \in Snapshot, NEW e \in Event
    PROVE  /\ Same(t, Seen(t, e))
           /\ t.ended > 0 => Seen(t, e).ended = t.ended
           /\ t.ended = 0 => Seen(t, e).ended \in {0, e.number}
<1> DEFINE u == Aged(t, e)
           Fits(s) == /\ Same(t, s)
                      /\ s.ended = t.ended \/ (t.ended = 0 /\ s.ended = e.number)
<1>1. Fits(t)
  BY DEF Same
<1>2. u \in Snapshot /\ Same(t, u) /\ u.ended = t.ended
  BY AgedType DEF Same
<1>3. Fits(Lost(u)) /\ Fits(Exited(u)) /\ Fits(u)
  <2>1. Same(u, Lost(u)) /\ Lost(u).ended = u.ended
    BY <1>2, LostType
  <2>2. Same(u, Exited(u)) /\ Exited(u).ended = u.ended
    BY <1>2, ExitedType
  <2> HIDE DEF u
  <2> QED
    BY <1>2, <2>1, <2>2 DEF Same
<1>4. Fits([u EXCEPT !.confirmed = TRUE]) /\ Fits([u EXCEPT !.confirmed = FALSE])
  <2> HIDE DEF u
  <2> QED
    BY <1>2 DEF Same, Snapshot
<1>5. t.ended = 0 => Fits([u EXCEPT !.ended = e.number])
  <2> HIDE DEF u
  <2> QED
    BY <1>2 DEF Same, Snapshot, Event
<1>6. \/ Seen(t, e) \in {t, u, Lost(u), Exited(u)}
      \/ Seen(t, e) \in {[u EXCEPT !.confirmed = TRUE], [u EXCEPT !.confirmed = FALSE]}
      \/ t.ended = 0 /\ Seen(t, e) = [u EXCEPT !.ended = e.number]
  <2> HIDE DEF u
  <2> QED
    BY DEF Seen, u
<1>7. Fits(Seen(t, e))
  <2> HIDE DEF u, Fits
  <2> QED
    BY <1>1, <1>3, <1>4, <1>5, <1>6
<1> QED
  BY <1>7 DEF Snapshot

LEMMA FollowsType ==
    ASSUME NEW b \in Authority, NEW t, NEW e \in Event
    PROVE  /\ Follows(t, b, e) \in Authority
           /\ Follows(t, b, e).terminal = b.terminal
           /\ Follows(t, b, e).last = IF e.number <= b.last THEN b.last ELSE e.number
           /\ b.blocked => Follows(t, b, e).blocked
           /\ e.number > b.last /\ Veto(t, e, b) => Follows(t, b, e).blocked
<1> DEFINE v == Blocks(t, e, b)
<1>1. v \in BOOLEAN /\ (b.blocked => v) /\ (Veto(t, e, b) => v)
  BY DEF Blocks, Veto
<1>2. Follows(t, b, e) = IF e.number <= b.last THEN b
                         ELSE [b EXCEPT !.last = e.number, !.blocked = v]
  BY DEF Follows
<1> HIDE DEF v
<1>3. CASE e.number <= b.last
  BY <1>2, <1>3 DEF Authority, Event
<1>4. CASE ~(e.number <= b.last)
  <2> DEFINE r == [b EXCEPT !.last = e.number, !.blocked = v]
  <2>1. r \in Authority /\ r.terminal = b.terminal /\ r.last = e.number
    BY <1>1 DEF Authority, Event
  <2>2. r.blocked = v
    BY DEF Authority
  <2>3. Follows(t, b, e) = r
    BY <1>2, <1>4
  <2> HIDE DEF r
  <2> QED
    BY <1>1, <1>4, <2>1, <2>2, <2>3
<1> QED
  BY <1>3, <1>4

-----------------------------------------------------------------------------
(* A window.                                                               *)

\* A snapshot takes a window one observation after the other.
LEMMA SeenAlong ==
    ASSUME NEW t \in Snapshot, NEW w \in Seq(Event)
    PROVE  \E f \in [0..Len(w) -> Snapshot] :
              /\ f[0] = t /\ Applied(t, w) = f[Len(w)]
              /\ \A k \in 1..Len(w) : f[k] = Seen(f[k - 1], w[k])
<1> DEFINE n == Len(w)
           Folds(f) == f = [k \in 0..n |-> IF k = 0 THEN t ELSE Seen(f[k - 1], w[k])]
           next == [k \in 1..n |-> [y \in Snapshot |-> Seen(y, w[k])]]
<1>1. n \in Nat /\ \A k \in 1..n : w[k] \in Event
  OBVIOUS
<1>2. Steps(next, n, Snapshot)
  BY <1>1, SeenType DEF Steps, Same
<1>3. PICK g : Leads(g, t, next, n, Snapshot)
  <2>1. n \in Nat /\ t \in Snapshot
    BY <1>1
  <2> HIDE DEF n, next
  <2> QED
    BY <1>2, <2>1, FoldExists
<1>4. Folds(g)
  <2>1. g \in [0..n -> Snapshot] /\ g[0] = t /\ \A k \in 1..n : g[k] = next[k][g[k - 1]]
    BY <1>3 DEF Leads
  <2>2. ASSUME NEW k \in 1..n PROVE g[k] = Seen(g[k - 1], w[k])
    <3>1. g[k - 1] \in Snapshot /\ next[k] = [y \in Snapshot |-> Seen(y, w[k])]
      BY <2>1
    <3> QED
      BY <2>1, <3>1
  <2> QED
    BY <1>1, <2>1, <2>2
<1> DEFINE h == CHOOSE f : Folds(f)
<1>5. Folds(h)
  <2> HIDE DEF Folds
  <2> QED
    BY <1>4
<1>6. Applied(t, w) = h[n]
  BY DEF Applied
<1> HIDE DEF h, n, next
<1>7. h[0] = t /\ \A k \in 1..n : h[k] = Seen(h[k - 1], w[k])
  BY <1>1, <1>5
<1> DEFINE S == {k \in 0..n : h[k] \in Snapshot}
<1>8. 0..n \subseteq S
  <2>1. 0 \in S
    BY <1>1, <1>7
  <2>2. ASSUME NEW k \in 1..n, k - 1 \in S PROVE k \in S
    <3>1. h[k] = Seen(h[k - 1], w[k]) /\ h[k - 1] \in Snapshot /\ w[k] \in Event
      BY <1>1, <1>7, <2>2
    <3>2. Seen(h[k - 1], w[k]) \in Snapshot
      BY <3>1, SeenType DEF Same
    <3> QED
      BY <3>1, <3>2
  <2> HIDE DEF S
  <2> QED
    BY <1>1, <2>1, <2>2, Along
<1>9. h \in [0..n -> Snapshot]
  BY <1>5, <1>8
<1> QED
  BY <1>6, <1>7, <1>9 DEF n

\* Where the tracker a begins to follow the session t in w.
Begins(t, w, a, b) ==
    IF a # None THEN b = a
    ELSE /\ \E k \in 1..Len(w) : w[k].number = t.ended
         /\ b = [terminal |-> t.ended, last |-> t.ended, blocked |-> FALSE]

\* The k-th value of f is that of the tracker b of t after k observations of w.
Takes(f, t, w, b) ==
    /\ f \in [0..Len(w) -> Authority]
    /\ f[0] = b
    /\ \A k \in 1..Len(w) : f[k] = Follows(t, f[k - 1], w[k])

\* So does a tracker.
LEMMA FollowsAlong ==
    ASSUME NEW t, NEW a, NEW b \in Authority, NEW w \in Seq(Event),
           t # None, t.ended # 0, Begins(t, w, a, b)
    PROVE  \E f : Takes(f, t, w, b) /\ Tracked(t, w, a) = f[Len(w)]
<1> DEFINE n == Len(w)
           Folds(f) == f = [k \in 0..n |-> IF k = 0 THEN b ELSE Follows(t, f[k - 1], w[k])]
           next == [k \in 1..n |-> [y \in Authority |-> Follows(t, y, w[k])]]
<1>1. n \in Nat /\ \A k \in 1..n : w[k] \in Event
  OBVIOUS
<1>2. Steps(next, n, Authority)
  BY <1>1, FollowsType DEF Steps
<1>3. PICK g : Leads(g, b, next, n, Authority)
  <2>1. n \in Nat /\ b \in Authority
    BY <1>1
  <2> HIDE DEF n, next
  <2> QED
    BY <1>2, <2>1, FoldExists
<1>4. Folds(g)
  <2>1. g \in [0..n -> Authority] /\ g[0] = b /\ \A k \in 1..n : g[k] = next[k][g[k - 1]]
    BY <1>3 DEF Leads
  <2>2. ASSUME NEW k \in 1..n PROVE g[k] = Follows(t, g[k - 1], w[k])
    <3>1. g[k - 1] \in Authority /\ next[k] = [y \in Authority |-> Follows(t, y, w[k])]
      BY <2>1
    <3> QED
      BY <2>1, <3>1
  <2> QED
    BY <1>1, <2>1, <2>2
<1> DEFINE h == CHOOSE f : Folds(f)
<1>5. Folds(h)
  <2> HIDE DEF Folds
  <2> QED
    BY <1>4
<1>6. Tracked(t, w, a) = h[n]
  <2>1. a # None \/ \E k \in DOMAIN w : w[k].number = t.ended
    BY DEF Begins
  <2> QED
    BY <2>1 DEF Tracked, Begins
<1> HIDE DEF h, n, next
<1>7. h[0] = b /\ \A k \in 1..n : h[k] = Follows(t, h[k - 1], w[k])
  BY <1>1, <1>5
<1> DEFINE S == {k \in 0..n : h[k] \in Authority}
<1>8. 0..n \subseteq S
  <2>1. 0 \in S
    BY <1>1, <1>7
  <2>2. ASSUME NEW k \in 1..n, k - 1 \in S PROVE k \in S
    <3>1. h[k] = Follows(t, h[k - 1], w[k]) /\ h[k - 1] \in Authority /\ w[k] \in Event
      BY <1>1, <1>7, <2>2
    <3> QED
      BY <3>1, FollowsType
  <2> HIDE DEF S
  <2> QED
    BY <1>1, <2>1, <2>2, Along
<1>9. h \in [0..n -> Authority]
  BY <1>5, <1>8
<1> QED
  BY <1>6, <1>7, <1>9 DEF n, Takes

\* An end is final, and is that of an observation of the window.
LEMMA AppliedType ==
    ASSUME NEW t \in Snapshot, NEW w \in Seq(Event)
    PROVE  Applied(t, w) \in Snapshot /\ Applied(t, w).gen = t.gen
           /\ Continues(t, Applied(t, w), w)
<1> DEFINE n == Len(w)
<1>1. PICK f \in [0..n -> Snapshot] :
          /\ f[0] = t /\ Applied(t, w) = f[n]
          /\ \A k \in 1..n : f[k] = Seen(f[k - 1], w[k])
  BY SeenAlong
<1> DEFINE Fits(s, k) == /\ s.attempt = t.attempt /\ s.gen = t.gen
                         /\ t.ended > 0 => s.ended = t.ended
                         /\ t.ended = 0 => s.ended = 0 \/ \E j \in 1..k : w[j].number = s.ended
           S == {k \in 0..n : Fits(f[k], k)}
<1>2. n \in Nat /\ \A k \in 1..n : w[k] \in Event
  OBVIOUS
<1>3. 0 \in S
  BY <1>1, <1>2 DEF Snapshot
<1>4. ASSUME NEW k \in 1..n, k - 1 \in S PROVE k \in S
  <2>1. f[k - 1] \in Snapshot /\ f[k] \in Snapshot /\ f[k] = Seen(f[k - 1], w[k]) /\ w[k] \in Event
    BY <1>1, <1>2
  <2>2. Same(f[k - 1], f[k])
        /\ (f[k - 1].ended > 0 => f[k].ended = f[k - 1].ended)
        /\ (f[k - 1].ended = 0 => f[k].ended \in {0, w[k].number})
    BY <2>1, SeenType
  <2>3. f[k - 1].ended \in Nat
    BY <2>1 DEF Snapshot
  <2>4. Fits(f[k - 1], k - 1)
    BY <1>4
  <2>5. t.ended \in Nat
    BY DEF Snapshot
  <2>6. Fits(f[k], k)
    <3>1. f[k].attempt = t.attempt /\ f[k].gen = t.gen
      BY <2>2, <2>4 DEF Same
    <3>2. t.ended > 0 => f[k].ended = t.ended
      BY <2>2, <2>4, <2>5
    <3>3. ASSUME t.ended = 0 PROVE f[k].ended = 0 \/ \E j \in 1..k : w[j].number = f[k].ended
      <4>1. CASE f[k - 1].ended = 0
        BY <1>2, <2>2, <4>1
      <4>2. CASE f[k - 1].ended > 0
        BY <1>2, <2>2, <2>4, <3>3, <4>2
      <4> QED
        BY <2>3, <4>1, <4>2
    <3> QED
      BY <3>1, <3>2, <3>3
  <2> HIDE DEF Fits
  <2> QED
    BY <2>6
<1> HIDE DEF S
<1>5. 0..n \subseteq S
  BY <1>2, <1>3, <1>4, Along
<1>6. n \in S
  BY <1>2, <1>5
<1> QED
  BY <1>1, <1>6 DEF S, Continues

\* No number that the tracker b misses comes as if none were missing.
Joins(b, w) == \A k \in 1..Len(w) : w[k].mark = "gap" => b.last + 1 # w[k].number

\* r is what the tracker b has become after w, whose numbers go up to last.
Took(r, b, w, last) ==
    /\ r \in Authority
    /\ r.terminal = b.terminal
    /\ r.last \in b.last..last
    /\ b.blocked => r.blocked
    /\ \A k \in 1..Len(w) :
          /\ w[k].number <= r.last
          /\ w[k].number > b.last /\ Disturbs(w[k]) => r.blocked
    /\ (\A k \in 1..Len(w) : w[k].number <= b.last) => r = b

\* A tracker takes in whatever has a new number; what it has seen, it sees once.
LEMMA TrackedTakes ==
    ASSUME NEW t, NEW a, NEW b \in Authority, NEW w \in Seq(Event), NEW last \in Nat,
           t # None, t.ended # 0, Begins(t, w, a, b), b.last <= last, Rising(w, last),
           Joins(b, w)
    PROVE  Took(Tracked(t, w, a), b, w, last)
<1> DEFINE n == Len(w)
<1>1. PICK f \in [0..n -> Authority] :
          /\ f[0] = b /\ Tracked(t, w, a) = f[n]
          /\ \A k \in 1..n : f[k] = Follows(t, f[k - 1], w[k])
  <2>1. PICK f : Takes(f, t, w, b) /\ Tracked(t, w, a) = f[Len(w)]
    BY FollowsAlong
  <2> QED
    BY <2>1 DEF Takes
<1>2. n \in Nat /\ (\A k \in 1..n : w[k] \in Event) /\ b.last \in Nat
  BY DEF Authority
<1> DEFINE Fits(s, k) ==
             /\ s.terminal = b.terminal
             /\ s.last = b.last \/ \E j \in 1..k : w[j].number = s.last
             /\ s.last >= b.last
             /\ b.blocked => s.blocked
             /\ \A j \in 1..k : w[j].number <= s.last
             /\ \A j \in 1..k : w[j].number > b.last /\ Disturbs(w[j]) => s.blocked
             /\ (\A j \in 1..k : w[j].number <= b.last) => s = b
           S == {k \in 0..n : Fits(f[k], k)}
<1>3. 0 \in S
  BY <1>1, <1>2
<1>4. ASSUME NEW k \in 1..n, k - 1 \in S PROVE k \in S
  <2> DEFINE p == f[k - 1]
             s == f[k]
             e == w[k]
  <2>1. p \in Authority /\ s \in Authority /\ s = Follows(t, p, e) /\ e \in Event
    BY <1>1, <1>2
  <2>2. p.last \in Nat /\ s.last \in Nat /\ e.number \in Nat
    BY <2>1 DEF Authority, Event
  <2>3. /\ s.terminal = p.terminal
        /\ s.last = IF e.number <= p.last THEN p.last ELSE e.number
        /\ p.blocked => s.blocked
        /\ e.number > p.last /\ Veto(t, e, p) => s.blocked
    BY <2>1, FollowsType
  <2>4. Fits(p, k - 1)
    BY <1>4
  <2>5. \A j \in 1..(k - 1) : w[j].number < e.number /\ w[j].number \in Nat
    <3>1. \A j \in 1..(k - 1) : j \in 1..n /\ j < k
      BY <1>2
    <3> HIDE DEF p, s, Fits
    <3> QED
      BY <1>2, <3>1 DEF Rising, Event
  <2>6. 1..k = 1..(k - 1) \cup {k}
    BY <1>2
  <2>7. e.mark = "gap" => e.number # p.last + 1
    <3>1. e.mark = "gap" => b.last + 1 # e.number
      BY DEF Joins
    <3>2. e.mark = "gap" => \A j \in 1..(k - 1) : w[j].number + 1 # e.number
      BY <1>2 DEF Rising
    <3>3. p.last = b.last \/ \E j \in 1..(k - 1) : w[j].number = p.last
      BY <2>4
    <3> HIDE DEF e, p, Fits
    <3> QED
      BY <3>1, <3>2, <3>3
  <2>8. e.number > b.last => e.number > p.last
    BY <1>2, <2>4, <2>5
  <2>9. e.number > b.last /\ Disturbs(e) => s.blocked
    <3>1. Disturbs(e) => Veto(t, e, p)
      BY <2>2, <2>7 DEF Disturbs, Veto
    <3> QED
      BY <2>3, <2>8, <3>1
  <2>10. (\A j \in 1..k : w[j].number <= b.last) => s = b
    <3>1. SUFFICES ASSUME \A j \in 1..k : w[j].number <= b.last PROVE s = b
      OBVIOUS
    <3>2. p = b
      BY <2>4, <2>6, <3>1
    <3>3. e.number <= p.last
      BY <2>6, <3>1, <3>2
    <3> QED
      BY <2>1, <3>2, <3>3 DEF Follows
  <2> HIDE DEF p, s, e
  <2>11. s.terminal = b.terminal /\ s.last >= b.last /\ (b.blocked => s.blocked)
    BY <1>2, <2>2, <2>3, <2>4
  <2>12. s.last = b.last \/ \E j \in 1..k : w[j].number = s.last
    BY <2>3, <2>4, <2>6 DEF e
  <2>13. \A j \in 1..k : w[j].number <= s.last
    BY <1>2, <2>2, <2>3, <2>4, <2>5, <2>6 DEF e
  <2>14. \A j \in 1..k : w[j].number > b.last /\ Disturbs(w[j]) => s.blocked
    BY <2>3, <2>4, <2>6, <2>9 DEF e
  <2>15. Fits(s, k)
    BY <2>10, <2>11, <2>12, <2>13, <2>14
  <2> HIDE DEF Fits
  <2> QED
    BY <2>15 DEF s
<1> HIDE DEF S
<1>5. 0..n \subseteq S
  BY <1>2, <1>3, <1>4, Along
<1>6. Fits(f[n], n)
  BY <1>2, <1>5 DEF S
<1>7. f[n] \in Authority /\ f[n].last \in Nat
  BY <1>1, <1>2 DEF Authority
<1> QED
  BY <1>1, <1>2, <1>6, <1>7 DEF Rising, Took

-----------------------------------------------------------------------------
(* The adapter.                                                            *)

\* The window w is of new observations.
Adds(w) ==
    /\ w \in Seq(Event)
    /\ seq' \in Nat /\ seq <= seq' /\ Rising(w, seq')
    /\ \A k \in 1..Len(w) :
          w[k].number > seq /\ (w[k].mark = "gap" => w[k].number # seq + 1)

LEMMA WindowAdds ==
    ASSUME seq \in Nat, gen \in Nat, NEW kinds \in Windows, NEW mark \in Mark,
           kinds = <<>> => mark = "plain", Observes(Window(kinds, mark))
    PROVE  Adds(Window(kinds, mark)) /\ gen' \in Nat /\ events' = Window(kinds, mark)
<1> DEFINE w == Window(kinds, mark)
           n == Len(kinds)
           more == IF mark = "gap" THEN 1 ELSE 0
<1>1. kinds \in Seq(Kind) /\ n \in Nat /\ DOMAIN kinds = 1..n
  OBVIOUS
<1>2. ASSUME NEW m \in Nat, NEW S \in SUBSET (1..m) PROVE Cardinality(S) \in Nat
  <2>1. IsFiniteSet(1..m)
    BY FS_Interval
  <2>2. IsFiniteSet(S)
    BY <2>1, FS_Subset
  <2> QED
    BY <2>2, FS_CardinalityType
<1>3. ASSUME NEW k \in 1..n PROVE Resets(kinds, k) \in Nat
  <2>1. {j \in 1..(k - 1) : kinds[j] = "reset"} \in SUBSET (1..(k - 1)) /\ k - 1 \in Nat
    BY <1>1
  <2> QED
    BY <1>2, <2>1 DEF Resets
<1>4. \A k \in 1..n : /\ w[k].kind = kinds[k] /\ w[k].mark = (IF k = 1 THEN mark ELSE "plain")
                      /\ w[k].number = seq + k + more
                      /\ w[k] \in Event
  BY <1>1, <1>3 DEF Window, Event, Mark
<1>5. w \in Seq(Event) /\ Len(w) = n
  <2>1. \A k \in 1..n : w[k] \in Event
    BY <1>4
  <2> QED
    <3>1. w = [k \in 1..n |-> w[k]]
      BY <1>1 DEF Window
    <3> HIDE DEF w, n
    <3>2. w \in [1..n -> Event]
      BY <2>1, <3>1
    <3> QED
      BY <1>1, <3>2
<1>6. /\ events' = w
      /\ seq' = IF w = <<>> THEN seq ELSE Last(w).number
      /\ gen' = gen + Cardinality({k \in DOMAIN w : w[k].kind = "reset"})
  BY DEF Observes
<1> HIDE DEF w
<1>7. seq' = IF n = 0 THEN seq ELSE seq + n + more
  BY <1>1, <1>4, <1>5, <1>6 DEF Last
<1>8. gen' \in Nat
  <2>1. {k \in DOMAIN w : w[k].kind = "reset"} \in SUBSET (1..n)
    BY <1>5
  <2> QED
    <3> HIDE DEF n
    <3>1. Cardinality({k \in DOMAIN w : w[k].kind = "reset"}) \in Nat
      BY <1>1, <1>2, <2>1
    <3> QED
      BY <1>6, <3>1
<1>9. Rising(w, seq')
  BY <1>1, <1>4, <1>5, <1>7 DEF Rising
<1> HIDE DEF n
<1>10. Adds(w)
  BY <1>1, <1>4, <1>5, <1>7, <1>9 DEF Adds
<1> QED
  BY <1>6, <1>8, <1>10 DEF w

\* Two windows in a row, the first of which ended at the number seq.
LEMMA RisingOn ==
    ASSUME seq \in Nat, NEW v \in Seq(Event), NEW w, Rising(v, seq), Adds(w)
    PROVE  /\ v \o w \in Seq(Event) /\ Rising(v \o w, seq')
           /\ \A k \in 1..Len(v \o w) :
                 \/ \E j \in 1..Len(v) : (v \o w)[k] = v[j]
                 \/ \E j \in 1..Len(w) : (v \o w)[k] = w[j]
           /\ \A k \in 1..Len(v) : \E j \in 1..Len(v \o w) : (v \o w)[j] = v[k]
           /\ \A k \in 1..Len(w) : \E j \in 1..Len(v \o w) : (v \o w)[j] = w[k]
<1> DEFINE W == v \o w
           n == Len(v)
           m == Len(w)
<1>1. w \in Seq(Event) /\ n \in Nat /\ m \in Nat
  BY DEF Adds
<1>2. W \in Seq(Event) /\ Len(W) = n + m
  BY <1>1
<1>3. \A k \in 1..n : W[k] = v[k]
  BY <1>1
<1>4. \A k \in 1..m : W[n + k] = w[k]
  BY <1>1
<1>5. \A k \in 1..(n + m) : k \in 1..n \/ (k - n \in 1..m /\ W[k] = w[k - n])
  <2> SUFFICES ASSUME NEW k \in 1..(n + m), k \notin 1..n
               PROVE  k - n \in 1..m /\ W[k] = w[k - n]
    OBVIOUS
  <2>1. k - n \in 1..m /\ n + (k - n) = k
    BY <1>1
  <2> HIDE DEF n, m, W
  <2> QED
    BY <1>4, <2>1
<1> HIDE DEF W
<1>6. /\ seq' \in Nat /\ seq <= seq'
      /\ \A k \in 1..n : v[k].number \in 1..seq
      /\ \A k \in 1..m : w[k].number \in 1..seq' /\ w[k].number > seq
                         /\ (w[k].mark = "gap" => w[k].number # seq + 1)
  BY DEF Rising, Adds
<1>7. \A j, k \in 1..n : /\ j < k => v[j].number < v[k].number
                         /\ v[k].mark = "gap" => v[j].number + 1 # v[k].number
  BY DEF Rising
<1>8. \A j, k \in 1..m : /\ j < k => w[j].number < w[k].number
                         /\ w[k].mark = "gap" => w[j].number + 1 # w[k].number
  BY DEF Rising, Adds
<1> HIDE DEF n, m
<1>9. Rising(W, seq')
  <2>1. ASSUME NEW k \in 1..(n + m) PROVE W[k].number \in 1..seq'
    <3>1. CASE k \in 1..n
      <4>1. W[k] = v[k] /\ v[k].number \in 1..seq
        BY <1>3, <1>6, <3>1
      <4> QED
        BY <1>6, <4>1
    <3>2. CASE k - n \in 1..m /\ W[k] = w[k - n]
      BY <1>6, <3>2
    <3> QED
      BY <1>5, <3>1, <3>2
  <2>2. ASSUME NEW j \in 1..(n + m), NEW k \in 1..(n + m)
        PROVE  /\ j < k => W[j].number < W[k].number
               /\ W[k].mark = "gap" => W[j].number + 1 # W[k].number
    <3>1. CASE j \in 1..n /\ k \in 1..n
      BY <1>3, <1>7, <3>1
    <3>2. CASE j \in 1..n /\ k \notin 1..n
      <4>1. k - n \in 1..m /\ W[k] = w[k - n] /\ W[j] = v[j]
        BY <1>3, <1>5, <3>2
      <4>2. v[j].number \in 1..seq /\ w[k - n].number \in 1..seq' /\ w[k - n].number > seq
            /\ (w[k - n].mark = "gap" => w[k - n].number # seq + 1)
        BY <1>6, <3>2, <4>1
      <4> QED
        BY <1>6, <4>1, <4>2
    <3>3. CASE j \notin 1..n /\ k \in 1..n
      <4>1. j - n \in 1..m /\ W[j] = w[j - n] /\ W[k] = v[k]
        BY <1>3, <1>5, <3>3
      <4>2. v[k].number \in 1..seq /\ w[j - n].number \in 1..seq' /\ w[j - n].number > seq
        BY <1>6, <3>3, <4>1
      <4> QED
        BY <1>1, <1>6, <3>3, <4>1, <4>2
    <3>4. CASE j \notin 1..n /\ k \notin 1..n
      <4>1. j - n \in 1..m /\ W[j] = w[j - n] /\ k - n \in 1..m /\ W[k] = w[k - n]
        BY <1>5, <3>4
      <4>2. j < k => j - n < k - n
        BY <1>1
      <4> QED
        BY <1>8, <4>1, <4>2
    <3> QED
      BY <3>1, <3>2, <3>3, <3>4
  <2> QED
    BY <1>2, <2>1, <2>2 DEF Rising
<1>10. \A k \in 1..n : k \in 1..(n + m)
  BY <1>1
<1>11. \A k \in 1..m : n + k \in 1..(n + m)
  BY <1>1
<1>12. \A k \in 1..(n + m) : (\E j \in 1..n : W[k] = v[j]) \/ (\E j \in 1..m : W[k] = w[j])
  BY <1>3, <1>5
<1>13. \A k \in 1..n : \E j \in 1..(n + m) : W[j] = v[k]
  BY <1>3, <1>10
<1>14. \A k \in 1..m : \E j \in 1..(n + m) : W[j] = w[k]
  BY <1>4, <1>11
<1> QED
  BY <1>2, <1>9, <1>12, <1>13, <1>14 DEF n, m, W

-----------------------------------------------------------------------------
(* The tracker, from window to window.                                     *)

\* What the task knows of an ended playback when a window begins.
Tracking ==
    /\ own \in Snapshot /\ own.ended > 0
    /\ release \in Authority
    /\ release.last <= seq
    /\ Taken(own, release, events)

LEMMA TrackingHolds ==
    ASSUME TypeInv, TrackInv, own # None
    PROVE  \/ own.ended = 0 /\ release = None /\ ~unrest
           \/ Tracking
<1>1. own \in Snapshot /\ own.ended \in Nat /\ (release = None \/ release \in Authority)
  BY DEF TypeInv, Snapshot
<1>2. CASE own.ended = 0
  BY <1>1, <1>2 DEF TrackInv, TypeInv
<1>3. CASE own.ended > 0
  BY <1>1, <1>3 DEF TrackInv, Tracking
<1> QED
  BY <1>1, <1>2, <1>3

\* _observed() of a new window: the tracker takes it in.
LEMMA FollowedTakes ==
    ASSUME seq \in Nat, Tracking, NEW w, Adds(w)
    PROVE  /\ Followed(w) \in Authority
           /\ Followed(w).terminal = release.terminal
           /\ Followed(w).last \in release.last..seq'
           /\ release.blocked => Followed(w).blocked
           /\ \A k \in 1..Len(w) :
                 w[k].number <= Followed(w).last /\ (Disturbs(w[k]) => Followed(w).blocked)
<1>1. /\ own # None /\ own.ended # 0 /\ release # None
      /\ release.last \in Nat /\ release.last <= seq'
  BY DEF Tracking, Authority, Adds, Snapshot
<1>2. Followed(w) = Tracked(own, w, release)
  BY <1>1 DEF Followed, Tracking
<1>3. Begins(own, w, release, release)
  BY <1>1 DEF Begins
<1>4. /\ w \in Seq(Event) /\ seq' \in Nat /\ Rising(w, seq')
      /\ \A k \in 1..Len(w) : w[k].number > seq /\ w[k].number \in Nat
      /\ \A k \in 1..Len(w) : w[k].mark = "gap" => w[k].number # seq + 1
  BY DEF Adds, Rising
<1>5. \A k \in 1..Len(w) : w[k].number > release.last
  BY <1>1, <1>4 DEF Tracking
<1>6. Joins(release, w)
  BY <1>1, <1>4 DEF Tracking, Joins
<1>7. release \in Authority
  BY DEF Tracking
<1> DEFINE a == Tracked(own, w, release)
<1>8. Took(a, release, w, seq')
  BY <1>1, <1>3, <1>4, <1>6, <1>7, TrackedTakes
<1> HIDE DEF a
<1> QED
  BY <1>2, <1>5, <1>8 DEF a, Took

\* _accept() of the same session, whose end is known: nothing of the window is new to the
\* tracker any more.
LEMMA AcceptedAgain ==
    ASSUME seq \in Nat, Tracking, Rising(events, seq), events \in Seq(Event), NEW w, Adds(w),
           NEW W \in {w, events \o w}, NEW s \in Snapshot, s.ended = own.ended
    PROVE  Tracked(s, W, Followed(w)) = Followed(w) /\ Taken(s, Followed(w), W)
<1> DEFINE a == Followed(w)
<1>1. /\ a \in Authority /\ a.terminal = release.terminal /\ a.last \in release.last..seq'
      /\ release.blocked => a.blocked
      /\ \A k \in 1..Len(w) : w[k].number <= a.last /\ (Disturbs(w[k]) => a.blocked)
  BY FollowedTakes
<1> HIDE DEF a
<1>2. /\ a # None /\ s # None /\ s.ended # 0 /\ a.last \in Nat /\ a.last <= seq'
      /\ seq' \in Nat /\ release.last \in Nat
  BY <1>1 DEF Tracking, Authority, Adds, Snapshot
<1>3. /\ release.terminal = own.ended /\ release.terminal <= release.last
      /\ \A k \in 1..Len(events) :
            /\ events[k].number <= release.last /\ events[k].number \in Nat
            /\ events[k].number > own.ended /\ Disturbs(events[k]) => release.blocked
  BY DEF Tracking, Taken, Rising
<1>4. W \in Seq(Event) /\ Rising(W, seq')
      /\ \A k \in 1..Len(W) : \/ \E j \in 1..Len(events) : W[k] = events[j]
                              \/ \E j \in 1..Len(w) : W[k] = w[j]
  <2>1. CASE W = w
    BY <2>1 DEF Adds
  <2>2. CASE W = events \o w
    BY <2>2, RisingOn
  <2> QED
    BY <2>1, <2>2
<1>5. \A k \in 1..Len(W) : W[k].number <= a.last /\ W[k].number \in Nat
  <2>1. \A k \in 1..Len(events) : events[k].number <= a.last
    BY <1>1, <1>2, <1>3
  <2>2. \A k \in 1..Len(W) : W[k].number <= a.last
    BY <1>1, <1>4, <2>1
  <2> QED
    BY <1>4, <2>2 DEF Rising
<1>6. \A k \in 1..Len(W) : W[k].number > s.ended /\ Disturbs(W[k]) => a.blocked
  BY <1>1, <1>3, <1>4
<1>7. Begins(s, W, a, a)
  BY <1>2 DEF Begins
<1>8. Joins(a, W)
  BY <1>2, <1>5 DEF Joins
<1>9. Tracked(s, W, a) = a
  <2>1. Took(Tracked(s, W, a), a, W, seq')
    BY <1>1, <1>2, <1>4, <1>7, <1>8, TrackedTakes
  <2> QED
    BY <1>5, <2>1 DEF Took
<1>10. Taken(s, a, W)
  <2>1. a.terminal = s.ended /\ a.terminal <= a.last
    <3>1. s.ended \in Nat /\ release.terminal = s.ended /\ s.ended <= release.last
      BY <1>3 DEF Snapshot
    <3> QED
      BY <1>1, <1>2, <3>1
  <2> QED
    BY <1>5, <1>6, <2>1 DEF Taken
<1> QED
  BY <1>9, <1>10 DEF a

\* _accept() of a session whose end is news, or has not come.
LEMMA AcceptedAnew ==
    ASSUME NEW last \in Nat, NEW W \in Seq(Event), Rising(W, last), NEW s \in Snapshot,
           s.ended = 0 \/ \E k \in 1..Len(W) : W[k].number = s.ended
    PROVE  /\ s.ended <= last
           /\ s.ended = 0 => Tracked(s, W, None) = None
           /\ s.ended > 0 => /\ Tracked(s, W, None) \in Authority
                             /\ Tracked(s, W, None).last <= last
                             /\ Taken(s, Tracked(s, W, None), W)
<1>1. s # None /\ s.ended \in Nat
  BY DEF Snapshot
<1>2. CASE s.ended = 0
  BY <1>1, <1>2 DEF Tracked
<1>3. CASE s.ended > 0
  <2> DEFINE b == [terminal |-> s.ended, last |-> s.ended, blocked |-> FALSE]
             a == Tracked(s, W, None)
  <2>1. \E k \in 1..Len(W) : W[k].number = s.ended
    BY <1>3
  <2>2. b \in Authority /\ b.last = s.ended /\ b.terminal = s.ended
    BY <1>1 DEF Authority
  <2>3. Begins(s, W, None, b)
    BY <2>1 DEF Begins
  <2>4. b.last <= last
    BY <2>1, <2>2 DEF Rising
  <2>5. Joins(b, W)
    BY <2>1, <2>2 DEF Rising, Joins
  <2> HIDE DEF b
  <2>6. Took(a, b, W, last)
    BY <1>1, <1>3, <2>2, <2>3, <2>4, <2>5, TrackedTakes
  <2> HIDE DEF a
  <2>7. Taken(s, a, W)
    BY <1>1, <2>2, <2>6 DEF Taken, Took
  <2> QED
    BY <1>1, <1>3, <2>2, <2>4, <2>6, <2>7 DEF a, Took
<1> QED
  BY <1>1, <1>2, <1>3

\* What one window more leaves of the invariant.
Tracks ==
    /\ own' \in Snapshot \cup {None} /\ release' \in Authority \cup {None} /\ unrest' \in BOOLEAN
    /\ events' \in Seq(Event) /\ seq' \in Nat /\ Rising(events', seq')
    /\ TrackInv'

\* s may follow own after the window W.
Succeeds(s, W) ==
    IF own # None /\ own.attempt = s.attempt /\ own.ended > 0 THEN s.ended = own.ended
    ELSE s.ended = 0 \/ \E k \in 1..Len(W) : W[k].number = s.ended

\* The window as it was brought, or behind the one before it.
LEMMA AddsRise ==
    ASSUME TypeInv, Rising(events, seq), NEW w, Adds(w), NEW W \in {w, events \o w}
    PROVE  /\ W \in Seq(Event) /\ seq' \in Nat /\ seq <= seq' /\ Rising(W, seq')
           /\ \A k \in 1..Len(w) : \E j \in 1..Len(W) : W[j] = w[k]
<1>1. seq \in Nat /\ events \in Seq(Event)
  BY DEF TypeInv
<1>2. CASE W = w
  BY <1>2 DEF Adds
<1>3. CASE W = events \o w
  <2>1. events \o w \in Seq(Event) /\ Rising(events \o w, seq')
        /\ \A k \in 1..Len(w) : \E j \in 1..Len(events \o w) : (events \o w)[j] = w[k]
    BY <1>1, RisingOn
  <2> QED
    BY <1>3, <2>1 DEF Adds
<1> QED
  BY <1>2, <1>3

\* _accept() of a snapshot.
LEMMA Accepting ==
    ASSUME TypeInv, TrackInv, Rising(events, seq), NEW w, Adds(w), NEW W \in {w, events \o w},
           events' \in {w, W}, Remembers(W), own' \in Snapshot, Succeeds(own', W),
           release' = Tracked(own', W,
                         IF own # None /\ own.attempt # own'.attempt THEN None ELSE Followed(w))
    PROVE  Tracks
<1>1. /\ W \in Seq(Event) /\ seq' \in Nat /\ seq <= seq' /\ Rising(W, seq')
      /\ \A k \in 1..Len(w) : \E j \in 1..Len(W) : W[j] = w[k]
      /\ w \in Seq(Event) /\ Rising(w, seq')
      /\ seq \in Nat /\ events \in Seq(Event)
  BY AddsRise DEF Adds, TypeInv
<1>2. own' # None /\ own'.ended \in Nat
  BY DEF Snapshot
<1>3. unrest' \in BOOLEAN
      /\ (unrest' => /\ own'.ended > 0
                     /\ \/ unrest /\ own # None /\ own.attempt = own'.attempt
                        \/ \E k \in 1..Len(W) : W[k].number > own'.ended /\ Disturbs(W[k]))
  BY <1>1, <1>2 DEF Remembers
<1>4. Taken(own', release', W) => Taken(own', release', events')
  <2> SUFFICES ASSUME Taken(own', release', W) PROVE Taken(own', release', w)
    OBVIOUS
  <2> DEFINE r == release'
             s == own'
  <2>1. \A k \in 1..Len(W) : /\ W[k].number <= r.last
                             /\ W[k].number > s.ended /\ Disturbs(W[k]) => r.blocked
    BY DEF Taken
  <2> HIDE DEF r, s
  <2>2. \A k \in 1..Len(w) : /\ w[k].number <= r.last
                             /\ w[k].number > s.ended /\ Disturbs(w[k]) => r.blocked
    BY <1>1, <2>1
  <2> QED
    BY <2>2 DEF Taken, r, s
<1>5. ASSUME own # None, own.attempt = own'.attempt, own.ended > 0
      PROVE  Tracks
  <2>1. Tracking /\ own'.ended = own.ended
    BY <1>5, TrackingHolds DEF Succeeds, TypeInv, Snapshot
  <2>2. release' = Tracked(own', W, Followed(w))
    BY <1>5
  <2>3. release' = Followed(w) /\ Taken(own', release', W)
    BY <1>1, <2>1, <2>2, AcceptedAgain
  <2>4. /\ Followed(w) \in Authority /\ Followed(w).last \in release.last..seq'
        /\ release.blocked => Followed(w).blocked
    BY <1>1, <2>1, FollowedTakes
  <2>5. own'.ended <= seq'
    BY <1>1, <1>2, <2>1, <2>3, <2>4 DEF Taken, Authority, Tracking
  <2>6. unrest' => release'.blocked
    BY <1>3, <2>3, <2>4 DEF Taken, TrackInv
  <2>7. release' # None /\ release' \in Authority /\ release'.last <= seq' /\ own'.ended > 0
    BY <1>1, <1>5, <2>1, <2>3, <2>4
  <2>8. TrackInv'
    BY <1>2, <1>4, <2>3, <2>5, <2>6, <2>7 DEF TrackInv
  <2> QED
    BY <1>1, <1>2, <1>3, <2>7, <2>8 DEF Tracks
<1>6. ASSUME ~(own # None /\ own.attempt = own'.attempt /\ own.ended > 0)
      PROVE  Tracks
  <2>1. own'.ended = 0 \/ \E k \in 1..Len(W) : W[k].number = own'.ended
    BY <1>6 DEF Succeeds
  <2>2. release' = Tracked(own', W, None)
    <3>1. CASE own = None
      BY <3>1 DEF Followed, TrackInv
    <3>2. CASE own # None /\ own.attempt # own'.attempt
      BY <3>2
    <3>3. CASE own # None /\ own.attempt = own'.attempt
      <4>1. ~(own.ended > 0)
        BY <1>6, <3>3
      <4>2. release = None
        BY <3>3, <4>1, TrackingHolds DEF Tracking
      <4> QED
        BY <3>3, <4>1, <4>2 DEF Followed
    <3> QED
      BY <3>1, <3>2, <3>3
  <2>3. ~(unrest /\ own # None /\ own.attempt = own'.attempt)
    BY <1>6, TrackingHolds DEF TrackInv, Tracking
  <2>4. /\ own'.ended <= seq'
        /\ own'.ended = 0 => release' = None
        /\ own'.ended > 0 => /\ release' \in Authority /\ release'.last <= seq'
                             /\ Taken(own', release', W)
    <3> DEFINE s == own'
               last == seq'
    <3>1. s \in Snapshot /\ last \in Nat /\ Rising(W, last)
          /\ (s.ended = 0 \/ \E k \in 1..Len(W) : W[k].number = s.ended)
      BY <1>1, <2>1
    <3> HIDE DEF s, last
    <3>2. /\ s.ended <= last
          /\ s.ended = 0 => Tracked(s, W, None) = None
          /\ s.ended > 0 => /\ Tracked(s, W, None) \in Authority
                            /\ Tracked(s, W, None).last <= last
                            /\ Taken(s, Tracked(s, W, None), W)
      BY <1>1, <3>1, AcceptedAnew
    <3> QED
      BY <2>2, <3>2 DEF s, last
  <2>5. unrest' => release' # None /\ release'.blocked
    BY <1>3, <2>3, <2>4 DEF Taken
  <2>6. TrackInv'
    BY <1>2, <1>4, <2>4, <2>5 DEF TrackInv
  <2> QED
    BY <1>1, <1>2, <1>3, <2>4, <2>6 DEF Tracks
<1> QED
  BY <1>5, <1>6

-----------------------------------------------------------------------------
(* What the task concludes from a window.                                  *)

LEMMA MaxIn ==
    ASSUME NEW n \in Nat, NEW S \in SUBSET (1..n), S # {}
    PROVE  Max(S) \in S /\ \A y \in S : Max(S) >= y
<1> DEFINE Top(T) == \E x \in T : \A y \in T : x >= y
           P == {k \in Nat : \A T \in SUBSET (1..k) : T # {} => Top(T)}
<1>1. 0 \in P
  <2>1. 1..0 = {}
    OBVIOUS
  <2>2. \A T \in SUBSET (1..0) : T = {}
    BY <2>1
  <2> HIDE DEF Top
  <2> QED
    BY <2>2
<1>2. ASSUME NEW k \in Nat, k \in P PROVE k + 1 \in P
  <2>1. ASSUME NEW T \in SUBSET (1..(k + 1)), T # {} PROVE Top(T)
    <3>1. CASE k + 1 \in T
      BY <3>1
    <3>2. CASE k + 1 \notin T
      <4>1. T \in SUBSET (1..k)
        BY <3>2
      <4> QED
        BY <1>2, <2>1, <4>1
    <3> QED
      BY <3>1, <3>2
  <2> QED
    BY <2>1
<1> HIDE DEF P
<1>3. Nat \subseteq P
  BY <1>1, <1>2, Induction
<1>4. Top(S)
  BY <1>3 DEF P
<1> QED
  BY <1>4 DEF Max

LEMMA MinIn ==
    ASSUME NEW n \in Nat, NEW S \in SUBSET (1..n), S # {}
    PROVE  Min(S) \in S
<1> DEFINE T == {k \in 1..n : n + 1 - k \in S}
           m == n + 1 - Max(T)
<1>1. PICK x \in S : TRUE
  OBVIOUS
<1>2. x \in 1..n /\ n + 1 - (n + 1 - x) = x
  OBVIOUS
<1>3. n + 1 - x \in T
  BY <1>2
<1>4. Max(T) \in T /\ \A y \in T : Max(T) >= y
  <2>1. T \in SUBSET (1..n) /\ T # {}
    BY <1>3
  <2> HIDE DEF T
  <2> QED
    BY <2>1, MaxIn
<1>5. m \in S
  BY <1>4
<1>6. ASSUME NEW y \in S PROVE m <= y
  <2>1. y \in 1..n /\ n + 1 - (n + 1 - y) = y
    OBVIOUS
  <2>2. n + 1 - y \in T
    BY <2>1
  <2> QED
    BY <1>4, <2>1, <2>2
<1> HIDE DEF m
<1> QED
  BY <1>5, <1>6 DEF Min

\* The last observation of some sort is one of the window.
LEMMA LastReceiver ==
    ASSUME NEW w \in Seq(Event)
    PROVE  \/ LastOf(w, Receiver) = None
           \/ \E k \in 1..Len(w) : LastOf(w, Receiver) = w[k] /\ Receiver(w[k])
<1> DEFINE I == {k \in 1..Len(w) : Receiver(w[k])}
<1>1. Len(w) \in Nat /\ I \subseteq 1..Len(w)
  OBVIOUS
<1>2. I # {} => Max(I) \in I
  <2> HIDE DEF I
  <2> QED
    BY <1>1, MaxIn
<1> QED
  BY <1>2 DEF LastOf, SelectLastInSeq

LEMMA NewSnapshotType ==
    ASSUME NEW i \in Items, NEW g \in Nat, NEW x \in {"none", "asked", "carried"}, NEW n \in Nat
    PROVE  /\ NewSnapshot(i, g, x, n) \in Snapshot
           /\ NewSnapshot(i, g, x, n).attempt = i /\ NewSnapshot(i, g, x, n).ended = n
BY DEF NewSnapshot, Snapshot

\* _reconcile() keeps the attempt and its end, also on another connection.
LEMMA ReconciledType ==
    ASSUME NEW t \in Snapshot, NEW w \in Seq(Event), Reconciled(t, w) # None
    PROVE  Reconciled(t, w) \in Snapshot /\ Continues(t, Reconciled(t, w), w)
<1> DEFINE I == {k \in 1..Len(w) : Receiver(w[k]) /\ w[k].mark # "stale"}
           latest == IF (IF I # {} THEN Max(I) ELSE 0) = 0 THEN None
                     ELSE w[IF I # {} THEN Max(I) ELSE 0]
           s == IF latest.gen = t.gen THEN t
                ELSE NewSnapshot(t.attempt, latest.gen,
                                 IF t.stop = "none" THEN "none" ELSE "carried", t.ended)
<1>1. Reconciled(t, w) = IF latest = None \/ latest.kind # "alive" THEN None
                         ELSE IF Applied(s, w).lost THEN None ELSE Applied(s, w)
  BY DEF Reconciled, LastOf, SelectLastInSeq
<1>2. I # {} => Max(I) \in 1..Len(w)
  <2>1. Len(w) \in Nat /\ I \subseteq 1..Len(w)
    OBVIOUS
  <2> HIDE DEF I
  <2> QED
    BY <2>1, MaxIn
<1> HIDE DEF I
<1>3. latest # None => latest \in Event
  BY <1>2
<1> HIDE DEF latest
<1>4. latest # None /\ Reconciled(t, w) = Applied(s, w)
  BY <1>1
<1>5. s \in Snapshot /\ s.attempt = t.attempt /\ s.ended = t.ended
  <2>1. t.attempt \in Items /\ latest.gen \in Nat /\ t.ended \in Nat
    BY <1>3, <1>4 DEF Snapshot, Event
  <2> QED
    BY <2>1, NewSnapshotType
<1> HIDE DEF s
<1>6. Applied(s, w) \in Snapshot /\ Continues(s, Applied(s, w), w)
  BY <1>5, AppliedType
<1> QED
  BY <1>4, <1>5, <1>6 DEF Continues

\* The application refuses a command, or carries on with the session that is followed.
LEMMA ProposedType ==
    ASSUME TypeInv, NEW w \in Seq(Event), Proposed(w) # None
    PROVE  own # None /\ Proposed(w) \in Snapshot /\ Continues(own, Proposed(w), w)
<1> DEFINE s == Reconciled(own, w)
<1>1. own # None /\ s # None
  BY DEF Proposed
<1>2. s \in Snapshot /\ Continues(own, s, w)
  BY <1>1, ReconciledType DEF TypeInv
<1>3. \/ Proposed(w) = [s EXCEPT !.stop = "asked", !.asked = FALSE, !.released = FALSE]
      \/ Proposed(w) = s
      \/ Proposed(w) = [s EXCEPT !.asked = TRUE, !.released = FALSE]
  <2> HIDE DEF s
  <2> QED
    BY <1>1 DEF Proposed, s
<1> HIDE DEF s
<1>4. Proposed(w) \in Snapshot /\ Proposed(w).attempt = s.attempt /\ Proposed(w).ended = s.ended
  <2>1. s \in Snapshot
    BY <1>2
  <2> DEFINE Fits(u) == u \in Snapshot /\ u.attempt = s.attempt /\ u.ended = s.ended
  <2>2. Fits([s EXCEPT !.stop = "asked", !.asked = FALSE, !.released = FALSE])
    BY <2>1 DEF Snapshot
  <2>3. Fits([s EXCEPT !.asked = TRUE, !.released = FALSE])
    BY <2>1 DEF Snapshot
  <2>4. Fits(s)
    BY <2>1
  <2> QED
    BY <1>3, <2>2, <2>3, <2>4
<1> QED
  BY <1>1, <1>2, <1>4 DEF Continues

\* One continuation after another, in one window or in two.
LEMMA ContinuesOn ==
    ASSUME NEW t \in Snapshot, NEW s \in Snapshot, NEW u \in Snapshot,
           NEW v, NEW w, NEW W, Continues(t, s, v), Continues(s, u, w),
           \A k \in 1..Len(v) : \E j \in 1..Len(W) : W[j] = v[k],
           \A k \in 1..Len(w) : \E j \in 1..Len(W) : W[j] = w[k]
    PROVE  Continues(t, u, W)
<1>1. t.ended \in Nat /\ s.ended \in Nat /\ u.ended \in Nat
  BY DEF Snapshot
<1>2. u.attempt = t.attempt /\ (t.ended > 0 => u.ended = t.ended)
  BY <1>1 DEF Continues
<1>3. ASSUME t.ended = 0, s.ended = 0, u.ended # 0
      PROVE  \E k \in 1..Len(W) : W[k].number = u.ended
  <2>1. PICK k \in 1..Len(w) : w[k].number = u.ended
    BY <1>3 DEF Continues
  <2> QED
    BY <2>1
<1>4. ASSUME t.ended = 0, s.ended # 0
      PROVE  \E k \in 1..Len(W) : W[k].number = u.ended
  <2>1. PICK k \in 1..Len(v) : v[k].number = s.ended
    BY <1>4 DEF Continues
  <2>2. u.ended = s.ended
    BY <1>1, <1>4 DEF Continues
  <2> QED
    BY <2>1, <2>2
<1> QED
  BY <1>2, <1>3, <1>4 DEF Continues

\* The first observation of a started content begins a session of its own.
LEMMA CandidateType ==
    ASSUME TypeInv, NEW w \in Seq(Event), Candidate(w) # None
    PROVE  /\ Candidate(w) \in Snapshot /\ Candidate(w).attempt = work.item
           /\ Candidate(w).ended = 0 \/ \E k \in 1..Len(w) : w[k].number = Candidate(w).ended
<1> DEFINE found == {k \in DOMAIN w : w[k].kind \in {"play", "rest", "end"}
                                      /\ w[k].mark # "stale"}
           k == Min(found)
           v == SubSeq(w, k, Len(w))
           s == NewSnapshot(work.item, w[k].gen, "none", 0)
<1>1. found # {} /\ Candidate(w) = Applied(s, v)
  BY DEF Candidate
<1>2. k \in 1..Len(w)
  <2>1. Len(w) \in Nat /\ found \subseteq 1..Len(w)
    OBVIOUS
  <2> HIDE DEF found
  <2> QED
    BY <1>1, <2>1, MinIn
<1> HIDE DEF found, k
<1>3. v \in Seq(Event) /\ \A j \in 1..Len(v) : \E i \in 1..Len(w) : v[j] = w[i]
  <2>1. Len(w) \in Nat /\ v \in Seq(Event) /\ Len(v) = Len(w) - k + 1
        /\ \A j \in 1..Len(v) : v[j] = w[k + j - 1]
    BY <1>2
  <2>2. \A j \in 1..Len(v) : k + j - 1 \in 1..Len(w)
    BY <1>2, <2>1
  <2> QED
    BY <2>1, <2>2
<1>4. s \in Snapshot /\ s.attempt = work.item /\ s.ended = 0
  <2>1. w[k].gen \in Nat /\ work.item \in Items
    <3>1. w[k] \in Event /\ work \in Work
      BY <1>2 DEF TypeInv
    <3> QED
      BY <3>1 DEF Event, Work
  <2> QED
    BY <2>1, NewSnapshotType
<1> HIDE DEF s, v
<1>5. Applied(s, v) \in Snapshot /\ Continues(s, Applied(s, v), v)
  BY <1>3, <1>4, AppliedType
<1>6. Applied(s, v).ended = 0 \/ \E j \in 1..Len(v) : v[j].number = Applied(s, v).ended
  BY <1>4, <1>5 DEF Continues
<1>7. Applied(s, v).ended = 0 \/ \E i \in 1..Len(w) : w[i].number = Applied(s, v).ended
  BY <1>3, <1>6
<1> QED
  BY <1>1, <1>4, <1>5, <1>7 DEF Continues

LEMMA ContinuesSucceeds ==
    ASSUME TypeInv, own # None, NEW s \in Snapshot, NEW W, Continues(own, s, W)
    PROVE  Succeeds(s, W)
<1>1. own.ended \in Nat
  BY DEF TypeInv, Snapshot
<1> QED
  BY <1>1 DEF Continues, Succeeds

\* What the application concludes from the window after an effect.
LEMMA ConcludedType ==
    ASSUME TypeInv, StartInv, SnapInv, Rising(events, seq), pc = "sent",
           NEW w, Adds(w), Concluded(w) # None
    PROVE  /\ Concluded(w) \in Snapshot /\ Succeeds(Concluded(w), events \o w)
           /\ Concluded(w).attempt \in {work.item} \cup (IF own = None THEN {} ELSE {own.attempt})
           /\ work.action # "start" => own # None /\ Concluded(w).attempt = own.attempt
<1> DEFINE W == events \o w
<1>1. seq \in Nat /\ events \in Seq(Event) /\ w \in Seq(Event)
  BY DEF TypeInv, Adds
<1>2. /\ \A k \in 1..Len(events) : \E j \in 1..Len(W) : W[j] = events[k]
      /\ \A k \in 1..Len(w) : \E j \in 1..Len(W) : W[j] = w[k]
  BY <1>1, RisingOn
<1> HIDE DEF W
<1>3. CASE work.action = "start"
  <2> DEFINE s == Candidate(w)
  <2>1. Concluded(w) = s
    BY <1>3 DEF Concluded
  <2>2. /\ s \in Snapshot /\ s.attempt = work.item
        /\ s.ended = 0 \/ \E k \in 1..Len(w) : w[k].number = s.ended
    BY <1>1, <2>1, CandidateType
  <2> HIDE DEF s
  <2>3. own # None => own.attempt # work.item
    BY <1>3 DEF StartInv, Busy, Place
  <2>4. s.ended = 0 \/ \E k \in 1..Len(W) : W[k].number = s.ended
    BY <1>2, <2>2
  <2>5. Succeeds(s, W)
    BY <2>2, <2>3, <2>4 DEF Succeeds
  <2> QED
    BY <1>3, <2>1, <2>2, <2>5 DEF W
<1>4. CASE work.action # "start"
  <2>1. /\ own # None /\ own \in Snapshot
        /\ work.snap \in Snapshot /\ Continues(own, work.snap, events)
    BY <1>4 DEF SnapInv, TypeInv, Work
  <2>2. ASSUME NEW g \in BOOLEAN
        PROVE  LET s == Applied([work.snap EXCEPT !.granted = g], w)
               IN  s \in Snapshot /\ Continues(own, s, W)
    <3> DEFINE t == [work.snap EXCEPT !.granted = g]
    <3>1. t \in Snapshot /\ t.attempt = work.snap.attempt /\ t.ended = work.snap.ended
      BY <2>1, <2>2 DEF Snapshot
    <3> HIDE DEF t
    <3>2. Continues(own, t, events)
      BY <2>1, <3>1 DEF Continues
    <3>3. Applied(t, w) \in Snapshot /\ Continues(t, Applied(t, w), w)
      BY <1>1, <3>1, AppliedType
    <3>4. Continues(own, Applied(t, w), W)
      BY <1>2, <2>1, <3>1, <3>2, <3>3, ContinuesOn
    <3> QED
      BY <3>3, <3>4 DEF t
  <2>3. PICK g \in BOOLEAN :
          Concluded(w) \in {Applied([work.snap EXCEPT !.granted = g], w),
                            Unreleased(Applied([work.snap EXCEPT !.granted = g], w))}
    <3> DEFINE a == (work.outcome = "acknowledged")
    <3>1. CASE work.action = "release"
      <4>1. Concluded(w) \in {Applied([work.snap EXCEPT !.granted = a], w),
                              Unreleased(Applied([work.snap EXCEPT !.granted = a], w))}
        BY <1>4, <3>1 DEF Concluded
      <4> QED
        BY <4>1
    <3>2. CASE work.action # "release"
      <4>1. Concluded(w) = Applied([work.snap EXCEPT !.granted = FALSE], w)
        BY <1>4, <3>2 DEF Concluded
      <4> QED
        BY <4>1
    <3> QED
      BY <3>1, <3>2
  <2> DEFINE s == Applied([work.snap EXCEPT !.granted = g], w)
  <2>4. s \in Snapshot /\ Continues(own, s, W)
    BY <2>2
  <2>5. Concluded(w) \in {s, Unreleased(s)}
    BY <2>3
  <2> HIDE DEF s
  <2>6. Same(s, Unreleased(s)) /\ Unreleased(s).ended = s.ended
    BY <2>4, UnreleasedType
  <2>7. Concluded(w) \in Snapshot /\ Continues(own, Concluded(w), W)
    BY <2>4, <2>5, <2>6 DEF Continues, Same
  <2>8. Succeeds(Concluded(w), W)
    BY <2>1, <2>7, ContinuesSucceeds
  <2> QED
    BY <1>4, <2>1, <2>7, <2>8 DEF W, Continues
<1> QED
  BY <1>3, <1>4

\* _accept() of a window that brought no snapshot.
LEMMA AcceptsWindow ==
    ASSUME TypeInv, TrackInv, Rising(events, seq), NEW w, Adds(w), NEW W \in {w, events \o w},
           events' \in {w, W}, Accepts(W, Followed(w)), Remembers(W)
    PROVE  Tracks /\ (own' = None <=> own = None) /\ (own # None => own'.attempt = own.attempt)
<1>1. W \in Seq(Event) /\ seq' \in Nat /\ Rising(W, seq') /\ w \in Seq(Event) /\ Rising(w, seq')
  BY AddsRise DEF Adds
<1>2. CASE own = None
  <2>1. own' = None /\ release' = None /\ unrest' = FALSE
    BY <1>2 DEF Accepts, Tracked, Followed, TrackInv, Remembers
  <2> QED
    BY <1>1, <1>2, <2>1 DEF Tracks, TrackInv
<1>3. CASE own # None
  <2>1. own' = Applied(own, W) /\ release' = Tracked(own', W, Followed(w)) /\ own \in Snapshot
    BY <1>3 DEF Accepts, TypeInv
  <2>2. own' \in Snapshot /\ Continues(own, own', W)
    BY <1>1, <2>1, AppliedType
  <2>3. own'.attempt = own.attempt
    BY <2>2 DEF Continues
  <2> DEFINE s == own'
  <2>4. s \in Snapshot /\ Continues(own, s, W)
    BY <2>2
  <2> HIDE DEF s
  <2>5. Succeeds(s, W)
    BY <1>3, <2>4, ContinuesSucceeds
  <2>6. Succeeds(own', W)
    BY <2>5 DEF s
  <2>7. release' = Tracked(own', W, IF own # None /\ own.attempt # own'.attempt THEN None
                                    ELSE Followed(w))
    BY <2>1, <2>3
  <2>8. Tracks
    BY <2>2, <2>6, <2>7, Accepting
  <2> QED
    BY <1>3, <2>2, <2>3, <2>8 DEF Snapshot
<1> QED
  BY <1>2, <1>3

\* _accept() of a snapshot.
LEMMA AcceptsOne ==
    ASSUME TypeInv, TrackInv, Rising(events, seq), NEW w, Adds(w), NEW W \in {w, events \o w},
           events' \in {w, W}, NEW s \in Snapshot, Succeeds(s, W),
           AcceptsSnapshot(s, W, Followed(w)), Remembers(W)
    PROVE  Tracks /\ own' = s
<1>1. own' = s
      /\ release' = Tracked(own', W, IF own # None /\ own.attempt # own'.attempt THEN None
                                     ELSE Followed(w))
  BY DEF AcceptsSnapshot
<1>2. Succeeds(own', W)
  BY <1>1 DEF Succeeds
<1> QED
  BY <1>1, <1>2, Accepting

\* A window is observed, and the session is left as it is.
LEMMA FollowsWindow ==
    ASSUME TypeInv, TrackInv, Rising(events, seq), NEW w, Adds(w), events' = w,
           own' = own, release' = Followed(w), unrest' \in BOOLEAN,
           unrest' => unrest \/ (own # None /\ own.ended > 0 /\
                                   \E k \in 1..Len(w) : Disturbs(w[k]))
    PROVE  Tracks
<1>1. seq' \in Nat /\ w \in Seq(Event) /\ Rising(w, seq') /\ seq \in Nat /\ seq <= seq'
      /\ own \in Snapshot \cup {None}
  BY DEF Adds, TypeInv
<1>2. CASE own = None
  <2>1. release' = None /\ unrest' = FALSE
    BY <1>2 DEF Followed, TrackInv
  <2> QED
    BY <1>1, <1>2, <2>1 DEF Tracks, TrackInv
<1>3. CASE own # None /\ own.ended = 0 /\ release = None /\ ~unrest
  <2>1. release' = None /\ unrest' = FALSE
    BY <1>3 DEF Followed
  <2> QED
    BY <1>1, <1>3, <2>1 DEF Tracks, TrackInv
<1>4. CASE own # None /\ Tracking
  <2>1. /\ release' \in Authority /\ release'.terminal = release.terminal
        /\ release'.last \in release.last..seq'
        /\ release.blocked => release'.blocked
        /\ \A k \in 1..Len(w) :
              w[k].number <= release'.last /\ (Disturbs(w[k]) => release'.blocked)
    BY <1>1, <1>4, FollowedTakes
  <2>2. release.terminal = own.ended /\ release.terminal <= release.last
        /\ own.ended \in Nat /\ own.ended > 0 /\ release.last \in Nat
    BY <1>4 DEF Tracking, Taken, Snapshot, Authority
  <2>3. Taken(own, release', w)
    BY <2>1, <2>2 DEF Taken
  <2>4. own.ended <= seq' /\ release'.last <= seq'
    BY <1>1, <1>4, <2>1, <2>2 DEF Tracking
  <2>5. unrest' => release'.blocked
    BY <2>1 DEF TrackInv
  <2>6. TrackInv'
    BY <1>4, <2>1, <2>2, <2>3, <2>4, <2>5 DEF TrackInv
  <2> QED
    BY <1>1, <2>1, <2>6 DEF Tracks
<1> QED
  BY <1>2, <1>3, <1>4, TrackingHolds

\* status()
LEMMA StatusTracks ==
    ASSUME TypeInv, TrackInv, Rising(events, seq), own # None, NEW w, Adds(w), events' = w,
           Status(w), Remembers(w)
    PROVE  Tracks /\ own' # None /\ own'.attempt = own.attempt
<1> DEFINE s == Reconciled(own, w)
           u == Applied(own, w)
           v == [u EXCEPT !.lost = TRUE, !.confirmed = FALSE]
<1>1. own \in Snapshot /\ w \in Seq(Event)
  BY DEF TypeInv, Adds
<1>2. \/ s # None /\ AcceptsSnapshot(s, w, Followed(w))
      \/ AcceptsSnapshot(v, w, Followed(w))
      \/ Accepts(w, Followed(w))
  BY DEF Status
<1>3. s # None => s \in Snapshot /\ Continues(own, s, w)
  BY <1>1, ReconciledType
<1>4. u \in Snapshot /\ Continues(own, u, w)
  BY <1>1, AppliedType
<1> HIDE DEF u
<1>5. v \in Snapshot /\ Continues(own, v, w)
  BY <1>4 DEF Snapshot, Continues
<1> HIDE DEF s, v
<1>6. ASSUME NEW x \in Snapshot, Continues(own, x, w), AcceptsSnapshot(x, w, Followed(w))
      PROVE  Tracks /\ own' # None /\ own'.attempt = own.attempt
  <2>1. Succeeds(x, w)
    BY <1>6, ContinuesSucceeds
  <2>2. Tracks /\ own' = x
    BY <1>6, <2>1, AcceptsOne
  <2> QED
    BY <1>6, <2>2 DEF Continues
<1> QED
  BY <1>2, <1>3, <1>5, <1>6, AcceptsWindow

\* _failed() looks again at the window before the effect.
LEMMA FailureTracks ==
    ASSUME TypeInv, TrackInv, Rising(events, seq), Accepts(events, release), Remembers(events),
           UNCHANGED <<seq, events>>
    PROVE  Tracks /\ (own' = None <=> own = None) /\ (own # None => own'.attempt = own.attempt)
<1> DEFINE w == <<>>
<1>1. seq \in Nat /\ events \in Seq(Event)
  BY DEF TypeInv
<1>2. Adds(w) /\ events \o w = events
  BY <1>1 DEF Adds, Rising
<1>3. Followed(w) = release
  <2>1. CASE own = None \/ ~Tracking
    <3>1. ~(own # None /\ own.ended > 0)
      BY <2>1, TrackingHolds
    <3> QED
      BY <3>1 DEF Followed
  <2>2. CASE own # None /\ Tracking
    <3>1. /\ own.ended # 0 /\ own.ended > 0 /\ release \in Authority /\ release # None
          /\ Begins(own, w, release, release) /\ w \in Seq(Event) /\ Len(w) = 0
          /\ release.last <= seq /\ Rising(w, seq) /\ Joins(release, w)
      BY <2>2 DEF Tracking, Begins, Snapshot, Rising, Joins
    <3> HIDE DEF w
    <3>2. Took(Tracked(own, w, release), release, w, seq)
      BY <1>1, <2>2, <3>1, TrackedTakes
    <3>3. Tracked(own, w, release) = release
      BY <3>1, <3>2 DEF Took
    <3> QED
      BY <2>2, <3>1, <3>3 DEF Followed
  <2> QED
    BY <2>1, <2>2
<1> HIDE DEF w
<1> QED
  BY <1>2, <1>3, AcceptsWindow

\* Whatever observes nothing leaves all that as it is.
LEMMA Undisturbed ==
    ASSUME TypeInv, TrackInv, Rising(events, seq), UNCHANGED <<own, release, events, seq, unrest>>
    PROVE  Tracks
BY DEF Tracks, TrackInv, TypeInv

LEMMA AttemptType ==
    /\ Attempted \subseteq Items
    /\ Attempt \in 0..ItemCount
    /\ Attempted # {} => Attempt \in Items
<1>1. Attempted \subseteq 1..ItemCount
  BY DEF Attempted, Items
<1>2. ItemCount \in Nat /\ IsFiniteSet(1..ItemCount) /\ Cardinality(1..ItemCount) = ItemCount
  BY FS_Interval
<1>3. IsFiniteSet(Attempted) /\ Cardinality(Attempted) <= ItemCount
  BY <1>1, <1>2, FS_Subset
<1>4. Attempt \in Nat /\ Attempt <= ItemCount /\ (Attempt = 0 <=> Attempted = {})
  BY <1>3, FS_CardinalityType, FS_EmptySet DEF Attempt
<1> DEFINE n == Attempt
<1>5. n \in 0..ItemCount /\ (Attempted # {} => n \in 1..ItemCount)
  <2> HIDE DEF n
  <2> QED
    BY <1>2, <1>4 DEF n
<1> QED
  BY <1>1, <1>5 DEF Items

-----------------------------------------------------------------------------
(* The inductive invariant.                                                *)

LEMMA NoWorkType == NoWork \in Work
<1>1. 1 \in Items
  BY DEF Items
<1> QED
  BY <1>1 DEF NoWork, Work

LEMMA Initially == Init => IInv
<1> SUFFICES ASSUME Init PROVE IInv
  OBVIOUS
<1>1. TypeInv
  <2>1. /\ intent \in [Items -> Intent]
        /\ command \in [Items -> [start : ExecState, release : ExecState]]
    BY DEF Init, Intent, ExecState
  <2>2. work \in Work
    BY NoWorkType DEF Init
  <2>3. events \in Seq(Event) /\ seq \in Nat /\ gen \in Nat
    BY DEF Init
  <2>4. /\ canceled \in BOOLEAN /\ touched \in BOOLEAN /\ latch \in BOOLEAN
        /\ started \in BOOLEAN /\ unrest \in BOOLEAN /\ halted \in BOOLEAN /\ pc \in Place
    BY DEF Init, Place
  <2>5. own = None /\ release = None /\ authority = None
    BY DEF Init
  <2> QED
    BY <2>1, <2>2, <2>3, <2>4, <2>5 DEF TypeInv
<1>2. QueueInv /\ StartInv /\ SnapInv /\ CancelInv
  BY DEF Init, QueueInv, StartInv, SnapInv, CancelInv, Busy
<1>3. Rising(events, seq)
  BY DEF Init, Rising
<1>4. TrackInv
  BY DEF Init, TrackInv
<1> QED
  BY <1>1, <1>2, <1>3, <1>4 DEF IInv

\* Whatever leaves the evidence alone.
LEMMA Aside ==
    ASSUME IInv, UNCHANGED <<own, release, events, seq, unrest>>
    PROVE  Tracks
BY Undisturbed DEF IInv

LEMMA CancelRequestedKeeps ==
    ASSUME IInv, CancelRequested PROVE IInv'
<1>1. Tracks
  BY Aside DEF CancelRequested, Process, Adapter
<1> USE DEF CancelRequested, Journal, Process, Adapter
<1>2. TypeInv'
  BY <1>1 DEF IInv, TypeInv, Tracks
<1>3. QueueInv' /\ StartInv' /\ SnapInv'
  BY DEF IInv, QueueInv, StartInv, SnapInv, Continues, Attempted
<1>4. CancelInv'
  BY DEF IInv, TypeInv, CancelInv
<1> QED
  BY <1>1, <1>2, <1>3, <1>4 DEF IInv, Tracks

LEMMA OtherCancelsKeeps ==
    ASSUME IInv, OtherCancels PROVE IInv'
<1> USE DEF OtherCancels, Process, Adapter
<1>1. Tracks
  BY Aside
<1>2. TypeInv'
  BY <1>1 DEF IInv, TypeInv, Tracks
<1>3. QueueInv' /\ StartInv' /\ SnapInv'
  BY DEF IInv, QueueInv, StartInv, SnapInv, Continues, Attempted
<1>4. CancelInv'
  BY DEF IInv, TypeInv, CancelInv
<1> QED
  BY <1>1, <1>2, <1>3, <1>4 DEF IInv, Tracks

LEMMA CrashKeeps ==
    ASSUME IInv, Crash PROVE IInv'
<1> USE DEF Crash, Journal
<1>1. TypeInv'
  <2>1. work' \in Work
    BY NoWorkType
  <2>2. (events \in Seq(Event) /\ seq \in Nat /\ gen \in Nat)'
    OBVIOUS
  <2>3. /\ latch' \in BOOLEAN /\ started' \in BOOLEAN /\ unrest' \in BOOLEAN /\ halted' \in BOOLEAN
        /\ pc' \in Place
    BY DEF Place
  <2>4. (own = None /\ release = None /\ authority = None)'
    OBVIOUS
  <2>5. UNCHANGED <<intent, command, canceled, touched>>
    OBVIOUS
  <2> QED
    BY <2>1, <2>2, <2>3, <2>4, <2>5 DEF IInv, TypeInv
<1>2. QueueInv' /\ StartInv' /\ SnapInv' /\ CancelInv'
  BY DEF QueueInv, StartInv, SnapInv, CancelInv, Busy
<1>3. Rising(events, seq)'
  BY DEF Rising
<1>4. TrackInv'
  BY DEF TrackInv
<1> QED
  BY <1>1, <1>2, <1>3, <1>4 DEF IInv

LEMMA RestartKeeps ==
    ASSUME IInv, Restart PROVE IInv'
<1> USE DEF Restart, Process, Adapter
<1>1. Tracks
  BY Aside
<1>2. intent' \in [Items -> Intent] /\ command' \in [Items -> [start : ExecState, release : ExecState]]
  BY DEF IInv, TypeInv, Intent, ExecState, Unsettled
<1>3. TypeInv'
  BY <1>1, <1>2 DEF IInv, TypeInv, Tracks, Place
<1>4. QueueInv' /\ StartInv' /\ SnapInv' /\ CancelInv'
  <2>1. Attempted' = Attempted
    BY DEF IInv, TypeInv, Attempted
  <2> QED
    BY <2>1 DEF IInv, QueueInv, StartInv, SnapInv, CancelInv, Busy
<1> QED
  BY <1>1, <1>3, <1>4 DEF IInv, Tracks

LEMMA NoteCancelKeeps ==
    ASSUME IInv, NoteCancel PROVE IInv'
<1> USE DEF NoteCancel, Process, Adapter
<1>1. Tracks
  BY Aside
<1>2. TypeInv'
  BY <1>1 DEF IInv, TypeInv, Tracks
<1>3. QueueInv' /\ StartInv' /\ SnapInv' /\ CancelInv'
  BY DEF IInv, QueueInv, StartInv, SnapInv, CancelInv, Busy, Attempted
<1> QED
  BY <1>1, <1>2, <1>3 DEF IInv, Tracks

\* A claim, and what it leaves of the journal.
LEMMA ClaimType ==
    ASSUME TypeInv, NEW action \in Action, NEW item \in Items, NEW next \in BOOLEAN,
           Claim(action, item, next)
    PROVE  /\ work' \in Work /\ work'.action = action /\ work'.item = item /\ work'.next = next
           /\ command' \in [Items -> [start : ExecState, release : ExecState]]
           /\ action # "release" => \A i \in Items : command'[i].release = command[i].release
           /\ touched' = FALSE /\ pc' = "claimed" /\ pc' \in Place \cap Busy
<1>1. work' = [action |-> action, item |-> item, next |-> next, entered |-> FALSE,
               snap |-> None, sent |-> FALSE, outcome |-> "uncertain", failed |-> FALSE]
  BY DEF Claim, NoWork
<1>2. /\ work' \in Work /\ work'.action = action /\ work'.item = item /\ work'.next = next
  BY <1>1 DEF Work
<1>3. /\ command' \in [Items -> [start : ExecState, release : ExecState]]
      /\ action # "release" => \A i \in Items : command'[i].release = command[i].release
  <2> DEFINE x == IF action = "start" THEN "dispatched" ELSE command[item].start
             y == IF action = "release" THEN "dispatched" ELSE command[item].release
             r == [command[item] EXCEPT !.start = x, !.release = y]
  <2>1. command[item] \in [start : ExecState, release : ExecState]
    BY DEF TypeInv
  <2>2. x \in ExecState /\ y \in ExecState
    BY <2>1 DEF ExecState
  <2>3. r \in [start : ExecState, release : ExecState] /\ r.release = y
    BY <2>1, <2>2
  <2>4. command' = [command EXCEPT ![item] = r]
    BY <2>1 DEF Claim, TypeInv
  <2> HIDE DEF x, r
  <2> QED
    BY <2>3, <2>4 DEF TypeInv
<1> QED
  BY <1>2, <1>3 DEF Claim, Place, Busy

-----------------------------------------------------------------------------
(* Commands and steps of the task.                                         *)

LEMMA StartCommandKeeps ==
    ASSUME IInv, StartCommand PROVE IInv'
<1> USE DEF StartCommand, Noted
<1>1. PICK kinds \in Windows, mark \in Mark :
        /\ kinds = <<>> => mark = "plain"
        /\ Observes(Window(kinds, mark))
        /\ authority' = IF Window(kinds, mark) = <<>> THEN authority
                        ELSE Last(Window(kinds, mark)).gen
        /\ release' = Followed(Window(kinds, mark))
        /\ \/ /\ Attempted = {} /\ started' = TRUE
              /\ intent' = [intent EXCEPT ![1] = "current"]
              /\ Claim("start", 1, FALSE)
           \/ started' = started /\ NoClaim
  BY DEF Windowed
<1> DEFINE w == Window(kinds, mark)
<1>2. Adds(w) /\ gen' \in Nat /\ events' = w
  BY <1>1, WindowAdds DEF IInv, TypeInv
<1>3. own = None /\ own' = None
  BY DEF IInv, QueueInv
<1>4. Tracks
  BY <1>1, <1>2, <1>3, FollowsWindow DEF IInv, TypeInv
<1>5. authority' \in Nat \cup {None}
  <2>1. w # <<>> => Last(w) \in Event
    BY <1>2 DEF Adds, Last
  <2>2. w # <<>> => Last(w).gen \in Nat
    BY <2>1 DEF Event
  <2> HIDE DEF w
  <2> QED
    BY <1>1, <2>2 DEF IInv, TypeInv, w
<1> HIDE DEF w
<1>6. CASE started' = started /\ NoClaim
  <2>1. TypeInv'
    BY <1>2, <1>4, <1>5, <1>6 DEF IInv, TypeInv, Tracks, NoClaim
  <2>2. QueueInv' /\ StartInv' /\ SnapInv' /\ CancelInv'
    BY <1>3, <1>6 DEF IInv, QueueInv, StartInv, SnapInv, CancelInv, Busy, NoClaim
  <2> QED
    BY <1>4, <2>1, <2>2 DEF IInv, Tracks
<1>7. CASE /\ Attempted = {} /\ started' = TRUE
           /\ intent' = [intent EXCEPT ![1] = "current"]
           /\ Claim("start", 1, FALSE)
  <2>1. 1 \in Items /\ "start" \in Action
    BY DEF Items, Action
  <2>2. /\ work' \in Work /\ work'.action = "start" /\ work'.item = 1
        /\ command' \in [Items -> [start : ExecState, release : ExecState]]
        /\ touched' = FALSE /\ pc' = "claimed" /\ pc' \in Place \cap Busy
    BY <1>7, <2>1, ClaimType DEF IInv
  <2>3. intent' \in [Items -> Intent] /\ intent'[1] = "current"
    BY <1>7, <2>1 DEF IInv, TypeInv, Intent
  <2>4. TypeInv'
    BY <1>2, <1>4, <1>5, <1>7, <2>2, <2>3 DEF IInv, TypeInv, Tracks
  <2>5. 1 \in Attempted'
    BY <2>1, <2>3 DEF Attempted
  <2>6. QueueInv' /\ StartInv' /\ SnapInv' /\ CancelInv'
    BY <1>3, <1>7, <2>2, <2>5 DEF IInv, QueueInv, StartInv, SnapInv, CancelInv
  <2> QED
    BY <1>4, <2>4, <2>6 DEF IInv, Tracks
<1> QED
  BY <1>1, <1>6, <1>7

LEMMA StatusStepKeeps ==
    ASSUME IInv, StatusStep PROVE IInv'
<1> USE DEF StatusStep, Following, Noted
<1>1. PICK kinds \in Windows, mark \in Mark :
        /\ kinds = <<>> => mark = "plain"
        /\ Observes(Window(kinds, mark))
        /\ Status(Window(kinds, mark))
        /\ \/ intent[Attempt] = "current" /\ intent' = [intent EXCEPT ![Attempt] = "finished"]
           \/ intent' = intent
        /\ Remembers(Window(kinds, mark))
  BY DEF Windowed
<1> DEFINE w == Window(kinds, mark)
<1>2. Adds(w) /\ gen' \in Nat /\ events' = w
  BY <1>1, WindowAdds DEF IInv, TypeInv
<1>3. Tracks /\ own' # None /\ own'.attempt = own.attempt
  BY <1>1, <1>2, StatusTracks DEF IInv
<1>4. intent' \in [Items -> Intent] /\ Attempted' = Attempted
  BY <1>1 DEF IInv, TypeInv, Intent, Attempted
<1>5. TypeInv'
  BY <1>2, <1>3, <1>4 DEF IInv, TypeInv, Tracks
<1>6. QueueInv' /\ StartInv' /\ SnapInv' /\ CancelInv'
  BY <1>3, <1>4 DEF IInv, QueueInv, StartInv, SnapInv, CancelInv, Busy
<1> QED
  BY <1>3, <1>5, <1>6 DEF IInv, Tracks

LEMMA ObserveStepKeeps ==
    ASSUME IInv, ObserveStep PROVE IInv'
<1> USE DEF ObserveStep, Settled, Following, Noted, Journal
<1>1. PICK kinds \in Windows, mark \in Mark :
        /\ kinds = <<>> => mark = "plain"
        /\ Observes(Window(kinds, mark))
        /\ Accepts(Window(kinds, mark), Followed(Window(kinds, mark)))
        /\ Remembers(Window(kinds, mark))
  BY DEF Windowed
<1> DEFINE w == Window(kinds, mark)
<1>2. Adds(w) /\ gen' \in Nat /\ events' = w
  BY <1>1, WindowAdds DEF IInv, TypeInv
<1>3. Tracks /\ own' # None /\ own'.attempt = own.attempt
  BY <1>1, <1>2, AcceptsWindow DEF IInv
<1>4. TypeInv'
  BY <1>2, <1>3 DEF IInv, TypeInv, Tracks
<1>5. QueueInv' /\ StartInv' /\ SnapInv' /\ CancelInv'
  BY <1>3 DEF IInv, QueueInv, StartInv, SnapInv, CancelInv, Busy, Attempted
<1> QED
  BY <1>3, <1>4, <1>5 DEF IInv, Tracks

\* While a session is followed, there is an attempt.
LEMMA Latest ==
    ASSUME IInv, own # None
    PROVE  Attempt \in Items /\ (intent[Attempt] # "pending" => Attempt \in Attempted)
BY AttemptType DEF IInv, QueueInv, Attempted

\* A command that starts nothing is claimed, with its item and what it leaves.
LEMMA ClaimKeeps ==
    ASSUME IInv, own # None, intent[Attempt] # "pending",
           NEW action \in {"release", "stop", "control"}, Claim(action, Attempt, FALSE),
           canceled' \in BOOLEAN, action # "stop" => ~canceled',
           UNCHANGED <<intent, latch, Process, Adapter, halted>>
    PROVE  IInv'
<1> USE DEF Process, Adapter
<1>1. Tracks
  BY Aside
<1>2. Attempt \in Items /\ Attempt \in Attempted
  BY Latest
<1>3. action \in Action
  BY DEF Action
<1>4. /\ work' \in Work /\ work'.action = action /\ work'.item = Attempt
      /\ command' \in [Items -> [start : ExecState, release : ExecState]]
      /\ touched' = FALSE /\ pc' = "claimed" /\ pc' \in Place \cap Busy
  BY <1>2, <1>3, ClaimType DEF IInv
<1>5. TypeInv'
  BY <1>1, <1>4 DEF IInv, TypeInv, Tracks
<1>6. Attempted' = Attempted
  BY DEF Attempted
<1>7. QueueInv' /\ StartInv' /\ SnapInv' /\ CancelInv'
  BY <1>2, <1>4, <1>6 DEF IInv, QueueInv, StartInv, SnapInv, CancelInv
<1> QED
  BY <1>1, <1>5, <1>7 DEF IInv, Tracks

LEMMA ReleaseStepKeeps ==
    ASSUME IInv, ReleaseStep PROVE IInv'
<1>1. /\ own # None /\ intent[Attempt] # "pending" /\ Claim("release", Attempt, FALSE)
      /\ canceled' = FALSE /\ UNCHANGED <<intent, latch, Process, Adapter, halted>>
  BY DEF IInv, TypeInv, ReleaseStep, Settled, Following
<1>2. "release" \in {"release", "stop", "control"}
  OBVIOUS
<1> QED
  BY <1>1, <1>2, ClaimKeeps

LEMMA ControlCommandKeeps ==
    ASSUME IInv, ControlCommand PROVE IInv'
<1>1. /\ own # None /\ intent[Attempt] # "pending" /\ Claim("control", Attempt, FALSE)
      /\ canceled' = FALSE /\ UNCHANGED <<intent, latch, Process, Adapter, halted>>
  BY DEF IInv, TypeInv, ControlCommand, Controls
<1>2. "control" \in {"release", "stop", "control"}
  OBVIOUS
<1> QED
  BY <1>1, <1>2, ClaimKeeps

LEMMA StopCommandKeeps ==
    ASSUME IInv, StopCommand PROVE IInv'
<1>1. CASE Controls /\ intent[Attempt] \in {"current", "finished"}
  <2>1. /\ own # None /\ intent[Attempt] # "pending" /\ Claim("stop", Attempt, FALSE)
        /\ canceled' \in BOOLEAN /\ UNCHANGED <<intent, latch, Process, Adapter, halted>>
    BY <1>1 DEF StopCommand, Controls
  <2> QED
    BY <2>1, ClaimKeeps
<1>2. CASE ~(Controls /\ intent[Attempt] \in {"current", "finished"})
  <2> USE DEF StopCommand, Process, Adapter, NoClaim
  <2>1. Tracks
    BY Aside
  <2>2. TypeInv'
    BY <1>2, <2>1 DEF IInv, TypeInv, Tracks
  <2>3. QueueInv' /\ StartInv' /\ SnapInv' /\ CancelInv'
    BY <1>2 DEF IInv, QueueInv, StartInv, SnapInv, CancelInv, Busy, Attempted
  <2> QED
    BY <2>1, <2>2, <2>3 DEF IInv, Tracks
<1> QED
  BY <1>1, <1>2

LEMMA HandoffStepKeeps ==
    ASSUME IInv, HandoffStep PROVE IInv'
<1> USE DEF HandoffStep, Settled, Following, Noted, HandsOver, Acknowledged
<1>1. PICK kinds \in Windows, mark \in Mark :
        /\ kinds = <<>> => mark = "plain"
        /\ Observes(Window(kinds, mark))
        /\ Accepts(Window(kinds, mark), Followed(Window(kinds, mark)))
        /\ Remembers(Window(kinds, mark))
        /\ \/ /\ Correlated(own') /\ Attempt < ItemCount
              /\ intent' = [intent EXCEPT ![Attempt + 1] = "current"]
              /\ Claim("start", Attempt + 1, TRUE)
           \/ NoClaim
  BY DEF Windowed
<1> DEFINE w == Window(kinds, mark)
<1>2. Adds(w) /\ gen' \in Nat /\ events' = w
  BY <1>1, WindowAdds DEF IInv, TypeInv
<1>3. Tracks /\ own' # None /\ own'.attempt = own.attempt
  BY <1>1, <1>2, AcceptsWindow DEF IInv
<1>4. CASE NoClaim
  <2>1. TypeInv'
    BY <1>2, <1>3, <1>4 DEF IInv, TypeInv, Tracks, NoClaim
  <2>2. QueueInv' /\ StartInv' /\ SnapInv' /\ CancelInv'
    BY <1>3, <1>4 DEF IInv, QueueInv, StartInv, SnapInv, CancelInv, Busy, Attempted, NoClaim
  <2> QED
    BY <1>3, <2>1, <2>2 DEF IInv, Tracks
<1>5. CASE /\ Correlated(own') /\ Attempt < ItemCount
           /\ intent' = [intent EXCEPT ![Attempt + 1] = "current"]
           /\ Claim("start", Attempt + 1, TRUE)
  <2> DEFINE n == Attempt
  <2>1. n \in Items /\ n + 1 \in Items /\ n < n + 1
    BY <1>5, Latest DEF Items
  <2>2. own.attempt = n /\ intent[n] = "finished" /\ command[n].release = "acknowledged"
    BY <1>3, <1>5 DEF Correlated
  <2>3. "start" \in Action /\ Claim("start", n + 1, TRUE)
    BY <1>5 DEF Action
  <2> HIDE DEF n
  <2>4. /\ work' \in Work /\ work'.action = "start" /\ work'.item = n + 1 /\ work'.next
        /\ command' \in [Items -> [start : ExecState, release : ExecState]]
        /\ \A i \in Items : command'[i].release = command[i].release
        /\ touched' = FALSE /\ pc' = "claimed" /\ pc' \in Place \cap Busy
    BY <2>1, <2>3, ClaimType DEF IInv
  <2>5. intent' = [intent EXCEPT ![n + 1] = "current"]
    BY <1>5 DEF n
  <2>6. /\ intent' \in [Items -> Intent] /\ intent'[n + 1] = "current"
        /\ intent'[n] = "finished"
    <3>1. intent \in [Items -> Intent] /\ "current" \in Intent
      BY DEF IInv, TypeInv, Intent
    <3>2. n # n + 1
      BY <2>1 DEF Items
    <3> QED
      BY <2>1, <2>2, <2>5, <3>1, <3>2
  <2>7. TypeInv'
    BY <1>2, <1>3, <2>4, <2>6 DEF IInv, TypeInv, Tracks
  <2>8. QueueInv'
    <3>1. n + 1 \in Attempted' /\ n \in Attempted'
      BY <2>1, <2>6 DEF Attempted
    <3> QED
      BY <1>3, <2>2, <2>4, <3>1 DEF IInv, QueueInv
  <2>9. StartInv'
    <3>1. n + 1 - 1 = n
      BY <2>1 DEF Items
    <3>2. own'.attempt # work'.item
      BY <1>3, <2>1, <2>2, <2>4 DEF Items
    <3>3. intent'[work'.item - 1] = "finished" /\ command'[work'.item - 1].release = "acknowledged"
      <4>1. work'.item - 1 = n
        BY <2>1, <2>4 DEF Items
      <4>2. intent'[n] = "finished" /\ command'[n].release = "acknowledged"
        BY <2>1, <2>2, <2>4, <2>6
      <4> QED
        BY <4>1, <4>2
    <3> QED
      BY <2>4, <3>2, <3>3 DEF StartInv
  <2>10. SnapInv' /\ CancelInv'
    BY <2>4 DEF SnapInv, CancelInv
  <2> QED
    BY <1>3, <2>7, <2>8, <2>9, <2>10 DEF IInv, Tracks
<1> QED
  BY <1>1, <1>4, <1>5

-----------------------------------------------------------------------------
(* A claimed command.                                                      *)

LEMMA EnterOperationKeeps ==
    ASSUME IInv, EnterOperation PROVE IInv'
<1> USE DEF EnterOperation, Journal, Process, Adapter
<1>1. Tracks
  BY Aside
<1>2. /\ work' \in Work /\ work'.action = work.action /\ work'.item = work.item
      /\ work'.next = work.next
  <2>1. work' = work \/ work' = [work EXCEPT !.entered = TRUE]
    OBVIOUS
  <2>2. work \in Work
    BY DEF IInv, TypeInv
  <2> HIDE DEF EnterOperation
  <2> QED
    BY <2>1, <2>2 DEF Work
<1>3. pc' \in {"record", "window"} /\ (work.action # "stop" /\ latch => pc' = "record")
  OBVIOUS
<1>4. TypeInv'
  BY <1>1, <1>2, <1>3 DEF IInv, TypeInv, Tracks, Place
<1>5. QueueInv' /\ StartInv' /\ SnapInv' /\ CancelInv'
  BY <1>2, <1>3 DEF IInv, QueueInv, StartInv, SnapInv, CancelInv, Busy, Place, Attempted
<1> QED
  BY <1>1, <1>4, <1>5 DEF IInv, Tracks

LEMMA BaselineKeeps ==
    ASSUME IInv, Baseline PROVE IInv'
<1> USE DEF Baseline, Journal
<1>1. PICK kinds \in Windows, mark \in Mark :
        /\ kinds = <<>> => mark = "plain"
        /\ Observes(Window(kinds, mark))
        /\ LET w == Window(kinds, mark) IN
           \/ /\ work.action = "start" \/ Proposed(w) # None
              /\ work' = [work EXCEPT !.snap = IF work.action = "start" THEN None ELSE Proposed(w)]
              /\ pc' = "ready"
              /\ release' = Followed(w)
              /\ UNCHANGED own
              /\ unrest' = (unrest \/ (own # None /\ own.ended > 0 /\
                              \E k \in DOMAIN w : w[k].number > own.ended /\ Disturbs(w[k])))
           \/ /\ work.action # "start"
              /\ work' = [work EXCEPT !.outcome = "rejected"]
              /\ pc' = "record"
              /\ \/ Accepts(w, Followed(w))
                 \/ /\ Proposed(w) # None
                    /\ AcceptsSnapshot(Proposed(w), w, Followed(w))
              /\ Remembers(w)
  BY DEF Windowed
<1> DEFINE w == Window(kinds, mark)
<1>2. Adds(w) /\ gen' \in Nat /\ events' = w
  BY <1>1, WindowAdds DEF IInv, TypeInv
<1>3. w \in Seq(Event)
  BY <1>2 DEF Adds
<1>4. Proposed(w) # None =>
        own # None /\ Proposed(w) \in Snapshot /\ Continues(own, Proposed(w), w)
  BY <1>3, ProposedType DEF IInv
<1>5. pc = "window" /\ halted' = (latch \/ canceled)
      /\ UNCHANGED <<intent, command, canceled, touched, latch, started, authority>>
  OBVIOUS
<1>6. Attempted' = Attempted
  BY DEF Attempted
<1> HIDE DEF Baseline
<1>7. CASE /\ work.action = "start" \/ Proposed(w) # None
           /\ work' = [work EXCEPT !.snap = IF work.action = "start" THEN None ELSE Proposed(w)]
           /\ pc' = "ready"
           /\ release' = Followed(w)
           /\ UNCHANGED own
           /\ unrest' = (unrest \/ (own # None /\ own.ended > 0 /\
                           \E k \in DOMAIN w : w[k].number > own.ended /\ Disturbs(w[k])))
  <2> HIDE DEF w
  <2>1. DOMAIN w = 1..Len(w)
    BY <1>3
  <2>2. Tracks
    <3>1. unrest' \in BOOLEAN
      BY <1>7 DEF IInv, TypeInv
    <3>2. unrest' => unrest \/ (own # None /\ own.ended > 0 /\
                                  \E k \in 1..Len(w) : Disturbs(w[k]))
      BY <1>7, <2>1
    <3> QED
      BY <1>2, <1>7, <3>1, <3>2, FollowsWindow DEF IInv
  <2>3. /\ work' \in Work /\ work'.action = work.action /\ work'.item = work.item
        /\ work'.next = work.next /\ (work.action # "start" => work'.snap = Proposed(w))
    <3> DEFINE x == IF work.action = "start" THEN None ELSE Proposed(w)
    <3>1. x \in Snapshot \cup {None} /\ (work.action # "start" => x = Proposed(w))
      BY <1>4, <1>7
    <3>2. work' = [work EXCEPT !.snap = x] /\ work \in Work
      BY <1>7 DEF IInv, TypeInv
    <3> HIDE DEF x
    <3> QED
      BY <3>1, <3>2 DEF Work
  <2>4. TypeInv'
    BY <1>2, <1>5, <1>7, <2>2, <2>3 DEF IInv, TypeInv, Tracks, Place
  <2>5. QueueInv' /\ StartInv'
    BY <1>5, <1>6, <1>7, <2>3 DEF IInv, QueueInv, StartInv, Busy, Place
  <2>6. SnapInv'
    <3>1. work.action # "start" =>
            own # None /\ Proposed(w) \in Snapshot /\ Continues(own, Proposed(w), w)
      BY <1>4, <1>7
    <3>2. SnapInv' = (work'.action # "start" =>
                        own' # None /\ work'.snap # None /\ Continues(own', work'.snap, events'))
      BY <1>7 DEF SnapInv
    <3>3. work.action # "start" =>
            own' # None /\ work'.snap # None /\ Continues(own', work'.snap, events')
      BY <1>2, <1>7, <2>3, <3>1
    <3> QED
      BY <2>3, <3>2, <3>3
  <2>7. CancelInv'
    BY <1>5, <1>7, <2>3 DEF IInv, CancelInv
  <2> QED
    BY <2>2, <2>4, <2>5, <2>6, <2>7 DEF IInv, Tracks
<1>8. CASE /\ work.action # "start"
           /\ work' = [work EXCEPT !.outcome = "rejected"]
           /\ pc' = "record"
           /\ \/ Accepts(w, Followed(w))
              \/ Proposed(w) # None /\ AcceptsSnapshot(Proposed(w), w, Followed(w))
           /\ Remembers(w)
  <2> HIDE DEF w
  <2>1. Tracks /\ (own = None => own' = None) /\ (own # None => own' # None /\ own'.attempt = own.attempt)
    <3>1. CASE Accepts(w, Followed(w))
      BY <1>2, <1>8, <3>1, AcceptsWindow DEF IInv
    <3>2. CASE Proposed(w) # None /\ AcceptsSnapshot(Proposed(w), w, Followed(w))
      <4>1. Succeeds(Proposed(w), w)
        BY <1>4, <3>2, ContinuesSucceeds DEF IInv
      <4>2. Tracks /\ own' = Proposed(w)
        BY <1>2, <1>4, <1>8, <3>2, <4>1, AcceptsOne DEF IInv
      <4> QED
        BY <1>4, <3>2, <4>2 DEF Continues
    <3> QED
      BY <1>8, <3>1, <3>2
  <2>2. work' \in Work /\ work'.action = work.action /\ work'.item = work.item
    BY <1>8 DEF IInv, TypeInv, Work
  <2>3. TypeInv'
    BY <1>2, <1>5, <1>8, <2>1, <2>2 DEF IInv, TypeInv, Tracks, Place
  <2>4. QueueInv' /\ StartInv' /\ SnapInv' /\ CancelInv'
    BY <1>5, <1>6, <1>8, <2>1, <2>2
    DEF IInv, QueueInv, StartInv, SnapInv, CancelInv, Busy, Place
  <2> QED
    BY <2>1, <2>3, <2>4 DEF IInv, Tracks
<1> QED
  BY <1>1, <1>7, <1>8

LEMMA BaselineFailsKeeps ==
    ASSUME IInv, BaselineFails PROVE IInv'
<1> USE DEF BaselineFails, Journal, Process, Adapter
<1>1. Tracks
  BY Aside
<1>2. TypeInv'
  BY <1>1 DEF IInv, TypeInv, Tracks, Place
<1>3. QueueInv' /\ StartInv' /\ SnapInv' /\ CancelInv'
  BY DEF IInv, QueueInv, StartInv, SnapInv, CancelInv, Busy, Place, Attempted
<1> QED
  BY <1>1, <1>2, <1>3 DEF IInv, Tracks

\* Before the effect and at it, the command stays what it is.
LEMMA GoesOn ==
    ASSUME IInv, pc \in {"ready", "go"}, pc' \in {"go", "sent"},
           work' \in Work, work'.action = work.action, work'.item = work.item,
           work'.next = work.next, work'.snap = work.snap,
           pc' = "go" => pc = "ready" /\ ~touched,
           UNCHANGED <<Journal, latch, Process, Adapter, halted>>
    PROVE  IInv'
<1> USE DEF Journal, Process, Adapter
<1>1. Tracks
  BY Aside
<1>2. TypeInv'
  BY <1>1 DEF IInv, TypeInv, Tracks, Place
<1>3. QueueInv' /\ StartInv'
  BY DEF IInv, QueueInv, StartInv, Busy, Place, Attempted
<1>4. SnapInv'
  BY DEF IInv, SnapInv, Continues
<1>5. CancelInv'
  BY DEF IInv, TypeInv, CancelInv
<1> QED
  BY <1>1, <1>2, <1>3, <1>4, <1>5 DEF IInv, Tracks

LEMMA CheckQueueKeeps ==
    ASSUME IInv, CheckQueue PROVE IInv'
<1>1. /\ pc = "ready" /\ pc' \in {"go", "sent"}
      /\ work' \in Work /\ work'.action = work.action /\ work'.item = work.item
      /\ work'.next = work.next /\ work'.snap = work.snap
      /\ pc' = "go" => pc = "ready" /\ ~touched
  BY DEF IInv, TypeInv, Work, CheckQueue, MayEffectQueue, Refused
<1>2. UNCHANGED <<Journal, latch, Process, Adapter, halted>>
  BY DEF CheckQueue
<1> QED
  BY <1>1, <1>2, GoesOn

LEMMA SendKeeps ==
    ASSUME IInv, Send PROVE IInv'
<1>1. /\ pc = "go" /\ pc' = "sent"
      /\ work' \in Work /\ work'.action = work.action /\ work'.item = work.item
      /\ work'.next = work.next /\ work'.snap = work.snap
  BY DEF IInv, TypeInv, Work, Send
<1>2. UNCHANGED <<Journal, latch, Process, Adapter, halted>>
  BY DEF Send
<1> QED
  BY <1>1, <1>2, GoesOn

LEMMA RefuseKeeps ==
    ASSUME IInv, Refuse PROVE IInv'
<1>1. /\ pc = "go" /\ pc' = "sent"
      /\ work' \in Work /\ work'.action = work.action /\ work'.item = work.item
      /\ work'.next = work.next /\ work'.snap = work.snap
  BY DEF IInv, TypeInv, Work, Refuse, Refused
<1>2. UNCHANGED <<Journal, latch, Process, Adapter, halted>>
  BY DEF Refuse
<1> QED
  BY <1>1, <1>2, GoesOn

LEMMA AfterKeeps ==
    ASSUME IInv, After PROVE IInv'
<1> USE DEF After, Journal
<1>1. PICK kinds \in Windows, mark \in Mark :
        /\ kinds = <<>> => mark = "plain"
        /\ Observes(Window(kinds, mark))
        /\ LET w == Window(kinds, mark) IN
           /\ IF Concluded(w) # None
              THEN AcceptsSnapshot(Concluded(w), events \o w, Followed(w))
              ELSE Accepts(events \o w, Followed(w))
           /\ Remembers(events \o w)
  BY DEF Windowed
<1> DEFINE w == Window(kinds, mark)
           W == events \o w
<1>2. Adds(w) /\ gen' \in Nat /\ events' = w
  BY <1>1, WindowAdds DEF IInv, TypeInv
<1>3. W \in {w, events \o w} /\ events' \in {w, W}
  BY <1>2
<1>4. pc = "sent" /\ pc' = "record"
      /\ UNCHANGED <<intent, command, canceled, touched, latch, started, authority, work, halted>>
  OBVIOUS
<1>5. Attempted' = Attempted
  BY DEF Attempted
<1>6. Tracks /\ (own' # None => own'.attempt \in Attempted)
  <2> HIDE DEF w
  <2>1. CASE Concluded(w) # None
    <3> DEFINE s == Concluded(w)
    <3>1. /\ s \in Snapshot /\ Succeeds(s, W)
          /\ s.attempt \in {work.item} \cup (IF own = None THEN {} ELSE {own.attempt})
      BY <1>2, <1>4, <2>1, ConcludedType DEF IInv
    <3>2. AcceptsSnapshot(s, W, Followed(w)) /\ Remembers(W)
      BY <1>1, <2>1 DEF w
    <3> HIDE DEF s, W
    <3>3. Tracks /\ own' = s
      BY <1>2, <1>3, <3>1, <3>2, AcceptsOne DEF IInv, W
    <3>4. work.item \in Attempted /\ (own # None => own.attempt \in Attempted)
      BY <1>4 DEF IInv, QueueInv, Busy, Place
    <3> QED
      BY <3>1, <3>3, <3>4
  <2>2. CASE Concluded(w) = None
    <3>1. Accepts(W, Followed(w)) /\ Remembers(W)
      BY <1>1, <2>2 DEF w
    <3> HIDE DEF W
    <3>2. Tracks /\ (own' = None <=> own = None) /\ (own # None => own'.attempt = own.attempt)
      BY <1>2, <1>3, <3>1, AcceptsWindow DEF IInv, W
    <3> QED
      BY <3>2 DEF IInv, QueueInv
  <2> QED
    BY <2>1, <2>2
<1> HIDE DEF w, W, After
<1>7. TypeInv'
  BY <1>2, <1>4, <1>6 DEF IInv, TypeInv, Tracks, Place
<1>8. QueueInv' /\ StartInv' /\ SnapInv' /\ CancelInv'
  BY <1>4, <1>5, <1>6 DEF IInv, QueueInv, StartInv, SnapInv, CancelInv, Busy, Place
<1> QED
  BY <1>2, <1>6, <1>7, <1>8 DEF IInv, Tracks

LEMMA AfterFailsKeeps ==
    ASSUME IInv, AfterFails PROVE IInv'
<1> USE DEF AfterFails, Journal
<1>1. Tracks /\ (own' = None <=> own = None) /\ (own # None => own'.attempt = own.attempt)
  BY FailureTracks DEF IInv
<1>2. work' \in Work /\ work'.action = work.action /\ work'.item = work.item
  BY DEF IInv, TypeInv, Work
<1>3. TypeInv'
  BY <1>1, <1>2 DEF IInv, TypeInv, Tracks, Place
<1>4. QueueInv' /\ StartInv' /\ SnapInv' /\ CancelInv'
  BY <1>1, <1>2 DEF IInv, QueueInv, StartInv, SnapInv, CancelInv, Busy, Place, Attempted
<1> QED
  BY <1>1, <1>3, <1>4 DEF IInv, Tracks

LEMMA RecordKeeps ==
    ASSUME IInv, Record PROVE IInv'
<1> USE DEF Record, Process, Adapter
<1>1. Tracks
  BY Aside
<1>2. work.item \in Items /\ work.outcome \in ExecState /\ work' \in Work
  BY NoWorkType DEF IInv, TypeInv, Work, ExecState
<1>3. command' \in [Items -> [start : ExecState, release : ExecState]]
  <2> DEFINE row == command[work.item]
             x == IF work.action = "start" THEN work.outcome ELSE row.start
             y == IF work.action = "release" THEN work.outcome ELSE row.release
  <2>1. row \in [start : ExecState, release : ExecState]
    BY <1>2 DEF IInv, TypeInv
  <2>2. x \in ExecState /\ y \in ExecState
    BY <1>2, <2>1
  <2>3. Answered(row) = [row EXCEPT !.start = x, !.release = y]
    BY DEF Answered
  <2>4. Answered(row) \in [start : ExecState, release : ExecState]
    <3> HIDE DEF row, x, y
    <3> QED
      BY <2>1, <2>2, <2>3
  <2>5. command' = [command EXCEPT ![work.item] = Answered(row)]
    BY <1>2 DEF IInv, TypeInv
  <2> HIDE DEF row
  <2> QED
    BY <2>4, <2>5 DEF IInv, TypeInv
<1>4. intent' \in [Items -> Intent] /\ Attempted \subseteq Attempted'
  <2> DEFINE x == CASE Unconfirmed -> "needs_attention"
                    [] work.action = "stop" /\ own # None /\ own.stopped
                         /\ intent[work.item] = "current" -> "stopped"
                    [] OTHER -> intent[work.item]
  <2>1. intent' = [intent EXCEPT ![work.item] = x]
    BY <1>2 DEF IInv, TypeInv
  <2>2. x \in Intent /\ x \in {"needs_attention", "stopped", intent[work.item]}
    BY <1>2 DEF IInv, TypeInv, Intent
  <2> HIDE DEF x
  <2>3. intent' \in [Items -> Intent]
    BY <2>1, <2>2 DEF IInv, TypeInv
  <2>4. \A i \in Items : intent[i] # "pending" => intent'[i] # "pending"
    BY <2>1, <2>2 DEF IInv, TypeInv
  <2> QED
    BY <2>3, <2>4 DEF Attempted
<1>5. canceled' \in BOOLEAN
  BY DEF IInv, TypeInv
<1>6. TypeInv'
  BY <1>1, <1>2, <1>3, <1>4, <1>5 DEF IInv, TypeInv, Tracks, Place
<1>7. QueueInv' /\ StartInv' /\ SnapInv' /\ CancelInv'
  BY <1>4 DEF IInv, QueueInv, StartInv, SnapInv, CancelInv, Busy
<1> QED
  BY <1>1, <1>6, <1>7 DEF IInv, Tracks

-----------------------------------------------------------------------------
(* Theorems.                                                               *)

LEMMA Stutters ==
    ASSUME IInv, UNCHANGED vars PROVE IInv'
<1> USE DEF vars, Journal, Process, Adapter
<1>1. Tracks
  BY Aside
<1>2. TypeInv'
  BY <1>1 DEF IInv, TypeInv, Tracks
<1>3. QueueInv' /\ StartInv' /\ SnapInv' /\ CancelInv'
  BY DEF IInv, QueueInv, StartInv, SnapInv, CancelInv, Continues, Attempted
<1> QED
  BY <1>1, <1>2, <1>3 DEF IInv, Tracks

\* The task keeps its sessions, its tracker and the journal in step through commands,
\* windows, cancellations, crashes and restarts: the tracker has taken in everything it was
\* shown since the end it follows, and what a command needs holds until it is recorded.
THEOREM Invariance == Spec => []IInv
<1>1. IInv /\ [Next]_vars => IInv'
  <2> SUFFICES ASSUME IInv, [Next]_vars PROVE IInv'
    OBVIOUS
  <2>1. CASE UNCHANGED vars
    BY <2>1, Stutters
  <2>2. CASE CancelRequested \/ OtherCancels \/ Crash \/ Restart
    BY <2>2, CancelRequestedKeeps, OtherCancelsKeeps, CrashKeeps, RestartKeeps
  <2>3. CASE NoteCancel \/ StartCommand \/ StatusStep \/ ObserveStep \/ ReleaseStep \/ HandoffStep
    BY <2>3, NoteCancelKeeps, StartCommandKeeps, StatusStepKeeps, ObserveStepKeeps,
       ReleaseStepKeeps, HandoffStepKeeps
  <2>4. CASE StopCommand \/ ControlCommand
    BY <2>4, StopCommandKeeps, ControlCommandKeeps
  <2>5. CASE EnterOperation \/ Baseline \/ BaselineFails \/ CheckQueue
    BY <2>5, EnterOperationKeeps, BaselineKeeps, BaselineFailsKeeps, CheckQueueKeeps
  <2>6. CASE Send \/ Refuse \/ After \/ AfterFails \/ Record
    BY <2>6, SendKeeps, RefuseKeeps, AfterKeeps, AfterFailsKeeps, RecordKeeps
  <2> QED
    BY <2>1, <2>2, <2>3, <2>4, <2>5, <2>6 DEF Next
<1> QED
  BY Initially, <1>1, PTL DEF Spec

\* Only one step calls the device.
LEMMA Sending ==
    ASSUME IInv, [Next]_vars, NEW action, Sends(action)
    PROVE  Send
<1>1. ~work.sent /\ work'.sent
  BY DEF Sends
<1>2. work' # work
  BY <1>1
<1>3. ASSUME NEW a, NEW i, NEW n, Claim(a, i, n) PROVE FALSE
  <2>1. work' = [action |-> a, item |-> i, next |-> n, entered |-> FALSE,
                 snap |-> None, sent |-> FALSE, outcome |-> "uncertain", failed |-> FALSE]
    BY <1>3 DEF Claim, NoWork
  <2> QED
    BY <1>1, <2>1
<1>4. work' # NoWork
  BY <1>1 DEF NoWork
<1>5. ~StartCommand
  <2> SUFFICES ASSUME StartCommand PROVE FALSE
    OBVIOUS
  <2>1. Claim("start", 1, FALSE) \/ NoClaim
    BY DEF StartCommand, Windowed
  <2> QED
    BY <1>2, <1>3, <2>1 DEF NoClaim
<1>6. ~HandoffStep
  <2> SUFFICES ASSUME HandoffStep PROVE FALSE
    OBVIOUS
  <2>1. Claim("start", Attempt + 1, TRUE) \/ NoClaim
    BY DEF HandoffStep, Windowed
  <2> QED
    BY <1>2, <1>3, <2>1 DEF NoClaim
<1>7. ~StopCommand /\ ~ReleaseStep /\ ~ControlCommand
  BY <1>2, <1>3 DEF StopCommand, ReleaseStep, ControlCommand, NoClaim
<1>8. work \in Work
  BY DEF IInv, TypeInv
<1>9. ~EnterOperation /\ ~CheckQueue /\ ~Refuse /\ ~AfterFails
  BY <1>1, <1>2, <1>8 DEF Work, EnterOperation, CheckQueue, Refuse, Refused, AfterFails
<1>10. ~Baseline
  <2> SUFFICES ASSUME Baseline PROVE FALSE
    OBVIOUS
  <2>1. \/ \E s : work' = [work EXCEPT !.snap = s]
        \/ work' = [work EXCEPT !.outcome = "rejected"]
    BY DEF Baseline, Windowed
  <2> QED
    BY <1>1, <1>8, <2>1 DEF Work
<1>11. ~Crash /\ ~Record
  BY <1>4 DEF Crash, Record
<1>12. ~CancelRequested /\ ~OtherCancels /\ ~Restart /\ ~NoteCancel /\ ~StatusStep /\ ~ObserveStep
       /\ ~BaselineFails /\ ~After
  BY <1>2 DEF CancelRequested, OtherCancels, Restart, NoteCancel, StatusStep, ObserveStep,
              BaselineFails, After
<1>13. ~UNCHANGED vars
  BY <1>2 DEF vars
<1> QED
  BY <1>5, <1>6, <1>7, <1>9, <1>10, <1>11, <1>12, <1>13 DEF Next

\* What was observed, and possibly missed, since the end it follows is known to an unblocked
\* tracker.
LEMMA Unblocked ==
    ASSUME IInv, release # None, ~release.blocked
    PROVE  ~unrest
BY DEF IInv, TrackInv

\* _GuardedBackend.start() behind the tracker and decide_queue(): a start is sent onto a
\* receiver that the last window left idle, and a later item only after a proven and
\* uncontradicted end of the one before it, whose release was acknowledged.
THEOREM StartsAreClean == Spec => StartsClean
<1>1. IInv /\ [Next]_vars =>
        [Sends("start") =>
          /\ events # <<>> /\ Last(events).kind = "idle"
          /\ work.item > 1 => /\ ~unrest
                              /\ intent[work.item - 1] = "finished"
                              /\ command[work.item - 1].release = "acknowledged"]_vars
  <2> SUFFICES ASSUME IInv, [Next]_vars, Sends("start")
               PROVE  /\ events # <<>> /\ Last(events).kind = "idle"
                      /\ work.item > 1 => /\ ~unrest
                                          /\ intent[work.item - 1] = "finished"
                                          /\ command[work.item - 1].release = "acknowledged"
    OBVIOUS
  <2>1. pc = "go" /\ Guarded /\ work.action = "start"
    BY Sending DEF Send, Sends
  <2>2. events # <<>> /\ Last(events).kind = "idle"
    BY <2>1 DEF Guarded, Idle
  <2>3. ASSUME work.item > 1
        PROVE  /\ work.next /\ intent[work.item - 1] = "finished"
               /\ command[work.item - 1].release = "acknowledged"
    BY <2>1, <2>3 DEF IInv, StartInv, Busy, Place
  <2>4. ASSUME work.item > 1 PROVE ~unrest
    BY <2>1, <2>3, <2>4, Unblocked DEF Guarded
  <2> QED
    BY <2>2, <2>3, <2>4
<1> QED
  BY Invariance, <1>1, PTL DEF Spec, StartsClean

\* may_release() behind the tracker: a completed session is told to leave only when a
\* receiver status showed it there, and nothing shown or missed since its end contradicts it.
THEOREM ReleasesAreClean == Spec => ReleasesClean
<1>1. IInv /\ [Next]_vars =>
        [Sends("release") =>
          ~unrest /\ (\E k \in DOMAIN events : events[k].kind = "alive")]_vars
  <2> SUFFICES ASSUME IInv, [Next]_vars, Sends("release")
               PROVE  ~unrest /\ (\E k \in DOMAIN events : events[k].kind = "alive")
    OBVIOUS
  <2>1. MayRelease(own, release, events)
    BY Sending DEF Send, Sends, Guarded
  <2>2. ~unrest
    BY <2>1, Unblocked DEF MayRelease
  <2>3. LastOf(events, Receiver) # None /\ LastOf(events, Receiver).kind = "alive"
    BY <2>1 DEF MayRelease
  <2>4. events \in Seq(Event) /\ DOMAIN events = 1..Len(events)
    BY DEF IInv, TypeInv
  <2> QED
    BY <2>2, <2>3, <2>4, LastReceiver
<1> QED
  BY Invariance, <1>1, PTL DEF Spec, ReleasesClean

\* _may_effect() reads the journal and the latch again: once either said, before the window
\* of a command closed, that the programme is canceled, no effect but a stop is sent.
THEOREM CancellationStopsPlays == Spec => NoPlayAfterCancel
<1>1. IInv /\ [Next]_vars =>
        [\A action \in Action \ {"stop"} : Sends(action) => ~halted]_vars
  <2> SUFFICES ASSUME IInv, [Next]_vars, NEW action \in Action \ {"stop"}, Sends(action)
               PROVE  ~halted
    OBVIOUS
  <2>1. pc = "go" /\ Guarded /\ work.action = action
    BY Sending DEF Send, Sends
  <2>2. work.action # "stop" /\ ~latch
    BY <2>1 DEF Guarded, MayEffectLatch
  <2> QED
    BY <2>1, <2>2 DEF IInv, CancelInv
<1> QED
  BY Invariance, <1>1, PTL DEF Spec, NoPlayAfterCancel
=============================================================================
