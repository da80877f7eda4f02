----------------------------- MODULE CastBackend -----------------------------
(***************************************************************************)
(* The adapter between the receiver and the application: src/tellyq/       *)
(* cast_backend.py over the polls of StatusPoll.  It turns what the        *)
(* observer queued into observations, keeps the last receiver and media    *)
(* status and the witnesses of other identities, and lets an effect out    *)
(* only for a scope that all of them still support.                        *)
(*                                                                         *)
(* Displayed and recorded data (raw observations, titles, positions,       *)
(* receipts) is left out.  What an observation says of playback is in      *)
(* EvidencePolicy; here its identities matter.                             *)
(***************************************************************************)
EXTENDS StatusPoll

CONSTANTS
    Identities,       \* values of the identity fields
    AppIds,           \* AppIds[a]: session and application of application a
    Scopes,           \* identities an application may hold a scope for
    MaxAge,           \* the five seconds
    Short, Long       \* observation windows: routine, and after an effect

INSTANCE IdentityWitnesses

ASSUME AdapterAssumption ==
    /\ None \notin Identities
    /\ AppIds \in [Apps -> [{"session", "application"} -> Identities \cup {None}]]
    /\ \A f \in {"session", "application"} : AppIds[Absent][f] = None
    /\ Scopes \subseteq [Fields -> Identities]
    /\ Media \subseteq
         [content : Identities \cup {None}, explicit : BOOLEAN, playback : Nat \cup {None},
          state : {"playing", "paused", "other"}, ad : {"yes", "no", "unknown"}, pause : BOOLEAN]
    /\ MaxAge \in Nat
    /\ Short \in Windows /\ Long \in Windows

VARIABLES
    generation,       \* _generation: how many resets were normalized
    lastEvent,        \* _last_event_time
    receiver,         \* _receiver
    media,            \* _media
    history,          \* _identity_history
    window,           \* _window
    sent,             \* the scope of the effect let out since the last observation
    log,              \* history variable: every observation of this generation
    heard             \* history variable: connection that the last normalized event is about

adapterVars ==
    <<generation, lastEvent, receiver, media, history, window, sent, log, heard>>
vars == <<pollVars, adapterVars>>

Init ==
    /\ PollInit
    /\ generation = 0 /\ lastEvent = 0 /\ heard = 0
    /\ receiver = None /\ media = None
    /\ history = {} /\ log = {}
    /\ window = Short
    /\ sent = None

Held == UNCHANGED <<generation, lastEvent, receiver, media, history, log, heard>>

-----------------------------------------------------------------------------
(* Normalization.                                                          *)

Recent(at, status) == status # None /\ status.at <= at /\ at <= status.at + MaxAge

Nobody == [f \in Fields |-> None]

AppIdentity(a) == [f \in Fields |-> IF f = "content" THEN None ELSE AppIds[a][f]]

\* Media is attributed to the receiver status it closely follows.
MediaIdentity(event) ==
    IF ~Recent(event.at, receiver) THEN Nobody
    ELSE [AppIdentity(receiver.app) EXCEPT !["content"] =
            IF event.body.playback = None \/ AppIds[receiver.app]["application"] = None
            THEN None ELSE event.body.content]

Said(event) ==
    [order |-> event.order,
     ids |-> CASE event.kind = "receiver" -> AppIdentity(event.body)
               [] event.kind = "media"    -> MediaIdentity(event)
               [] OTHER                   -> Nobody]

Passes(event) == event.at <= now /\ event.order > lastEvent

\* _normalize() of one event, with _translate() and _remember_identity().
Normalize ==
    /\ TakeOne
    /\ LET event == Head(events)
           o == Said(event)
           reset == event.kind = "reset" IN
       IF ~Passes(event) THEN Held
       ELSE /\ lastEvent' = event.order
            /\ heard' = IF reset THEN event.conn + 1 ELSE event.conn
            /\ generation' = IF reset THEN generation + 1 ELSE generation
            /\ receiver' = CASE event.kind = "receiver" -> [app |-> event.body, at |-> event.at]
                             [] event.kind = "media"    -> receiver
                             [] OTHER                   -> None
            /\ media' =
                 CASE reset -> None
                   [] event.kind = "media" ->
                        [said |-> event.body, at |-> event.at, ids |-> o.ids,
                         order |-> event.order, generation |-> generation]
                   [] event.kind = "receiver" ->
                        IF receiver # None /\ receiver.app = event.body THEN media ELSE None
                   [] OTHER -> media
            /\ history' = IF reset THEN Remembered({o}) ELSE Remembered(history \cup {o})
            /\ log' = IF reset THEN {o} ELSE log \cup {o}
    /\ UNCHANGED <<window, sent>>

\* observe() and observe_until().
Observe(until) ==
    /\ Begin(until, window)
    /\ sent' = None
    /\ Held /\ UNCHANGED window

\* The long window is for one call; an observe() that fails leaves it to the next.
CallEnds ==
    /\ \/ (TailDone \/ CutShort) /\ window' = Short
       \/ Abandon /\ window' = IF poll.until THEN Short ELSE window
    /\ Held /\ UNCHANGED sent

-----------------------------------------------------------------------------
(* Guards of the effects.                                                  *)

\* Mutant of OwnsReceiver: only the last status is asked, not who was seen before it.
LooksOwned(scope) ==
    /\ scope.generation = generation
    /\ receiver # None
    /\ \A f \in {"session", "application"} : AppIds[receiver.app][f] = scope.ids[f]

\* The scope's session is the one last reported, and nobody else was seen since.
OwnsReceiver(scope) ==
    /\ scope.generation = generation
    /\ receiver # None
    /\ \A f \in {"session", "application"} : AppIds[receiver.app][f] = scope.ids[f]
    /\ ~TakenOver(scope, history)

\* The last media status is of the scope, in full.
OwnsMedia(scope) ==
    /\ media # None
    /\ media.generation = generation
    /\ media.ids = scope.ids

MayStop(scope) == OwnsReceiver(scope) /\ Recent(now, receiver)

\* _control_guard() of pause and resume.
MayControl(scope, playback, action) ==
    /\ OwnsReceiver(scope) /\ OwnsMedia(scope)
    /\ media.said.playback = playback
    /\ media.said.state = (IF action = "pause" THEN "playing" ELSE "paused")
    /\ media.said.pause
    /\ Recent(now, receiver) /\ Recent(now, media)

\* _native_queue_guard()
MayQueue(scope, playback, action) ==
    /\ OwnsReceiver(scope) /\ OwnsMedia(scope)
    /\ media.said.explicit /\ media.said.content # None
    /\ media.said.playback = playback
    /\ scope.started <= media.order
    /\ Recent(now, receiver) /\ Recent(now, media)
    /\ action = "play_next" => media.said.state \in {"playing", "paused"} /\ media.said.ad = "no"

Effect(scope) == sent' = scope

\* start() needs no evidence: the owner decides whether the receiver is free.
Start ==
    /\ pc = "idle"
    /\ LibraryRequests
    /\ window' = Long
    /\ Held /\ UNCHANGED sent

\* stop() quits whatever application runs; its answer may be lost.
Stop(scope) ==
    /\ pc = "idle" /\ sent = None
    /\ MayStop(scope)
    /\ LibraryRequests
    /\ Effect(scope)
    /\ window' = Long
    /\ Held

\* pause() and resume().
Control(scope, playback, action) ==
    /\ pc = "idle" /\ sent = None
    /\ MayControl(scope, playback, action)
    /\ window' = Long
    /\ Effect(scope) \/ sent' = None
    /\ UNCHANGED pollVars
    /\ Held

\* native_queue()
NativeQueue(scope, playback, action) ==
    /\ pc = "idle" /\ sent = None
    /\ MayQueue(scope, playback, action)
    /\ Effect(scope)
    /\ UNCHANGED pollVars
    /\ Held /\ UNCHANGED window

-----------------------------------------------------------------------------
Callback ==
    \/ \E said \in Apps \cup {None} :
          ReceiveBroadcast(said) \/ \E request \in requests : ReceiveAnswer(request, said)
    \/ \E m \in Media : ReceiveMedia(m)
    \/ ConnectionLost

Owner ==
    \/ AskStatus \/ RequestSent \/ CallFails
    \/ Wake \/ WindowCloses
    \/ \E complete \in BOOLEAN : Judge(complete)
    \/ RetireCandidate \/ Recheck
    \/ TailDrain \/ TailAgain

Effects ==
    \/ Start
    \/ \E ids \in Scopes, g \in 0..generation, t \in 0..order :
          LET scope == [generation |-> g, started |-> t, ids |-> ids] IN
          \/ Stop(scope)
          \/ media # None /\ \E action \in {"pause", "resume"} :
                Control(scope, media.said.playback, action)
          \/ media # None /\ \E action \in {"play_next", "clear"} :
                NativeQueue(scope, media.said.playback, action)

Next ==
    \/ (LibraryRequests \/ Tick \/ Owner) /\ UNCHANGED adapterVars
    \/ Callback /\ Held /\ UNCHANGED <<window, sent>>
    \/ Normalize \/ CallEnds
    \/ \E until \in BOOLEAN : Observe(until)
    \/ Effects

Spec == Init /\ [][Next]_vars

-----------------------------------------------------------------------------
\* The few witnesses kept answer every scope's question as the full record would: coming
\* back to the first identity erases no takeover.
WitnessesSuffice ==
    \A ids \in Scopes, t \in 0..order :
        LET scope == [generation |-> generation, started |-> t, ids |-> ids] IN
        TakenOver(scope, history) <=> TakenOver(scope, log)

\* An effect on a scope leaves the adapter only if everything observed on this connection
\* since the scope began was of the scope, and its application was among what was reported.
EffectsOwned ==
    sent # None =>
        /\ sent.generation = generation
        /\ ~TakenOver(sent, log)
        /\ \E e \in log : \A f \in {"session", "application"} : e.ids[f] = sent.ids[f]

\* Reconnecting starts with fresh evidence: what is kept is of the connection the last
\* observation came from.
ReconnectStartsAfresh == heard = generation
=============================================================================
