-------------------------- MODULE MCEvidencePolicy --------------------------
(* What the receiver may report in the small instances of EvidencePolicy.  *)
EXTENDS EvidencePolicy

Exactly(state, position, phase) ==
    [mine |-> TRUE, session |-> "own", content |-> "own", state |-> state,
     position |-> position, ad |-> "no", idle |-> None, playback |-> "p",
     active |-> "unknown", reset |-> FALSE, identity |-> "explicit",
     source |-> "s", phase |-> phase]

Play(position) == Exactly("playing", position, "playing")
End    == [Exactly("idle", None, "finished") EXCEPT !.idle = "finished"]
Cancel == [Exactly("idle", None, "finished") EXCEPT !.idle = "canceled", !.source = None]
Anonymously(x) == [x EXCEPT !.content = None, !.identity = "omitted"]
Nothing == [Exactly("unknown", None, "unknown") EXCEPT
               !.session = None, !.content = None, !.ad = "unknown", !.playback = None,
               !.identity = "unknown", !.source = None]
Alive == [Nothing EXCEPT !.session = "own", !.active = "yes"]
Gone  == [Nothing EXCEPT !.active = "no"]
Ad    == [Play(1) EXCEPT !.ad = "yes", !.phase = "ad"]

\* A programme watched to its end.
Watching ==
    {Play(0), Play(1), Exactly("paused", 1, "paused"), End, [End EXCEPT !.playback = "q"],
     Anonymously(End), Anonymously(Play(0)), Alive, Ad, [Play(1) EXCEPT !.content = "other"]}

\* A programme that is stopped, or released after its end.
Leaving == {Play(0), Play(1), End, Gone}
Stopping == {Play(0), Play(1), End, Cancel, Gone}
=============================================================================
