--------------------------- MODULE MCSessionRunner ---------------------------
(* Small instances of SessionRunner for TLC.  The tickets of an instance are  *)
(* what its callers may submit: the identity of a start is reused by a stop.  *)
EXTENDS SessionRunner, TLC

CONSTANTS start1, pause1, resume1, release1, stop1, stop2

AllTickets == {start1, pause1, resume1, release1, stop1, stop2}
FewTickets == AllTickets \ {resume1, stop2}

MCId == (start1 :> "a") @@ (pause1 :> "b") @@ (resume1 :> "c") @@ (release1 :> "d")
        @@ (stop1 :> "a") @@ (stop2 :> "z")
MCAction == (start1 :> "start") @@ (pause1 :> "pause") @@ (resume1 :> "resume")
            @@ (release1 :> "release")            @@ (stop1 :> "stop") @@ (stop2 :> "stop")

FewId     == [t \in FewTickets |-> MCId[t]]
FewAction == [t \in FewTickets |-> MCAction[t]]
=============================================================================
