----------------------------- MODULE MCRunnerIPC -----------------------------
(* The pause "a" has a second ticket, should the endpoint forget the first;   *)
(* one stop has an identity of its own, the other that of the pause.          *)
EXTENDS RunnerIPC, TLC

CONSTANTS a1, a2, b1, stop1, stop2

MCTickets == {a1, a2, b1, stop1, stop2}
MCId == (a1 :> "a") @@ (a2 :> "a") @@ (b1 :> "b") @@ (stop1 :> "s") @@ (stop2 :> "a")
MCAction == (a1 :> "pause") @@ (a2 :> "pause") @@ (b1 :> "start")
            @@ (stop1 :> "stop") @@ (stop2 :> "stop")
=============================================================================
