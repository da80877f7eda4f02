--------------------------- MODULE MCPlaybackTask ---------------------------
(* Windows of one or two observations.                                     *)
EXTENDS PlaybackTask

MCWindows ==
    {<<>>, <<"idle">>, <<"alive">>, <<"alive", "play">>, <<"play", "end">>, <<"end", "alive">>,
     <<"alive", "rest">>, <<"idle", "play">>, <<"other">>, <<"ad", "alive">>,
     <<"reset", "idle">>}
=============================================================================
