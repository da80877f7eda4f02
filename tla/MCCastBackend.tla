--------------------------- MODULE MCCastBackend ---------------------------
(* A receiver that runs this owner's application, another one, or none.    *)
EXTENDS CastBackend

TheApps == {"none", "ours", "theirs"}
TheAppIds == [a \in TheApps |->
    IF a = "none" THEN [session |-> None, application |-> None]
    ELSE IF a = "ours" THEN [session |-> "s1", application |-> "tube"]
    ELSE [session |-> "s2", application |-> "tube"]]
TheIdentities == {"s1", "s2", "tube", "v1", "v2"}
TheScopes == {[session |-> "s1", application |-> "tube", content |-> c] : c \in {"v1", "v2"}}

Showing(content) ==
    [content |-> content, explicit |-> TRUE, playback |-> 1, state |-> "playing",
     ad |-> "no", pause |-> TRUE]
TheMedia == {Showing("v1")}
=============================================================================
