---------------------------- MODULE MCNativeTask ----------------------------
(* Windows of one or two observations of every content.                    *)
EXTENDS NativeTask

Says(kind) == [kind |-> kind, item |-> 0]
Plays(i)   == [kind |-> "play", item |-> i]

MCWindows ==
    {<<>>, <<Says("alive")>>, <<Says("exit")>>, <<Says("foreign")>>,
     <<Says("reset"), Says("alive")>>}
        \cup UNION {{<<Plays(i)>>, <<Says("alive"), Plays(i)>>} : i \in {0} \cup Items}
        \cup {<<Plays(i), Plays(i - 1)>> : i \in 2..ItemCount}
        \cup {<<[kind |-> "end", item |-> i]>> : i \in Items}
=============================================================================
