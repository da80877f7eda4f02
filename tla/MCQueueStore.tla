---------------------------- MODULE MCQueueStore ----------------------------
(* A queue of three items.                                                 *)
EXTENDS QueueStore, TLC

MCContent == <<"a", "b", "a", "b">>

CommandSymmetry == Permutations(CommandIds)

=============================================================================
