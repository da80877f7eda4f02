-------------------------- MODULE MCQueueExecutor --------------------------
(* A queue of two items, driven by an owner that may die once.             *)
EXTENDS QueueExecutor, TLC

MCContent == <<"a", "b">>

CommandSymmetry == Permutations(CommandIds)

=============================================================================
