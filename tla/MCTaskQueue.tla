---------------------------- MODULE MCTaskQueue ----------------------------
(* Symmetry for the safety runs of TaskQueue: tokens are interchangeable,   *)
(* and so are workers none of which is singled out by Stoppable.            *)
EXTENDS TaskQueueRefinement, TLC

Symmetry == Permutations(Token) \cup Permutations(Worker)

=============================================================================
