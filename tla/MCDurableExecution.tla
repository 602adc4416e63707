------------------------- MODULE MCDurableExecution -------------------------
(* For the runs of DurableExecution: the symmetry of the clients, and the    *)
(* first child of each wait as the one that may die.                         *)
EXTENDS DurableRefinement, DurableQueue, TLC

Symmetry == Permutations(Client)

FirstChildren == {<<g, 1>> : g \in Groups}

=============================================================================
