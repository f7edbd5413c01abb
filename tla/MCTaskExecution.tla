-------------------------- MODULE MCTaskExecution --------------------------
(* Small instances of TaskExecution for TLC. *)
EXTENDS TaskExecution, TLC

CONSTANT p1

\* Every run belongs to one workflow run.
OneParent == [r \in Runs |-> p1]

\* Safety runs only: TLC's symmetry reduction is unsound for liveness.
Symmetry == Permutations(Workers) \cup Permutations(Runs)
=============================================================================
