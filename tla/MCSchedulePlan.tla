--------------------------- MODULE MCSchedulePlan ---------------------------
(* Small instances of SchedulePlan for TLC. *)
EXTENDS SchedulePlan, TLC

CONSTANTS w1, w2, e1, e2

AllEvent == [a \in Activations |-> "event"]
AllTime == [a \in Activations |-> "time"]
ManualThenTime == [a \in Activations |-> IF a = 1 THEN "manual" ELSE "time"]

Symmetry == Permutations(Workers) \cup Permutations(Events)
=============================================================================
