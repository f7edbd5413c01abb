-------------------------- MODULE MCMessageDelivery --------------------------
(* Small instances of MessageDelivery for TLC. *)
EXTENDS MessageDelivery, TLC

CONSTANTS p1, p2, s1, s2

OneAwaits == [s \in Subs |-> IF s = s1 THEN {"ready", "deferred"}
                                       ELSE {"ready", "cancelled", "superseded"}]

Symmetry == Permutations(Processes)
=============================================================================
