----------------------------- MODULE WorkScope -----------------------------
(***************************************************************************)
(* What a workflow run promises about the atomic actions it starts,        *)
(* without rows, locks and queues: an action is begun only while the run   *)
(* is open, and once unless it can be repeated; the run ends, for good,    *)
(* only when no action is being carried out; and once its cancellation was *)
(* accepted the outcome is not success. WorkflowRun implements this        *)
(* specification.                                                          *)
(***************************************************************************)
CONSTANTS
  Effects,
  Repeatable  \* actions that may be carried out again: those that are idempotent

VARIABLES
  phase,    \* "open" or the outcome of the run
  revoked,  \* its cancellation was accepted
  effect    \* of each action

vars == <<phase, revoked, effect>>

Init ==
  /\ phase = "open"
  /\ revoked = FALSE
  /\ effect = [e \in Effects |-> "none"]

Revoke ==
  /\ phase = "open"
  /\ revoked' = TRUE
  /\ UNCHANGED <<phase, effect>>

Begin(e) ==
  /\ phase = "open"
  /\ effect[e] = "none"
  /\ effect' = [effect EXCEPT ![e] = "active"]
  /\ UNCHANGED <<phase, revoked>>

End(e) ==
  /\ effect[e] = "active"
  /\ effect' = [effect EXCEPT ![e] = "over"]
  /\ UNCHANGED <<phase, revoked>>

\* An action that failed waits for another attempt.
Again(e) ==
  /\ e \in Repeatable
  /\ effect[e] = "active"
  /\ effect' = [effect EXCEPT ![e] = "none"]
  /\ UNCHANGED <<phase, revoked>>

\* The action is given up before it was begun.
Drop(e) ==
  /\ effect[e] = "none"
  /\ effect' = [effect EXCEPT ![e] = "over"]
  /\ UNCHANGED <<phase, revoked>>

Close(outcome) ==
  /\ phase = "open"
  /\ \A e \in Effects : effect[e] # "active"
  /\ outcome = "succeeded" => ~revoked
  /\ outcome = "cancelled" => revoked
  /\ phase' = outcome
  /\ UNCHANGED <<revoked, effect>>

Next ==
  \/ Revoke
  \/ \E e \in Effects : Begin(e) \/ End(e) \/ Again(e) \/ Drop(e)
  \/ \E outcome \in {"succeeded", "failed", "cancelled"} : Close(outcome)

Spec == Init /\ [][Next]_vars
=============================================================================
