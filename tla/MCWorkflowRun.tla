--------------------------- MODULE MCWorkflowRun ---------------------------
(* A small diagram for TLC: an action and a message that may interrupt it,    *)
(* then a human decision.                                                     *)
EXTENDS WorkflowRun, TLC

CONSTANTS action, human, message

MCKindOf == (action :> "action") @@ (human :> "human")
MCAfter == (action :> {}) @@ (message :> {}) @@ (human :> {action, message})
=============================================================================
