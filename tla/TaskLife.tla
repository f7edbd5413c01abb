------------------------------ MODULE TaskLife ------------------------------
(***************************************************************************)
(* What the workflow engine may rely on when it hands actions to the task  *)
(* service, without attempts, locks and workers: the life of task runs as  *)
(* their rows show it. A run is begun only with a permission that the      *)
(* workflow gave for it; a run that is being carried out waits again only  *)
(* when its handler is idempotent; an outcome is final, and "cancelled"    *)
(* only if a cancellation was asked for or the permission is refused.      *)
(*                                                                         *)
(* WorkflowRun takes these steps for those of its actions, TaskExecution   *)
(* implements them. Whom the workflow allows to begin and which handlers   *)
(* are idempotent is for others to say: no step here says it.              *)
(***************************************************************************)
CONSTANT Runs

VARIABLES
  stage,      \* status of the row of each run
  cancelled,  \* runs whose row has cancelRequested
  permit,     \* runs that canExecute allowed and that did not begin yet
  allowed,    \* runs for which canExecute says yes
  repeatable  \* runs whose handler is idempotent

own == <<stage, cancelled, permit>>

Init ==
  /\ stage = [r \in Runs |-> "absent"]
  /\ cancelled = {}
  /\ permit = {}

Move(r, from, to) ==
  /\ stage[r] = from
  /\ stage' = [stage EXCEPT ![r] = to]

Start(r) ==
  /\ Move(r, "absent", "pending")
  /\ UNCHANGED <<cancelled, permit>>

\* A cancellation is noted, of several runs at once if need be, while they are
\* open: on request, or by an attempt whose permission was withdrawn.
Cancel(S) ==
  /\ \A r \in S : stage[r] \in {"pending", "running"}
  /\ cancelled' = cancelled \cup S
  /\ UNCHANGED <<stage, permit>>

Permit(r) ==
  /\ stage[r] = "pending"
  /\ r \in allowed
  /\ permit' = permit \cup {r}
  /\ UNCHANGED <<stage, cancelled>>

\* The attempt is given up before it began, and the run goes on waiting.
Abandon(r) ==
  /\ permit' = permit \ {r}
  /\ UNCHANGED <<stage, cancelled>>

Refuse(r) ==
  /\ r \notin permit
  /\ r \in cancelled \/ r \notin allowed
  /\ Move(r, "pending", "cancelled")
  /\ UNCHANGED <<cancelled, permit>>

\* Its time is over, its handler is missing, or another run of the task has an
\* unknown outcome.
Reject(r) ==
  /\ r \notin permit
  /\ Move(r, "pending", "failed")
  /\ UNCHANGED <<cancelled, permit>>

Begin(r) ==
  /\ r \in permit
  /\ Move(r, "pending", "running")
  /\ permit' = permit \ {r}
  /\ UNCHANGED cancelled

End(r, outcome) ==
  /\ Move(r, "running", outcome)
  /\ outcome = "cancelled" => r \in cancelled
  /\ UNCHANGED <<cancelled, permit>>

Repeat(r) ==
  /\ r \in repeatable
  /\ Move(r, "running", "pending")
  /\ UNCHANGED <<cancelled, permit>>

Next ==
  \/ \E S \in SUBSET Runs : Cancel(S)
  \/ \E r \in Runs :
       \/ Start(r) \/ Permit(r) \/ Abandon(r) \/ Refuse(r) \/ Reject(r)
       \/ Begin(r) \/ Repeat(r)
       \/ \E outcome \in {"succeeded", "failed", "cancelled"} : End(r, outcome)

Spec == Init /\ [][Next]_own
=============================================================================
