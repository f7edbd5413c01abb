---------------------------- MODULE DispatchGate ----------------------------
(***************************************************************************)
(* What a plan promises about the occurrences of its trigger, without the  *)
(* tables, locks and workers that keep the promise: an occurrence that was *)
(* recorded is opened at most once, under the activation it belongs to and *)
(* (overlap = "skip") with no other one open; its workflow run exists only *)
(* after that; and it is closed when the run has ended or was refused.     *)
(* SchedulePlan implements this specification.                             *)
(***************************************************************************)
EXTENDS Naturals

CONSTANTS
  Activations,   \* revisions at which the plan was enabled
  Occurrences,
  ActivationOf,  \* the activation whose registration recorded an occurrence
  Skip           \* TRUE: an occurrence that finds another one open is skipped

VARIABLES
  current,   \* the activation in force, 0 when the plan is disabled
  phase,     \* of each occurrence
  run        \* the workflow run of each occurrence

vars == <<current, phase, run>>

Init ==
  /\ current = 0
  /\ phase = [o \in Occurrences |-> "absent"]
  /\ run = [o \in Occurrences |-> "none"]

\* The plan is enabled with another activation, or disabled.
Switch ==
  /\ current' \in Activations \cup {0}
  /\ UNCHANGED <<phase, run>>

\* Occurrences are recorded, several in one transaction.
Record(S) ==
  /\ phase' = [o \in Occurrences |-> IF o \in S /\ phase[o] = "absent" THEN "waiting"
                                                                       ELSE phase[o]]
  /\ UNCHANGED <<current, run>>

Move(o, from, to) ==
  /\ phase[o] = from
  /\ phase' = [phase EXCEPT ![o] = to]
  /\ UNCHANGED <<current, run>>

Reject(o) == Move(o, "waiting", "closed")

Open(o) ==
  /\ ActivationOf[o] = current
  /\ Skip => \A p \in Occurrences : phase[p] # "open"
  /\ Move(o, "waiting", "open")

Launch(o) ==
  /\ phase[o] = "open"
  /\ run[o] = "none"
  /\ run' = [run EXCEPT ![o] = "open"]
  /\ UNCHANGED <<current, phase>>

RunEnds(o) ==
  /\ run[o] = "open"
  /\ run' = [run EXCEPT ![o] = "ended"]
  /\ UNCHANGED <<current, phase>>

Close(o) ==
  /\ run[o] # "open"
  /\ Move(o, "open", "closed")

Next ==
  \/ Switch
  \/ \E S \in SUBSET Occurrences : Record(S)
  \/ \E o \in Occurrences : Reject(o) \/ Open(o) \/ Launch(o) \/ RunEnds(o) \/ Close(o)

Spec == Init /\ [][Next]_vars

\* At most one workflow run of the plan is open: the policy overlap = "skip".
OneOpenRun ==
  Skip => \A o, p \in Occurrences : run[o] = "open" /\ run[p] = "open" => o = p
=============================================================================
