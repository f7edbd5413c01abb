----------------------------- MODULE LocalBatch -----------------------------
(***************************************************************************)
(* Several sealed plans in one stop of trim.media                          *)
(* (src/scripts/media-governance/runtime/media-local-batch-transaction.py).*)
(*                                                                         *)
(* The batch stops the application, runs one executor after another and    *)
(* checks after each whether it could be undone. When one of them fails it *)
(* undoes those that committed, and starts the application whatever        *)
(* happened. It waits for each executor; at the end of its time, or on a   *)
(* signal, it kills the executor and goes on as if that had failed.        *)
(* Executors may also be started by hand.                                  *)
(*                                                                         *)
(* The order of the plans is left open. A batch that is killed itself      *)
(* leaves its executor running, and the application stopped. Nobody else   *)
(* stops or starts the application while a batch is at work.               *)
(***************************************************************************)
EXTENDS ManifestExecution

CONSTANTS
  MaxByHand,  \* bound: executors started by hand
  Child       \* the process that is the executor of the batch

ASSUME BatchAssumption == MaxByHand \in Nat /\ Child \in Executors

VARIABLES
  stage,      \* where execute_batch() is
  batch,      \* its plans
  at,         \* the plan it is at
  committed, rolledBack,  \* as in its result
  missed,     \* plans in rollbackErrors
  failed,     \* transaction_error is set
  startFailed,  \* restore_error is set
  result,     \* the state it reports
  byHand

batchVars == <<stage, batch, at, committed, rolledBack, missed, failed, startFailed,
               result, byHand>>
vars == <<executionVars, batchVars>>

BatchInit ==
  /\ stage = "idle" /\ batch = {} /\ at = NoPlan
  /\ committed = {} /\ rolledBack = {} /\ missed = {}
  /\ failed = FALSE /\ startFailed = FALSE /\ result = "none"
  /\ byHand = 0

Init == ExecutionInit /\ BatchInit

-----------------------------------------------------------------------------
(* Up to the stop *)

\* A replacement is committed alone.
Begin(S) ==
  /\ stage = "idle"
  /\ \A f \in Replaced : PlanOf[f] \in S => S = {PlanOf[f]}
  /\ stage' = "check" /\ batch' = S
  /\ UNCHANGED <<executionVars, at, committed, rolledBack, missed, failed, startFailed, result,
                 byHand>>

\* The preflight of every plan, and require_running().
Check ==
  /\ stage = "check"
  /\ \/ /\ serving /\ \A p \in batch : Ready(p, "forward")
        /\ stage' = "stop" /\ UNCHANGED faults
     \/ /\ ~(serving /\ \A p \in batch : Ready(p, "forward"))
        /\ stage' = "done" /\ UNCHANGED faults
     \/ Fault /\ stage' = "done"
  /\ UNCHANGED <<disk, serving, journal, locked, pc, mind, outcome, batch, at, committed,
                 rolledBack, missed, failed, startFailed, result, byHand>>

\* stop() may fail with the application stopped or not; its exception is not
\* caught, so that the batch starts the application and reports nothing.
Stop ==
  /\ stage = "stop"
  /\ \/ serving' = FALSE /\ stage' = "forward" /\ UNCHANGED <<result, faults>>
     \/ serving' \in BOOLEAN /\ stage' = "start" /\ result' = "aborted" /\ Fault
  /\ UNCHANGED <<disk, journal, locked, pc, mind, outcome, batch, at, committed,
                 rolledBack, missed, failed, startFailed, byHand>>

-----------------------------------------------------------------------------
(* The two loops *)

Call(p, d) ==
  /\ Launch(Child, p, d)
  /\ at' = p
  /\ UNCHANGED <<serving, faults>>

Forward(p) ==
  /\ stage = "forward" /\ p \in batch \ committed
  /\ Call(p, "forward") /\ stage' = "forwarding"
  /\ UNCHANGED <<batch, committed, rolledBack, missed, failed, startFailed, result,
                 byHand>>

Forwarded ==
  /\ stage = "forwarding" /\ pc[Child] = "exit"
  /\ IF outcome[Child] = "committed"
     THEN committed' = committed \cup {at} /\ stage' = "inspect" /\ UNCHANGED failed
     ELSE failed' = TRUE /\ stage' = "back" /\ UNCHANGED committed
  /\ UNCHANGED <<executionVars, batch, at, rolledBack, missed, startFailed, result,
                 byHand>>

\* The preflight of the inverse.
Inspect ==
  /\ stage = "inspect"
  /\ \/ /\ Ready(at, "inverse") /\ ~serving
        /\ stage' = "forward" /\ UNCHANGED <<failed, faults>>
     \/ /\ ~(Ready(at, "inverse") /\ ~serving)
        /\ stage' = "back" /\ failed' = TRUE /\ UNCHANGED faults
     \/ Fault /\ stage' = "back" /\ failed' = TRUE
  /\ UNCHANGED <<disk, serving, journal, locked, pc, mind, outcome, batch, at, committed,
                 rolledBack, missed, startFailed, result, byHand>>

ToUndo == committed \ (rolledBack \cup missed)

\* One committed plan is undone, or counted among the errors.
Back(p) ==
  /\ stage = "back" /\ p \in ToUndo
  /\ \/ /\ Ready(p, "inverse")
        /\ Call(p, "inverse") /\ stage' = "backing" /\ UNCHANGED missed
     \/ /\ ~Ready(p, "inverse")
        /\ missed' = missed \cup {p}
        /\ UNCHANGED <<executionVars, stage, at>>
     \/ /\ Fault /\ missed' = missed \cup {p}
        /\ UNCHANGED <<disk, serving, journal, locked, pc, mind, outcome, stage, at>>
  /\ UNCHANGED <<batch, committed, rolledBack, failed, startFailed, result, byHand>>

Backed ==
  /\ stage = "backing" /\ pc[Child] = "exit"
  /\ IF outcome[Child] = "committed"
     THEN rolledBack' = rolledBack \cup {at} /\ UNCHANGED missed
     ELSE missed' = missed \cup {at} /\ UNCHANGED rolledBack
  /\ stage' = "back"
  /\ UNCHANGED <<executionVars, batch, at, committed, failed, startFailed, result,
                 byHand>>

\* Mutation: the second loop ends when everything is undone.
CloseUndone ==
  /\ \/ stage = "forward" /\ committed = batch
     \/ stage = "back" /\ rolledBack = committed
  /\ stage' = "start"
  /\ UNCHANGED <<executionVars, batch, at, committed, rolledBack, missed, failed,
                 startFailed, result, byHand>>

\* Either loop is over.
Close ==
  /\ \/ stage = "forward" /\ committed = batch
     \/ stage = "back" /\ ToUndo = {}
  /\ stage' = "start"
  /\ UNCHANGED <<executionVars, batch, at, committed, rolledBack, missed, failed,
                 startFailed, result, byHand>>

-----------------------------------------------------------------------------
(* The end *)

\* Mutation: errors of the undoing give way to the failure that came first.
VerdictFailed(unstarted) ==
  IF result = "aborted" THEN result
  ELSE IF failed THEN "rolled-back"
  ELSE IF missed # {} THEN "rollback-failed"
  ELSE IF unstarted THEN "service-restore-failed"
  ELSE "committed"

Verdict(unstarted) ==
  IF result = "aborted" THEN result
  ELSE IF missed # {} THEN "rollback-failed"
  ELSE IF failed THEN "rolled-back"
  ELSE IF unstarted THEN "service-restore-failed"
  ELSE "committed"

Start ==
  /\ stage = "start" /\ stage' = "done"
  /\ \/ serving' = TRUE /\ startFailed' = FALSE /\ UNCHANGED faults
     \/ serving' \in {serving, TRUE} /\ startFailed' = TRUE /\ Fault
  /\ result' = Verdict(startFailed')
  /\ UNCHANGED <<disk, journal, locked, pc, mind, outcome, batch, at, committed,
                 rolledBack, missed, failed, byHand>>

\* Mutation: the batch no longer waits, and the executor goes on.
InterruptLeft ==
  /\ stage \in {"forwarding", "backing"} /\ Fault
  /\ stage' = "back" /\ failed' = TRUE
  /\ UNCHANGED <<disk, serving, journal, locked, pc, mind, outcome, batch, at, committed,
                 rolledBack, missed, startFailed, result, byHand>>

\* The end of its time, or SIGTERM: the batch kills the executor it waits for. Both are
\* errors the batch handles; SIGINT, which it does not, is left out.
Interrupt ==
  /\ stage \in {"forwarding", "backing"} /\ Fault
  /\ Killed(Child)
  /\ UNCHANGED batchVars

\* The batch is killed; the executor goes on.
Crash ==
  /\ stage \notin {"idle", "done", "dead"} /\ Fault
  /\ stage' = "dead"
  /\ UNCHANGED <<disk, serving, journal, locked, pc, mind, outcome, batch, at, committed,
                 rolledBack, missed, failed, startFailed, result, byHand>>

\* An executor that is not the batch's.
ByHand(e, p, d) ==
  /\ byHand < MaxByHand /\ e # Child
  /\ Launch(e, p, d) /\ byHand' = byHand + 1
  /\ UNCHANGED <<serving, faults, stage, batch, at, committed, rolledBack, missed, failed,
                 startFailed, result>>

KillStray(e) ==
  /\ ~Free(e) /\ Fault
  /\ e # Child \/ stage = "dead"
  /\ Killed(e)
  /\ UNCHANGED batchVars

\* Somebody starts the application after a batch that has left it stopped.
Reopen ==
  /\ stage \in {"done", "dead"} /\ ~serving
  /\ serving' = TRUE
  /\ UNCHANGED <<disk, journal, locked, pc, mind, outcome, faults, batchVars>>

BatchStep ==
  \/ Check \/ Stop \/ Forwarded \/ Inspect \/ Backed \/ Close \/ Start
  \/ \E p \in Plans : Forward(p) \/ Back(p)

Executing(e) == ExecutorStep(e) /\ UNCHANGED batchVars

Environment ==
  \/ \E S \in SUBSET Plans \ {{}} : Begin(S)
  \/ Interrupt \/ Crash \/ Reopen
  \/ \E e \in Executors : KillStray(e) \/ \E p \in Plans, d \in Directions : ByHand(e, p, d)
  \/ \E f \in Files : Intrude(f) /\ UNCHANGED batchVars

Next == BatchStep \/ (\E e \in Executors : Executing(e)) \/ Environment
Spec == Init /\ [][Next]_vars

\* Each call of the file system and each command the batch waits for ends.
FairSpec == Spec /\ WF_vars(BatchStep) /\ WF_vars(Executing(Child))

-----------------------------------------------------------------------------
(* Properties *)

\* The executor of a batch changes files only while the application is stopped:
\* when the batch gives it up, it is dead before the application is started.
StoppedForChanges == stage # "dead" /\ pc[Child] \in Changing => ~serving

\* What a batch reports of its plans is so, as long as nobody executes one by
\* hand. A batch that was rolled back has left at most one plan in doubt.
Reported ==
  byHand = 0 =>
    /\ result = "committed" => serving
    /\ result \in {"committed", "service-restore-failed"} =>
         \A p \in batch : Whole(p, "target")
    /\ result = "rolled-back" =>
         \E q \in batch : \A p \in batch \ {q} : Whole(p, "source") /\ Shown(p)
    /\ result \in {"rolled-back", "rollback-failed"} =>
         \A p \in rolledBack : Whole(p, "source") /\ Shown(p)

\* A batch ends and starts the application again, unless it is killed or the start
\* fails.
BatchEnds ==
  stage = "check" ~> stage = "dead" \/ (stage = "done" /\ (serving \/ startFailed))
=============================================================================
