--------------------------- MODULE TaskExecution ---------------------------
(***************************************************************************)
(* The execution of atomic task runs                                       *)
(* (src/src/modules/task-execution/application/task-execution.service.ts). *)
(*                                                                         *)
(* A run is a database row. The action queue of the workflow engine hands  *)
(* it, at least once and possibly to several workers, to process(), which  *)
(* takes the MySQL named lock of the run's task on a dedicated session,    *)
(* re-reads the row under the lock, writes an attempt row, calls the       *)
(* handler, whose side effects nobody can undo, and writes the outcome.    *)
(* The lock is advisory: the server frees it when the session ends, while  *)
(* the worker, which writes through other pooled connections, goes on      *)
(* until its next ownership probe.                                         *)
(*                                                                         *)
(* Each action is one database statement or transaction together with the  *)
(* synchronous code after it, up to the next await.                        *)
(***************************************************************************)
EXTENDS Naturals, FiniteSets

CONSTANTS
  Runs,         \* execution keys: the unique index makes one row of each
  Tasks,        \* task definitions, one named lock each
  Workers,      \* concurrent calls of process()
  ParentOf,     \* the workflow run each run was started by
  Idempotent,   \* tasks whose handler declares itself idempotent
  MaxAttempts,  \* definition.maxAttempts
  MaxFaults,    \* bound: worker crashes, database errors and lost lock sessions
  MaxLosses,    \* bound: the sessions among them, ended under a live worker
  NoRun, NoTask, NoWorker

ASSUME ConstantsAssumption ==
  /\ Idempotent \subseteq Tasks
  /\ MaxAttempts \in Nat \ {0}
  /\ MaxFaults \in Nat
  /\ MaxLosses \in Nat
  /\ NoRun \notin Runs
  /\ NoTask \notin Tasks
  /\ NoWorker \notin Workers

VARIABLES
  task, status, attemptCount,       \* columns of the automation_task_run rows
  cancelRequested, requiresReview,  \* the runs whose row has the flag set
  reviewed,     \* the runs that have a review row
  due, expired, \* the runs whose nextAttemptAt, deadlineAt has come
  attempt,      \* the automation_task_attempt rows of each run, by attemptNo
  linked,       \* the runs that an activity of their workflow names (taskRunId)
  authorised,   \* the answer of the workflow's canExecute for each run
  owner,        \* which session holds kt:task:<taskId> on the server
  pc,           \* the await each worker is at
  job,          \* the run a worker processes
  no,           \* attempt number from the snapshot read under the lock
  flags,        \* abort signal, cancellation and controlFailure of the attempt
  check,        \* how far the control check in flight has got
  result,       \* the status a worker is about to write
  invoked,      \* history: calls of the handler for each attempt number
  withdrawn,    \* history: runs cancelled while they waited as pending
  faults, losses

marks == <<cancelRequested, requiresReview, reviewed>>
clock == <<due, expired>>
ledger == <<attemptCount, attempt>>
rows == <<task, status, marks, clock, ledger>>
locals == <<pc, job, no, flags, check, result>>
history == <<invoked, withdrawn>>
faultVars == <<faults, losses>>
vars == <<rows, linked, authorised, owner, locals, history, faultVars>>

-----------------------------------------------------------------------------
(* Statuses and worker positions *)

Open == {"pending", "running"}                    \* RUN_STATUS_GROUP.taskOpen
Terminal == {"succeeded", "failed", "cancelled"}
AttemptNos == 1 .. MaxAttempts

\* Positions at which a worker holds, or believes it holds, the task lock.
\* In Attempting its attempt row exists and its outcome is not yet written.
Attempting == {"check", "handling", "confirm", "commit"}
Inside == {"read", "interrupt", "authorise", "uncertain", "settle", "resolve",
           "begin", "release"} \cup Attempting

Init ==
  /\ task = [r \in Runs |-> NoTask]
  /\ status = [r \in Runs |-> "absent"]
  /\ attemptCount = [r \in Runs |-> 0]
  /\ cancelRequested = {} /\ requiresReview = {} /\ reviewed = {}
  /\ due = {} /\ expired = {}
  /\ attempt = [r \in Runs |-> [n \in AttemptNos |-> "none"]]
  /\ linked = {}
  /\ authorised = Runs
  /\ owner = [t \in Tasks |-> NoWorker]
  /\ pc = [w \in Workers |-> "idle"]
  /\ job = [w \in Workers |-> NoRun]
  /\ no = [w \in Workers |-> 0]
  /\ flags = [w \in Workers |-> {}]
  /\ check = [w \in Workers |-> "none"]
  /\ result = [w \in Workers |-> "none"]
  /\ invoked = [r \in Runs |-> [n \in AttemptNos |-> 0]]
  /\ withdrawn = {}
  /\ faults = 0
  /\ losses = 0

-----------------------------------------------------------------------------
(* Requests and the passing of time *)

\* start(): the row is inserted under the unique execution key; a second
\* request with the same key finds the row, or fails to insert and finds it.
Start(r, t) ==
  /\ status[r] = "absent"
  /\ task' = [task EXCEPT ![r] = t]
  /\ status' = [status EXCEPT ![r] = "pending"]
  /\ due' = due \cup {r}
  /\ UNCHANGED <<marks, expired, ledger, linked, authorised, owner, locals, history, faultVars>>

\* advanceAction() saves the id that start() returned. Its worker may die before, and
\* when its run is stopped instead, nobody ever does.
Link(r) ==
  /\ status[r] # "absent"
  /\ r \notin linked
  /\ linked' = linked \cup {r}
  /\ UNCHANGED <<rows, authorised, owner, locals, history, faultVars>>

\* One UPDATE ... SET cancelRequested = true WHERE status IN (open).
RequestCancel(S) ==
  LET hit == {r \in S : status[r] \in Open}
  IN  /\ hit # {}
      /\ cancelRequested' = cancelRequested \cup hit
      /\ withdrawn' = withdrawn \cup {r \in hit : status[r] = "pending"}
      /\ UNCHANGED <<task, status, requiresReview, reviewed, clock, ledger, linked, authorised,
                     owner, locals, invoked, faultVars>>

Cancel(r) == RequestCancel({r})

CancelParent(p) == RequestCancel({r \in Runs : ParentOf[r] = p})

\* review(): under the task lock, and refused while somebody holds it.
Review(r) ==
  /\ status[r] = "failed"
  /\ r \in requiresReview
  /\ r \notin reviewed
  /\ owner[task[r]] = NoWorker
  /\ reviewed' = reviewed \cup {r}
  /\ requiresReview' = requiresReview \ {r}
  /\ UNCHANGED <<task, status, cancelRequested, clock, ledger, linked, authorised, owner,
                 locals, history, faultVars>>

\* The parent workflow leaves the states in which it authorises the action.
Revoke(r) ==
  /\ r \in authorised
  /\ authorised' = authorised \ {r}
  /\ UNCHANGED <<rows, linked, owner, locals, history, faultVars>>

\* Date.now() reaches nextAttemptAt, or deadlineAt. The first is looked at on
\* pending rows only, so due is kept for those.
BecomeDue(r) ==
  /\ status[r] = "pending"
  /\ r \notin due
  /\ due' = due \cup {r}
  /\ UNCHANGED <<task, status, marks, expired, ledger, linked, authorised, owner, locals,
                 history, faultVars>>

Expire(r) ==
  /\ status[r] \in Open
  /\ r \notin expired
  /\ expired' = expired \cup {r}
  /\ UNCHANGED <<task, status, marks, due, ledger, linked, authorised, owner, locals, history,
                 faultVars>>

-----------------------------------------------------------------------------
(* process(): the steps of a worker up to the handler *)

Goto(w, place) == pc' = [pc EXCEPT ![w] = place]

\* The call ends: its local variables are gone.
Forget(w) ==
  /\ Goto(w, "idle")
  /\ job' = [job EXCEPT ![w] = NoRun]
  /\ no' = [no EXCEPT ![w] = 0]
  /\ flags' = [flags EXCEPT ![w] = {}]
  /\ check' = [check EXCEPT ![w] = "none"]
  /\ result' = [result EXCEPT ![w] = "none"]

\* Mutation: the lock outlives its session.
KeepLock(w) == UNCHANGED owner

\* The server frees what the session of w holds.
FreeLock(w) ==
  owner' = [t \in Tasks |-> IF owner[t] = w THEN NoWorker ELSE owner[t]]

\* The queue delivers the run to an idle worker. processAction() has nothing to do with
\* a run that no activity names; then the first read, without the lock.
Dequeue(w, r) ==
  /\ pc[w] = "idle"
  /\ r \in linked
  /\ status[r] \in Open
  /\ Goto(w, "acquire")
  /\ job' = [job EXCEPT ![w] = r]
  /\ UNCHANGED <<rows, linked, authorised, owner, no, flags, check, result, history,
                 faultVars>>

\* GET_LOCK(name, 0)
Acquire(w) ==
  /\ pc[w] = "acquire"
  /\ owner[task[job[w]]] = NoWorker
  /\ owner' = [owner EXCEPT ![task[job[w]]] = w]
  /\ Goto(w, "read")
  /\ UNCHANGED <<rows, linked, authorised, job, no, flags, check, result, history,
                 faultVars>>

Busy(w) ==
  /\ pc[w] = "acquire"
  /\ owner[task[job[w]]] # NoWorker
  /\ Forget(w)
  /\ UNCHANGED <<rows, linked, authorised, owner, history, faultVars>>

\* Mutation: the status is not looked at again under the lock.
FinishedNever(r) == FALSE

Finished(r) == status[r] \notin Open

\* The row is read again under the lock. The branch it selects is decided by
\* this snapshot; cancelRequested short-circuits canExecute.
ReadRun(w) ==
  LET r == job[w]
  IN  /\ pc[w] = "read"
      /\ \/ /\ Finished(r)
            /\ Goto(w, "release")
            /\ UNCHANGED <<no, result>>
         \/ /\ status[r] = "running"
            /\ Goto(w, "interrupt")
            /\ UNCHANGED <<no, result>>
         \/ /\ ~Finished(r) /\ status[r] # "running"
            /\ no' = [no EXCEPT ![w] = attemptCount[r] + 1]
            /\ IF r \in cancelRequested
               THEN Goto(w, "settle") /\ result' = [result EXCEPT ![w] = "cancelled"]
               ELSE Goto(w, "authorise") /\ UNCHANGED result
      /\ UNCHANGED <<rows, linked, authorised, owner, job, flags, check, history, faultVars>>

\* Mutation: the attempt rows are left as they are.
LeaveRunning(rs) == rs

FailRunning(rs) == [n \in AttemptNos |-> IF rs[n] = "running" THEN "failed" ELSE rs[n]]

\* failInterrupted(): nobody holds the lock of a run that is still running.
Interrupt(w) ==
  LET r == job[w]
  IN  /\ pc[w] = "interrupt"
      /\ attempt' = [attempt EXCEPT ![r] = FailRunning(@)]
      /\ status' = [status EXCEPT ![r] = "failed"]
      /\ requiresReview' = requiresReview \cup {r}
      /\ Goto(w, "release")
      /\ UNCHANGED <<task, cancelRequested, reviewed, clock, attemptCount, linked, authorised,
                     owner, job, no, flags, check, result, history, faultVars>>

\* The answer of canExecute, then the two clocks read with no await between.
Authorise(w) ==
  LET r == job[w]
      settleAs(s) == Goto(w, "settle") /\ result' = [result EXCEPT ![w] = s]
  IN  /\ pc[w] = "authorise"
      /\ \/ r \notin authorised /\ settleAs("cancelled")
         \/ r \in authorised /\ r \in expired /\ settleAs("failed")
         \/ /\ r \in authorised \ expired
            /\ Goto(w, IF r \in due THEN "uncertain" ELSE "release")
            /\ UNCHANGED result
      /\ UNCHANGED <<rows, linked, authorised, owner, job, no, flags, check, history, faultVars>>

\* Mutation: only the run itself is asked, not every run of the task.
UncertainSelf(r) == r \in requiresReview

\* A run of the same task whose outcome is unknown blocks this one.
Uncertain(r) == \E q \in requiresReview : task[q] = task[r]

FindUncertain(w) ==
  /\ pc[w] = "uncertain"
  /\ IF Uncertain(job[w])
     THEN Goto(w, "settle") /\ result' = [result EXCEPT ![w] = "failed"]
     ELSE Goto(w, "resolve") /\ UNCHANGED result
  /\ UNCHANGED <<rows, linked, authorised, owner, job, no, flags, check, history,
                 faultVars>>

\* The handler version is loaded, matches its contract and is available, or not.
Resolve(w) ==
  /\ pc[w] = "resolve"
  /\ \/ Goto(w, "begin") /\ UNCHANGED result
     \/ Goto(w, "settle") /\ result' = [result EXCEPT ![w] = "failed"]
  /\ UNCHANGED <<rows, linked, authorised, owner, job, no, flags, check, history,
                 faultVars>>

\* runs.update({ id }, { status }): by identity only, whatever the row became.
Settle(w) ==
  /\ pc[w] = "settle"
  /\ status' = [status EXCEPT ![job[w]] = result[w]]
  /\ due' = due \ {job[w]}
  /\ Goto(w, "release")
  /\ UNCHANGED <<task, marks, expired, ledger, linked, authorised, owner, job, no, flags,
                 check, result, history, faultVars>>

NumberFree(r, n) == attempt[r][n] = "none"

\* One transaction inserts the attempt and marks the run running. The unique
\* (runId, attemptNo) index refuses a number that was already used: the
\* transaction is rolled back and process() rejects.
Begin(w) ==
  LET r == job[w]
  IN  /\ pc[w] = "begin"
      /\ \/ /\ NumberFree(r, no[w])
            /\ attempt' = [attempt EXCEPT ![r][no[w]] = "running"]
            /\ status' = [status EXCEPT ![r] = "running"]
            /\ attemptCount' = [attemptCount EXCEPT ![r] = no[w]]
            /\ due' = due \ {r}
            /\ Goto(w, "check")
            /\ UNCHANGED <<task, marks, expired>>
         \/ /\ ~NumberFree(r, no[w])
            /\ Goto(w, "release")
            /\ UNCHANGED rows
      /\ UNCHANGED <<linked, authorised, owner, job, no, flags, check, result, history,
                     faultVars>>

-----------------------------------------------------------------------------
(* executeAttempt(): control checks, the handler and the final write *)

\* checkControl() begins with the ownership probe (the query fails on a session
\* the server has ended, as any of the queries may) and canExecute, whose
\* refusal is written into the row as a cancellation. What the row said before
\* is read again afterwards.
ProbeLock(w) ==
  LET r == job[w]
  IN  /\ pc[w] \in Attempting
      /\ check[w] = "none"
      /\ \/ /\ check' = [check EXCEPT ![w] = "unknown"]
            /\ UNCHANGED cancelRequested
         \/ /\ owner[task[r]] = w
            /\ check' = [check EXCEPT ![w] = "probed"]
            /\ cancelRequested' = IF r \in authorised THEN cancelRequested
                                                      ELSE cancelRequested \cup {r}
      /\ UNCHANGED <<task, status, requiresReview, reviewed, clock, ledger, linked, authorised,
                     owner, pc, job, no, flags, result, history, faultVars>>

\* Mutation: only the answer of canExecute counts.
CancelRevoked(r) == r \notin authorised

CancelSeen(r) == r \in cancelRequested

\* The row is read after the probe, when the lock may already be lost again.
ReadFlag(w) ==
  /\ check[w] = "probed"
  /\ \E c \in {"unknown", IF CancelSeen(job[w]) THEN "cancel" ELSE "clear"} :
        check' = [check EXCEPT ![w] = c]
  /\ UNCHANGED <<rows, linked, authorised, owner, pc, job, no, flags, result, history, faultVars>>

\* What the check that settles adds to the flags of the attempt.
Raised(w) == CASE check[w] = "unknown" -> {"aborted", "controlFailure"}
               [] check[w] = "cancel" -> {"aborted", "cancellation"}
               [] OTHER -> {}

SettleCheck(w) ==
  /\ check[w] \in {"clear", "cancel", "unknown"}
  /\ check' = [check EXCEPT ![w] = "none"]
  /\ flags' = [flags EXCEPT ![w] = @ \cup Raised(w)]

\* The first check settles: the handler is called in the same turn unless the
\* signal was aborted; a skipped handler leaves the default "succeeded".
Invoke(w) ==
  /\ pc[w] = "check"
  /\ SettleCheck(w)
  /\ IF flags'[w] = {}
     THEN /\ invoked' = [invoked EXCEPT ![job[w]][no[w]] = @ + 1]
          /\ Goto(w, "handling")
          /\ UNCHANGED result
     ELSE /\ Goto(w, "confirm")
          /\ result' = [result EXCEPT ![w] = "succeeded"]
          /\ UNCHANGED invoked
  /\ UNCHANGED <<rows, linked, authorised, owner, job, no, withdrawn, faultVars>>

\* A periodic check settles while something else is awaited.
Notice(w) ==
  /\ pc[w] \in {"handling", "commit", "release"}
  /\ SettleCheck(w)
  /\ UNCHANGED <<rows, linked, authorised, owner, pc, job, no, result, history, faultVars>>

\* The deadline timer: controller.abort().
Timeout(w) ==
  /\ pc[w] \in {"check", "handling", "confirm"}
  /\ "aborted" \notin flags[w]
  /\ flags' = [flags EXCEPT ![w] = @ \cup {"aborted"}]
  /\ UNCHANGED <<rows, linked, authorised, owner, pc, job, no, check, result, history,
                 faultVars>>

\* handler.execute() resolves with a valid output, or rejects.
HandlerReturn(w) ==
  /\ pc[w] = "handling"
  /\ \E s \in {"succeeded", "failed"} : result' = [result EXCEPT ![w] = s]
  /\ Goto(w, "confirm")
  /\ UNCHANGED <<rows, linked, authorised, owner, job, no, flags, check, history, faultVars>>

\* The status of the attempt: controlFailure wins over cancellation, which wins
\* over the abort and the deadline, which win over the handler's own result.
AttemptStatus(w, f) ==
  CASE "controlFailure" \in f -> "failed"
    [] "controlFailure" \notin f /\ "cancellation" \in f -> "cancelled"
    [] f = {"aborted"} -> "failed"
    [] OTHER -> IF job[w] \in expired THEN "failed" ELSE result[w]

\* Mutation: the last attempt is retried once more.
AttemptsLeftOffByOne(w) == no[w] <= MaxAttempts

AttemptsLeft(w) == no[w] < MaxAttempts

\* Mutation: the handler is not asked whether it is idempotent.
MayRetryAny(w, f) ==
  AttemptStatus(w, f) = "failed" /\ "aborted" \notin f /\ AttemptsLeft(w)

\* The conditions of an automatic retry. Whether nextAttemptAt still lies
\* before the deadline is not known to the model unless the deadline passed.
MayRetry(w, f) ==
  /\ AttemptStatus(w, f) = "failed"
  /\ "aborted" \notin f
  /\ task[job[w]] \in Idempotent
  /\ AttemptsLeft(w)
  /\ job[w] \notin expired

\* The second check settles and the status to write is computed.
Conclude(w) ==
  /\ pc[w] = "confirm"
  /\ SettleCheck(w)
  /\ LET f == flags'[w]
     IN  \E s \in {AttemptStatus(w, f)} \cup (IF MayRetry(w, f) THEN {"pending"} ELSE {}) :
            result' = [result EXCEPT ![w] = s]
  /\ Goto(w, "commit")
  /\ UNCHANGED <<rows, linked, authorised, owner, job, no, history, faultVars>>

\* The final transaction writes both rows by identity. requiresReview is read
\* from the closure variable inside the transaction, after the status was
\* computed: a periodic check that failed in between is seen by the one and
\* not by the other. nextAttemptAt lies ahead (Begin has left the run not due).
Commit(w) ==
  LET r == job[w]
  IN  /\ pc[w] = "commit"
      /\ attempt' = [attempt EXCEPT ![r][no[w]] =
                       IF result[w] = "pending" THEN "failed" ELSE result[w]]
      /\ status' = [status EXCEPT ![r] = result[w]]
      /\ requiresReview' = IF "controlFailure" \in flags[w] THEN requiresReview \cup {r}
                                                          ELSE requiresReview \ {r}
      /\ Goto(w, "release")
      /\ UNCHANGED <<task, cancelRequested, reviewed, clock, attemptCount, linked, authorised,
                     owner, job, no, flags, check, result, history, faultVars>>

\* finally: the check in flight is awaited, then RELEASE_LOCK, or the session
\* is destroyed when a probe had failed on it.
Release(w) ==
  /\ pc[w] = "release"
  /\ check[w] = "none"
  /\ FreeLock(w)
  /\ Forget(w)
  /\ UNCHANGED <<rows, linked, authorised, history, faultVars>>

-----------------------------------------------------------------------------
(* Faults *)

\* The worker process dies, or a query or transaction rejects and the error
\* leaves process(): what it was about to write is lost and its session ends.
Crash(w) ==
  /\ faults + losses < MaxFaults
  /\ pc[w] # "idle"
  /\ faults' = faults + 1
  /\ FreeLock(w)
  /\ Forget(w)
  /\ UNCHANGED <<rows, linked, authorised, history, losses>>

\* The server ends the lock session; the worker does not know.
LoseSession(w) ==
  /\ losses < MaxLosses
  /\ faults + losses < MaxFaults
  /\ \E t \in Tasks : owner[t] = w
  /\ losses' = losses + 1
  /\ FreeLock(w)
  /\ UNCHANGED <<rows, linked, authorised, locals, history, faults>>

-----------------------------------------------------------------------------

Before(w) == Acquire(w) \/ Busy(w) \/ ReadRun(w) \/ Interrupt(w) \/ Authorise(w)
             \/ FindUncertain(w) \/ Resolve(w) \/ Settle(w) \/ Begin(w)

Executing(w) == Invoke(w) \/ HandlerReturn(w) \/ Conclude(w) \/ Commit(w)

Step(w) == Before(w) \/ Executing(w) \/ ProbeLock(w) \/ ReadFlag(w) \/ Notice(w) \/ Release(w)

Environment ==
  \/ \E r \in Runs, t \in Tasks : Start(r, t)
  \/ \E r \in Runs : \/ Link(r) \/ Cancel(r) \/ Review(r) \/ Revoke(r)
                     \/ BecomeDue(r) \/ Expire(r)
  \/ \E r \in Runs : CancelParent(ParentOf[r])
  \/ \E w \in Workers : Timeout(w) \/ Crash(w) \/ LoseSession(w)

Next ==
  \/ Environment
  \/ \E w \in Workers : Step(w)
  \/ \E w \in Workers, r \in Runs : Dequeue(w, r)

Spec == Init /\ [][Next]_vars

\* Each 500 ms the pump queues again the runs that a waiting activity of an open
\* workflow run names (at most 100, taken to be enough), so an idle worker gets to
\* them; such an activity waits until its run has ended. Awaited queries return or
\* fail; a handler returns, on its own or on the abort signal; time passes. Nothing
\* forces a request, the link of a run, a fault or a loss.
Fairness ==
  /\ \A r \in Runs : WF_vars(\E w \in Workers : Dequeue(w, r))
  /\ \A r \in Runs : WF_vars(BecomeDue(r))
  /\ \A w \in Workers :
       /\ WF_vars(Before(w))
       /\ WF_vars(Executing(w))
       /\ WF_vars(ProbeLock(w) /\ pc[w] \in {"check", "confirm"})
       /\ WF_vars(ReadFlag(w))
       /\ WF_vars(Notice(w) /\ pc[w] = "release")
       /\ WF_vars(Release(w))

FairSpec == Spec /\ Fairness

-----------------------------------------------------------------------------
(* Properties *)

\* Every variable keeps its type; no worker ever plans an attempt beyond
\* maxAttempts, though the number comes from a snapshot.
TypeOK ==
  /\ task \in [Runs -> Tasks \cup {NoTask}]
  /\ status \in [Runs -> Open \cup Terminal \cup {"absent"}]
  /\ attemptCount \in [Runs -> 0 .. MaxAttempts]
  /\ cancelRequested \subseteq Runs /\ requiresReview \subseteq Runs
  /\ reviewed \subseteq Runs /\ due \subseteq Runs /\ expired \subseteq Runs
  /\ attempt \in [Runs -> [AttemptNos -> {"none", "running"} \cup Terminal]]
  /\ linked \subseteq Runs /\ authorised \subseteq Runs
  /\ owner \in [Tasks -> Workers \cup {NoWorker}]
  /\ pc \in [Workers -> {"idle", "acquire"} \cup Inside]
  /\ job \in [Workers -> Runs \cup {NoRun}]
  /\ no \in [Workers -> 0 .. MaxAttempts]
  /\ flags \in [Workers -> SUBSET {"aborted", "cancellation", "controlFailure"}]
  /\ check \in [Workers -> {"none", "probed", "clear", "cancel", "unknown"}]
  /\ result \in [Workers -> {"none", "pending"} \cup Terminal]
  /\ invoked \in [Runs -> [AttemptNos -> Nat]]
  /\ withdrawn \subseteq Runs
  /\ faults \in Nat
  /\ losses \in Nat

\* The handler is called at most once for each attempt number, and at most
\* once for the whole run when its task is not idempotent, whatever crashes,
\* redeliveries and lost lock sessions happen ("崩溃遗留的副作用不会自动重放").
AtMostOnceEffect ==
  \A r \in Runs, n \in AttemptNos :
    /\ invoked[r][n] <= 1
    /\ invoked[r][n] = 1 /\ task[r] \notin Idempotent
         => \A m \in AttemptNos \ {n} : invoked[r][m] = 0

\* A run whose cancellation was recorded while it waited, for its first attempt
\* or for a retry, never has its handler called again, even when a worker had
\* read the row before and even when the lock is lost.
WithdrawnNeverExecutes ==
  [][\A r \in withdrawn : invoked'[r] = invoked[r]]_vars

\* The runs that a worker was permitted to carry out and has not begun.
Permitted ==
  {r \in Runs : \E w \in Workers : job[w] = r /\ pc[w] \in {"uncertain", "resolve", "begin"}}

\* While the lock is kept, the rows of all runs live as WorkflowRun has it of its
\* actions: no run begins without a permission given while it waited, none is
\* carried out again unless its handler is idempotent, and an outcome, though
\* it is written by identity, is never written over another one.
Life == INSTANCE TaskLife WITH
          stage <- status, cancelled <- cancelRequested, permit <- Permitted,
          allowed <- authorised, repeatable <- {r \in Runs : task[r] \in Idempotent}
ImplementsLife == Life!Spec

\* While the lock is kept, a finished run is never reopened or given another
\* outcome, though every final write is by identity and looks at no status.
TerminalIsFinal ==
  [][\A r \in Runs : status[r] \in Terminal => status'[r] = status[r]]_vars

\* While the lock is kept, no attempt starts on a task that has a run whose
\* outcome waits for a review.
BlockedWhileUnknown ==
  [][\A r, q \in Runs :
       /\ status[r] = "pending" /\ status'[r] = "running"
       /\ task[q] = task[r]
       => q \notin requiresReview]_vars

\* The attempt numbers used are 1..attemptCount, whatever happens; and while no
\* lock session was lost, the attempt rows tell the same story as the run row:
\* a running run has exactly its last attempt running, and no other run has a
\* running attempt.
AttemptLedger ==
  \A r \in Runs, n \in AttemptNos :
    /\ attempt[r][n] # "none" <=> n <= attemptCount[r]
    /\ losses = 0 => (attempt[r][n] = "running"
                         <=> status[r] = "running" /\ n = attemptCount[r])

\* A run that an activity names reaches an outcome, though workers crash and lose
\* the lock. Of a run that was started and never named nobody takes care.
EventuallySettled ==
  \A r \in Runs : r \in linked ~> status[r] \in Terminal

\* What the blocking message asks for ("请先核查副作用") can be done: a run that
\* blocks its task is one that review() accepts.
BlockingRunIsReviewable ==
  \A r \in Runs : r \in requiresReview => status[r] = "failed"

\* A run that was terminated as an unknown failure keeps that outcome.
InterruptedStaysFailed ==
  [][\A r \in Runs : status[r] = "failed" /\ r \in requiresReview
                       => status'[r] = "failed"]_vars
=============================================================================
