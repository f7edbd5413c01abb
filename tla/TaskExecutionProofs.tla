------------------------ MODULE TaskExecutionProofs ------------------------
(***************************************************************************)
(* TaskExecution keeps its types, calls a handler at most once per attempt *)
(* (at most once per run when the task is not idempotent) and never calls  *)
(* it for a run that was cancelled while it waited, for any number of      *)
(* runs, tasks, workers, attempts, crashes and lost lock sessions.         *)
(*                                                                         *)
(* This first part never uses the lock. It rests on the unique attempt     *)
(* number and on this: a worker plans attempt n from a row that said       *)
(* pending with n - 1 attempts, only the worker of the last attempt writes *)
(* pending, and a number that has been used is refused. The second part    *)
(* adds what the lock is for, and the last how process() ends.             *)
(***************************************************************************)
EXTENDS TaskExecution, TLAPS

-----------------------------------------------------------------------------
(* The inductive invariant *)

\* Positions of a worker that has planned an attempt number and not begun it.
Planned == {"authorise", "uncertain", "resolve", "begin"}

\* What a worker believes, against the row it works on.
WorkerInv(w) ==
  /\ pc[w] # "idle" => job[w] \in Runs /\ status[job[w]] # "absent"
  /\ pc[w] \in Planned =>
       /\ no[w] \in AttemptNos
       /\ no[w] <= attemptCount[job[w]] + 1
       /\ no[w] > 1 => task[job[w]] \in Idempotent
  /\ pc[w] \in Attempting =>
       /\ no[w] \in AttemptNos
       /\ attemptCount[job[w]] = no[w]
       /\ status[job[w]] # "pending"
  /\ pc[w] = "check" => invoked[job[w]][no[w]] = 0
  /\ pc[w] = "settle" => result[w] \in {"failed", "cancelled"}
  /\ pc[w] = "confirm" => result[w] \in {"succeeded", "failed"}
  /\ pc[w] = "commit" => result[w] \in Terminal \cup {"pending"}
  /\ pc[w] = "commit" /\ result[w] = "pending" =>
       no[w] < MaxAttempts /\ task[job[w]] \in Idempotent
  /\ check[w] # "none" => pc[w] \in Attempting \cup {"release"}

\* A row, against its attempts and the calls of the handler.
RunInv(r) ==
  /\ status[r] = "absent" => attemptCount[r] = 0
  /\ status[r] = "pending" =>
       /\ attemptCount[r] < MaxAttempts
       /\ attemptCount[r] > 0 => task[r] \in Idempotent
  /\ attemptCount[r] > 1 => task[r] \in Idempotent
  /\ \A n \in AttemptNos :
       /\ attempt[r][n] = "none" <=> n > attemptCount[r]
       /\ attempt[r][n] = "none" => invoked[r][n] = 0
       /\ invoked[r][n] <= 1

\* Nobody else is in an attempt of the same run, or still has a number to use.
PairInv(w, v) ==
  w # v /\ pc[w] \in Attempting /\ job[v] = job[w] =>
    /\ pc[v] \notin Attempting
    /\ pc[v] \in Planned => no[v] <= attemptCount[job[w]]

\* A cancellation that reached a pending row is seen by the first check.
CancelInv ==
  /\ withdrawn \subseteq cancelRequested
  /\ \A w \in Workers :
       pc[w] = "check" /\ job[w] \in withdrawn => check[w] # "clear"

IInv ==
  /\ TypeOK
  /\ \A w \in Workers : WorkerInv(w)
  /\ \A r \in Runs : RunInv(r)
  /\ \A w, v \in Workers : PairInv(w, v)
  /\ CancelInv

-----------------------------------------------------------------------------

LEMMA InitIInv == Init => IInv
  BY ConstantsAssumption
  DEF Init, IInv, TypeOK, WorkerInv, RunInv, PairInv, CancelInv, AttemptNos,
      Open, Terminal, Attempting, Inside, Planned

LEMMA StepIInv == IInv /\ [Next]_vars => IInv'
<1>. SUFFICES ASSUME IInv, [Next]_vars PROVE IInv'
  OBVIOUS
<1>. USE ConstantsAssumption
     DEF Attempting, Planned, Terminal, Open, AttemptNos, Inside, Goto,
         marks, clock, ledger, rows, locals, history, faultVars
<1>1. ASSUME NEW r \in Runs, NEW t \in Tasks, Start(r, t) PROVE IInv'
  <2>. USE <1>1 DEF Start
  <2>1. TypeOK'
    BY SMTT(20) DEF IInv, TypeOK
  <2>2. \A v \in Workers : WorkerInv(v)'
    BY SMTT(20) DEF IInv, TypeOK, WorkerInv
  <2>3. \A q \in Runs : RunInv(q)'
    BY SMTT(20) DEF IInv, TypeOK, RunInv
  <2>4. \A v, u \in Workers : PairInv(v, u)'
    BY SMTT(20) DEF IInv, TypeOK, PairInv
  <2>5. CancelInv'
    BY SMTT(20) DEF IInv, TypeOK, CancelInv
  <2>. QED BY <2>1, <2>2, <2>3, <2>4, <2>5 DEF IInv
<1>2. ASSUME NEW S \in SUBSET Runs, RequestCancel(S) PROVE IInv'
  <2>. USE <1>2 DEF RequestCancel
  <2>1. TypeOK'
    BY SMTT(20) DEF IInv, TypeOK
  <2>2. \A v \in Workers : WorkerInv(v)'
    BY SMTT(20) DEF IInv, TypeOK, WorkerInv
  <2>3. \A q \in Runs : RunInv(q)'
    BY SMTT(20) DEF IInv, TypeOK, RunInv
  <2>4. \A v, u \in Workers : PairInv(v, u)'
    BY SMTT(20) DEF IInv, TypeOK, PairInv
  <2>5. CancelInv'
    BY SMTT(20) DEF IInv, TypeOK, CancelInv, WorkerInv
  <2>. QED BY <2>1, <2>2, <2>3, <2>4, <2>5 DEF IInv
<1>3. ASSUME NEW r \in Runs, Review(r) PROVE IInv'
  <2>. USE <1>3 DEF Review
  <2>1. TypeOK'
    BY SMTT(20) DEF IInv, TypeOK
  <2>2. \A v \in Workers : WorkerInv(v)'
    BY SMTT(20) DEF IInv, TypeOK, WorkerInv
  <2>3. \A q \in Runs : RunInv(q)'
    BY SMTT(20) DEF IInv, TypeOK, RunInv
  <2>4. \A v, u \in Workers : PairInv(v, u)'
    BY SMTT(20) DEF IInv, TypeOK, PairInv
  <2>5. CancelInv'
    BY SMTT(20) DEF IInv, TypeOK, CancelInv
  <2>. QED BY <2>1, <2>2, <2>3, <2>4, <2>5 DEF IInv
<1>4. ASSUME NEW r \in Runs, Revoke(r) \/ Link(r) PROVE IInv'
  <2>. USE <1>4 DEF Revoke, Link
  <2>1. TypeOK'
    BY SMTT(20) DEF IInv, TypeOK
  <2>2. \A v \in Workers : WorkerInv(v)'
    BY SMTT(20) DEF IInv, TypeOK, WorkerInv
  <2>3. \A q \in Runs : RunInv(q)'
    BY SMTT(20) DEF IInv, TypeOK, RunInv
  <2>4. \A v, u \in Workers : PairInv(v, u)'
    BY SMTT(20) DEF IInv, TypeOK, PairInv
  <2>5. CancelInv'
    BY SMTT(20) DEF IInv, TypeOK, CancelInv
  <2>. QED BY <2>1, <2>2, <2>3, <2>4, <2>5 DEF IInv
<1>5. ASSUME NEW r \in Runs, BecomeDue(r) PROVE IInv'
  <2>. USE <1>5 DEF BecomeDue
  <2>1. TypeOK'
    BY SMTT(20) DEF IInv, TypeOK
  <2>2. \A v \in Workers : WorkerInv(v)'
    BY SMTT(20) DEF IInv, TypeOK, WorkerInv
  <2>3. \A q \in Runs : RunInv(q)'
    BY SMTT(20) DEF IInv, TypeOK, RunInv
  <2>4. \A v, u \in Workers : PairInv(v, u)'
    BY SMTT(20) DEF IInv, TypeOK, PairInv
  <2>5. CancelInv'
    BY SMTT(20) DEF IInv, TypeOK, CancelInv
  <2>. QED BY <2>1, <2>2, <2>3, <2>4, <2>5 DEF IInv
<1>6. ASSUME NEW r \in Runs, Expire(r) PROVE IInv'
  <2>. USE <1>6 DEF Expire
  <2>1. TypeOK'
    BY SMTT(20) DEF IInv, TypeOK
  <2>2. \A v \in Workers : WorkerInv(v)'
    BY SMTT(20) DEF IInv, TypeOK, WorkerInv
  <2>3. \A q \in Runs : RunInv(q)'
    BY SMTT(20) DEF IInv, TypeOK, RunInv
  <2>4. \A v, u \in Workers : PairInv(v, u)'
    BY SMTT(20) DEF IInv, TypeOK, PairInv
  <2>5. CancelInv'
    BY SMTT(20) DEF IInv, TypeOK, CancelInv
  <2>. QED BY <2>1, <2>2, <2>3, <2>4, <2>5 DEF IInv
<1>7. ASSUME NEW w \in Workers, NEW r \in Runs, Dequeue(w, r) PROVE IInv'
  <2>. USE <1>7 DEF Dequeue
  <2>1. TypeOK'
    BY SMTT(20) DEF IInv, TypeOK
  <2>2. \A v \in Workers : WorkerInv(v)'
    BY SMTT(20) DEF IInv, TypeOK, WorkerInv, RunInv
  <2>3. \A q \in Runs : RunInv(q)'
    BY SMTT(20) DEF IInv, TypeOK, RunInv
  <2>4. \A v, u \in Workers : PairInv(v, u)'
    BY SMTT(20) DEF IInv, TypeOK, PairInv
  <2>5. CancelInv'
    BY SMTT(20) DEF IInv, TypeOK, CancelInv
  <2>. QED BY <2>1, <2>2, <2>3, <2>4, <2>5 DEF IInv
<1>8. ASSUME NEW w \in Workers, Acquire(w) PROVE IInv'
  <2>. USE <1>8 DEF Acquire
  <2>t. pc \in [Workers -> {"idle", "acquire"} \cup Inside] /\ owner \in [Tasks -> Workers \cup {NoWorker}]
    BY DEF IInv, TypeOK
  <2>1. TypeOK'
    <3>1. pc' \in [Workers -> {"idle", "acquire"} \cup Inside]
      BY <2>t DEF Inside
    <3>2. owner' \in [Tasks -> Workers \cup {NoWorker}]
      BY <2>t
    <3>. QED BY <3>1, <3>2 DEF IInv, TypeOK
  <2>2. \A v \in Workers : WorkerInv(v)'
    BY SMTT(20) DEF IInv, TypeOK, WorkerInv
  <2>3. \A q \in Runs : RunInv(q)'
    BY SMTT(20) DEF IInv, TypeOK, RunInv
  <2>4. \A v, u \in Workers : PairInv(v, u)'
    BY SMTT(20) DEF IInv, TypeOK, PairInv
  <2>5. CancelInv'
    BY SMTT(20) DEF IInv, TypeOK, CancelInv
  <2>. QED BY <2>1, <2>2, <2>3, <2>4, <2>5 DEF IInv
<1>9. ASSUME NEW w \in Workers, Busy(w) PROVE IInv'
  <2>. USE <1>9 DEF Busy, Forget
  <2>1. TypeOK'
    BY SMTT(20) DEF IInv, TypeOK
  <2>2. \A v \in Workers : WorkerInv(v)'
    BY SMTT(20) DEF IInv, TypeOK, WorkerInv
  <2>3. \A q \in Runs : RunInv(q)'
    BY SMTT(20) DEF IInv, TypeOK, RunInv
  <2>4. \A v, u \in Workers : PairInv(v, u)'
    BY SMTT(20) DEF IInv, TypeOK, PairInv
  <2>5. CancelInv'
    BY SMTT(20) DEF IInv, TypeOK, CancelInv
  <2>. QED BY <2>1, <2>2, <2>3, <2>4, <2>5 DEF IInv
<1>10. ASSUME NEW w \in Workers, ReadRun(w) PROVE IInv'
  <2>. USE <1>10 DEF ReadRun, Finished
  <2>0. job[w] \in Runs /\ status[job[w]] # "absent"
    BY DEF IInv, WorkerInv
  <2>t. pc \in [Workers -> {"idle", "acquire"} \cup Inside] /\ result \in [Workers -> {"none", "pending"} \cup Terminal]
    BY DEF IInv, TypeOK
  <2>a. CASE status[job[w]] # "pending"
    <3>0. /\ \/ pc' = [pc EXCEPT ![w] = "release"]
             \/ pc' = [pc EXCEPT ![w] = "interrupt"]
          /\ UNCHANGED <<no, result>>
      BY <2>a
    <3>1. TypeOK'
      <4>1. pc' \in [Workers -> {"idle", "acquire"} \cup Inside]
        BY <3>0, <2>t DEF Inside
      <4>. QED BY <3>0, <4>1 DEF IInv, TypeOK
    <3>2. \A v \in Workers : WorkerInv(v)'
      BY <3>0 DEF IInv, TypeOK, WorkerInv
    <3>3. \A q \in Runs : RunInv(q)'
      BY DEF IInv, RunInv
    <3>4. \A v, u \in Workers : PairInv(v, u)'
      <4>1. \A v \in Workers : pc'[v] = pc[v] \/ pc'[v] \in {"release", "interrupt"}
        BY <3>0 DEF IInv, TypeOK
      <4>. QED BY <3>0, <4>1 DEF IInv, PairInv
    <3>5. CancelInv'
      BY <2>0, <2>a DEF IInv, TypeOK, CancelInv
    <3>. QED BY <3>1, <3>2, <3>3, <3>4, <3>5 DEF IInv
  <2>b. CASE status[job[w]] = "pending"
    <3>0. /\ attemptCount[job[w]] \in 0 .. MaxAttempts
          /\ attemptCount[job[w]] < MaxAttempts
          /\ no' = [no EXCEPT ![w] = attemptCount[job[w]] + 1]
          /\ \A v \in Workers : pc[v] \in Attempting => job[v] # job[w]
      BY <2>0, <2>b DEF IInv, TypeOK, WorkerInv, RunInv
    <3>1. TypeOK'
      <4>1. no' \in [Workers -> 0 .. MaxAttempts]
        BY <3>0 DEF IInv, TypeOK
      <4>2. /\ pc' \in [Workers -> {"idle", "acquire"} \cup Inside]
            /\ result' \in [Workers -> {"none", "pending"} \cup Terminal]
        BY <2>b, <2>t DEF Inside, Terminal
      <4>. QED BY <4>1, <4>2 DEF IInv, TypeOK
    <3>2. \A v \in Workers : WorkerInv(v)'
      <4>1. \/ pc' = [pc EXCEPT ![w] = "settle"]
               /\ result' = [result EXCEPT ![w] = "cancelled"]
            \/ pc' = [pc EXCEPT ![w] = "authorise"] /\ result' = result
        BY <2>b
      <4>2. attemptCount[job[w]] > 0 => task[job[w]] \in Idempotent
        BY <2>0, <2>b DEF IInv, RunInv
      <4>. QED BY <2>0, <3>0, <4>1, <4>2, SMTT(30) DEF IInv, TypeOK, WorkerInv
    <3>3. \A q \in Runs : RunInv(q)'
      BY <2>0, <2>b DEF IInv, RunInv
    <3>4. \A v, u \in Workers : PairInv(v, u)'
      BY <2>0, <2>b, <3>0 DEF IInv, TypeOK, PairInv
    <3>5. CancelInv'
      BY <2>0, <2>b DEF IInv, TypeOK, CancelInv
    <3>. QED BY <3>1, <3>2, <3>3, <3>4, <3>5 DEF IInv
  <2>. QED BY <2>a, <2>b
<1>11. ASSUME NEW w \in Workers, Interrupt(w) PROVE IInv'
  <2>. USE <1>11 DEF Interrupt, FailRunning
  <2>1. TypeOK'
    BY SMTT(20) DEF IInv, TypeOK, WorkerInv
  <2>2. \A v \in Workers : WorkerInv(v)'
    BY SMTT(20) DEF IInv, TypeOK, WorkerInv
  <2>3. \A q \in Runs : RunInv(q)'
    BY SMTT(20) DEF IInv, TypeOK, RunInv, WorkerInv
  <2>4. \A v, u \in Workers : PairInv(v, u)'
    BY SMTT(20) DEF IInv, TypeOK, PairInv
  <2>5. CancelInv'
    BY SMTT(20) DEF IInv, TypeOK, CancelInv
  <2>. QED BY <2>1, <2>2, <2>3, <2>4, <2>5 DEF IInv
<1>12. ASSUME NEW w \in Workers, Authorise(w) PROVE IInv'
  <2>. USE <1>12 DEF Authorise
  <2>0. \/ \E s \in {"cancelled", "failed"} :
             pc' = [pc EXCEPT ![w] = "settle"] /\ result' = [result EXCEPT ![w] = s]
        \/ \E place \in {"uncertain", "release"} :
             pc' = [pc EXCEPT ![w] = place] /\ result' = result
    OBVIOUS
  <2>t. pc \in [Workers -> {"idle", "acquire"} \cup Inside] /\ result \in [Workers -> {"none", "pending"} \cup Terminal]
    BY DEF IInv, TypeOK
  <2>1. TypeOK'
    <3>1. pc' \in [Workers -> {"idle", "acquire"} \cup Inside]
      BY <2>0, <2>t DEF Inside
    <3>2. result' \in [Workers -> {"none", "pending"} \cup Terminal]
      BY <2>0, <2>t DEF Terminal
    <3>. QED BY <3>1, <3>2 DEF IInv, TypeOK
  <2>2. \A v \in Workers : WorkerInv(v)'
    BY <2>0, SMTT(20) DEF IInv, TypeOK, WorkerInv
  <2>3. \A q \in Runs : RunInv(q)'
    BY SMTT(20) DEF IInv, TypeOK, RunInv
  <2>4. \A v, u \in Workers : PairInv(v, u)'
    <3>1. \E place \in {"settle", "uncertain", "release"} :
             pc' = [pc EXCEPT ![w] = place]
      OBVIOUS
    <3>2. \A v \in Workers : pc'[v] \in Attempting \cup Planned
                              => pc[v] \in Attempting \cup Planned
      BY <3>1 DEF IInv, TypeOK
    <3>3. \A v \in Workers : pc'[v] \in Attempting <=> pc[v] \in Attempting
      BY <3>1 DEF IInv, TypeOK
    <3>. QED BY <3>2, <3>3 DEF IInv, PairInv
  <2>5. CancelInv'
    BY SMTT(20) DEF IInv, TypeOK, CancelInv
  <2>. QED BY <2>1, <2>2, <2>3, <2>4, <2>5 DEF IInv
<1>13. ASSUME NEW w \in Workers, FindUncertain(w) PROVE IInv'
  <2>. USE <1>13 DEF FindUncertain, Uncertain
  <2>0. \/ pc' = [pc EXCEPT ![w] = "settle"] /\ result' = [result EXCEPT ![w] = "failed"]
        \/ pc' = [pc EXCEPT ![w] = "resolve"] /\ result' = result
    OBVIOUS
  <2>t. pc \in [Workers -> {"idle", "acquire"} \cup Inside] /\ result \in [Workers -> {"none", "pending"} \cup Terminal]
    BY DEF IInv, TypeOK
  <2>1. TypeOK'
    <3>1. pc' \in [Workers -> {"idle", "acquire"} \cup Inside]
      BY <2>0, <2>t DEF Inside
    <3>2. result' \in [Workers -> {"none", "pending"} \cup Terminal]
      BY <2>0, <2>t DEF Terminal
    <3>. QED BY <3>1, <3>2 DEF IInv, TypeOK
  <2>2. \A v \in Workers : WorkerInv(v)'
    <3>1. /\ pc[w] = "uncertain"
          /\ \/ pc'[w] = "settle" /\ result'[w] = "failed"
             \/ pc'[w] = "resolve"
      BY <2>0, <2>t
    <3>2. \A v \in Workers : v # w => pc'[v] = pc[v] /\ result'[v] = result[v]
      BY <2>0, <2>t
    <3>3. WorkerInv(w)'
      BY <3>1 DEF IInv, WorkerInv
    <3>4. ASSUME NEW v \in Workers, v # w PROVE WorkerInv(v)'
      BY <3>2, <3>4 DEF IInv, WorkerInv
    <3>. QED BY <3>3, <3>4
  <2>3. \A q \in Runs : RunInv(q)'
    BY SMTT(20) DEF IInv, TypeOK, RunInv
  <2>4. \A v, u \in Workers : PairInv(v, u)'
    <3>1. pc'[w] \in {"resolve", "settle"} /\ pc[w] = "uncertain"
      BY <2>0, <2>t
    <3>2. \A v \in Workers : v # w => pc'[v] = pc[v]
      BY <2>0, <2>t
    <3>. QED BY <3>1, <3>2 DEF IInv, PairInv
  <2>5. CancelInv'
    BY SMTT(20) DEF IInv, TypeOK, CancelInv
  <2>. QED BY <2>1, <2>2, <2>3, <2>4, <2>5 DEF IInv
<1>14. ASSUME NEW w \in Workers, Resolve(w) PROVE IInv'
  <2>. USE <1>14 DEF Resolve
  <2>0. \/ pc' = [pc EXCEPT ![w] = "settle"] /\ result' = [result EXCEPT ![w] = "failed"]
        \/ pc' = [pc EXCEPT ![w] = "begin"] /\ result' = result
    OBVIOUS
  <2>t. pc \in [Workers -> {"idle", "acquire"} \cup Inside] /\ result \in [Workers -> {"none", "pending"} \cup Terminal]
    BY DEF IInv, TypeOK
  <2>1. TypeOK'
    <3>1. pc' \in [Workers -> {"idle", "acquire"} \cup Inside]
      BY <2>0, <2>t DEF Inside
    <3>2. result' \in [Workers -> {"none", "pending"} \cup Terminal]
      BY <2>0, <2>t DEF Terminal
    <3>. QED BY <3>1, <3>2 DEF IInv, TypeOK
  <2>2. \A v \in Workers : WorkerInv(v)'
    BY SMTT(20) DEF IInv, TypeOK, WorkerInv
  <2>3. \A q \in Runs : RunInv(q)'
    BY DEF IInv, RunInv
  <2>4. \A v, u \in Workers : PairInv(v, u)'
    <3>1. pc'[w] \in {"begin", "settle"} /\ pc[w] = "resolve"
      BY DEF IInv, TypeOK
    <3>2. \A v \in Workers : v # w => pc'[v] = pc[v]
      BY DEF IInv, TypeOK
    <3>. QED BY <3>1, <3>2 DEF IInv, PairInv
  <2>5. CancelInv'
    BY SMTT(20) DEF IInv, TypeOK, CancelInv
  <2>. QED BY <2>1, <2>2, <2>3, <2>4, <2>5 DEF IInv
<1>15. ASSUME NEW w \in Workers, Settle(w) PROVE IInv'
  <2>. USE <1>15 DEF Settle
  <2>0. /\ job[w] \in Runs /\ status[job[w]] # "absent"
        /\ result[w] \in {"failed", "cancelled"}
    BY DEF IInv, WorkerInv
  <2>1. TypeOK'
    BY <2>0 DEF IInv, TypeOK
  <2>2. \A v \in Workers : WorkerInv(v)'
    BY <2>0 DEF IInv, TypeOK, WorkerInv
  <2>3. \A q \in Runs : RunInv(q)'
    <3>1. \A q \in Runs : status'[q] = status[q] \/ status'[q] \in {"failed", "cancelled"}
      BY <2>0 DEF IInv, TypeOK
    <3>. QED BY <3>1 DEF IInv, RunInv
  <2>4. \A v, u \in Workers : PairInv(v, u)'
    BY SMTT(20) DEF IInv, TypeOK, PairInv
  <2>5. CancelInv'
    BY SMTT(20) DEF IInv, TypeOK, CancelInv
  <2>. QED BY <2>1, <2>2, <2>3, <2>4, <2>5 DEF IInv
<1>16. ASSUME NEW w \in Workers, Begin(w) PROVE IInv'
  <2>. USE <1>16 DEF Begin, NumberFree
  <2>0. /\ job[w] \in Runs /\ status[job[w]] # "absent"
        /\ no[w] \in AttemptNos /\ no[w] <= attemptCount[job[w]] + 1
        /\ no[w] > 1 => task[job[w]] \in Idempotent
        /\ check[w] = "none"
        /\ attemptCount[job[w]] \in 0 .. MaxAttempts
    BY DEF IInv, WorkerInv, TypeOK
  <2>a. CASE attempt[job[w]][no[w]] # "none"
    <3>0. pc' = [pc EXCEPT ![w] = "release"] /\ UNCHANGED rows
      BY <2>a
    <3>1. TypeOK'
      BY <3>0 DEF IInv, TypeOK
    <3>2. \A v \in Workers : WorkerInv(v)'
      BY <3>0 DEF IInv, TypeOK, WorkerInv
    <3>3. \A q \in Runs : RunInv(q)'
      BY <3>0 DEF IInv, RunInv
    <3>4. \A v, u \in Workers : PairInv(v, u)'
      BY <3>0 DEF IInv, TypeOK, PairInv
    <3>5. CancelInv'
      BY <3>0 DEF IInv, TypeOK, CancelInv
    <3>. QED BY <3>1, <3>2, <3>3, <3>4, <3>5 DEF IInv
  <2>b. CASE attempt[job[w]][no[w]] = "none"
    \* A fresh number is the next one, so nobody else is in an attempt.
    <3>0. /\ no[w] = attemptCount[job[w]] + 1
          /\ invoked[job[w]][no[w]] = 0
          /\ \A v \in Workers : pc[v] \in Attempting => job[v] # job[w]
      <4>1. no[w] = attemptCount[job[w]] + 1 /\ invoked[job[w]][no[w]] = 0
        BY <2>0, <2>b DEF IInv, RunInv
      <4>2. ASSUME NEW v \in Workers, pc[v] \in Attempting, job[v] = job[w]
            PROVE  FALSE
        BY <2>0, <4>1, <4>2 DEF IInv, PairInv
      <4>. QED BY <4>1, <4>2
    <3>a. /\ pc' = [pc EXCEPT ![w] = "check"]
          /\ attempt' = [attempt EXCEPT ![job[w]][no[w]] = "running"]
          /\ status' = [status EXCEPT ![job[w]] = "running"]
          /\ attemptCount' = [attemptCount EXCEPT ![job[w]] = no[w]]
          /\ due' = due \ {job[w]}
          /\ UNCHANGED <<task, marks, expired, authorised, owner, job, no, flags, check,
                         result, history, faultVars>>
      BY <2>b
    <3>1. TypeOK'
      BY <2>0, <3>a DEF IInv, TypeOK
    <3>2. \A v \in Workers : WorkerInv(v)'
      <4>. SUFFICES ASSUME NEW v \in Workers PROVE WorkerInv(v)'
        OBVIOUS
      <4>1. CASE v = w
        BY <2>0, <3>0, <3>a, <4>1 DEF IInv, TypeOK, WorkerInv
      <4>2. CASE v # w /\ job[v] # job[w]
        <5>1. pc'[v] = pc[v]
          BY <2>0, <3>a, <4>2 DEF IInv, TypeOK
        <5>2. pc[v] # "idle" =>
                /\ job[v] \in Runs
                /\ status'[job[v]] = status[job[v]]
                /\ attemptCount'[job[v]] = attemptCount[job[v]]
          BY <2>0, <3>a, <4>2 DEF IInv, TypeOK, WorkerInv
        <5>. QED BY <3>a, <4>2, <5>1, <5>2 DEF IInv, WorkerInv
      <4>3. CASE v # w /\ job[v] = job[w]
        BY <2>0, <3>0, <3>a, <4>3 DEF IInv, TypeOK, WorkerInv
      <4>. QED BY <4>1, <4>2, <4>3
    <3>3. \A q \in Runs : RunInv(q)'
      <4>. SUFFICES ASSUME NEW q \in Runs PROVE RunInv(q)'
        OBVIOUS
      <4>1. CASE q # job[w]
        BY <2>0, <3>a, <4>1 DEF IInv, TypeOK, RunInv
      <4>2. CASE q = job[w]
        BY <2>0, <3>0, <3>a, <4>2 DEF IInv, TypeOK, RunInv
      <4>. QED BY <4>1, <4>2
    <3>4. \A v, u \in Workers : PairInv(v, u)'
      <4>1. \A v \in Workers : pc[v] \in Planned /\ job[v] = job[w] => no[v] <= no[w]
        BY <2>0, <3>0 DEF IInv, TypeOK, WorkerInv
      <4>. QED BY <2>0, <3>0, <3>a, <4>1 DEF IInv, TypeOK, PairInv
    <3>5. CancelInv'
      BY <2>0, <3>a DEF IInv, TypeOK, CancelInv
    <3>. QED BY <3>1, <3>2, <3>3, <3>4, <3>5 DEF IInv
  <2>. QED BY <2>a, <2>b
<1>17. ASSUME NEW w \in Workers, Invoke(w) PROVE IInv'
  <2>. USE <1>17 DEF Invoke, SettleCheck
  <2>0. /\ job[w] \in Runs /\ no[w] \in AttemptNos
        /\ attemptCount[job[w]] = no[w] /\ invoked[job[w]][no[w]] = 0
    BY DEF IInv, WorkerInv
  <2>1. /\ check' \in [Workers -> {"none", "probed", "clear", "cancel", "unknown"}]
        /\ flags' \in [Workers -> SUBSET {"aborted", "cancellation", "controlFailure"}]
    BY SMTT(20) DEF IInv, TypeOK, Raised
  <2>a. CASE flags'[w] = {}
    <3>0. /\ invoked' = [invoked EXCEPT ![job[w]][no[w]] = @ + 1]
          /\ pc' = [pc EXCEPT ![w] = "handling"]
          /\ result' = result
      BY <2>a
    <3>1. TypeOK'
      BY <2>0, <2>1, <3>0 DEF IInv, TypeOK
    <3>2. \A v \in Workers : WorkerInv(v)'
      BY <2>0, <3>0 DEF IInv, TypeOK, WorkerInv, PairInv
    <3>3. \A q \in Runs : RunInv(q)'
      <4>. SUFFICES ASSUME NEW q \in Runs PROVE RunInv(q)'
        OBVIOUS
      <4>1. CASE q # job[w]
        BY <2>0, <3>0, <4>1 DEF IInv, TypeOK, RunInv
      <4>2. CASE q = job[w]
        <5>1. invoked'[q] = [invoked[q] EXCEPT ![no[w]] = 1]
          BY <2>0, <3>0, <4>2 DEF IInv, TypeOK
        <5>2. attempt[q][no[w]] # "none"
          BY <2>0, <4>2 DEF IInv, RunInv, TypeOK
        <5>. QED BY <2>0, <4>2, <5>1, <5>2 DEF IInv, TypeOK, RunInv
      <4>. QED BY <4>1, <4>2
    <3>4. \A v, u \in Workers : PairInv(v, u)'
      BY <3>0 DEF IInv, TypeOK, PairInv
    <3>5. CancelInv'
      BY <3>0 DEF IInv, TypeOK, CancelInv
    <3>. QED BY <3>1, <3>2, <3>3, <3>4, <3>5 DEF IInv
  <2>b. CASE flags'[w] # {}
    <3>0. /\ result' = [result EXCEPT ![w] = "succeeded"]
          /\ pc' = [pc EXCEPT ![w] = "confirm"]
          /\ invoked' = invoked
      BY <2>b
    <3>1. TypeOK'
      BY <2>0, <2>1, <3>0 DEF IInv, TypeOK
    <3>2. \A v \in Workers : WorkerInv(v)'
      BY <2>0, <3>0 DEF IInv, TypeOK, WorkerInv
    <3>3. \A q \in Runs : RunInv(q)'
      BY <3>0 DEF IInv, RunInv
    <3>4. \A v, u \in Workers : PairInv(v, u)'
      BY <3>0 DEF IInv, TypeOK, PairInv
    <3>5. CancelInv'
      BY <3>0 DEF IInv, TypeOK, CancelInv
    <3>. QED BY <3>1, <3>2, <3>3, <3>4, <3>5 DEF IInv
  <2>. QED BY <2>a, <2>b
<1>18. ASSUME NEW w \in Workers, HandlerReturn(w) PROVE IInv'
  <2>. USE <1>18 DEF HandlerReturn
  <2>1. TypeOK'
    BY SMTT(20) DEF IInv, TypeOK
  <2>2. \A v \in Workers : WorkerInv(v)'
    BY SMTT(20) DEF IInv, TypeOK, WorkerInv
  <2>3. \A q \in Runs : RunInv(q)'
    BY SMTT(20) DEF IInv, TypeOK, RunInv
  <2>4. \A v, u \in Workers : PairInv(v, u)'
    BY SMTT(20) DEF IInv, TypeOK, PairInv
  <2>5. CancelInv'
    BY SMTT(20) DEF IInv, TypeOK, CancelInv
  <2>. QED BY <2>1, <2>2, <2>3, <2>4, <2>5 DEF IInv
<1>19. ASSUME NEW w \in Workers, Conclude(w) PROVE IInv'
  <2>. USE <1>19 DEF Conclude, SettleCheck
  <2>0. /\ job[w] \in Runs /\ no[w] \in AttemptNos
        /\ result[w] \in {"succeeded", "failed"}
    BY DEF IInv, WorkerInv
  <2>1. PICK s : /\ result' = [result EXCEPT ![w] = s]
                 /\ \/ s = AttemptStatus(w, flags'[w])
                    \/ s = "pending" /\ MayRetry(w, flags'[w])
    OBVIOUS
  <2>2. AttemptStatus(w, flags'[w]) \in Terminal
    BY <2>0 DEF AttemptStatus
  <2>3. /\ s \in Terminal \cup {"pending"}
        /\ s = "pending" => no[w] < MaxAttempts /\ task[job[w]] \in Idempotent
    BY <2>1, <2>2 DEF MayRetry, AttemptsLeft
  <2>4. TypeOK'
    <3>1. flags' \in [Workers -> SUBSET {"aborted", "cancellation", "controlFailure"}]
      BY DEF IInv, TypeOK, Raised
    <3>. QED BY <2>1, <2>3, <3>1 DEF IInv, TypeOK
  <2>5. \A v \in Workers : WorkerInv(v)'
    BY <2>1, <2>3 DEF IInv, TypeOK, WorkerInv
  <2>6. \A q \in Runs : RunInv(q)'
    BY DEF IInv, RunInv
  <2>7. \A v, u \in Workers : PairInv(v, u)'
    BY SMTT(20) DEF IInv, TypeOK, PairInv
  <2>8. CancelInv'
    BY SMTT(20) DEF IInv, TypeOK, CancelInv
  <2>. QED BY <2>4, <2>5, <2>6, <2>7, <2>8 DEF IInv
<1>20. ASSUME NEW w \in Workers, Commit(w) PROVE IInv'
  <2>. USE <1>20 DEF Commit
  <2>0. /\ job[w] \in Runs /\ no[w] \in AttemptNos
        /\ result[w] \in Terminal \cup {"pending"}
        /\ attemptCount[job[w]] = no[w]
        /\ result[w] = "pending" => no[w] < MaxAttempts /\ task[job[w]] \in Idempotent
    BY DEF IInv, WorkerInv
  <2>1. TypeOK'
    BY <2>0 DEF IInv, TypeOK
  <2>2. \A v \in Workers : WorkerInv(v)'
    BY <2>0 DEF IInv, TypeOK, WorkerInv, PairInv
  <2>3. \A q \in Runs : RunInv(q)'
    BY <2>0 DEF IInv, TypeOK, RunInv
  <2>4. \A v, u \in Workers : PairInv(v, u)'
    BY SMTT(20) DEF IInv, TypeOK, PairInv
  <2>5. CancelInv'
    BY SMTT(20) DEF IInv, TypeOK, CancelInv
  <2>. QED BY <2>1, <2>2, <2>3, <2>4, <2>5 DEF IInv
<1>21. ASSUME NEW w \in Workers, ProbeLock(w) PROVE IInv'
  <2>. USE <1>21 DEF ProbeLock
  <2>1. TypeOK'
    <3>1. job[w] \in Runs
      BY DEF IInv, WorkerInv
    <3>2. cancelRequested' \subseteq Runs
      BY <3>1 DEF IInv, TypeOK
    <3>3. \E c \in {"probed", "unknown"} : check' = [check EXCEPT ![w] = c]
      OBVIOUS
    <3>. QED BY <3>2, <3>3 DEF IInv, TypeOK
  <2>2. \A v \in Workers : WorkerInv(v)'
    BY SMTT(20) DEF IInv, TypeOK, WorkerInv
  <2>3. \A q \in Runs : RunInv(q)'
    BY SMTT(20) DEF IInv, TypeOK, RunInv
  <2>4. \A v, u \in Workers : PairInv(v, u)'
    BY SMTT(20) DEF IInv, TypeOK, PairInv
  <2>5. CancelInv'
    BY SMTT(20) DEF IInv, TypeOK, CancelInv
  <2>. QED BY <2>1, <2>2, <2>3, <2>4, <2>5 DEF IInv
<1>22. ASSUME NEW w \in Workers, Notice(w) PROVE IInv'
  <2>. USE <1>22 DEF Notice, SettleCheck, Raised
  <2>1. TypeOK'
    BY SMTT(20) DEF IInv, TypeOK
  <2>2. \A v \in Workers : WorkerInv(v)'
    BY SMTT(20) DEF IInv, TypeOK, WorkerInv
  <2>3. \A q \in Runs : RunInv(q)'
    BY SMTT(20) DEF IInv, TypeOK, RunInv
  <2>4. \A v, u \in Workers : PairInv(v, u)'
    BY SMTT(20) DEF IInv, TypeOK, PairInv
  <2>5. CancelInv'
    BY SMTT(20) DEF IInv, TypeOK, CancelInv
  <2>. QED BY <2>1, <2>2, <2>3, <2>4, <2>5 DEF IInv
<1>23. ASSUME NEW w \in Workers, Release(w) PROVE IInv'
  <2>. USE <1>23 DEF Release, FreeLock, Forget
  <2>1. TypeOK'
    BY SMTT(20) DEF IInv, TypeOK
  <2>2. \A v \in Workers : WorkerInv(v)'
    BY SMTT(20) DEF IInv, TypeOK, WorkerInv
  <2>3. \A q \in Runs : RunInv(q)'
    BY SMTT(20) DEF IInv, TypeOK, RunInv
  <2>4. \A v, u \in Workers : PairInv(v, u)'
    BY SMTT(20) DEF IInv, TypeOK, PairInv
  <2>5. CancelInv'
    BY SMTT(20) DEF IInv, TypeOK, CancelInv
  <2>. QED BY <2>1, <2>2, <2>3, <2>4, <2>5 DEF IInv
<1>24. ASSUME NEW w \in Workers, Timeout(w) PROVE IInv'
  <2>. USE <1>24 DEF Timeout
  <2>1. TypeOK'
    BY SMTT(20) DEF IInv, TypeOK
  <2>2. \A v \in Workers : WorkerInv(v)'
    BY SMTT(20) DEF IInv, TypeOK, WorkerInv
  <2>3. \A q \in Runs : RunInv(q)'
    BY SMTT(20) DEF IInv, TypeOK, RunInv
  <2>4. \A v, u \in Workers : PairInv(v, u)'
    BY SMTT(20) DEF IInv, TypeOK, PairInv
  <2>5. CancelInv'
    BY SMTT(20) DEF IInv, TypeOK, CancelInv
  <2>. QED BY <2>1, <2>2, <2>3, <2>4, <2>5 DEF IInv
<1>25. ASSUME NEW w \in Workers, Crash(w) PROVE IInv'
  <2>. USE <1>25 DEF Crash, FreeLock, Forget
  <2>1. TypeOK'
    BY SMTT(20) DEF IInv, TypeOK
  <2>2. \A v \in Workers : WorkerInv(v)'
    BY SMTT(20) DEF IInv, TypeOK, WorkerInv
  <2>3. \A q \in Runs : RunInv(q)'
    BY SMTT(20) DEF IInv, TypeOK, RunInv
  <2>4. \A v, u \in Workers : PairInv(v, u)'
    BY SMTT(20) DEF IInv, TypeOK, PairInv
  <2>5. CancelInv'
    BY SMTT(20) DEF IInv, TypeOK, CancelInv
  <2>. QED BY <2>1, <2>2, <2>3, <2>4, <2>5 DEF IInv
<1>26. ASSUME NEW w \in Workers, LoseSession(w) PROVE IInv'
  <2>. USE <1>26 DEF LoseSession, FreeLock
  <2>1. TypeOK'
    BY SMTT(20) DEF IInv, TypeOK
  <2>2. \A v \in Workers : WorkerInv(v)'
    BY SMTT(20) DEF IInv, TypeOK, WorkerInv
  <2>3. \A q \in Runs : RunInv(q)'
    BY SMTT(20) DEF IInv, TypeOK, RunInv
  <2>4. \A v, u \in Workers : PairInv(v, u)'
    BY SMTT(20) DEF IInv, TypeOK, PairInv
  <2>5. CancelInv'
    BY SMTT(20) DEF IInv, TypeOK, CancelInv
  <2>. QED BY <2>1, <2>2, <2>3, <2>4, <2>5 DEF IInv
<1>27. ASSUME NEW w \in Workers, ReadFlag(w) PROVE IInv'
  <2>. USE <1>27 DEF ReadFlag, CancelSeen
  <2>1. TypeOK'
    <3>3. \E c \in {"clear", "cancel", "unknown"} : check' = [check EXCEPT ![w] = c]
      OBVIOUS
    <3>. QED BY <3>3 DEF IInv, TypeOK
  <2>2. \A v \in Workers : WorkerInv(v)'
    BY SMTT(20) DEF IInv, TypeOK, WorkerInv
  <2>3. \A q \in Runs : RunInv(q)'
    BY SMTT(20) DEF IInv, TypeOK, RunInv
  <2>4. \A v, u \in Workers : PairInv(v, u)'
    BY SMTT(20) DEF IInv, TypeOK, PairInv
  <2>5. CancelInv'
    BY SMTT(20) DEF IInv, TypeOK, CancelInv
  <2>. QED BY <2>1, <2>2, <2>3, <2>4, <2>5 DEF IInv
<1>28. CASE UNCHANGED vars
  BY <1>28 DEF vars, IInv, WorkerInv, RunInv, PairInv, CancelInv, TypeOK
<1>. QED
  BY <1>1, <1>2, <1>3, <1>4, <1>5, <1>6, <1>7, <1>8, <1>9, <1>10, <1>11, <1>12, <1>13, <1>14, <1>15, <1>16, <1>17, <1>18, <1>19, <1>20, <1>21, <1>22, <1>23, <1>24, <1>25, <1>26, <1>27, <1>28
  DEF Next, Environment, Step, Before, Executing, Cancel, CancelParent

-----------------------------------------------------------------------------
(* The theorems *)

LEMMA SpecIInv == Spec => []IInv
  BY InitIInv, StepIInv, PTL DEF Spec

\* The variables keep their types: in particular no attempt is ever numbered
\* beyond maxAttempts, though each number comes from a snapshot of the row.
THEOREM TypeCorrect == Spec => []TypeOK
<1>1. IInv => TypeOK
  BY DEF IInv
<1>. QED BY SpecIInv, <1>1, PTL

\* Crashes, redeliveries and lost lock sessions included, executeAttempt() calls
\* the handler at most once for an attempt number, and at most once for a run
\* of a task that is not idempotent.
THEOREM EffectAtMostOnce == Spec => []AtMostOnceEffect
<1>1. IInv => AtMostOnceEffect
  <2>. SUFFICES ASSUME IInv, NEW r \in Runs, NEW n \in AttemptNos
                PROVE  /\ invoked[r][n] <= 1
                       /\ invoked[r][n] = 1 /\ task[r] \notin Idempotent
                            => \A m \in AttemptNos \ {n} : invoked[r][m] = 0
    BY DEF AtMostOnceEffect
  <2>1. RunInv(r)
    BY DEF IInv
  <2>2. attemptCount[r] \in 0 .. MaxAttempts
    BY SMTT(20) DEF IInv, TypeOK
  <2>. QED BY <2>1, <2>2, ConstantsAssumption DEF RunInv, AttemptNos
<1>. QED BY SpecIInv, <1>1, PTL

\* cancel() and cancelParent() of a waiting run are final for its side effects:
\* whatever worker holds an earlier snapshot, the handler is not called again.
THEOREM WithdrawnNotExecuted == Spec => WithdrawnNeverExecutes
<1>1. IInv /\ [Next]_vars => [\A r \in withdrawn : invoked'[r] = invoked[r]]_vars
  <2>. SUFFICES ASSUME IInv, Next
                PROVE  \A r \in withdrawn : invoked'[r] = invoked[r]
    BY DEF vars, history
  <2>1. ASSUME NEW w \in Workers, Invoke(w)
        PROVE  \A r \in withdrawn : invoked'[r] = invoked[r]
    <3>1. CASE job[w] \in withdrawn
      <4>1. pc[w] = "check" /\ check[w] \in {"cancel", "unknown"}
        BY <2>1, <3>1 DEF IInv, CancelInv, TypeOK, Invoke, SettleCheck
      <4>2. "aborted" \in flags'[w]
        BY <2>1, <4>1 DEF IInv, TypeOK, Invoke, SettleCheck, Raised
      <4>. QED BY <2>1, <4>2 DEF Invoke
    <3>2. CASE job[w] \notin withdrawn
      BY <2>1, <3>2 DEF IInv, TypeOK, Invoke
    <3>. QED BY <3>1, <3>2
  <2>2. CASE UNCHANGED invoked
    BY <2>2
  <2>3. (\E w \in Workers : Invoke(w)) \/ UNCHANGED invoked
    <3>1. Environment => UNCHANGED invoked
      BY DEF Environment, Start, Cancel, CancelParent, RequestCancel, Review, Link, Revoke,
             BecomeDue, Expire, Timeout, Crash, LoseSession, history
    <3>2. ASSUME NEW w \in Workers, Before(w) PROVE UNCHANGED invoked
      BY <3>2 DEF Before, Acquire, Busy, ReadRun, Interrupt, Authorise, FindUncertain,
                  Resolve, Settle, Begin, history
    <3>3. ASSUME NEW w \in Workers, Step(w) PROVE Invoke(w) \/ UNCHANGED invoked
      BY <3>2, <3>3 DEF Step, Executing, HandlerReturn, Conclude, Commit, ProbeLock, ReadFlag,
                        Notice, Release, history
    <3>4. ASSUME NEW w \in Workers, NEW r \in Runs, Dequeue(w, r) PROVE UNCHANGED invoked
      BY <3>4 DEF Dequeue, history
    <3>. QED BY <3>1, <3>3, <3>4 DEF Next
  <2>. QED BY <2>1, <2>2, <2>3
<1>. QED BY SpecIInv, <1>1, PTL DEF Spec, WithdrawnNeverExecutes

-----------------------------------------------------------------------------
(* The lock. As long as no lock session has been lost, attempt rows and run *)
(* rows agree, a finished run keeps its outcome, and no attempt starts      *)
(* beside an unknown outcome. A worker inside process() owns the lock of    *)
(* its task, hence it is the only one that writes the rows of the task's    *)
(* runs: what it read under the lock still holds when it writes, although   *)
(* it writes by identity.                                                   *)

\* A worker inside owns the lock of its task.
Held(w) == pc[w] \in Inside => owner[task[job[w]]] = w

\* What it read under the lock is still so.
Snapshot(w) ==
  /\ pc[w] \in Planned \cup {"settle"} => status[job[w]] = "pending"
  /\ pc[w] \in Attempting \cup {"interrupt"} => status[job[w]] = "running"
  /\ pc[w] \in {"resolve", "begin"} => ~Uncertain(job[w])

\* The attempt rows of a run tell what its own row tells.
Told(r) ==
  \A n \in AttemptNos :
    attempt[r][n] = "running" <=> status[r] = "running" /\ n = attemptCount[r]

LockInv ==
  /\ \A w \in Workers : Held(w) /\ Snapshot(w)
  /\ \A r \in Runs : Told(r)
  /\ \A r \in Runs : status[r] # "absent" => task[r] \in Tasks
  /\ \A r \in requiresReview : status[r] # "absent"

\* With the invariant that does without the lock.
KInv ==
  /\ IInv
  /\ losses = 0 => LockInv

-----------------------------------------------------------------------------
(* The steps, by what they do to the lock *)

\* A step of the environment: the rows of runs that workers are at keep their
\* status, and no worker moves.
Outside ==
  /\ UNCHANGED <<owner, pc, job, attempt, attemptCount>>
  /\ \A r \in Runs : status[r] # "absent" => task'[r] = task[r] /\ status'[r] = status[r]
  /\ \A r \in Runs : status[r] = "absent" =>
        status'[r] = "absent" \/ (status'[r] = "pending" /\ task'[r] \in Tasks)
  /\ requiresReview' \subseteq requiresReview

\* A step of a worker changes the rows of its own run, and those only inside;
\* the locks it touches were its own or nobody's.
OwnStep(w) ==
  /\ UNCHANGED task
  /\ \A v \in Workers \ {w} : pc'[v] = pc[v] /\ job'[v] = job[v]
  /\ \A t \in Tasks : owner'[t] = owner[t] \/ owner[t] \in {w, NoWorker}
  /\ \A r \in Runs : pc[w] \notin Inside \/ r # job[w] =>
        /\ status'[r] = status[r] /\ attemptCount'[r] = attemptCount[r]
        /\ attempt'[r] = attempt[r]
        /\ r \in requiresReview' <=> r \in requiresReview

LEMMA Typed ==
  ASSUME IInv
  PROVE  /\ task \in [Runs -> Tasks \cup {NoTask}]
         /\ owner \in [Tasks -> Workers \cup {NoWorker}]
         /\ pc \in [Workers -> {"idle", "acquire"} \cup Inside]
         /\ job \in [Workers -> Runs \cup {NoRun}]
         /\ status \in [Runs -> Open \cup Terminal \cup {"absent"}]
         /\ requiresReview \subseteq Runs
         /\ attemptCount \in [Runs -> 0 .. MaxAttempts]
         /\ attempt \in [Runs -> [AttemptNos -> {"none", "running"} \cup Terminal]]
         /\ no \in [Workers -> 0 .. MaxAttempts]
         /\ result \in [Workers -> {"none", "pending"} \cup Terminal]
         /\ losses \in Nat
  BY DEF IInv, TypeOK

LEMMA Working ==
  ASSUME IInv, NEW w \in Workers, pc[w] # "idle"
  PROVE  job[w] \in Runs /\ status[job[w]] # "absent"
  BY DEF IInv, WorkerInv

LEMMA OutsideCases ==
  ASSUME IInv, Environment,
         ~\E w \in Workers : Timeout(w) \/ Crash(w) \/ LoseSession(w)
  PROVE  Outside
<1>. USE Typed DEF Outside, marks, clock, ledger, rows, locals, history, faultVars
<1>1. ASSUME NEW r \in Runs, NEW t \in Tasks, Start(r, t) PROVE Outside
  BY <1>1 DEF Start
<1>2. ASSUME NEW S \in SUBSET Runs, RequestCancel(S) PROVE Outside
  BY <1>2 DEF RequestCancel
<1>3. ASSUME NEW r \in Runs, Review(r) \/ Link(r) \/ Revoke(r) \/ BecomeDue(r) \/ Expire(r) PROVE Outside
  BY <1>3 DEF Review, Link, Revoke, BecomeDue, Expire
<1>. QED BY <1>1, <1>2, <1>3 DEF Environment, Cancel, CancelParent

LEMMA OwnCases ==
  ASSUME IInv, NEW w \in Workers,
         \/ Step(w) \/ Timeout(w) \/ Crash(w) \/ LoseSession(w)
         \/ \E r \in Runs : Dequeue(w, r)
  PROVE  OwnStep(w)
<1>. USE Typed DEF OwnStep, Goto, Forget, FreeLock, marks, clock, ledger, rows, locals,
                   history, faultVars, Inside, Attempting
<1>1. ASSUME Before(w) PROVE OwnStep(w)
  <2>1. ASSUME Acquire(w) \/ Busy(w) \/ ReadRun(w) PROVE OwnStep(w)
    BY <2>1 DEF Acquire, Busy, ReadRun
  <2>2. ASSUME Authorise(w) \/ FindUncertain(w) \/ Resolve(w) PROVE OwnStep(w)
    BY <2>2 DEF Authorise, FindUncertain, Resolve
  <2>3. ASSUME Interrupt(w) PROVE OwnStep(w)
    BY <2>3 DEF Interrupt
  <2>4. ASSUME Settle(w) PROVE OwnStep(w)
    BY <2>4 DEF Settle
  <2>5. ASSUME Begin(w) PROVE OwnStep(w)
    BY <2>5 DEF Begin
  <2>. QED BY <1>1, <2>1, <2>2, <2>3, <2>4, <2>5 DEF Before
<1>2. ASSUME Invoke(w) \/ HandlerReturn(w) \/ Conclude(w) PROVE OwnStep(w)
  BY <1>2 DEF Invoke, HandlerReturn, Conclude
<1>3. ASSUME Commit(w) PROVE OwnStep(w)
  BY <1>3 DEF Commit
<1>4. ASSUME ProbeLock(w) \/ ReadFlag(w) \/ Notice(w) \/ Timeout(w) PROVE OwnStep(w)
  BY <1>4 DEF ProbeLock, ReadFlag, Notice, Timeout
<1>5. ASSUME Release(w) \/ Crash(w) \/ LoseSession(w) PROVE OwnStep(w)
  BY <1>5 DEF Release, Crash, LoseSession
<1>6. ASSUME NEW r \in Runs, Dequeue(w, r) PROVE OwnStep(w)
  BY <1>6 DEF Dequeue
<1>. QED BY <1>1, <1>2, <1>3, <1>4, <1>5, <1>6 DEF Step, Executing

-----------------------------------------------------------------------------
(* Each step keeps the invariant *)

LEMMA OutsideKeeps ==
  ASSUME IInv, LockInv, Outside, IInv'
  PROVE  LockInv'
<1>. USE Typed
<1>1. ASSUME NEW w \in Workers PROVE Held(w)'
  <2>. USE DEF Inside, Attempting
  <2>. QED BY Working DEF LockInv, Held, Outside
<1>2. ASSUME NEW w \in Workers PROVE Snapshot(w)'
  <2>1. CASE pc[w] = "idle"
    BY <2>1 DEF Snapshot, Outside, Planned, Attempting
  <2>2. CASE pc[w] # "idle"
    <3>1. /\ job'[w] = job[w] /\ pc'[w] = pc[w] /\ job[w] \in Runs
          /\ status'[job[w]] = status[job[w]] /\ task'[job[w]] = task[job[w]]
      BY <2>2, Working DEF Outside
    <3>2. Uncertain(job[w])' => Uncertain(job[w])
      BY <3>1 DEF Uncertain, Outside, LockInv
    <3>. QED BY <3>1, <3>2 DEF LockInv, Snapshot
  <2>. QED BY <2>1, <2>2
<1>3. ASSUME NEW r \in Runs PROVE Told(r)'
  BY DEF LockInv, Told, Outside
<1>4. /\ \A r \in requiresReview' : status'[r] # "absent"
      /\ \A r \in Runs : status'[r] # "absent" => task'[r] \in Tasks
  BY DEF LockInv, Outside
<1>. QED BY <1>1, <1>2, <1>3, <1>4 DEF LockInv

\* The lock keeps the others away from the rows a worker writes.
LEMMA OthersKept ==
  ASSUME IInv, IInv', LockInv, NEW w \in Workers, OwnStep(w), NEW v \in Workers \ {w}
  PROVE  Held(v)' /\ Snapshot(v)'
<1>. USE Typed, ConstantsAssumption
<1>0. pc'[v] = pc[v] /\ job'[v] = job[v] /\ task' = task
  BY DEF OwnStep
<1>1. CASE pc[v] \notin Inside
  BY <1>0, <1>1 DEF Held, Snapshot, Inside, Planned, Attempting
<1>2. CASE pc[v] \in Inside
  <2>1. job[v] \in Runs /\ status[job[v]] # "absent" /\ owner[task[job[v]]] = v
    BY <1>2, Working DEF LockInv, Held, Inside, Attempting
  <2>2. owner'[task[job[v]]] = v
    <3>1. task[job[v]] \in Tasks
      BY <2>1 DEF LockInv
    <3>. QED BY <2>1, <3>1 DEF OwnStep
  <2>3. pc[w] \in Inside => owner[task[job[w]]] = w
    BY DEF LockInv, Held
  <2>4. pc[w] \in Inside => task[job[w]] # task[job[v]]
    BY <2>1, <2>3
  <2>5. \A r \in Runs : task[r] = task[job[v]] =>
           status'[r] = status[r] /\ (r \in requiresReview' <=> r \in requiresReview)
    BY <2>4 DEF OwnStep
  <2>6. Uncertain(job[v])' => Uncertain(job[v])
    <3>1. requiresReview' \subseteq Runs
      BY DEF IInv, TypeOK
    <3>. QED BY <1>0, <2>5, <3>1 DEF Uncertain
  <2>7. Held(v)'
    BY <1>0, <2>2 DEF Held
  <2>8. Snapshot(v)'
    BY <1>0, <2>1, <2>5, <2>6 DEF Snapshot, LockInv
  <2>. QED BY <2>7, <2>8
<1>. QED BY <1>1, <1>2

\* What a worker's step owes to the invariant beyond that.
OwnPart(w) ==
  /\ Held(w)' /\ Snapshot(w)'
  /\ \A r \in Runs : pc[w] \in Inside /\ r = job[w] => Told(r)' /\ status'[r] # "absent"

\* The steps that write neither a status nor an attempt nor a review flag.
Silent(w) ==
  /\ UNCHANGED <<task, status, attempt, attemptCount, requiresReview>>
  /\ OwnStep(w)

LEMMA SilentPart ==
  ASSUME IInv, LockInv, NEW w \in Workers, Silent(w), Held(w)', Snapshot(w)'
  PROVE  OwnPart(w)
<1>1. ASSUME NEW r \in Runs, pc[w] \in Inside, r = job[w]
      PROVE  Told(r)' /\ status'[r] # "absent"
  <2>1. pc[w] # "idle"
    BY <1>1 DEF Inside, Attempting
  <2>2. status[r] # "absent"
    BY <1>1, <2>1, Working
  <2>3. Told(r)
    BY DEF LockInv
  <2>. QED BY <2>2, <2>3 DEF Silent, Told
<1>. QED BY <1>1 DEF OwnPart

\* A step that keeps the place, or moves among places that ask for no more.
LEMMA StayPart ==
  ASSUME IInv, LockInv, NEW w \in Workers, Silent(w),
         UNCHANGED <<owner, job>>,
         pc'[w] \in Inside => pc[w] \in Inside,
         pc'[w] \in Planned \cup {"settle"} => pc[w] \in Planned \cup {"settle"},
         pc'[w] \in Attempting => pc[w] \in Attempting,
         pc'[w] # "interrupt",
         pc'[w] \in {"resolve", "begin"} =>
           pc[w] \in {"resolve", "begin"} \/ ~Uncertain(job[w])
  PROVE  OwnPart(w)
<1>1. Held(w)'
  BY DEF LockInv, Held, Silent
<1>2. Uncertain(job[w])' = Uncertain(job[w])
  BY DEF Uncertain, Silent
<1>3. Snapshot(w)'
  BY <1>2 DEF LockInv, Snapshot, Silent
<1>. QED BY <1>1, <1>3, SilentPart

LEMMA OwnParts ==
  ASSUME IInv, IInv', LockInv, NEW w \in Workers, losses' = 0,
         \/ Step(w) \/ Timeout(w) \/ Crash(w) \/ LoseSession(w)
         \/ \E r \in Runs : Dequeue(w, r)
  PROVE  OwnPart(w)
<1>. USE Typed, ConstantsAssumption
<1>0. OwnStep(w)
  BY OwnCases
<1>1. ASSUME Acquire(w) PROVE OwnPart(w)
  <2>1. job[w] \in Runs /\ status[job[w]] # "absent" /\ task[job[w]] \in Tasks
    BY <1>1, Working DEF Acquire, LockInv
  <2>2. Silent(w) /\ Held(w)' /\ Snapshot(w)'
    BY <1>0, <1>1, <2>1 DEF Silent, Acquire, Held, Snapshot, Goto, rows, marks, clock, ledger,
       Planned, Attempting
  <2>. QED BY <2>2, SilentPart
<1>2. ASSUME ReadRun(w) PROVE OwnPart(w)
  <2>1. job[w] \in Runs /\ status[job[w]] # "absent"
    BY <1>2, Working DEF ReadRun
  <2>2. UNCHANGED <<owner, job, task, status>> /\ pc[w] \in Inside
    BY <1>2 DEF ReadRun, rows, Inside
  <2>3. Held(w)'
    BY <2>2 DEF LockInv, Held
  <2>4. Snapshot(w)'
    BY <1>2, <2>1, <2>2 DEF Snapshot, ReadRun, Goto, Finished, Open, Planned, Attempting
  <2>5. Silent(w)
    BY <1>0, <1>2 DEF Silent, ReadRun, rows, marks, clock, ledger
  <2>. QED BY <2>3, <2>4, <2>5, SilentPart
<1>3. ASSUME Interrupt(w) PROVE OwnPart(w)
  <2>1. job[w] \in Runs /\ pc[w] \in Inside
    BY <1>3, Working DEF Interrupt, Inside
  <2>2. status'[job[w]] = "failed" /\ attempt'[job[w]] = FailRunning(attempt[job[w]])
        /\ pc'[w] = "release" /\ UNCHANGED <<owner, job, task>>
    BY <1>3, <2>1 DEF Interrupt, Goto
  <2>3. Told(job[w])'
    BY <2>2 DEF Told, FailRunning
  <2>4. Held(w)' /\ Snapshot(w)'
    BY <2>1, <2>2 DEF LockInv, Held, Snapshot, Planned, Attempting
  <2>. QED BY <2>2, <2>3, <2>4 DEF OwnPart
<1>4. ASSUME Settle(w) PROVE OwnPart(w)
  <2>1. job[w] \in Runs /\ pc[w] \in Inside /\ result[w] \in {"failed", "cancelled"}
        /\ status[job[w]] = "pending"
    BY <1>4, Working DEF Settle, Inside, IInv, WorkerInv, LockInv, Snapshot
  <2>2. status'[job[w]] = result[w] /\ attempt' = attempt /\ attemptCount' = attemptCount
        /\ pc'[w] = "release" /\ UNCHANGED <<owner, job, task>>
    BY <1>4, <2>1 DEF Settle, Goto, ledger
  <2>3. Told(job[w])'
    BY <2>1, <2>2 DEF Told, LockInv
  <2>4. Held(w)' /\ Snapshot(w)'
    BY <2>1, <2>2 DEF LockInv, Held, Snapshot, Planned, Attempting
  <2>. QED BY <2>1, <2>2, <2>3, <2>4 DEF OwnPart
<1>5. ASSUME Begin(w) PROVE OwnPart(w)
  <2>1. job[w] \in Runs /\ pc[w] \in Inside /\ no[w] \in AttemptNos /\ UNCHANGED <<owner, job>>
        /\ status[job[w]] = "pending"
    BY <1>5, Working DEF Begin, Inside, IInv, WorkerInv, Planned, LockInv, Snapshot
  <2>2. ASSUME NumberFree(job[w], no[w]) PROVE OwnPart(w)
    <3>1. /\ status'[job[w]] = "running" /\ attemptCount'[job[w]] = no[w]
          /\ attempt'[job[w]] = [attempt[job[w]] EXCEPT ![no[w]] = "running"]
          /\ pc'[w] = "check" /\ UNCHANGED task
      BY <1>5, <2>1, <2>2 DEF Begin, Goto
    <3>2. Told(job[w])
      BY <2>1 DEF LockInv
    <3>3. attempt[job[w]] \in [AttemptNos -> {"none", "running"} \cup Terminal]
      BY <2>1
    <3>4. Told(job[w])'
      BY <2>1, <3>1, <3>2, <3>3 DEF Told
    <3>5. Held(w)' /\ Snapshot(w)'
      BY <2>1, <3>1 DEF LockInv, Held, Snapshot, Planned, Attempting
    <3>. QED BY <2>1, <3>1, <3>4, <3>5 DEF OwnPart
  <2>3. ASSUME ~NumberFree(job[w], no[w]) PROVE OwnPart(w)
    <3>1. pc'[w] = "release" /\ UNCHANGED rows
      BY <1>5, <2>3 DEF Begin, Goto
    <3>2. Silent(w)
      BY <1>0, <3>1 DEF Silent, rows, marks, clock, ledger
    <3>. QED BY <2>1, <3>1, <3>2, StayPart DEF Inside, Planned, Attempting
  <2>. QED BY <2>2, <2>3
<1>6. ASSUME Commit(w) PROVE OwnPart(w)
  <2>1. job[w] \in Runs /\ pc[w] \in Inside /\ no[w] \in AttemptNos /\ UNCHANGED <<owner, job>>
        /\ status[job[w]] = "running" /\ attemptCount[job[w]] = no[w]
        /\ result[w] \in Terminal \cup {"pending"}
    BY <1>6, Working DEF Commit, Inside, IInv, WorkerInv, Attempting, LockInv, Snapshot
  <2>2. /\ status'[job[w]] = result[w] /\ UNCHANGED <<attemptCount, task>>
        /\ attempt'[job[w]] = [attempt[job[w]] EXCEPT ![no[w]] =
                                 IF result[w] = "pending" THEN "failed" ELSE result[w]]
        /\ pc'[w] = "release"
    BY <1>6, <2>1 DEF Commit, Goto
  <2>3. Told(job[w]) /\ attempt[job[w]] \in [AttemptNos -> {"none", "running"} \cup Terminal]
    BY <2>1 DEF LockInv
  <2>4. Told(job[w])'
    BY <2>1, <2>2, <2>3 DEF Told, Terminal
  <2>5. Held(w)' /\ Snapshot(w)'
    BY <2>1, <2>2 DEF LockInv, Held, Snapshot, Planned, Attempting
  <2>. QED BY <2>1, <2>2, <2>4, <2>5 DEF OwnPart, Terminal
<1>7. ASSUME Busy(w) \/ Release(w) \/ Crash(w) PROVE OwnPart(w)
  <2>1. pc'[w] = "idle" /\ UNCHANGED rows
    BY <1>7 DEF Busy, Release, Crash, Forget, Goto
  <2>2. Silent(w) /\ Held(w)' /\ Snapshot(w)'
    BY <1>0, <2>1 DEF Silent, Held, Snapshot, rows, marks, clock, ledger, Inside, Planned, Attempting
  <2>. QED BY <2>2, SilentPart
<1>8. ASSUME LoseSession(w) PROVE OwnPart(w)
  BY <1>8 DEF LoseSession
<1>9. ASSUME NEW r \in Runs, Dequeue(w, r) PROVE OwnPart(w)
  <2>1. pc'[w] = "acquire" /\ UNCHANGED rows
    BY <1>9 DEF Dequeue, Goto
  <2>2. Silent(w) /\ Held(w)' /\ Snapshot(w)'
    BY <1>0, <2>1 DEF Silent, Held, Snapshot, rows, marks, clock, ledger, Inside, Planned, Attempting
  <2>. QED BY <2>2, SilentPart
<1>10. ASSUME Authorise(w) \/ FindUncertain(w) \/ Resolve(w) PROVE OwnPart(w)
  <2>1. Silent(w) /\ UNCHANGED <<owner, job>>
    BY <1>0, <1>10 DEF Silent, Authorise, FindUncertain, Resolve, rows, marks, clock, ledger
  <2>2. /\ pc[w] \in Planned /\ pc[w] \in Inside
        /\ pc'[w] \in {"settle", "uncertain", "release", "resolve", "begin"}
        /\ pc'[w] \in {"resolve", "begin"} => pc[w] \in {"resolve", "begin"} \/ ~Uncertain(job[w])
    BY <1>10 DEF Authorise, FindUncertain, Resolve, Goto, Planned, Inside
  <2>. QED BY <2>1, <2>2, StayPart DEF Planned, Attempting
<1>11. ASSUME Invoke(w) \/ HandlerReturn(w) \/ Conclude(w) PROVE OwnPart(w)
  <2>1. Silent(w) /\ UNCHANGED <<owner, job>>
    BY <1>0, <1>11 DEF Silent, Invoke, HandlerReturn, Conclude, rows, marks, clock, ledger
  <2>2. pc[w] \in Attempting /\ pc[w] \in Inside /\ pc'[w] \in {"handling", "confirm", "commit"}
    BY <1>11 DEF Invoke, HandlerReturn, Conclude, Goto, Attempting, Inside
  <2>. QED BY <2>1, <2>2, StayPart DEF Planned
<1>12. ASSUME ProbeLock(w) \/ ReadFlag(w) \/ Notice(w) \/ Timeout(w) PROVE OwnPart(w)
  <2>1. Silent(w) /\ UNCHANGED <<owner, job, pc>>
    BY <1>0, <1>12 DEF Silent, ProbeLock, ReadFlag, Notice, Timeout, rows, marks, clock, ledger
  <2>2. pc[w] # "interrupt"
    BY <1>12 DEF IInv, WorkerInv, ProbeLock, ReadFlag, Notice, Timeout, Attempting
  <2>. QED BY <2>1, <2>2, StayPart
<1>. QED
  BY <1>1, <1>2, <1>3, <1>4, <1>5, <1>6, <1>7, <1>8, <1>9, <1>10, <1>11, <1>12
  DEF Step, Before, Executing

LEMMA OwnKeeps ==
  ASSUME IInv, IInv', LockInv, NEW w \in Workers, losses' = 0,
         \/ Step(w) \/ Timeout(w) \/ Crash(w) \/ LoseSession(w)
         \/ \E r \in Runs : Dequeue(w, r)
  PROVE  LockInv'
<1>0. OwnStep(w) /\ OwnPart(w)
  BY OwnCases, OwnParts
<1>1. \A v \in Workers : Held(v)' /\ Snapshot(v)'
  BY <1>0, OthersKept DEF OwnPart
<1>2. ASSUME NEW r \in Runs
      PROVE  /\ Told(r)'
             /\ status'[r] # "absent" => task'[r] \in Tasks
             /\ r \in requiresReview' => status'[r] # "absent"
  <2>1. ASSUME pc[w] \in Inside, r = job[w]
        PROVE  Told(r)' /\ status'[r] # "absent" /\ status[r] # "absent"
    <3>1. pc[w] # "idle"
      BY <2>1 DEF IInv, TypeOK, Inside, Attempting
    <3>. QED BY <1>0, <2>1, <3>1, Working DEF OwnPart, LockInv
  <2>2. ASSUME ~(pc[w] \in Inside /\ r = job[w])
        PROVE  /\ Told(r)' /\ status'[r] = status[r]
               /\ r \in requiresReview' <=> r \in requiresReview
    BY <1>0, <2>2 DEF OwnStep, Told, LockInv
  <2>3. task'[r] = task[r]
    BY <1>0 DEF OwnStep
  <2>. QED BY <2>1, <2>2, <2>3 DEF LockInv
<1>3. requiresReview' \subseteq Runs
  BY DEF IInv, TypeOK
<1>. QED BY <1>1, <1>2, <1>3 DEF LockInv

LEMMA LossesStep ==
  ASSUME [Next]_vars
  PROVE  losses' = losses \/ \E w \in Workers : LoseSession(w)
<1>. USE DEF faultVars
<1>1. ASSUME Environment, ~\E w \in Workers : LoseSession(w) PROVE losses' = losses
  BY <1>1 DEF Environment, Start, Cancel, CancelParent, RequestCancel, Review, Link, Revoke,
         BecomeDue, Expire, Timeout, Crash
<1>2. ASSUME NEW w \in Workers, Step(w) PROVE losses' = losses
  BY <1>2 DEF Step, Before, Executing, Acquire, Busy, ReadRun, Interrupt, Authorise,
         FindUncertain, Resolve, Settle, Begin, Invoke, HandlerReturn, Conclude, Commit,
         ProbeLock, ReadFlag, Notice, Release
<1>3. ASSUME NEW w \in Workers, NEW r \in Runs, Dequeue(w, r) PROVE losses' = losses
  BY <1>3 DEF Dequeue
<1>. QED BY <1>1, <1>2, <1>3 DEF Next, vars

LEMMA InitKInv == Init => KInv
<1>. SUFFICES ASSUME Init PROVE LockInv
  BY InitIInv DEF KInv
<1>. QED BY DEF Init, LockInv, Held, Snapshot, Told, Inside, Planned, Attempting

LEMMA StepKInv == KInv /\ [Next]_vars => KInv'
<1>. SUFFICES ASSUME KInv, [Next]_vars, losses' = 0 PROVE LockInv'
  BY StepIInv DEF KInv
<1>1. IInv /\ IInv'
  BY StepIInv DEF KInv
<1>2. losses = 0
  BY <1>1, Typed, LossesStep DEF LoseSession
<1>3. LockInv
  BY <1>2 DEF KInv
<1>4. ASSUME NEW w \in Workers,
             \/ Step(w) \/ Timeout(w) \/ Crash(w) \/ LoseSession(w)
             \/ \E r \in Runs : Dequeue(w, r)
      PROVE LockInv'
  BY <1>1, <1>3, <1>4, OwnKeeps
<1>5. ASSUME Environment, ~\E w \in Workers : Timeout(w) \/ Crash(w) \/ LoseSession(w)
      PROVE LockInv'
  BY <1>1, <1>3, <1>5, OutsideCases, OutsideKeeps
<1>6. ASSUME UNCHANGED vars PROVE LockInv'
  <2>1. Outside
    BY <1>6 DEF vars, rows, marks, clock, ledger, locals, Outside
  <2>. QED BY <1>1, <1>3, <2>1, OutsideKeeps
<1>. QED BY <1>4, <1>5, <1>6 DEF Next

LEMMA SpecKInv == Spec => []KInv
  BY InitKInv, StepKInv, PTL DEF Spec

-----------------------------------------------------------------------------
(* What WorkflowRun relies on. Nobody is carried out without a permission   *)
(* because the worker that asked is the only one inside, from the question  *)
(* to the transaction that begins the attempt; an outcome "cancelled" has a *)
(* cause because cancelRequested is never cleared.                          *)

\* A worker that says "cancelled", or is about to, has read a reason for it, and
\* the reason stays: neither a cancellation nor a withdrawal is taken back.
Cause(w) ==
  /\ pc[w] = "idle" => flags[w] = {}
  /\ check[w] = "cancel" => job[w] \in cancelRequested
  /\ "cancellation" \in flags[w] => job[w] \in cancelRequested
  /\ pc[w] = "commit" /\ result[w] = "cancelled" => job[w] \in cancelRequested
  /\ pc[w] = "settle" /\ result[w] = "cancelled" =>
       job[w] \in cancelRequested \/ job[w] \notin authorised

CauseInv == \A w \in Workers : Cause(w)

LEMMA TypedCause ==
  ASSUME IInv
  PROVE  /\ pc \in [Workers -> {"idle", "acquire"} \cup Inside]
         /\ job \in [Workers -> Runs \cup {NoRun}]
         /\ flags \in [Workers -> SUBSET {"aborted", "cancellation", "controlFailure"}]
         /\ check \in [Workers -> {"none", "probed", "clear", "cancel", "unknown"}]
         /\ result \in [Workers -> {"none", "pending"} \cup Terminal]
  BY DEF IInv, TypeOK

\* The worker's own part of it, and what the step leaves of the others'.
Forgets == cancelRequested \subseteq cancelRequested' /\ authorised' \subseteq authorised

LEMMA CauseFrame ==
  ASSUME NEW v, Cause(v), Forgets,
         pc'[v] = pc[v], job'[v] = job[v], flags'[v] = flags[v], check'[v] = check[v],
         result'[v] = result[v]
  PROVE  Cause(v)'
  BY DEF Cause, Forgets

LEMMA StepCause == IInv /\ CauseInv /\ [Next]_vars => CauseInv'
<1>. SUFFICES ASSUME IInv, CauseInv, [Next]_vars PROVE CauseInv'
  OBVIOUS
<1>. USE TypedCause DEF Goto, marks, clock, ledger, rows, locals, history, faultVars
<1>. DEFINE Others(w) == \A v \in Workers \ {w} :
              /\ pc'[v] = pc[v] /\ job'[v] = job[v] /\ flags'[v] = flags[v]
              /\ check'[v] = check[v] /\ result'[v] = result[v]
<1>0. ASSUME NEW w \in Workers, Others(w), Forgets, Cause(w)' PROVE CauseInv'
  <2>1. \A v \in Workers \ {w} : Cause(v)'
    BY <1>0, CauseFrame DEF CauseInv
  <2>. QED BY <1>0, <2>1 DEF CauseInv
<1>1. ASSUME UNCHANGED locals, Forgets PROVE CauseInv'
  BY <1>1, CauseFrame DEF CauseInv
<1>2. ASSUME NEW S \in SUBSET Runs, RequestCancel(S) PROVE CauseInv'
  BY <1>1, <1>2 DEF RequestCancel, Forgets
<1>3. ASSUME NEW r \in Runs, NEW t \in Tasks, Start(r, t) PROVE CauseInv'
  BY <1>1, <1>3 DEF Start, Forgets
<1>4. ASSUME NEW r \in Runs, Review(r) \/ Link(r) \/ Revoke(r) \/ BecomeDue(r) \/ Expire(r)
      PROVE CauseInv'
  BY <1>1, <1>4 DEF Review, Link, Revoke, BecomeDue, Expire, Forgets
<1>5. ASSUME NEW w \in Workers, NEW r \in Runs, Dequeue(w, r) PROVE CauseInv'
  <2>1. Others(w) /\ Forgets
    BY <1>5 DEF Dequeue, Forgets
  <2>2. flags'[w] = {} /\ check'[w] = "none" /\ pc'[w] = "acquire"
    BY <1>5 DEF Dequeue, CauseInv, Cause, IInv, WorkerInv, Attempting
  <2>3. Cause(w)'
    BY <2>2 DEF Cause
  <2>. QED BY <1>0, <2>1, <2>3
<1>6. ASSUME NEW w \in Workers, Busy(w) \/ Release(w) \/ Crash(w) PROVE CauseInv'
  <2>1. Others(w) /\ Forgets
    BY <1>6 DEF Busy, Release, Crash, Forget, Forgets
  <2>2. flags'[w] = {} /\ check'[w] = "none" /\ pc'[w] = "idle"
    BY <1>6 DEF Busy, Release, Crash, Forget
  <2>3. Cause(w)'
    BY <2>2 DEF Cause
  <2>. QED BY <1>0, <2>1, <2>3
<1>7. ASSUME NEW w \in Workers, LoseSession(w) PROVE CauseInv'
  BY <1>1, <1>7 DEF LoseSession, Forgets
<1>8. ASSUME NEW w \in Workers,
             \/ Acquire(w) \/ Interrupt(w) \/ FindUncertain(w) \/ Resolve(w)
             \/ Settle(w) \/ Begin(w) \/ Commit(w) \/ HandlerReturn(w)
      PROVE CauseInv'
  <2>1. Others(w) /\ Forgets
    BY <1>8 DEF Acquire, Interrupt, FindUncertain, Resolve, Settle, Begin, Commit,
                HandlerReturn, Forgets
  <2>2. /\ job'[w] = job[w] /\ flags'[w] = flags[w] /\ check'[w] = check[w]
        /\ pc'[w] \notin {"idle", "commit"}
        /\ pc'[w] = "settle" => result'[w] = "failed"
    BY <1>8 DEF Acquire, Interrupt, FindUncertain, Resolve, Settle, Begin, Commit,
                HandlerReturn
  <2>3. Cause(w)'
    BY <2>1, <2>2 DEF CauseInv, Cause, Forgets
  <2>. QED BY <1>0, <2>1, <2>3
<1>9. ASSUME NEW w \in Workers, ReadRun(w) \/ Authorise(w) PROVE CauseInv'
  <2>1. Others(w) /\ Forgets
    BY <1>9 DEF ReadRun, Authorise, Forgets
  <2>2. /\ job'[w] = job[w] /\ flags'[w] = flags[w] /\ check'[w] = check[w]
        /\ UNCHANGED <<cancelRequested, authorised>>
        /\ pc'[w] \notin {"idle", "commit"}
        /\ pc'[w] = "settle" /\ result'[w] = "cancelled" =>
             job[w] \in cancelRequested \/ job[w] \notin authorised
    BY <1>9 DEF ReadRun, Authorise
  <2>3. Cause(w)'
    BY <2>2 DEF CauseInv, Cause
  <2>. QED BY <1>0, <2>1, <2>3
<1>10. ASSUME NEW w \in Workers, ProbeLock(w) \/ ReadFlag(w) \/ Timeout(w) PROVE CauseInv'
  <2>1. Others(w) /\ Forgets
    BY <1>10 DEF ProbeLock, ReadFlag, Timeout, Forgets
  <2>2. /\ job'[w] = job[w] /\ pc'[w] = pc[w] /\ result'[w] = result[w]
        /\ "cancellation" \in flags'[w] => "cancellation" \in flags[w]
        /\ check'[w] = "cancel" => check[w] = "cancel" \/ CancelSeen(job[w])
        /\ pc'[w] = "idle" => flags'[w] = flags[w]
    BY <1>10 DEF ProbeLock, ReadFlag, Timeout, IInv, WorkerInv, Attempting
  <2>3. Cause(w)'
    BY <2>1, <2>2 DEF CauseInv, Cause, Forgets, CancelSeen
  <2>. QED BY <1>0, <2>1, <2>3
<1>11. ASSUME NEW w \in Workers, Invoke(w) \/ Notice(w) \/ Conclude(w) PROVE CauseInv'
  <2>1. Others(w) /\ Forgets
    BY <1>11 DEF Invoke, Notice, Conclude, SettleCheck, Forgets
  <2>2. /\ job'[w] = job[w] /\ check'[w] = "none" /\ cancelRequested' = cancelRequested
        /\ flags'[w] = flags[w] \cup Raised(w)
        /\ pc'[w] \notin {"idle", "settle"}
    BY <1>11 DEF Invoke, Notice, Conclude, SettleCheck
  <2>3. "cancellation" \in Raised(w) => check[w] = "cancel"
    BY DEF Raised
  <2>4. "cancellation" \in flags'[w] => job[w] \in cancelRequested
    BY <2>2, <2>3 DEF CauseInv, Cause
  <2>5. ASSUME Conclude(w), result'[w] = "cancelled" PROVE job[w] \in cancelRequested
    <3>1. AttemptStatus(w, flags'[w]) = "cancelled"
      BY <2>5 DEF Conclude
    <3>2. result[w] \in {"succeeded", "failed"}
      BY <2>5 DEF Conclude, IInv, WorkerInv
    <3>3. "cancellation" \in flags'[w]
      BY <3>1, <3>2 DEF AttemptStatus
    <3>. QED BY <2>4, <3>3
  <2>6. pc'[w] = "commit" /\ result'[w] = "cancelled" => job[w] \in cancelRequested
    <3>1. CASE Conclude(w)
      BY <2>5, <3>1
    <3>2. CASE Invoke(w)
      BY <3>2 DEF Invoke
    <3>3. CASE Notice(w)
      BY <3>3 DEF Notice, CauseInv, Cause
    <3>. QED BY <1>11, <3>1, <3>2, <3>3
  <2>7. Cause(w)'
    BY <2>2, <2>4, <2>6 DEF Cause
  <2>. QED BY <1>0, <2>1, <2>7
<1>12. ASSUME UNCHANGED vars PROVE CauseInv'
  BY <1>1, <1>12 DEF vars, Forgets
<1>. QED
  BY <1>2, <1>3, <1>4, <1>5, <1>6, <1>7, <1>8, <1>9, <1>10, <1>11, <1>12
  DEF Next, Environment, Cancel, CancelParent, Step, Before, Executing

LEMMA SpecCause == Spec => [](KInv /\ CauseInv)
<1>1. Init => CauseInv
  BY DEF Init, CauseInv, Cause
<1>2. KInv /\ CauseInv /\ [Next]_vars => CauseInv'
  BY StepCause DEF KInv
<1>. QED BY <1>1, <1>2, SpecKInv, PTL DEF Spec

-----------------------------------------------------------------------------
(* The theorems *)

\* The attempt rows are numbered without a gap, and tell what the row of the run
\* tells as long as no lock session was lost, whatever crashes happen.
THEOREM AttemptLedgerAlways == Spec => []AttemptLedger
<1>1. KInv => AttemptLedger
  <2>. SUFFICES ASSUME KInv, NEW r \in Runs, NEW n \in AttemptNos
                PROVE  /\ attempt[r][n] # "none" <=> n <= attemptCount[r]
                       /\ losses = 0 => (attempt[r][n] = "running"
                                            <=> status[r] = "running" /\ n = attemptCount[r])
    BY DEF AttemptLedger
  <2>1. attempt[r][n] = "none" <=> n > attemptCount[r]
    BY DEF KInv, IInv, RunInv
  <2>2. attemptCount[r] \in Nat /\ n \in Nat
    BY ConstantsAssumption DEF KInv, IInv, TypeOK, AttemptNos
  <2>3. losses = 0 => Told(r)
    BY DEF KInv, LockInv
  <2>. QED BY <2>1, <2>2, <2>3 DEF Told
<1>. QED BY <1>1, SpecKInv, PTL

\* Where no session is ever lost, the invariant of the lock always holds.
LEMMA KeptLock ==
  ASSUME MaxLosses = 0
  PROVE  Spec => [](losses = 0)
<1>1. Init => losses = 0
  BY DEF Init
<1>2. losses = 0 /\ [Next]_vars => (losses = 0)'
  <2>. SUFFICES ASSUME losses = 0, [Next]_vars PROVE losses' = 0
    OBVIOUS
  <2>. QED BY ConstantsAssumption, LossesStep DEF LoseSession
<1>. QED BY <1>1, <1>2, PTL DEF Spec

\* A finished run keeps its outcome, although every outcome is written by
\* identity, as long as the lock is kept.
THEOREM TerminalIsFinalAlways ==
  ASSUME MaxLosses = 0
  PROVE  Spec => TerminalIsFinal
<1>1. KInv /\ losses = 0 /\ [Next]_vars
        => [\A r \in Runs : status[r] \in Terminal => status'[r] = status[r]]_vars
  <2>. SUFFICES ASSUME KInv, losses = 0, Next, NEW r \in Runs, status[r] \in Terminal
                PROVE  status'[r] = status[r]
    BY DEF vars, rows
  <2>1. IInv /\ LockInv
    BY DEF KInv
  <2>2. ASSUME NEW w \in Workers, OwnStep(w), pc[w] \notin Inside \/ r # job[w]
        PROVE  status'[r] = status[r]
    BY <2>2 DEF OwnStep
  <2>3. ASSUME NEW w \in Workers, pc[w] \in Inside, r = job[w],
               \/ Step(w) \/ Timeout(w) \/ Crash(w) \/ LoseSession(w)
               \/ \E q \in Runs : Dequeue(w, q)
        PROVE  status'[r] = status[r]
    <3>1. pc[w] \notin Planned \cup Attempting \cup {"settle", "interrupt"}
      BY <2>1, <2>3 DEF LockInv, Snapshot, Terminal
    <3>2. ~Settle(w) /\ ~Begin(w) /\ ~Interrupt(w) /\ ~Commit(w)
      BY <3>1 DEF Settle, Begin, Interrupt, Commit, Planned, Attempting
    <3>. QED BY <2>3, <3>2 DEF Step, Before, Executing, Acquire, Busy, ReadRun, Authorise,
           FindUncertain, Resolve, Invoke, HandlerReturn, Conclude, ProbeLock, ReadFlag,
           Notice, Release, Timeout, Crash, LoseSession, Dequeue, rows
  <2>4. ASSUME Outside PROVE status'[r] = status[r]
    BY <2>4 DEF Outside, Terminal
  <2>. QED BY <2>1, <2>2, <2>3, <2>4, OutsideCases, OwnCases DEF Next
<1>. QED BY <1>1, SpecKInv, KeptLock, PTL DEF Spec, TerminalIsFinal

\* No attempt starts on a task that has a run whose outcome waits for a review,
\* although the blocking run is looked for two awaits earlier.
THEOREM BlockedWhileUnknownAlways ==
  ASSUME MaxLosses = 0
  PROVE  Spec => BlockedWhileUnknown
<1>. DEFINE Blocked == \A r, q \in Runs :
              /\ status[r] = "pending" /\ status'[r] = "running"
              /\ task[q] = task[r]
              => q \notin requiresReview
<1>1. KInv /\ losses = 0 /\ [Next]_vars => [Blocked]_vars
  <2>. SUFFICES ASSUME KInv, losses = 0, Next, NEW r \in Runs, NEW q \in Runs,
                       status[r] = "pending", status'[r] = "running", task[q] = task[r]
                PROVE  q \notin requiresReview
    OBVIOUS
  <2>1. IInv /\ LockInv
    BY DEF KInv
  <2>2. ~Outside
    BY DEF Outside
  <2>3. PICK w \in Workers : \/ Step(w) \/ Timeout(w) \/ Crash(w) \/ LoseSession(w)
                             \/ \E p \in Runs : Dequeue(w, p)
    BY <2>1, <2>2, OutsideCases DEF Next
  <2>4. pc[w] \in Inside /\ r = job[w]
    BY <2>1, <2>3, OwnCases DEF OwnStep
  <2>5. ~Uncertain(r)
    <3>1. CASE Begin(w)
      BY <2>1, <2>4, <3>1 DEF Begin, LockInv, Snapshot
    <3>2. CASE ~Begin(w)
      <4>1. ~Commit(w)
        BY <2>1, <2>4 DEF LockInv, Snapshot, Commit, Attempting
      <4>2. ~Settle(w)
        <5>1. Settle(w) => result[w] \in {"failed", "cancelled"}
          BY <2>1 DEF IInv, WorkerInv, Settle
        <5>. QED BY <2>1, <2>4, <5>1, Typed DEF Settle
      <4>3. ~Interrupt(w)
        BY <2>1, <2>4, Typed DEF Interrupt
      <4>. QED BY <2>3, <3>2, <4>1, <4>2, <4>3 DEF Step, Before, Executing, Acquire, Busy,
             ReadRun, Authorise, FindUncertain, Resolve, Invoke, HandlerReturn, Conclude,
             ProbeLock, ReadFlag, Notice, Release, Timeout, Crash, LoseSession, Dequeue, rows
    <3>. QED BY <3>1, <3>2
  <2>. QED BY <2>5 DEF Uncertain
<1>. QED BY <1>1, SpecKInv, KeptLock, PTL DEF Spec, BlockedWhileUnknown

-----------------------------------------------------------------------------
(* Each step is one of TaskLife, or none. *)

Permit == {"uncertain", "resolve", "begin"}

Same == UNCHANGED <<status, cancelRequested>>

\* The lock lets only one worker in at a run.
LEMMA OnlyOne ==
  ASSUME IInv, LockInv, NEW w \in Workers, NEW v \in Workers,
         pc[w] \in Inside, pc[v] \in Inside, job[v] = job[w]
  PROVE  v = w
  BY DEF LockInv, Held

LEMMA KeepPermit ==
  ASSUME NEW w \in Workers, OwnStep(w),
         pc'[w] \in Permit <=> pc[w] \in Permit,
         pc[w] \in Permit => job'[w] = job[w]
  PROVE  Permitted' = Permitted
<1>1. ASSUME NEW r \in Runs, NEW v \in Workers
      PROVE  job'[v] = r /\ pc'[v] \in Permit <=> job[v] = r /\ pc[v] \in Permit
  BY DEF OwnStep
<1>. QED BY <1>1 DEF Permitted, Permit

LEMMA GainPermit ==
  ASSUME NEW w \in Workers, OwnStep(w), job[w] \in Runs,
         pc'[w] \in Permit, pc[w] \notin Permit, job'[w] = job[w]
  PROVE  Permitted' = Permitted \cup {job[w]}
<1>1. ASSUME NEW r \in Runs, NEW v \in Workers \ {w}
      PROVE  job'[v] = r /\ pc'[v] \in Permit <=> job[v] = r /\ pc[v] \in Permit
  BY DEF OwnStep
<1>. QED BY <1>1 DEF Permitted, Permit

LEMMA LosePermit ==
  ASSUME IInv, LockInv, NEW w \in Workers, OwnStep(w),
         pc[w] \in Permit, pc'[w] \notin Permit
  PROVE  Permitted' = Permitted \ {job[w]}
<1>1. ASSUME NEW r \in Runs, NEW v \in Workers \ {w}
      PROVE  job'[v] = r /\ pc'[v] \in Permit <=> job[v] = r /\ pc[v] \in Permit
  BY DEF OwnStep
<1>2. ASSUME NEW v \in Workers, pc[v] \in Permit, job[v] = job[w] PROVE v = w
  BY <1>2, OnlyOne DEF Permit, Inside
<1>. QED BY <1>1, <1>2 DEF Permitted, Permit

LEMMA NoPermit ==
  ASSUME IInv, LockInv, NEW w \in Workers, pc[w] \in Inside \ Permit
  PROVE  job[w] \notin Permitted
<1>1. ASSUME NEW v \in Workers, pc[v] \in Permit, job[v] = job[w] PROVE FALSE
  BY <1>1, OnlyOne DEF Permit, Inside
<1>. QED BY <1>1 DEF Permitted, Permit

\* A request, or the passing of time.
LEMMA OutsideLives ==
  ASSUME IInv, Environment,
         ~\E w \in Workers : Timeout(w) \/ Crash(w) \/ LoseSession(w)
  PROVE  Life!Next \/ UNCHANGED Life!own
<1>. USE Typed DEF marks, clock, ledger, rows, locals, history, faultVars
<1>0. Permitted' = Permitted
  BY OutsideCases DEF Outside, Permitted
<1>1. ASSUME NEW r \in Runs, NEW t \in Tasks, Start(r, t) PROVE Life!Next
  <2>1. Life!Start(r)
    BY <1>0, <1>1 DEF Start, Life!Start, Life!Move
  <2>. QED BY <2>1 DEF Life!Next
<1>2. ASSUME NEW S \in SUBSET Runs, RequestCancel(S) PROVE Life!Next
  <2>1. Life!Cancel({r \in S : status[r] \in Open})
    BY <1>0, <1>2 DEF RequestCancel, Life!Cancel, Open
  <2>2. {r \in S : status[r] \in Open} \in SUBSET Runs
    OBVIOUS
  <2>. QED BY <2>1, <2>2 DEF Life!Next
<1>3. ASSUME NEW r \in Runs, Review(r) \/ Link(r) \/ Revoke(r) \/ BecomeDue(r) \/ Expire(r)
      PROVE  UNCHANGED Life!own
  BY <1>0, <1>3 DEF Review, Link, Revoke, BecomeDue, Expire, Life!own
<1>4. {r \in Runs : \E p \in Runs : ParentOf[r] = ParentOf[p]} \in SUBSET Runs
  OBVIOUS
<1>. QED BY <1>1, <1>2, <1>3, <1>4 DEF Environment, Cancel, CancelParent

\* A worker's step, or a fault that befalls it.
LEMMA OwnLives ==
  ASSUME KInv, CauseInv, losses = 0, NEW w \in Workers,
         \/ Step(w) \/ Timeout(w) \/ Crash(w) \/ LoseSession(w)
         \/ \E r \in Runs : Dequeue(w, r)
  PROVE  Life!Next \/ UNCHANGED Life!own
<1>0. IInv /\ LockInv /\ OwnStep(w)
  BY OwnCases DEF KInv
<1>. USE <1>0, Typed DEF Goto, Forget, marks, clock, ledger, rows, locals, history,
                         faultVars, Permit
<1>k. ASSUME Same, pc'[w] \in Permit <=> pc[w] \in Permit,
             pc[w] \in Permit => job'[w] = job[w]
      PROVE  UNCHANGED Life!own
  BY <1>k, KeepPermit DEF Same, Life!own
<1>a. ASSUME Same, pc[w] \in Permit, pc'[w] \notin Permit PROVE Life!Next
  <2>1. job[w] \in Runs
    BY <1>a, Working
  <2>2. Life!Abandon(job[w])
    BY <1>a, LosePermit DEF Same, Life!Abandon
  <2>. QED BY <2>1, <2>2 DEF Life!Next
<1>1. ASSUME \/ Acquire(w) \/ Busy(w) \/ ReadRun(w) \/ Invoke(w) \/ HandlerReturn(w)
             \/ Conclude(w) \/ ReadFlag(w) \/ Notice(w) \/ Release(w) \/ Timeout(w)
             \/ LoseSession(w) \/ \E r \in Runs : Dequeue(w, r)
      PROVE  UNCHANGED Life!own
  <2>1. Same
    BY <1>1 DEF Same, Acquire, Busy, ReadRun, Invoke, HandlerReturn, Conclude, ReadFlag,
                Notice, Release, Timeout, LoseSession, Dequeue
  <2>2. /\ pc'[w] \in Permit <=> pc[w] \in Permit
        /\ pc[w] \in Permit => job'[w] = job[w]
    BY <1>1 DEF Acquire, Busy, ReadRun, Invoke, HandlerReturn, Conclude, ReadFlag,
                Notice, Release, Timeout, LoseSession, Dequeue
  <2>. QED BY <2>1, <2>2, <1>k
<1>2. ASSUME ProbeLock(w) PROVE Life!Next \/ UNCHANGED Life!own
  <2>1. job[w] \in Runs /\ status[job[w]] = "running"
    BY <1>2, Working DEF ProbeLock, LockInv, Snapshot, Attempting
  <2>2. Permitted' = Permitted
    BY <1>2, KeepPermit DEF ProbeLock
  <2>3. \/ cancelRequested' = cancelRequested
        \/ cancelRequested' = cancelRequested \cup {job[w]}
    BY <1>2 DEF ProbeLock
  <2>4. status' = status
    BY <1>2 DEF ProbeLock
  <2>5. CASE cancelRequested' = cancelRequested
    BY <2>2, <2>4, <2>5 DEF Life!own
  <2>6. CASE cancelRequested' = cancelRequested \cup {job[w]}
    <3>1. Life!Cancel({job[w]})
      BY <2>1, <2>2, <2>4, <2>6 DEF Life!Cancel
    <3>. QED BY <2>1, <3>1 DEF Life!Next
  <2>. QED BY <2>3, <2>5, <2>6
<1>3. ASSUME Interrupt(w) PROVE Life!Next
  <2>1. job[w] \in Runs /\ status[job[w]] = "running"
    BY <1>3, Working DEF Interrupt, LockInv, Snapshot
  <2>2. Permitted' = Permitted
    BY <1>3, KeepPermit DEF Interrupt
  <2>3. Life!End(job[w], "failed")
    BY <1>3, <2>1, <2>2 DEF Interrupt, Life!End, Life!Move
  <2>. QED BY <2>1, <2>3 DEF Life!Next
<1>4. ASSUME Authorise(w) PROVE Life!Next \/ UNCHANGED Life!own
  <2>1. job[w] \in Runs /\ status[job[w]] = "pending"
    BY <1>4, Working DEF Authorise, LockInv, Snapshot, Planned
  <2>2. Same /\ job' = job /\ pc[w] \notin Permit
    BY <1>4 DEF Authorise, Same
  <2>3. pc'[w] \in Permit => job[w] \in authorised
    BY <1>4 DEF Authorise
  <2>4. ASSUME pc'[w] \in Permit PROVE Life!Next
    <3>1. Life!Permit(job[w])
      BY <2>1, <2>2, <2>3, <2>4, GainPermit DEF Life!Permit, Same
    <3>. QED BY <2>1, <3>1 DEF Life!Next
  <2>. QED BY <2>2, <2>4, <1>k
<1>5. ASSUME FindUncertain(w) \/ Resolve(w) PROVE Life!Next \/ UNCHANGED Life!own
  <2>1. Same /\ job' = job /\ pc[w] \in Permit
    BY <1>5 DEF FindUncertain, Resolve, Same
  <2>. QED BY <2>1, <1>a, <1>k
<1>6. ASSUME Settle(w) PROVE Life!Next
  <2>1. job[w] \in Runs /\ status[job[w]] = "pending"
    BY <1>6, Working DEF Settle, LockInv, Snapshot
  <2>2. /\ result[w] \in {"failed", "cancelled"}
        /\ result[w] = "cancelled" => job[w] \in cancelRequested \/ job[w] \notin authorised
    BY <1>6 DEF Settle, IInv, WorkerInv, CauseInv, Cause
  <2>3. Permitted' = Permitted /\ job[w] \notin Permitted
    BY <1>6, KeepPermit, NoPermit DEF Settle, Inside
  <2>4. status' = [status EXCEPT ![job[w]] = result[w]] /\ UNCHANGED cancelRequested
    BY <1>6 DEF Settle
  <2>5. Life!Refuse(job[w]) \/ Life!Reject(job[w])
    BY <2>1, <2>2, <2>3, <2>4 DEF Life!Refuse, Life!Reject, Life!Move
  <2>. QED BY <2>1, <2>5 DEF Life!Next
<1>7. ASSUME Begin(w) PROVE Life!Next
  <2>1. job[w] \in Runs /\ status[job[w]] = "pending" /\ pc[w] \in Permit
    BY <1>7, Working DEF Begin, LockInv, Snapshot, Planned
  <2>2. CASE NumberFree(job[w], no[w])
    <3>1. pc'[w] \notin Permit /\ status' = [status EXCEPT ![job[w]] = "running"]
          /\ UNCHANGED cancelRequested
      BY <1>7, <2>2 DEF Begin
    <3>2. job[w] \in Permitted
      BY <2>1 DEF Permitted
    <3>3. Life!Begin(job[w])
      BY <2>1, <3>1, <3>2, LosePermit DEF Life!Begin, Life!Move
    <3>. QED BY <2>1, <3>3 DEF Life!Next
  <2>3. CASE ~NumberFree(job[w], no[w])
    <3>1. Same /\ pc'[w] \notin Permit
      BY <1>7, <2>3 DEF Begin, Same
    <3>. QED BY <2>1, <3>1, <1>a
  <2>. QED BY <2>2, <2>3
<1>8. ASSUME Commit(w) PROVE Life!Next
  <2>1. job[w] \in Runs /\ status[job[w]] = "running"
    BY <1>8, Working DEF Commit, LockInv, Snapshot, Attempting
  <2>2. /\ result[w] \in Terminal \cup {"pending"}
        /\ result[w] = "cancelled" => job[w] \in cancelRequested
        /\ result[w] = "pending" => task[job[w]] \in Idempotent
    BY <1>8 DEF Commit, IInv, WorkerInv, CauseInv, Cause
  <2>3. Permitted' = Permitted
    BY <1>8, KeepPermit DEF Commit
  <2>4. status' = [status EXCEPT ![job[w]] = result[w]] /\ UNCHANGED cancelRequested
    BY <1>8 DEF Commit
  <2>5. Life!Repeat(job[w]) \/ Life!End(job[w], result[w])
    BY <2>1, <2>2, <2>3, <2>4 DEF Life!Repeat, Life!End, Life!Move
  <2>6. result[w] # "pending" => result[w] \in {"succeeded", "failed", "cancelled"}
    BY <2>2 DEF Terminal
  <2>7. Life!End(job[w], result[w]) /\ result[w] = "pending" => Life!Repeat(job[w])
    BY <2>1, <2>2 DEF Life!Repeat, Life!End, Life!Move
  <2>. QED BY <2>1, <2>5, <2>6, <2>7 DEF Life!Next
<1>9. ASSUME Crash(w) PROVE Life!Next \/ UNCHANGED Life!own
  <2>1. Same /\ pc'[w] \notin Permit
    BY <1>9 DEF Crash, Same
  <2>. QED BY <2>1, <1>a, <1>k
<1>. QED
  BY <1>1, <1>2, <1>3, <1>4, <1>5, <1>6, <1>7, <1>8, <1>9 DEF Step, Before, Executing

\* While no lock session is lost, the rows live as WorkflowRun has it of its
\* actions, although workers crash, and the queue delivers a run several times.
THEOREM TaskImplementsLife ==
  ASSUME MaxLosses = 0
  PROVE  Spec => ImplementsLife
<1>1. Init => Life!Init
  BY DEF Init, Life!Init, Permitted
<1>2. KInv /\ CauseInv /\ losses = 0 /\ [Next]_vars => [Life!Next]_(Life!own)
  <2>. SUFFICES ASSUME KInv, CauseInv, losses = 0, [Next]_vars
                PROVE  Life!Next \/ UNCHANGED Life!own
    OBVIOUS
  <2>1. ASSUME UNCHANGED vars PROVE UNCHANGED Life!own
    <3>1. UNCHANGED <<status, cancelRequested, pc, job>>
      BY <2>1 DEF vars, rows, marks, locals
    <3>. QED BY <3>1 DEF Life!own, Permitted
  <2>2. ASSUME NEW w \in Workers,
               \/ Step(w) \/ Timeout(w) \/ Crash(w) \/ LoseSession(w)
               \/ \E r \in Runs : Dequeue(w, r)
        PROVE Life!Next \/ UNCHANGED Life!own
    BY <2>2, OwnLives
  <2>3. ASSUME Environment, ~\E w \in Workers : Timeout(w) \/ Crash(w) \/ LoseSession(w)
        PROVE Life!Next \/ UNCHANGED Life!own
    BY <2>3, OutsideLives DEF KInv
  <2>. QED BY <2>1, <2>2, <2>3 DEF Next
<1>. QED BY <1>1, <1>2, SpecCause, KeptLock, PTL DEF Spec, ImplementsLife, Life!Spec

-----------------------------------------------------------------------------
(* How process() comes to its end *)

\* The awaits of process(), in an order of its code.
Place(p) ==
  CASE p = "acquire" -> 1 [] p = "read" -> 2 [] p = "interrupt" -> 3 [] p = "authorise" -> 4
    [] p = "uncertain" -> 5 [] p = "resolve" -> 6 [] p = "begin" -> 7 [] p = "settle" -> 8
    [] p = "check" -> 9 [] p = "handling" -> 10 [] p = "confirm" -> 11 [] p = "commit" -> 12
    [] p = "release" -> 13

\* A later await. What begins an attempt uses up a number that was not used yet.
Ahead(w) ==
  /\ pc'[w] # "idle" /\ Place(pc[w]) < Place(pc'[w])
  /\ pc'[w] = "check" => attemptCount[job[w]] < attemptCount'[job[w]]

\* A control check goes its way while the attempt stays where it is. Where the attempt
\* waits for the check ("check" and "confirm") its answer is the end of it, and after
\* the last write none is begun.
Checks(w) ==
  \/ check[w] = "none" /\ check'[w] # "none" /\ pc[w] \in Attempting
  \/ check[w] = "probed" /\ check'[w] \in {"clear", "cancel", "unknown"}
  \/ check[w] # "none" /\ check'[w] = "none" /\ pc[w] \in {"handling", "commit", "release"}

Nears(w) ==
  /\ pc[w] # "idle"
  /\ pc'[w] = "idle" \/ Ahead(w) \/ (pc'[w] = pc[w] /\ job'[w] = job[w] /\ Checks(w))

Rests(w) == pc'[w] = pc[w] /\ job'[w] = job[w] /\ check'[w] = check[w]

NoneReturned == \A r \in Runs : attemptCount[r] <= attemptCount'[r]

LEMMA CheckTyped ==
  ASSUME IInv
  PROVE  /\ check \in [Workers -> {"none", "probed", "clear", "cancel", "unknown"}]
         /\ \A w \in Workers : check[w] # "none" => pc[w] \in Attempting \cup {"release"}
BY DEF IInv, TypeOK, WorkerInv

LEMMA BeginNears ==
  ASSUME IInv, NEW w \in Workers, Begin(w)
  PROVE  Nears(w) /\ NoneReturned
<1>1. job[w] \in Runs /\ no[w] \in AttemptNos /\ pc[w] = "begin"
  BY DEF Begin, IInv, WorkerInv, Planned
<1>2. \A r \in Runs : attemptCount[r] \in Nat
  BY Typed, ConstantsAssumption
<1>3. CASE ~NumberFree(job[w], no[w])
  BY <1>1, <1>2, <1>3, Typed DEF Begin, Goto, rows, ledger, Nears, Ahead, Place, NoneReturned
<1>4. CASE NumberFree(job[w], no[w])
  <2>1. no[w] > attemptCount[job[w]]
    BY <1>1, <1>4 DEF NumberFree, IInv, RunInv
  <2>2. attemptCount' = [attemptCount EXCEPT ![job[w]] = no[w]] /\ pc' = [pc EXCEPT ![w] = "check"]
    BY <1>4 DEF Begin, Goto
  <2>3. attemptCount[job[w]] < attemptCount'[job[w]]
    BY <1>1, <1>2, <2>1, <2>2, Typed DEF AttemptNos
  <2>4. \A r \in Runs \ {job[w]} : attemptCount'[r] = attemptCount[r]
    BY <2>2, Typed
  <2>. QED BY <1>1, <1>2, <2>2, <2>3, <2>4, Typed DEF Nears, Ahead, Place, NoneReturned
<1>. QED BY <1>3, <1>4

LEMMA OtherNears ==
  ASSUME IInv, NEW w \in Workers, Step(w) \/ Crash(w), ~Begin(w)
  PROVE  Nears(w) /\ attemptCount' = attemptCount
<1>. USE Typed, CheckTyped DEF Nears, Ahead, Place, Checks, Goto, Forget, rows, ledger, marks, locals
<1>1. CASE Acquire(w) \/ Busy(w)
  BY <1>1 DEF Acquire, Busy
<1>2. CASE ReadRun(w)
  BY <1>2 DEF ReadRun
<1>3. CASE Interrupt(w) \/ Settle(w)
  BY <1>3 DEF Interrupt, Settle
<1>4. CASE Authorise(w) \/ FindUncertain(w) \/ Resolve(w)
  BY <1>4 DEF Authorise, FindUncertain, Resolve
<1>5. CASE Invoke(w) \/ Conclude(w)
  BY <1>5 DEF Invoke, Conclude
<1>6. CASE HandlerReturn(w) \/ Commit(w)
  BY <1>6 DEF HandlerReturn, Commit
<1>7. CASE ProbeLock(w)
  BY <1>7 DEF ProbeLock, Attempting
<1>8. CASE ReadFlag(w)
  BY <1>8 DEF ReadFlag, Attempting
<1>9. CASE Notice(w)
  BY <1>9 DEF Notice, SettleCheck
<1>10. CASE Release(w) \/ Crash(w)
  BY <1>10 DEF Release, Crash
<1>. QED BY <1>1, <1>2, <1>3, <1>4, <1>5, <1>6, <1>7, <1>8, <1>9, <1>10
         DEF Step, Before, Executing

\* The checks of other workers are their own.
LEMMA OthersRest ==
  ASSUME IInv, NEW w \in Workers, NEW v \in Workers, v # w, Step(w) \/ Crash(w)
  PROVE  Rests(v)
<1>1. pc'[v] = pc[v] /\ job'[v] = job[v]
  BY OwnCases DEF OwnStep
<1>2. check'[v] = check[v]
  <2>. USE CheckTyped DEF Forget, SettleCheck, locals
  <2>1. CASE Before(w)
    BY <2>1 DEF Before, Acquire, Busy, ReadRun, Interrupt, Authorise, FindUncertain, Resolve,
                Settle, Begin
  <2>2. CASE Executing(w)
    BY <2>2 DEF Executing, Invoke, HandlerReturn, Conclude, Commit
  <2>3. CASE ProbeLock(w) \/ ReadFlag(w) \/ Notice(w)
    BY <2>3 DEF ProbeLock, ReadFlag, Notice
  <2>4. CASE Release(w) \/ Crash(w)
    BY <2>4 DEF Release, Crash
  <2>. QED BY <2>1, <2>2, <2>3, <2>4 DEF Step
<1>. QED BY <1>1, <1>2 DEF Rests

\* What is neither a step of a worker nor its end: a request, the passing of time, a
\* session that the server ends, or a delivery to a worker that was idle.
LEMMA NobodyMoves ==
  ASSUME IInv, [Next]_vars, ~\E w \in Workers : Step(w) \/ Crash(w)
  PROVE  (\A w \in Workers : pc[w] # "idle" => Rests(w)) /\ attemptCount' = attemptCount
<1>. USE Typed, CheckTyped DEF Rests, marks, clock, ledger, rows, locals, history, faultVars
<1>1. ASSUME NEW w \in Workers, NEW r \in Runs, Dequeue(w, r)
      PROVE  (\A v \in Workers : pc[v] # "idle" => Rests(v)) /\ attemptCount' = attemptCount
  BY <1>1 DEF Dequeue, Goto
<1>2. ASSUME NEW w \in Workers, Timeout(w) \/ LoseSession(w)
      PROVE  UNCHANGED <<pc, job, check, attemptCount>>
  BY <1>2 DEF Timeout, LoseSession
<1>3. ASSUME NEW r \in Runs, NEW t \in Tasks, Start(r, t)
      PROVE  UNCHANGED <<pc, job, check, attemptCount>>
  BY <1>3 DEF Start
<1>4. ASSUME NEW S \in SUBSET Runs, RequestCancel(S)
      PROVE  UNCHANGED <<pc, job, check, attemptCount>>
  BY <1>4 DEF RequestCancel
<1>5. ASSUME NEW r \in Runs, Review(r) \/ Link(r) \/ Revoke(r) \/ BecomeDue(r) \/ Expire(r)
      PROVE  UNCHANGED <<pc, job, check, attemptCount>>
  BY <1>5 DEF Review, Link, Revoke, BecomeDue, Expire
<1>6. CASE UNCHANGED vars
  BY <1>6 DEF vars
<1>. QED BY <1>1, <1>2, <1>3, <1>4, <1>5, <1>6 DEF Next, Environment, Cancel, CancelParent

\* Each step of process(), a failure or a crash included, brings it nearer to its end, but
\* for the control checks that come and go while the handler is awaited; whatever happens
\* meanwhile, lost sessions among it, never sends it back. A run that is delivered again
\* and again is begun a bounded number of times: each attempt uses up a number, and no
\* number is given back. EventuallySettled needs besides that steps are taken and that
\* the handler returns.
THEOREM WorkersWindDown ==
  Spec => [][/\ \A w \in Workers :
                  IF Step(w) \/ Crash(w) THEN Nears(w) ELSE pc[w] # "idle" => Rests(w)
             /\ NoneReturned]_vars
<1>1. \A r \in Runs : IInv => attemptCount[r] <= attemptCount[r]
  BY Typed, ConstantsAssumption
<1>2. ASSUME IInv, NEW w \in Workers, Step(w) \/ Crash(w)
      PROVE  Nears(w) /\ NoneReturned
  BY <1>1, <1>2, BeginNears, OtherNears DEF NoneReturned
<1>3. ASSUME IInv, [Next]_vars
      PROVE  /\ \A w \in Workers :
                  IF Step(w) \/ Crash(w) THEN Nears(w) ELSE pc[w] # "idle" => Rests(w)
             /\ NoneReturned
  <2>1. CASE \E w \in Workers : Step(w) \/ Crash(w)
    BY <1>2, <1>3, <2>1, OthersRest
  <2>2. CASE ~\E w \in Workers : Step(w) \/ Crash(w)
    BY <1>1, <1>3, <2>2, NobodyMoves DEF NoneReturned
  <2>. QED BY <2>1, <2>2
<1>4. IInv /\ [Next]_vars =>
        [/\ \A w \in Workers :
              IF Step(w) \/ Crash(w) THEN Nears(w) ELSE pc[w] # "idle" => Rests(w)
         /\ NoneReturned]_vars
  BY <1>3
<1>. QED BY <1>4, SpecIInv, PTL DEF Spec
=============================================================================
