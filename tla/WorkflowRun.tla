---------------------------- MODULE WorkflowRun ----------------------------
(***************************************************************************)
(* One run of a published workflow                                         *)
(* (src/src/modules/workflow-engine/application/                           *)
(*  workflow-bpmn-execution.service.ts, workflow-execution.service.ts).    *)
(*                                                                         *)
(* The queue hands the run to workers again and again. A worker takes the  *)
(* MySQL named lock of the run, reads the run row and the activity rows    *)
(* into memory, lets the BPMN engine move the tokens of the checkpoint,    *)
(* and stops or advances the activities one after the other. Its reads and *)
(* writes use the lock's own session, so that they fail once the server    *)
(* has ended it; the calls of the task service do not. Messages and human  *)
(* decisions are written under the same lock, a cancellation without it.   *)
(* The atomic actions are rows of their own, carried out by another queue  *)
(* that asks the run for permission.                                       *)
(*                                                                         *)
(* The BPMN engine is a choice among the token moves a diagram allows; a   *)
(* timer that fires is a move that needs no message and no result. Each    *)
(* visit of a node is one member of Nodes. Of the activities, those of     *)
(* business processes and scripts are left out, and those of rules, which  *)
(* are evaluated and settled in one step of the main loop. So are the      *)
(* times of waking: an open run always becomes due again.                  *)
(***************************************************************************)
EXTENDS Naturals, FiniteSets

CONSTANTS
  Acts,       \* visits of activities: their execution ids
  Waits,      \* visits of events that wait for a message
  KindOf,     \* step.kind of each activity
  After,      \* the nodes of which one must be passed before a node is reached
  Idempotent, \* actions whose handler declares itself idempotent
  MaxFaults,  \* bound: crashes, rejected queries, lock sessions ended
  NoAct

Nodes == Acts \cup Waits

ASSUME ConstantsAssumption ==
  /\ Acts \cap Waits = {}
  /\ KindOf \in [Acts -> {"action", "human"}]
  /\ After \in [Nodes -> SUBSET Nodes]
  /\ Idempotent \subseteq Acts
  /\ MaxFaults \in Nat
  /\ NoAct \notin Acts

VARIABLES
  status, cancelRequested, errorMessage,  \* columns of the run row
  expired,      \* deadlineAt has come
  book,         \* bpmnState and the activity rows, see Fresh
  child,        \* the task run of each action
  childCancel,  \* the task runs with cancelRequested
  permit,       \* task runs whose canExecute said yes and that did not begin yet
  stray,        \* calls of the task service whose worker lost the lock meanwhile
  pc,           \* the await at which the worker that holds the lock is
  copy,         \* its book in memory
  seen,         \* the flags of the run row it read
  phase,        \* stopRun, the sweep of withdrawn activities, or the main loop
  todo,         \* activities the loop has not come to
  at,           \* the activity being advanced
  halt,         \* what shouldStop() answered for it
  outcome,      \* the status complete() decided
  faults

row == <<status, cancelRequested, errorMessage, expired>>
tasks == <<child, childCancel, permit>>
locals == <<pc, copy, seen, phase, todo, at, halt, outcome>>
vars == <<row, book, tasks, stray, locals, faults>>

Open == {"pending", "waiting"}           \* RUN_STATUS_GROUP.workflowOpen
Terminal == {"succeeded", "failed", "cancelled"}
ActOpen == {"pending", "waiting"}        \* RUN_STATUS_GROUP.activityOpen
Settled == {"succeeded", "failed"}       \* RUN_STATUS_GROUP.settled
TaskOpen == {"pending", "running"}

-----------------------------------------------------------------------------
(* The checkpoint, the inbox and the activity rows *)

\* A run before its first advance.
Fresh ==
  [engine    |-> "none",                         \* bpmnState.status
   token     |-> [n \in Nodes |-> "none"],       \* checkpoint, activeActivities
   inbox     |-> [x \in Waits |-> "none"],       \* bpmnState.messages
   act       |-> [a \in Acts |-> "none"],        \* state.status of the rows
   delivered |-> {},
   withdrawn |-> {},                             \* rows with cancelRequested
   linked    |-> {}]                             \* rows whose taskRunId is set

\* prepareBpmnMessageStart(): a run created by a message has its first wait
\* and the message in its first checkpoint.
Started(x) ==
  [Fresh EXCEPT !.engine = "waiting", !.token[x] = "live", !.inbox[x] = "pending"]

Live(b) == {n \in Nodes : b.token[n] = "live"}
Rows(b) == {a \in Acts : b.act[a] # "none"}
OpenRows(b) == {a \in Acts : b.act[a] \in ActOpen /\ a \notin b.delivered}
Results(b) ==
  {a \in Acts : b.act[a] \in Settled /\ a \notin b.delivered \cup b.withdrawn}
Pending(b) == {x \in Waits : b.inbox[x] = "pending"}

\* workflowAllowsDispatch() on a row just read.
Dispatchable == /\ ~cancelRequested
                /\ ~errorMessage
                /\ status \in Open
                /\ ~expired

Init ==
  /\ status = "pending"
  /\ cancelRequested = FALSE /\ errorMessage = FALSE /\ expired = FALSE
  /\ book \in {Fresh} \cup {Started(x) : x \in {y \in Waits : After[y] = {}}}
  /\ child = [a \in Acts |-> "absent"]
  /\ childCancel = {} /\ permit = {}
  /\ stray = {}
  /\ pc = "idle" /\ copy = Fresh /\ seen = {} /\ phase = "none"
  /\ todo = {} /\ at = NoAct /\ halt = FALSE /\ outcome = "none"
  /\ faults = 0

-----------------------------------------------------------------------------
(* Requests *)

\* cancel(): one UPDATE of an open run, without the lock.
Cancel ==
  /\ status \in Open
  /\ ~cancelRequested
  /\ cancelRequested' = TRUE
  /\ UNCHANGED <<status, errorMessage, expired, book, tasks, locals, stray, faults>>

Expire ==
  /\ ~expired
  /\ expired' = TRUE
  /\ UNCHANGED <<status, cancelRequested, errorMessage, book, tasks, locals, stray, faults>>

\* Mutation: requests do not wait for the lock.
RunAlways == TRUE

\* GET_LOCK: nobody is advancing the run.
RunFree == pc = "idle"

\* accept(): one transaction under the lock. The wait must be active and have
\* no pending message; whether the engine has failed is not asked.
Accept(x) ==
  /\ RunFree
  /\ book.engine # "none"
  /\ Dispatchable
  /\ book.token[x] = "live"
  /\ book.inbox[x] = "none"
  /\ book' = [book EXCEPT !.inbox[x] = "pending"]
  /\ UNCHANGED <<row, tasks, stray, locals, faults>>

\* submit(): one transaction under the lock.
Submit(a) ==
  /\ RunFree
  /\ KindOf[a] = "human"
  /\ Dispatchable
  /\ book.act[a] = "waiting"
  /\ a \notin book.withdrawn \cup book.delivered
  /\ book' = [book EXCEPT !.act[a] = "succeeded"]
  /\ UNCHANGED <<row, tasks, stray, locals, faults>>

-----------------------------------------------------------------------------
(* Steps of process() *)

Goto(place) == pc' = place

\* The call ends: the lock is released, what the worker knew is gone.
Release ==
  /\ Goto("idle")
  /\ copy' = Fresh /\ seen' = {} /\ phase' = "none"
  /\ todo' = {} /\ at' = NoAct /\ halt' = FALSE /\ outcome' = "none"

\* The flags that the row and the clock show to the worker that reads them.
FlagsRead == (IF cancelRequested THEN {"cancel"} ELSE {})
             \cup (IF errorMessage \/ expired THEN {"error"} ELSE {})

\* stopRun(): pending messages are dropped and every activity is withdrawn.
Discarded(b) ==
  [b EXCEPT !.inbox = [x \in Waits |-> IF b.inbox[x] = "pending" THEN "discarded"
                                                               ELSE b.inbox[x]],
            !.withdrawn = Rows(b)]

\* Mutation: only the first advance moves tokens.
MovesOnce(b) == b.engine = "none"

MovesTokens(b) == b.engine \in {"none", "waiting"}

\* GET_LOCK with no waiting, then the rows are read and the branch is chosen.
\* A run that is no longer open is left as it is.
Enter ==
  /\ pc = "idle"
  /\ status \in Open
  /\ seen' = FlagsRead
  /\ LET b == IF FlagsRead # {} THEN Discarded(book) ELSE book
         tokens == FlagsRead = {} /\ MovesTokens(book)
     IN  /\ copy' = b
         /\ Goto(IF tokens THEN "tokens" ELSE "visit")
         /\ phase' = IF FlagsRead = {} THEN "sweep" ELSE "stop"
         /\ todo' = IF tokens THEN {} ELSE OpenRows(b) \cap b.withdrawn
  /\ UNCHANGED <<row, book, tasks, at, halt, outcome, stray, faults>>

\* Mutation: a token that the engine cancelled leaves its activity as it is.
KeepCut(b, cut, failed) == b.withdrawn

\* Activities whose token the engine cancelled, or all when it failed.
Withdraw(b, cut, failed) ==
  b.withdrawn \cup (cut \cap Acts) \cup (IF failed THEN Acts \ b.delivered ELSE {})

\* The book after the engine consumed every result and every pending message
\* of b, cancelled the tokens in cut and reached the nodes in new.
Moved(b, cut, new, engine) ==
  LET results == Results(b)
      pending == Pending(b)
      token == [n \in Nodes |->
                  IF n \in new THEN "live"
                  ELSE IF n \in cut \cup results \cup pending THEN "gone"
                  ELSE b.token[n]]
      act == [a \in Acts |-> IF a \in new THEN "pending" ELSE b.act[a]]
      delivered == b.delivered \cup results
  IN  [engine |-> engine,
       token |-> token,
       inbox |-> [x \in Waits |-> IF x \notin pending THEN b.inbox[x]
                                  ELSE IF x \in Live(b) \ cut THEN "delivered"
                                                             ELSE "discarded"],
       act |-> act,
       delivered |-> delivered,
       withdrawn |-> Withdraw([b EXCEPT !.delivered = delivered], cut, engine = "failed")
                       \cap {a \in Acts : act[a] # "none"},
       linked |-> b.linked]

\* The moves the engine can make: only live tokens are cancelled, a node is
\* reached once one of its predecessors is passed, and the engine has ended
\* when no token is left.
Moves(b) ==
  LET passed == {n \in Nodes : b.token[n] = "gone"} \cup Results(b) \cup Pending(b)
  IN  {m \in {Moved(b, cut, new, e) :
                cut \in SUBSET (Live(b) \ Results(b)),
                new \in SUBSET {n \in Nodes : /\ b.token[n] = "none"
                                              /\ After[n] = {} \/ After[n] \cap passed # {}},
                e \in {"waiting", "succeeded", "failed"}} :
         /\ m.engine = "waiting" => Live(m) # {}
         /\ m.engine = "succeeded" => Live(m) = {}}

\* advanceTokens(): the checkpoint, the inbox and all activity rows are
\* written in one transaction before anything is dispatched.
AdvanceTokens ==
  /\ pc = "tokens"
  /\ \E b \in Moves(copy) :
       /\ book' = b
       /\ copy' = b
       /\ todo' = OpenRows(b) \cap b.withdrawn
  /\ status' = "waiting"
  /\ Goto("visit")
  /\ UNCHANGED <<cancelRequested, errorMessage, expired, tasks, seen, phase, at,
                 halt, outcome, stray, faults>>

SetAct(a, s) == copy' = [copy EXCEPT !.act[a] = s]

\* stopActivities(): the next activity is told to stop. What has no task run was
\* never begun and is cancelled at once.
StopNext ==
  /\ pc = "visit"
  /\ phase \in {"stop", "sweep"}
  /\ \E a \in todo :
       /\ todo' = todo \ {a}
       /\ at' = a
       /\ IF a \in copy.linked
          THEN Goto("ask") /\ UNCHANGED copy
          ELSE Goto("save") /\ SetAct(a, "cancelled")
  /\ halt' = TRUE
  /\ UNCHANGED <<row, book, tasks, seen, phase, outcome, stray, faults>>

\* The main loop reads the run again before each activity and breaks off when
\* the cancellation has arrived.
Pick ==
  /\ pc = "visit"
  /\ phase = "run"
  /\ \E a \in todo :
       IF cancelRequested
       THEN todo' = {} /\ UNCHANGED <<pc, at>>
       ELSE /\ todo' = todo \ {a}
            /\ at' = a
            /\ Goto("look")
  /\ UNCHANGED <<row, book, tasks, copy, seen, phase, halt, outcome, stray, faults>>

\* advanceActivity() in the main loop up to its next await: shouldStop() reads
\* the run once more, then the step is stopped, left waiting, or handed to the
\* task service.
Look ==
  LET stop == ~Dispatchable
      linked == at \in copy.linked
  IN  /\ pc = "look"
      /\ halt' = stop
      /\ \/ /\ stop /\ ~linked
            /\ SetAct(at, "cancelled")
            /\ Goto("save")
         \/ /\ KindOf[at] = "action"
            /\ stop => linked
            /\ UNCHANGED copy
            /\ Goto(IF linked THEN "ask" ELSE "start")
         \/ /\ KindOf[at] = "human" /\ ~stop
            /\ SetAct(at, "waiting")
            /\ Goto("save")
      /\ UNCHANGED <<row, book, tasks, seen, phase, todo, at, outcome, stray, faults>>

StartChild(a) == child' = [child EXCEPT ![a] = IF @ = "absent" THEN "pending" ELSE @]

CancelChild(a) == childCancel' = childCancel \cup {c \in {a} : child[c] \in TaskOpen}

\* tasks.start(), on a connection of its own: the execution key makes one row.
StartTask ==
  /\ pc = "start"
  /\ StartChild(at)
  /\ copy' = [copy EXCEPT !.linked = @ \cup {at}]
  /\ Goto("link")
  /\ UNCHANGED <<row, book, childCancel, permit, seen, phase, todo, at, halt, outcome,
                 stray, faults>>

\* The row of one activity as the worker has it in memory.
SaveAct ==
  LET in(S, T) == IF at \in T THEN S \cup {at} ELSE S \ {at}
  IN  book' = [book EXCEPT !.act[at] = copy.act[at],
                           !.delivered = in(@, copy.delivered),
                           !.withdrawn = in(@, copy.withdrawn),
                           !.linked = in(@, copy.linked)]

\* control.save() of the new taskRunId, the status still as it was.
Link ==
  /\ pc = "link"
  /\ SaveAct
  /\ Goto("ask")
  /\ UNCHANGED <<row, tasks, copy, seen, phase, todo, at, halt, outcome, stray, faults>>

\* A task run that is still open keeps the activity waiting; a cancellation
\* that nobody asked for is a failure of the step.
Answer ==
  LET s == child[at]
  IN  CASE s \in TaskOpen -> "waiting"
        [] s = "cancelled" /\ ~halt -> "failed"
        [] OTHER -> s

\* tasks.cancel() or tasks.read(), on a connection of their own.
Ask ==
  /\ pc = "ask"
  /\ IF halt THEN CancelChild(at) ELSE UNCHANGED childCancel
  /\ SetAct(at, Answer)
  /\ Goto("save")
  /\ UNCHANGED <<row, book, child, permit, seen, phase, todo, at, halt, outcome,
                 stray, faults>>

Save ==
  /\ pc = "save"
  /\ SaveAct
  /\ Goto("visit")
  /\ at' = NoAct
  /\ halt' = FALSE
  /\ UNCHANGED <<row, tasks, copy, seen, phase, todo, outcome, stray, faults>>

-----------------------------------------------------------------------------
(* The ends of process() *)

Visited(p) == pc = "visit" /\ todo = {} /\ phase = p

\* Activities that were told to stop and have not ended.
Leaving(b) == {a \in b.withdrawn : b.act[a] = "waiting"}

\* The end of stopRun(): bpmnState, with the dropped messages, and the status
\* are written by id.
Stop ==
  /\ Visited("stop")
  /\ status' = (IF Leaving(copy) # {} THEN "waiting"
                ELSE IF seen = {"cancel"} THEN "cancelled" ELSE "failed")
  /\ errorMessage' = (errorMessage \/ "error" \in seen)
  /\ book' = [book EXCEPT !.engine = copy.engine, !.token = copy.token,
                          !.inbox = copy.inbox]
  /\ Release
  /\ UNCHANGED <<cancelRequested, expired, tasks, stray, faults>>

\* After the sweep: wait for what is still leaving, or complete the run, or
\* advance the activities whose tokens are alive. A failed engine is final.
Swept ==
  /\ Visited("sweep")
  /\ Leaving(copy) = {}
  /\ IF copy.engine = "waiting"
     THEN /\ phase' = "run"
          /\ todo' = OpenRows(copy) \ copy.withdrawn
          /\ UNCHANGED pc
          /\ UNCHANGED outcome
     ELSE /\ UNCHANGED <<phase, todo>>
          /\ IF copy.engine = "failed"
             THEN Goto("finish") /\ outcome' = "failed"
             ELSE Goto("complete") /\ UNCHANGED outcome
  /\ UNCHANGED <<row, book, tasks, copy, seen, at, halt, stray, faults>>

Postpone ==
  /\ Visited("sweep")
  /\ Leaving(copy) # {}
  /\ status' = "waiting"
  /\ Release
  /\ UNCHANGED <<cancelRequested, errorMessage, expired, book, tasks, stray, faults>>

\* complete(): the output is validated and the business process accepts it, or
\* one of them refuses.
Complete ==
  /\ pc = "complete"
  /\ \E s \in Settled : outcome' = s
  /\ Goto("finish")
  /\ UNCHANGED <<row, book, tasks, copy, seen, phase, todo, at, halt, stray, faults>>

\* Mutation: the outcome is written whatever the row says.
RegardlessOfCancel == TRUE

\* UPDATE ... WHERE id = ? AND cancelRequested = false
UnlessCancelled == ~cancelRequested

Finish ==
  /\ pc = "finish"
  /\ IF UnlessCancelled
     THEN /\ status' = outcome
          /\ errorMessage' = (errorMessage \/ outcome = "failed")
     ELSE UNCHANGED <<status, errorMessage>>
  /\ Release
  /\ UNCHANGED <<cancelRequested, expired, book, tasks, stray, faults>>

\* The end of the main loop.
Wait ==
  /\ Visited("run")
  /\ status' = (IF ~cancelRequested THEN "waiting" ELSE status)
  /\ Release
  /\ UNCHANGED <<cancelRequested, errorMessage, expired, book, tasks, stray, faults>>

-----------------------------------------------------------------------------
(* The task runs: processAction(), and the task service as TaskLife has it *)

\* canExecute: the run and the activity are read again.
Permitted(a) == Dispatchable /\ a \notin book.withdrawn \cup book.delivered

Life == INSTANCE TaskLife WITH
          Runs <- Acts, stage <- child, cancelled <- childCancel, permit <- permit,
          allowed <- {a \in Acts : Permitted(a)}, repeatable <- Idempotent

\* The task service does not touch the rows of the run.
TaskOnly == UNCHANGED <<row, book, locals, stray, faults>>

\* The queue takes up a task run whose activity names it. The cancellation is
\* read before canExecute is asked, and may come in between.
Authorise(a) ==
  /\ a \in book.linked
  /\ a \notin permit
  /\ Life!Permit(a) \/ Life!Refuse(a) \/ Life!Reject(a)
  /\ TaskOnly

Begin(a) == (Life!Begin(a) \/ (a \in permit /\ Life!Abandon(a))) /\ TaskOnly

\* The handler returns, is aborted by a control check, or its worker died.
EndTask(a) ==
  /\ Life!Repeat(a) \/ \E s \in Terminal : Life!End(a, s)
  /\ TaskOnly

\* A control check that is refused asks for the cancellation itself.
Note(a) ==
  /\ child[a] = "running" /\ a \notin childCancel /\ ~Permitted(a)
  /\ Life!Cancel({a})
  /\ TaskOnly

\* Mutation: the actions of a cancelled run are no longer taken up.
ListedUnlessCancelled(a) == /\ status \in Open /\ ~cancelRequested
                            /\ a \in book.linked \ book.delivered
                            /\ book.act[a] = "waiting"

\* What pendingActionIds() lists.
Listed(a) == /\ status \in Open
             /\ a \in book.linked \ book.delivered
             /\ book.act[a] = "waiting"

-----------------------------------------------------------------------------
(* Faults *)

\* The worker dies, a call throws, or the server has ended the session and the
\* statement in progress on it is refused: the lock is free, memory is lost.
Throw ==
  /\ faults < MaxFaults
  /\ pc # "idle"
  /\ faults' = faults + 1
  /\ Release
  /\ UNCHANGED <<row, book, tasks, stray>>

\* The session ends while its worker calls the task service on another
\* connection. The call is made; the next statement of the worker is refused.
LoseSession ==
  /\ faults < MaxFaults
  /\ pc = "start" \/ (pc = "ask" /\ halt)
  /\ faults' = faults + 1
  /\ stray' = stray \cup {<<pc, at>>}
  /\ Release
  /\ UNCHANGED <<row, book, tasks>>

StrayCall(a) ==
  /\ \/ /\ <<"start", a>> \in stray
        /\ stray' = stray \ {<<"start", a>>}
        /\ StartChild(a)
        /\ UNCHANGED childCancel
     \/ /\ <<"ask", a>> \in stray
        /\ stray' = stray \ {<<"ask", a>>}
        /\ CancelChild(a)
        /\ UNCHANGED child
  /\ UNCHANGED <<row, book, permit, locals, faults>>

-----------------------------------------------------------------------------

Advance ==
  \/ AdvanceTokens \/ StopNext \/ Pick \/ Look \/ StartTask \/ Link \/ Ask \/ Save
  \/ Stop \/ Swept \/ Postpone \/ Complete \/ Finish \/ Wait

Carry(a) == Begin(a) \/ EndTask(a) \/ Note(a)

Next ==
  \/ Cancel
  \/ Expire
  \/ \E x \in Waits : Accept(x)
  \/ \E a \in Acts : Submit(a) \/ Authorise(a) \/ Carry(a) \/ StrayCall(a)
  \/ Enter \/ Advance \/ Throw \/ LoseSession

Spec == Init /\ [][Next]_vars

\* The pump queues an open run again at the latest 30 s after its last advance
\* and a listed task run each 500 ms; awaited calls return or fail; a handler
\* returns, on its own or on its abort signal. Nothing forces a request.
Fairness ==
  /\ WF_vars(Enter)
  /\ WF_vars(Advance)
  /\ \A a \in Acts : /\ WF_vars(Authorise(a) /\ Listed(a))
                      /\ WF_vars(Carry(a))

FairSpec == Spec /\ Fairness

-----------------------------------------------------------------------------
(* Properties *)

Books ==
  [engine : {"none", "waiting"} \cup Settled,
   token : [Nodes -> {"none", "live", "gone"}],
   inbox : [Waits -> {"none", "pending", "delivered", "discarded"}],
   act : [Acts -> {"none"} \cup ActOpen \cup Terminal],
   delivered : SUBSET Acts, withdrawn : SUBSET Acts, linked : SUBSET Acts]

\* Every variable keeps its type.
TypeOK ==
  /\ status \in Open \cup Terminal
  /\ cancelRequested \in BOOLEAN /\ errorMessage \in BOOLEAN /\ expired \in BOOLEAN
  /\ book \in Books
  /\ child \in [Acts -> {"absent"} \cup TaskOpen \cup Terminal]
  /\ childCancel \subseteq Acts /\ permit \subseteq Acts
  /\ stray \subseteq {"start", "ask"} \X Acts
  /\ pc \in {"idle", "tokens", "visit", "look", "start", "link", "ask", "save",
            "complete", "finish"}
  /\ copy \in Books
  /\ seen \subseteq {"cancel", "error"}
  /\ phase \in {"none", "stop", "sweep", "run"}
  /\ todo \subseteq Acts
  /\ at \in Acts \cup {NoAct}
  /\ halt \in BOOLEAN
  /\ outcome \in {"none"} \cup Settled
  /\ faults \in Nat

\* When a run has ended, none of its task runs is waiting or being carried
\* out, nor about to: what the run started is over. A task row that was never
\* linked to its activity may be left behind, and nobody carries it out.
EndedQuiet ==
  status \in Terminal =>
    /\ permit = {}
    /\ \A a \in Acts : child[a] \in TaskOpen => child[a] = "pending" /\ a \notin book.linked

\* What was acknowledged to a sender or to a person is kept: a received message
\* does not disappear, a consumed one is not consumed again, and a submitted
\* decision is not replaced by a worker that advances the run.
AcceptedKept ==
  [][/\ \A x \in Waits :
          /\ book.inbox[x] # "none" => book'.inbox[x] # "none"
          /\ book.inbox[x] \in {"delivered", "discarded"} => book'.inbox[x] = book.inbox[x]
     /\ \A a \in Acts :
          KindOf[a] = "human" /\ book.act[a] = "succeeded" => book'.act[a] = "succeeded"]_vars

\* A permission that canExecute has refused is never given again, though rows are
\* written from memory: an attempt that was refused need not be asked for again.
PermissionFades == [][\A a \in Acts : Permitted(a)' => Permitted(a)]_vars

\* The run keeps the promise of WorkScope: actions begin only in an open run, and
\* once unless they can be repeated, an outcome is final and is never success after the
\* cancellation was accepted.
Scope == INSTANCE WorkScope WITH
           Effects <- Acts, Repeatable <- Idempotent,
           phase <- IF status \in Open THEN "open" ELSE status,
           revoked <- cancelRequested,
           effect <- [a \in Acts |-> CASE child[a] = "running" -> "active"
                                        [] child[a] \in Terminal -> "over"
                                        [] OTHER -> "none"]
ImplementsScope == Scope!Spec

\* A run that was cancelled, or whose deadline has come, ends, though workers
\* crash and lose their sessions while its actions are being stopped.
StopEnds == cancelRequested \/ expired ~> status \in Terminal

\* Again and again every received message and every result of an activity has
\* been consumed, withdrawn or dropped, unless the run has ended.
ResultsConsumed ==
  []<>(status \in Terminal \/ (Results(book) = {} /\ Pending(book) = {}))
=============================================================================
