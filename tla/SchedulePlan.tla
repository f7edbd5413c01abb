---------------------------- MODULE SchedulePlan ----------------------------
(***************************************************************************)
(* One automation plan: its activation, the occurrences of its trigger and *)
(* their dispatch to the workflow engine (src/src/modules/task-scheduling  *)
(* and src/src/modules/trigger-engine).                                    *)
(*                                                                         *)
(* Every operation of the plan runs under the MySQL named lock of the plan *)
(* and writes the tables of the plan on the very session that holds the    *)
(* lock: when the session ends, so do these writes.  The trigger engine    *)
(* and the workflow engine are called on other connections, and answer a   *)
(* caller whether or not it still holds the lock.                          *)
(*                                                                         *)
(* An activation is the revision at which the plan was enabled; it names   *)
(* the binding row and the trigger registration made for it (the consumer  *)
(* key is schedule:<id>:<revision>).  An occurrence is a registration and  *)
(* the identity of what occurred: a due instant, an event or a click.      *)
(***************************************************************************)
EXTENDS Naturals

CONSTANTS
  MaxRevision,  \* bound: enable and disable requests that take effect
  Events,       \* identities of due instants, published events and clicks
  KindOf,       \* "time", "event" or "manual": the trigger of an activation
  Skip,         \* TRUE: overlap = "skip", FALSE: overlap = "parallel"
  Workers,      \* concurrent calls: requests and recovery polls
  MaxFaults,    \* bound: crashes, rejected calls of another module, lost lock sessions
  MaxLosses,    \* bound: the sessions among them, ended under a live worker
  NoWorker, NoOcc

Activations == 1 .. MaxRevision
Occurrences == Activations \X Events
ActivationOf == [o \in Occurrences |-> o[1]]

ASSUME ConstantsAssumption ==
  /\ MaxRevision \in Nat
  /\ KindOf \in [Activations -> {"time", "event", "manual"}]
  /\ Skip \in BOOLEAN
  /\ MaxFaults \in Nat
  /\ MaxLosses \in Nat
  /\ NoWorker \notin Workers
  /\ NoOcc \notin Occurrences

VARIABLES
  revision, active,   \* ScheduleState; active is 0 when the plan is disabled
  bound, retired,     \* activations with a binding row, retired ones
  registration,       \* TriggerRegistration.status of each activation
  recorded, acked,    \* TriggerOccurrence rows, the acknowledged ones
  receipts,           \* TriggerEventReceipt rows
  dispatch, due,      \* ScheduleDispatch.status; rows whose nextAttemptAt came
  run,                \* the workflow run of the execution key of an occurrence
  owner,              \* the session that holds kt:schedule:<id> on the server
  pc,                 \* the await each worker is at
  expected,           \* the revision a request of the page carries
  seen,               \* state.activeBindingId as the worker has read it
  todo,               \* the bindings it has yet to visit
  work, resume,       \* the occurrences it has yet to visit; read as "starting"
  cur,                \* the occurrence it is at
  faults, losses

control == <<revision, active, bound, retired>>
trigger == <<registration, recorded, acked, receipts>>
inbox == <<dispatch, due>>
locals == <<expected, seen, todo, work, resume, cur>>
faultVars == <<faults, losses>>
vars == <<control, trigger, inbox, run, owner, pc, locals, faultVars>>

-----------------------------------------------------------------------------

Launched == {"starting", "running"}         \* RUN_STATUS_GROUP.occurrenceLaunched
Dispatchable == {"pending", "starting"}     \* occurrenceDispatchable
Final == {"skipped", "failed", "ended"}     \* "ended" has the result of the run

\* Positions at which the next await is a query on the lock session.
OnSession == {"enable", "bind", "disable", "list", "fire", "collect", "inbox",
              "retire", "refresh", "select", "admit", "record", "refuse",
              "defer"}
\* Positions at which it is a call of the trigger or workflow engine.
OnPool == {"prepare", "visit", "activate", "firing", "pull", "ack", "launch"}
\* refreshTarget() reads the run on the pool and writes on the session.
Reading == {"reading", "reread"}
Inside == OnSession \cup OnPool \cup Reading \cup {"release"}

Init ==
  /\ revision = 0 /\ active = 0
  /\ bound = {} /\ retired = {}
  /\ registration = [a \in Activations |-> "none"]
  /\ recorded = {} /\ acked = {} /\ receipts = {}
  /\ dispatch = [o \in Occurrences |-> "none"]
  /\ due = {}
  /\ run = [o \in Occurrences |-> "none"]
  /\ owner = NoWorker
  /\ pc = [w \in Workers |-> "idle"]
  /\ expected = [w \in Workers |-> 0]
  /\ seen = [w \in Workers |-> 0]
  /\ todo = [w \in Workers |-> {}]
  /\ work = [w \in Workers |-> {}]
  /\ resume = [w \in Workers |-> {}]
  /\ cur = [w \in Workers |-> NoOcc]
  /\ faults = 0 /\ losses = 0

Goto(w, place) == pc' = [pc EXCEPT ![w] = place]

\* Also the mutation of OnLock in which queries use the pool.
At(w, place) == pc[w] = place

\* A query on the lock session succeeds while the session lives.
OnLock(w, place) == pc[w] = place /\ owner = w

Forget(w) ==
  /\ Goto(w, "idle")
  /\ expected' = [expected EXCEPT ![w] = 0]
  /\ seen' = [seen EXCEPT ![w] = 0]
  /\ todo' = [todo EXCEPT ![w] = {}]
  /\ work' = [work EXCEPT ![w] = {}]
  /\ resume' = [resume EXCEPT ![w] = {}]
  /\ cur' = [cur EXCEPT ![w] = NoOcc]

FreeLock(w) == owner' = IF owner = w THEN NoWorker ELSE owner

-----------------------------------------------------------------------------
(* Taking the lock: a busy lock leaves everything as it is. *)

\* The request carries the revision of the page, which may be an earlier one.
Acquire(w, place, e) ==
  /\ At(w, "idle")
  /\ owner = NoWorker
  /\ owner' = w
  /\ Goto(w, place)
  /\ expected' = [expected EXCEPT ![w] = e]
  /\ UNCHANGED <<control, trigger, inbox, run, seen, todo, work, resume, cur, faultVars>>

Enable(w) == \E e \in 0 .. revision : e < MaxRevision /\ Acquire(w, "enable", e)
Disable(w) == \E e \in 0 .. revision : e < MaxRevision /\ Acquire(w, "disable", e)
Fire(w) == Acquire(w, "fire", 0)

\* Mutations: a disabled plan is no longer polled for its dispatches, or for its
\* bindings.
HasWorkBound == active # 0 \/ bound \ retired # {}
HasWorkOpen == \/ active # 0
               \/ \E o \in Occurrences : dispatch[o] \in Dispatchable \cup Launched

\* pendingScheduleIds(): plans that are enabled, or have a binding that is not
\* retired or a dispatch that is open.
HasWork == \/ active # 0
           \/ bound \ retired # {}
           \/ \E o \in Occurrences : dispatch[o] \in Dispatchable \cup Launched

Reconcile(w) == HasWork /\ Acquire(w, "list", 0)
Process(w) == HasWork /\ Acquire(w, "collect", 0)

\* RELEASE_LOCK, and the call returns.
Release(w) ==
  /\ At(w, "release")
  /\ FreeLock(w)
  /\ Forget(w)
  /\ UNCHANGED <<control, trigger, inbox, run, faultVars>>

\* A query on a session that has ended rejects, and so does the call.
FailLost(w) ==
  /\ pc[w] \in OnSession \cup Reading
  /\ owner # w
  /\ Forget(w)
  /\ UNCHANGED <<control, trigger, inbox, run, owner, faultVars>>

-----------------------------------------------------------------------------
(* enable(), disable(), reconcileLocked() *)

Current(w) == revision = expected[w]

CheckEnable(w) ==
  /\ OnLock(w, "enable")
  /\ Goto(w, IF Current(w) THEN "prepare" ELSE "release")
  /\ UNCHANGED <<control, trigger, inbox, run, owner, locals, faultVars>>

\* prepare(): the registration of this consumer key is found or inserted.
Prepare(w) ==
  LET a == expected[w] + 1
  IN  /\ At(w, "prepare")
      /\ registration' = [registration EXCEPT ![a] = IF @ = "none" THEN "prepared" ELSE @]
      /\ Goto(w, "bind")
      /\ UNCHANGED <<control, recorded, acked, receipts, inbox, run, owner, locals, faultVars>>

\* One transaction inserts the binding and activates it in the state row.
Bind(w) ==
  LET a == expected[w] + 1
  IN  /\ OnLock(w, "bind")
      /\ bound' = bound \cup {a}
      /\ revision' = a
      /\ active' = a
      /\ Goto(w, "list")
      /\ UNCHANGED <<retired, trigger, inbox, run, owner, locals, faultVars>>

Unbind(w) ==
  /\ OnLock(w, "disable")
  /\ IF Current(w)
     THEN revision' = revision + 1 /\ active' = 0 /\ Goto(w, "list")
     ELSE UNCHANGED <<revision, active>> /\ Goto(w, "release")
  /\ UNCHANGED <<bound, retired, trigger, inbox, run, owner, locals, faultVars>>

\* reconcileLocked() reads the state and the bindings that are not retired.
List(w) ==
  /\ OnLock(w, "list")
  /\ seen' = [seen EXCEPT ![w] = active]
  /\ todo' = [todo EXCEPT ![w] = bound \ retired]
  /\ Goto(w, "visit")
  /\ UNCHANGED <<control, trigger, inbox, run, owner, expected, work, resume, cur, faultVars>>

\* Mutation: the bindings come in no order.
AnyOrder(S, a) == a \in S

\* Bindings are visited by ascending id.
InOrder(S, a) == a \in S /\ \A b \in S : a <= b

Visited(w, a) == todo' = [todo EXCEPT ![w] = @ \ {a}]

\* The registration in force is read and, when only prepared, activated; any
\* other one is closed.  The first failure ends the loop.
Visit(w) ==
  /\ At(w, "visit")
  /\ \/ \E a \in Activations :
          /\ InOrder(todo[w], a)
          /\ a = seen[w]
          /\ CASE registration[a] = "prepared" -> Goto(w, "activate") /\ UNCHANGED todo
               [] registration[a] = "closed" -> Goto(w, "release") /\ UNCHANGED todo
               [] OTHER -> Visited(w, a) /\ UNCHANGED pc
          /\ UNCHANGED registration
     \/ \E a \in Activations :
          /\ InOrder(todo[w], a)
          /\ a # seen[w]
          /\ registration' = [registration EXCEPT ![a] = "closed"]
          /\ Visited(w, a)
          /\ UNCHANGED pc
     \/ todo[w] = {} /\ Goto(w, "release") /\ UNCHANGED <<todo, registration>>
  /\ UNCHANGED <<control, recorded, acked, receipts, inbox, run, owner, expected, seen,
                 work, resume, cur, faultVars>>

\* activate(): under the row lock, refused for a closed registration.
Activate(w) ==
  LET a == seen[w]
  IN  /\ At(w, "activate")
      /\ IF registration[a] = "closed"
         THEN Goto(w, "release") /\ UNCHANGED <<registration, todo>>
         ELSE /\ registration' = [registration EXCEPT ![a] = "active"]
              /\ Visited(w, a)
              /\ Goto(w, "visit")
      /\ UNCHANGED <<control, recorded, acked, receipts, inbox, run, owner, expected, seen,
                     work, resume, cur, faultVars>>

-----------------------------------------------------------------------------
(* Occurrences: each is appended in a transaction that holds the row lock   *)
(* of the registration and finds it active.                                 *)

\* fire() of the plan reads the state, then calls fire() of the trigger.
CheckFire(w) ==
  /\ OnLock(w, "fire")
  /\ seen' = [seen EXCEPT ![w] = active]
  /\ Goto(w, IF active = 0 THEN "release" ELSE "firing")
  /\ UNCHANGED <<control, trigger, inbox, run, owner, expected, todo, work, resume, cur,
                 faultVars>>

\* A click is recorded once for a registration; a repeated request finds it.
Firing(w) ==
  LET a == seen[w]
  IN  /\ At(w, "firing")
      /\ \E e \in Events :
           recorded' = IF registration[a] = "active" /\ KindOf[a] = "manual"
                       THEN recorded \cup {<<a, e>>} ELSE recorded
      /\ Goto(w, "release")
      /\ UNCHANGED <<control, registration, acked, receipts, inbox, run, owner, locals,
                     faultVars>>

Subscribed(a) == registration[a] = "active" /\ KindOf[a] = "event"

\* publish(): receipt and occurrences in one transaction, once for an event.
Publish(e) ==
  /\ e \notin receipts
  /\ receipts' = receipts \cup {e}
  /\ recorded' = recorded \cup {<<a, e>> : a \in {b \in Activations : Subscribed(b)}}
  /\ UNCHANGED <<control, registration, acked, inbox, run, owner, pc, locals, faultVars>>

\* recordDue(): the cursor moves on in the same transaction, so that each due
\* instant of a registration is recorded once.
RecordDue(a, e) ==
  /\ registration[a] = "active"
  /\ KindOf[a] = "time"
  /\ <<a, e>> \notin recorded
  /\ recorded' = recorded \cup {<<a, e>>}
  /\ UNCHANGED <<control, registration, acked, receipts, inbox, run, owner, pc, locals,
                 faultVars>>

-----------------------------------------------------------------------------
(* process(): collect() *)

Collect(w) ==
  /\ OnLock(w, "collect")
  /\ seen' = [seen EXCEPT ![w] = active]
  /\ todo' = [todo EXCEPT ![w] = bound \ retired]
  /\ Goto(w, "pull")
  /\ UNCHANGED <<control, trigger, inbox, run, owner, expected, work, resume, cur, faultVars>>

\* pending(): the unacknowledged occurrences of the next binding.
Pull(w) ==
  /\ At(w, "pull")
  /\ \/ \E a \in Activations :
          LET rows == {o \in recorded \ acked : o[1] = a}
          IN  /\ InOrder(todo[w], a)
              /\ work' = [work EXCEPT ![w] = rows]
              /\ IF rows = {}
                 THEN Goto(w, "retire") /\ UNCHANGED todo
                 ELSE Goto(w, "inbox") /\ Visited(w, a)
     \/ todo[w] = {} /\ Goto(w, "refresh") /\ UNCHANGED <<todo, work>>
  /\ UNCHANGED <<control, trigger, inbox, run, owner, expected, seen, resume, cur, faultVars>>

Store(o) ==
  IF dispatch[o] = "none"
  THEN dispatch' = [dispatch EXCEPT ![o] = "pending"] /\ due' = due \cup {o}
  ELSE UNCHANGED inbox

\* Mutation: an occurrence of an activation no longer in force is not stored.
StoreInForce(w, o) == IF seen[w] = o[1] THEN Store(o) ELSE UNCHANGED inbox

StoreOnce(w, o) == Store(o)

\* The dispatch row is inserted unless the occurrence has one.
Inbox(w) ==
  /\ OnLock(w, "inbox")
  /\ \E o \in work[w] :
       /\ cur' = [cur EXCEPT ![w] = o]
       /\ StoreOnce(w, o)
  /\ Goto(w, "ack")
  /\ UNCHANGED <<control, trigger, run, owner, expected, seen, todo, work, resume, faultVars>>

\* acknowledge()
Ack(w) ==
  /\ At(w, "ack")
  /\ acked' = acked \cup {cur[w]}
  /\ work' = [work EXCEPT ![w] = @ \ {cur[w]}]
  /\ Goto(w, IF work[w] = {cur[w]} THEN "pull" ELSE "inbox")
  /\ UNCHANGED <<control, registration, recorded, receipts, inbox, run, owner, expected,
                 seen, todo, resume, cur, faultVars>>

\* Mutation: a binding is retired before its registration is closed.
RetirableOpen(w, a) == a # seen[w]

Retirable(w, a) == a # seen[w] /\ registration[a] = "closed"

\* A binding that is not in force, had nothing pending and whose registration
\* is closed is retired.
Retire(w) ==
  /\ OnLock(w, "retire")
  /\ \E a \in Activations :
       /\ InOrder(todo[w], a)
       /\ retired' = IF Retirable(w, a) THEN retired \cup {a} ELSE retired
       /\ Visited(w, a)
  /\ Goto(w, "pull")
  /\ UNCHANGED <<revision, active, bound, trigger, inbox, run, owner, expected, seen, work,
                 resume, cur, faultVars>>

-----------------------------------------------------------------------------
(* process(): refreshTarget() and startTarget() *)

Refresh(w) ==
  /\ OnLock(w, "refresh")
  /\ work' = [work EXCEPT ![w] = {o \in due : dispatch[o] = "running"}]
  /\ Goto(w, "reading")
  /\ UNCHANGED <<control, trigger, inbox, run, owner, expected, seen, todo, resume, cur,
                 faultVars>>

Ended(o) == run[o] = "ended"

\* The run is read and the result written.  A run that ended stays so, hence
\* read and write are one step; a run that is open, or that could not be read,
\* puts the row off.
RefreshTarget(o) ==
  \/ Ended(o) /\ dispatch' = [dispatch EXCEPT ![o] = "ended"] /\ UNCHANGED due
  \/ ~Ended(o) /\ due' = due \ {o} /\ UNCHANGED dispatch

RefreshRow(w) ==
  /\ OnLock(w, "reading")
  /\ \/ \E o \in work[w] :
          /\ RefreshTarget(o)
          /\ work' = [work EXCEPT ![w] = @ \ {o}]
          /\ UNCHANGED pc
     \/ work[w] = {} /\ Goto(w, "select") /\ UNCHANGED <<work, inbox>>
  /\ UNCHANGED <<control, trigger, run, owner, expected, seen, todo, resume, cur, faultVars>>

\* startTarget() of each pending or starting row goes by this snapshot.
Select(w) ==
  LET rows == {o \in due : dispatch[o] \in Dispatchable}
  IN  /\ OnLock(w, "select")
      /\ work' = [work EXCEPT ![w] = rows]
      /\ resume' = [resume EXCEPT ![w] = {o \in rows : dispatch[o] = "starting"}]
      /\ Goto(w, "admit")
      /\ UNCHANGED <<control, trigger, inbox, run, owner, expected, seen, todo, cur,
                     faultVars>>

\* Mutation: only a run that is known to exist makes the plan busy.
BusyRunning == \E p \in Occurrences : dispatch[p] = "running"

Busy == \E p \in Occurrences : dispatch[p] \in Launched

InForce(w, o) == seen[w] = o[1]

\* A row read as pending is skipped when its activation is no longer in force
\* or another run of the plan is launched; the admission rule may skip it or be
\* invalid.  Otherwise the row is marked before the workflow engine is called.
Admit(w) ==
  /\ At(w, "admit")
  /\ \/ \E o \in work[w] \ resume[w] :
          /\ OnLock(w, "admit")
          /\ cur' = [cur EXCEPT ![w] = o]
          /\ work' = [work EXCEPT ![w] = @ \ {o}]
          /\ \/ /\ \E s \in {"skipped", "failed"} : dispatch' = [dispatch EXCEPT ![o] = s]
                /\ UNCHANGED pc
             \/ /\ InForce(w, o)
                /\ ~(Skip /\ Busy)
                /\ dispatch' = [dispatch EXCEPT ![o] = "starting"]
                /\ Goto(w, "launch")
     \/ \E o \in work[w] \cap resume[w] :
          /\ cur' = [cur EXCEPT ![w] = o]
          /\ work' = [work EXCEPT ![w] = @ \ {o}]
          /\ Goto(w, "launch")
          /\ UNCHANGED dispatch
     \/ work[w] = {} /\ Goto(w, "release") /\ UNCHANGED <<cur, work, dispatch>>
  /\ UNCHANGED <<control, trigger, due, run, owner, expected, seen, todo, resume, faultVars>>

\* WorkflowExecutionService.start(): the run of this key is found or created,
\* unless the request is refused before a run exists.
Launch(w) ==
  LET o == cur[w]
  IN  /\ At(w, "launch")
      /\ \/ /\ run' = [run EXCEPT ![o] = IF @ = "none" THEN "open" ELSE @]
            /\ Goto(w, "record")
         \/ /\ run[o] = "none"
            /\ Goto(w, "refuse")
            /\ UNCHANGED run
      /\ UNCHANGED <<control, trigger, inbox, owner, locals, faultVars>>

\* The call rejects, or its answer is lost after the run was created.
LaunchUnknown(w) ==
  /\ At(w, "launch")
  /\ faults + losses < MaxFaults
  /\ faults' = faults + 1
  /\ \E s \in {run[cur[w]], "open"} :
       /\ run[cur[w]] # "none" => s = run[cur[w]]
       /\ run' = [run EXCEPT ![cur[w]] = s]
  /\ Goto(w, "defer")
  /\ UNCHANGED <<control, trigger, inbox, owner, locals, losses>>

Record(w) ==
  /\ OnLock(w, "record")
  /\ dispatch' = [dispatch EXCEPT ![cur[w]] = "running"]
  /\ Goto(w, "reread")
  /\ UNCHANGED <<control, trigger, due, run, owner, locals, faultVars>>

Reread(w) ==
  /\ OnLock(w, "reread")
  /\ RefreshTarget(cur[w])
  /\ Goto(w, "admit")
  /\ UNCHANGED <<control, trigger, run, owner, locals, faultVars>>

\* finish(..., failed): no run exists for this row and none will be asked for.
Refuse(w) ==
  /\ OnLock(w, "refuse")
  /\ dispatch' = [dispatch EXCEPT ![cur[w]] = "failed"]
  /\ Goto(w, "admit")
  /\ UNCHANGED <<control, trigger, due, run, owner, locals, faultVars>>

\* defer(): the row keeps its status and is tried again later.
Defer(w) ==
  /\ OnLock(w, "defer")
  /\ due' = due \ {cur[w]}
  /\ Goto(w, "admit")
  /\ UNCHANGED <<control, trigger, dispatch, run, owner, locals, faultVars>>

-----------------------------------------------------------------------------
(* The workflow engine, the clock and faults *)

RunEnds(o) ==
  /\ run[o] = "open"
  /\ run' = [run EXCEPT ![o] = "ended"]
  /\ UNCHANGED <<control, trigger, inbox, owner, pc, locals, faultVars>>

BecomeDue(o) ==
  /\ dispatch[o] \in Dispatchable \cup Launched
  /\ o \notin due
  /\ due' = due \cup {o}
  /\ UNCHANGED <<control, trigger, dispatch, run, owner, pc, locals, faultVars>>

\* The process dies, or a call rejects and the error leaves the operation, or
\* ends the loop of reconcileLocked().
Crash(w) ==
  /\ ~At(w, "idle")
  /\ faults + losses < MaxFaults
  /\ faults' = faults + 1
  /\ FreeLock(w)
  /\ Forget(w)
  /\ UNCHANGED <<control, trigger, inbox, run, losses>>

LoseSession ==
  /\ losses < MaxLosses /\ faults + losses < MaxFaults
  /\ owner # NoWorker
  /\ owner' = NoWorker
  /\ losses' = losses + 1
  /\ UNCHANGED <<control, trigger, inbox, run, pc, locals, faults>>

-----------------------------------------------------------------------------

ControlStep(w) == CheckEnable(w) \/ Prepare(w) \/ Bind(w) \/ Unbind(w) \/ List(w)
                  \/ Visit(w) \/ Activate(w) \/ CheckFire(w) \/ Firing(w)

DispatchStep(w) == Collect(w) \/ Pull(w) \/ Inbox(w) \/ Ack(w) \/ Retire(w) \/ Refresh(w)
                   \/ RefreshRow(w) \/ Select(w) \/ Admit(w) \/ Launch(w) \/ Record(w)
                   \/ Reread(w) \/ Refuse(w) \/ Defer(w)

Step(w) == ControlStep(w) \/ DispatchStep(w) \/ Release(w) \/ FailLost(w)

Request(w) == Enable(w) \/ Disable(w) \/ Fire(w)

Poll(w) == Reconcile(w) \/ Process(w)

Occur == \/ \E e \in Events : Publish(e)
         \/ \E a \in Activations, e \in Events : RecordDue(a, e)

Environment == \/ Occur
               \/ \E o \in Occurrences : RunEnds(o) \/ BecomeDue(o)
               \/ LoseSession

Next == \/ \E w \in Workers : Request(w) \/ Poll(w) \/ Step(w) \/ LaunchUnknown(w) \/ Crash(w)
        \/ Environment

Spec == Init /\ [][Next]_vars

\* Each process polls every second: it reconciles, then processes, and skips a
\* plan whose lock is busy, hence strong fairness of the two; queries and calls
\* return or fail; workflow runs end; nextAttemptAt comes.  Nothing forces a
\* request, an occurrence, a fault or a loss.
Fairness ==
  /\ SF_vars(\E w \in Workers : Reconcile(w))
  /\ SF_vars(\E w \in Workers : Process(w))
  /\ \A w \in Workers : WF_vars(Step(w))
  /\ \A o \in Occurrences : WF_vars(RunEnds(o)) /\ WF_vars(BecomeDue(o))

FairSpec == Spec /\ Fairness

-----------------------------------------------------------------------------
(* Properties *)

\* Every variable keeps its type, and no request moves the revision past the
\* next one after the revision it carries.
TypeOK ==
  /\ revision \in 0 .. MaxRevision /\ active \in 0 .. MaxRevision
  /\ bound \subseteq Activations /\ retired \subseteq bound
  /\ registration \in [Activations -> {"none", "prepared", "active", "closed"}]
  /\ recorded \subseteq Occurrences /\ acked \subseteq recorded /\ receipts \subseteq Events
  /\ dispatch \in [Occurrences -> {"none"} \cup Dispatchable \cup Launched \cup Final]
  /\ due \subseteq Occurrences
  /\ run \in [Occurrences -> {"none", "open", "ended"}]
  /\ owner \in Workers \cup {NoWorker}
  /\ pc \in [Workers -> {"idle"} \cup Inside]
  /\ expected \in [Workers -> 0 .. MaxRevision]
  /\ seen \in [Workers -> 0 .. MaxRevision]
  /\ todo \in [Workers -> SUBSET Activations]
  /\ work \in [Workers -> SUBSET Occurrences]
  /\ resume \in [Workers -> SUBSET Occurrences]
  /\ cur \in [Workers -> Occurrences \cup {NoOcc}]
  /\ faults \in Nat /\ losses \in Nat

\* The rows of the plan as the states of the abstract gate.
GatePhase ==
  [o \in Occurrences |->
     CASE dispatch[o] \in Launched -> "open"
       [] dispatch[o] \in Final -> "closed"
       [] OTHER -> IF o \in recorded THEN "waiting" ELSE "absent"]

Gate == INSTANCE DispatchGate WITH current <- active, phase <- GatePhase

\* While the lock is kept, the tables, workers and crashes below implement the
\* gate: an occurrence is opened once, only while its activation is in force
\* and (overlap = "skip") nothing else is open, its workflow run is created
\* only while it is open, and it closes only when that run ended or cannot
\* come to exist.
ImplementsGate == Gate!Spec

\* An occurrence is acknowledged only after its dispatch row is stored ("先将
\* 事件保存到本模块收件记录再确认"), even by a worker that lost the lock.
InboxBeforeAck == \A o \in acked : dispatch[o] # "none"

\* A published event is recorded at most once for the plan, however often and
\* by whomever the plan is enabled again while it arrives.
EventOnce ==
  \A e \in Events, a, b \in Activations :
    /\ KindOf[a] = "event" /\ KindOf[b] = "event"
    /\ <<a, e>> \in recorded /\ <<b, e>> \in recorded
    => a = b

\* A dispatch is started only under the activation in force and, with overlap =
\* "skip", when nothing of the plan is launched, even by a worker that lost the
\* lock: its session, and so its write, is gone.
StartsInForce ==
  [][\A o \in Occurrences :
       dispatch[o] = "pending" /\ dispatch'[o] = "starting"
         => active = o[1] /\ ~(Skip /\ Busy)]_vars

\* While the lock is kept, no binding is retired that has, or can still get, an
\* occurrence that was not collected: nobody would look at it again.
NothingStranded ==
  losses = 0 =>
    /\ \A o \in recorded : o[1] \in retired => o \in acked
    /\ \A a \in retired : registration[a] = "closed"

\* Every recorded occurrence gets a final dispatch, though workers crash and
\* answers of the workflow engine are lost.
EventuallyDispatched ==
  \A o \in Occurrences : o \in recorded ~> dispatch[o] \in Final

\* A crash between the binding and the trigger is repaired: an activation in
\* force gets its registration active, one no longer in force gets it closed.
EventuallyArmed ==
  \A a \in Activations :
    /\ active = a ~> registration[a] = "active" \/ active # a
    /\ a \in bound /\ active # a ~> registration[a] = "closed"
=============================================================================
