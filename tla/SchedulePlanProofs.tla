-------------------------- MODULE SchedulePlanProofs --------------------------
(***************************************************************************)
(* Proofs about SchedulePlan, for any number of activations, events and    *)
(* workers: its types, what holds although workers lose the lock, that a   *)
(* plan whose lock is kept implements DispatchGate, and how each call on   *)
(* the plan comes to its end.                                              *)
(***************************************************************************)
EXTENDS SchedulePlan, TLAPS

-----------------------------------------------------------------------------
(* Types *)

\* What a worker has in its variables at each await.
Places ==
  \A w \in Workers :
    /\ pc[w] \in {"enable", "prepare", "bind", "disable"} => expected[w] < MaxRevision
    /\ pc[w] \in {"firing", "activate"} => seen[w] \in Activations
    /\ todo[w] \subseteq bound
    /\ pc[w] \in {"inbox", "ack"} => work[w] \subseteq recorded
    /\ pc[w] = "ack" => cur[w] \in recorded /\ dispatch[cur[w]] # "none"
    /\ pc[w] \in {"launch", "record", "refuse", "defer", "reread"} => cur[w] \in Occurrences

TInv == TypeOK /\ Places

ActionPlaces == {"enable", "disable", "fire", "list", "collect"}

\* A request or a poll takes the lock.
LEMMA Starts ==
  ASSUME TypeOK, NEW w \in Workers, Request(w) \/ Poll(w)
  PROVE  \E place \in ActionPlaces, e \in 0 .. MaxRevision :
           /\ Acquire(w, place, e)
           /\ place \in {"enable", "disable"} => e < MaxRevision
<1> USE ConstantsAssumption DEF TypeOK, ActionPlaces
<1>1. CASE Enable(w)
  BY <1>1 DEF Enable
<1>2. CASE Disable(w)
  BY <1>2 DEF Disable
<1>3. CASE Fire(w) \/ Poll(w)
  BY <1>3 DEF Fire, Poll, Reconcile, Process
<1> QED BY <1>1, <1>2, <1>3 DEF Request

\* A worker leaves: it releases, fails or crashes.
Leaves(w) ==
  /\ Forget(w)
  /\ owner' = IF owner = w THEN NoWorker ELSE owner
  /\ UNCHANGED <<control, trigger, inbox, run>>
  /\ faults' \in Nat /\ UNCHANGED losses

LEMMA Ends ==
  ASSUME TypeOK, NEW w \in Workers, Release(w) \/ FailLost(w) \/ Crash(w)
  PROVE  Leaves(w)
BY ConstantsAssumption DEF TypeOK, Release, FailLost, Crash, Leaves, FreeLock, faultVars

LEMMA InitTInv == Init => TInv
BY ConstantsAssumption DEF Init, TInv, TypeOK, Places, Inside, Dispatchable, Launched, Final,
   Activations, Occurrences

LEMMA StepTInv == TInv /\ [Next]_vars => TInv'
<1> SUFFICES ASSUME TInv, [Next]_vars PROVE TInv'
  OBVIOUS
<1> USE ConstantsAssumption
    DEF TInv, TypeOK, Places, control, trigger, inbox, locals, faultVars, At, OnLock, Goto
<1>1. ASSUME NEW w \in Workers, CheckEnable(w) PROVE TInv'
  BY <1>1 DEF CheckEnable, Inside, OnSession, OnPool, Reading, Dispatchable, Launched, Final
<1>2. ASSUME NEW w \in Workers, Prepare(w) PROVE TInv'
  BY <1>2 DEF Prepare, Inside, OnSession, OnPool, Reading, Dispatchable, Launched, Final
<1>3. ASSUME NEW w \in Workers, Bind(w) PROVE TInv'
  <2>1. expected[w] + 1 \in Activations /\ expected[w] + 1 \in 0 .. MaxRevision
    BY <1>3 DEF Bind, Activations
  <2> QED BY <1>3, <2>1 DEF Bind, Inside, OnSession
<1>4. ASSUME NEW w \in Workers, Unbind(w) PROVE TInv'
  <2>1. revision = expected[w] => revision + 1 \in 0 .. MaxRevision
    BY <1>4 DEF Unbind
  <2>2. 0 \in 0 .. MaxRevision
    OBVIOUS
  <2> QED BY <1>4, <2>1, <2>2 DEF Unbind, Current, Inside, OnSession
<1>5. ASSUME NEW w \in Workers, List(w) PROVE TInv'
  BY <1>5 DEF List, Inside, OnSession, OnPool, Reading, Dispatchable, Launched, Final
<1>6. ASSUME NEW w \in Workers, Visit(w) PROVE TInv'
  BY <1>6 DEF Visit, Visited, InOrder, Inside, OnSession, OnPool, Reading, Dispatchable, Launched, Final
<1>7. ASSUME NEW w \in Workers, Activate(w) PROVE TInv'
  BY <1>7 DEF Activate, Visited, Inside, OnSession, OnPool, Reading, Dispatchable, Launched, Final
<1>8. ASSUME NEW w \in Workers, CheckFire(w) PROVE TInv'
  BY <1>8 DEF CheckFire, Activations, Inside, OnSession, OnPool, Reading, Dispatchable, Launched, Final
<1>9. ASSUME NEW w \in Workers, Firing(w) PROVE TInv'
  <2>1. recorded' \in SUBSET Occurrences /\ recorded \subseteq recorded'
    BY <1>9 DEF Firing, Occurrences
  <2> QED BY <1>9, <2>1 DEF Firing, Inside
<1>10. ASSUME NEW w \in Workers, Collect(w) PROVE TInv'
  BY <1>10 DEF Collect, Inside, OnSession, OnPool, Reading, Dispatchable, Launched, Final
<1>11. ASSUME NEW w \in Workers, Pull(w) PROVE TInv'
  BY <1>11 DEF Pull, Visited, InOrder, Inside, OnSession, OnPool, Reading, Dispatchable, Launched, Final
<1>12. ASSUME NEW w \in Workers, Inbox(w) PROVE TInv'
  BY <1>12 DEF Inbox, StoreOnce, Store, Inside, OnSession, OnPool, Reading, Dispatchable, Launched, Final
<1>13. ASSUME NEW w \in Workers, Ack(w) PROVE TInv'
  BY <1>13 DEF Ack, Inside, OnSession, OnPool, Reading, Dispatchable, Launched, Final
<1>14. ASSUME NEW w \in Workers, Retire(w) PROVE TInv'
  BY <1>14 DEF Retire, Visited, InOrder, Retirable, Inside, OnSession, OnPool, Reading, Dispatchable, Launched, Final
<1>15. ASSUME NEW w \in Workers, Refresh(w) PROVE TInv'
  BY <1>15 DEF Refresh, Inside, OnSession, OnPool, Reading, Dispatchable, Launched, Final
<1>16. ASSUME NEW w \in Workers, RefreshRow(w) PROVE TInv'
  BY <1>16 DEF RefreshRow, RefreshTarget, Inside, OnSession, OnPool, Reading, Dispatchable, Launched, Final
<1>17. ASSUME NEW w \in Workers, Select(w) PROVE TInv'
  BY <1>17 DEF Select, Inside, OnSession, OnPool, Reading, Dispatchable, Launched, Final
<1>18. ASSUME NEW w \in Workers, Admit(w) PROVE TInv'
  BY <1>18 DEF Admit, Inside, OnSession, OnPool, Reading, Dispatchable, Launched, Final
<1>19. ASSUME NEW w \in Workers, Launch(w) PROVE TInv'
  BY <1>19 DEF Launch, Inside, OnSession, OnPool, Reading, Dispatchable, Launched, Final
<1>20. ASSUME NEW w \in Workers, LaunchUnknown(w) PROVE TInv'
  BY <1>20 DEF LaunchUnknown, Inside, OnSession, OnPool, Reading, Dispatchable, Launched, Final
<1>21. ASSUME NEW w \in Workers, Record(w) PROVE TInv'
  BY <1>21 DEF Record, Inside, OnSession, OnPool, Reading, Dispatchable, Launched, Final
<1>22. ASSUME NEW w \in Workers, Reread(w) PROVE TInv'
  BY <1>22 DEF Reread, RefreshTarget, Inside, OnSession, OnPool, Reading, Dispatchable, Launched, Final
<1>23. ASSUME NEW w \in Workers, Refuse(w) PROVE TInv'
  BY <1>23 DEF Refuse, Inside, OnSession, OnPool, Reading, Dispatchable, Launched, Final
<1>24. ASSUME NEW w \in Workers, Defer(w) PROVE TInv'
  BY <1>24 DEF Defer, Inside, OnSession, OnPool, Reading, Dispatchable, Launched, Final
<1>25. ASSUME NEW w \in Workers, Request(w) \/ Poll(w) PROVE TInv'
  BY <1>25, Starts DEF Acquire, ActionPlaces, Inside, OnSession
<1>26. ASSUME NEW w \in Workers, Release(w) \/ FailLost(w) \/ Crash(w) PROVE TInv'
  <2>1. Leaves(w)
    BY <1>26, Ends
  <2>2. 0 \in 0 .. MaxRevision
    OBVIOUS
  <2> QED BY <2>1, <2>2 DEF Leaves, Forget
<1>27. CASE Occur
  <2>1. recorded' \in SUBSET Occurrences /\ receipts' \subseteq Events
        /\ recorded \subseteq recorded'
    <3>1. CASE \E e \in Events : Publish(e)
      BY <3>1 DEF Publish, Occurrences
    <3>2. CASE \E a \in Activations, e \in Events : RecordDue(a, e)
      BY <3>2 DEF RecordDue, Occurrences
    <3> QED BY <1>27, <3>1, <3>2 DEF Occur
  <2> QED BY <1>27, <2>1 DEF Occur, Publish, RecordDue
<1>28. ASSUME NEW o \in Occurrences, RunEnds(o) \/ BecomeDue(o) PROVE TInv'
  BY <1>28 DEF RunEnds, BecomeDue
<1>29. CASE LoseSession
  BY <1>29 DEF LoseSession
<1>30. CASE UNCHANGED vars
  BY <1>30 DEF vars
<1> QED BY <1>1, <1>2, <1>3, <1>4, <1>5, <1>6, <1>7, <1>8, <1>9, <1>10, <1>11, <1>12,
           <1>13, <1>14, <1>15, <1>16, <1>17, <1>18, <1>19, <1>20, <1>21, <1>22, <1>23,
           <1>24, <1>25, <1>26, <1>27, <1>28, <1>29, <1>30
    DEF Next, Step, ControlStep, DispatchStep, Environment

LEMMA TypesInvariant == Spec => []TInv
BY InitTInv, StepTInv, PTL DEF Spec

-----------------------------------------------------------------------------
(* What holds although workers lose the lock *)

Seeing == {"visit", "activate", "pull", "inbox", "ack", "retire", "refresh", "reading",
           "select", "admit", "launch", "record", "reread", "refuse", "defer"}

\* The revision and the activation in force are what the worker whose session
\* holds the lock has read: only that session writes them.
Locked ==
  /\ active \in {0, revision}
  /\ active # 0 => active \in bound
  /\ \A a \in bound : a <= revision
  /\ \A w \in Workers :
       owner = w => /\ pc[w] \in {"prepare", "bind"} => expected[w] = revision
                    /\ pc[w] \in Seeing => seen[w] = active

LInv == TInv /\ Locked

LEMMA InitLInv == Init => LInv
BY InitTInv, ConstantsAssumption DEF Init, LInv, Locked

LEMMA StepLInv == LInv /\ [Next]_vars => LInv'
<1> SUFFICES ASSUME LInv, [Next]_vars PROVE LInv'
  OBVIOUS
<1>t. TInv /\ TInv'
  BY StepTInv DEF LInv
<1> SUFFICES Locked'
  BY <1>t DEF LInv
<1> USE ConstantsAssumption
    DEF LInv, TInv, TypeOK, Locked, Seeing, control, trigger, inbox, locals, faultVars, At,
        OnLock, Goto
<1>1. ASSUME NEW w \in Workers, CheckEnable(w) PROVE Locked'
  BY <1>1 DEF CheckEnable, Current
<1>2. ASSUME NEW w \in Workers, Prepare(w) PROVE Locked'
  BY <1>2 DEF Prepare
<1>3. ASSUME NEW w \in Workers, Bind(w) PROVE Locked'
  <2>1. /\ revision' = revision + 1 /\ active' = revision'
        /\ bound' = bound \cup {revision'}
        /\ owner' = owner /\ owner = w /\ pc'[w] = "list"
    BY <1>3 DEF Bind
  <2>2. revision \in Nat /\ \A a \in bound : a \in Nat /\ a <= revision
    <3>1. /\ revision \in 0 .. MaxRevision /\ MaxRevision \in Nat
          /\ \A a \in bound : a \in Activations /\ a <= revision
      OBVIOUS
    <3> QED BY ONLY <3>1 DEF Activations
  <2>3. \A a \in bound' : a <= revision'
    BY ONLY <2>1, <2>2
  <2> QED BY <2>1, <2>3
<1>4. ASSUME NEW w \in Workers, Unbind(w) PROVE Locked'
  <2>1. /\ owner' = owner /\ owner = w /\ bound' = bound /\ UNCHANGED seen
        /\ pc'[w] \in {"list", "release"} /\ \A v \in Workers \ {w} : pc'[v] = pc[v]
        /\ \/ revision' = revision + 1 /\ active' = 0
           \/ UNCHANGED <<revision, active>>
    BY <1>4 DEF Unbind
  <2>2. \A a \in bound' : a <= revision'
    BY <2>1 DEF Activations
  <2> QED BY <2>1, <2>2
<1>5. ASSUME NEW w \in Workers, List(w) PROVE Locked'
  BY <1>5 DEF List
<1>6. ASSUME NEW w \in Workers, Visit(w) PROVE Locked'
  BY <1>6 DEF Visit
<1>7. ASSUME NEW w \in Workers, Activate(w) PROVE Locked'
  BY <1>7 DEF Activate
<1>8. ASSUME NEW w \in Workers, CheckFire(w) PROVE Locked'
  BY <1>8 DEF CheckFire
<1>9. ASSUME NEW w \in Workers, Firing(w) PROVE Locked'
  BY <1>9 DEF Firing
<1>10. ASSUME NEW w \in Workers, Collect(w) PROVE Locked'
  BY <1>10 DEF Collect
<1>11. ASSUME NEW w \in Workers, Pull(w) PROVE Locked'
  BY <1>11 DEF Pull
<1>12. ASSUME NEW w \in Workers, Inbox(w) PROVE Locked'
  BY <1>12 DEF Inbox
<1>13. ASSUME NEW w \in Workers, Ack(w) PROVE Locked'
  BY <1>13 DEF Ack
<1>14. ASSUME NEW w \in Workers, Retire(w) PROVE Locked'
  BY <1>14 DEF Retire
<1>15. ASSUME NEW w \in Workers, Refresh(w) PROVE Locked'
  BY <1>15 DEF Refresh
<1>16. ASSUME NEW w \in Workers, RefreshRow(w) PROVE Locked'
  BY <1>16 DEF RefreshRow
<1>17. ASSUME NEW w \in Workers, Select(w) PROVE Locked'
  BY <1>17 DEF Select
<1>18. ASSUME NEW w \in Workers, Admit(w) PROVE Locked'
  BY <1>18 DEF Admit
<1>19. ASSUME NEW w \in Workers, Launch(w) PROVE Locked'
  BY <1>19 DEF Launch
<1>20. ASSUME NEW w \in Workers, LaunchUnknown(w) PROVE Locked'
  BY <1>20 DEF LaunchUnknown
<1>21. ASSUME NEW w \in Workers, Record(w) PROVE Locked'
  BY <1>21 DEF Record
<1>22. ASSUME NEW w \in Workers, Reread(w) PROVE Locked'
  BY <1>22 DEF Reread
<1>23. ASSUME NEW w \in Workers, Refuse(w) PROVE Locked'
  BY <1>23 DEF Refuse
<1>24. ASSUME NEW w \in Workers, Defer(w) PROVE Locked'
  BY <1>24 DEF Defer
<1>25. ASSUME NEW w \in Workers, Request(w) \/ Poll(w) PROVE Locked'
  <2>1. PICK place \in ActionPlaces, e \in 0 .. MaxRevision : Acquire(w, place, e)
    BY <1>25, Starts
  <2> QED BY <2>1 DEF Acquire, ActionPlaces
<1>26. ASSUME NEW w \in Workers, Release(w) \/ FailLost(w) \/ Crash(w) PROVE Locked'
  <2>1. Leaves(w)
    BY <1>26, Ends
  <2> QED BY <2>1 DEF Leaves, Forget
<1>27. CASE Occur
  <2>1. UNCHANGED <<revision, active, bound, owner, pc, expected, seen>>
    BY <1>27 DEF Occur, Publish, RecordDue
  <2> QED BY <2>1
<1>28. ASSUME NEW o \in Occurrences, RunEnds(o) \/ BecomeDue(o) PROVE Locked'
  BY <1>28 DEF RunEnds, BecomeDue
<1>29. CASE LoseSession
  BY <1>29 DEF LoseSession
<1>30. CASE UNCHANGED vars
  BY <1>30 DEF vars
<1> QED BY <1>1, <1>2, <1>3, <1>4, <1>5, <1>6, <1>7, <1>8, <1>9, <1>10, <1>11, <1>12,
           <1>13, <1>14, <1>15, <1>16, <1>17, <1>18, <1>19, <1>20, <1>21, <1>22, <1>23,
           <1>24, <1>25, <1>26, <1>27, <1>28, <1>29, <1>30
    DEF Next, Step, ControlStep, DispatchStep, Environment

\* A registration is active only when every earlier binding is closed, and what
\* is closed stays so: a worker activates the binding it has read as the one in
\* force after it has closed the earlier ones, also when it lost the lock since.
Ordered ==
  /\ \A w \in Workers : pc[w] \in {"visit", "activate"} =>
       /\ seen[w] # 0 => seen[w] \in bound
       /\ \A b \in bound : b < seen[w] /\ b \notin todo[w] => registration[b] = "closed"
       /\ pc[w] = "activate" => \A b \in todo[w] : seen[w] <= b
  /\ \A a \in retired : registration[a] = "closed"
  /\ \A a \in Activations : registration[a] = "active" =>
       a \in bound /\ \A b \in bound : b < a => registration[b] = "closed"

OInv == LInv /\ Ordered

LEMMA NatActivations == \A a \in Activations : a \in Nat
BY DEF Activations

LEMMA InitOInv == Init => OInv
BY InitLInv DEF Init, OInv, Ordered

LEMMA StepOInv == OInv /\ [Next]_vars => OInv'
<1> SUFFICES ASSUME OInv, [Next]_vars PROVE OInv'
  OBVIOUS
<1>t. LInv /\ LInv'
  BY StepLInv DEF OInv
<1> SUFFICES Ordered'
  BY <1>t DEF OInv
<1> USE ConstantsAssumption, NatActivations
    DEF OInv, LInv, TInv, TypeOK, Locked, Ordered, control, trigger, inbox, locals,
        faultVars, At, OnLock, Goto
<1>1. ASSUME NEW w \in Workers, CheckEnable(w) PROVE Ordered'
  BY <1>1 DEF CheckEnable, Current
<1>2. ASSUME NEW w \in Workers, Prepare(w) PROVE Ordered'
  BY <1>2 DEF Prepare, Places
<1>3. ASSUME NEW w \in Workers, Bind(w) PROVE Ordered'
  BY <1>3 DEF Bind
<1>4. ASSUME NEW w \in Workers, Unbind(w) PROVE Ordered'
  BY <1>4 DEF Unbind, Current
<1>5. ASSUME NEW w \in Workers, List(w) PROVE Ordered'
  BY <1>5 DEF List
<1>6. ASSUME NEW w \in Workers, Visit(w) PROVE Ordered'
  BY <1>6 DEF Visit, Visited, InOrder
<1>7. ASSUME NEW w \in Workers, Activate(w) PROVE Ordered'
  <2>1. pc[w] = "activate" /\ UNCHANGED <<bound, retired, seen>>
    BY <1>7 DEF Activate
  <2>2. seen[w] \in Activations
    BY <2>1 DEF Places
  <2>3. seen[w] \in bound /\ seen[w] # 0
    BY <2>1, <2>2 DEF Activations
  <2>4. \A b \in bound : b < seen[w] => registration[b] = "closed"
    BY <2>1, <2>2
  <2>5. CASE registration[seen[w]] = "closed"
    BY <1>7, <2>1, <2>5 DEF Activate
  <2>6. CASE registration[seen[w]] # "closed"
    <3>1. /\ registration' = [registration EXCEPT ![seen[w]] = "active"]
          /\ todo' = [todo EXCEPT ![w] = @ \ {seen[w]}]
          /\ pc' = [pc EXCEPT ![w] = "visit"]
      BY <1>7, <2>6 DEF Activate, Visited
    <3>2. \A b \in Activations : registration[b] = "closed" => registration'[b] = "closed"
      BY <2>6, <3>1
    <3> QED BY <2>1, <2>2, <2>3, <2>4, <3>1, <3>2
  <2> QED BY <2>5, <2>6
<1>8. ASSUME NEW w \in Workers, CheckFire(w) PROVE Ordered'
  BY <1>8 DEF CheckFire
<1>9. ASSUME NEW w \in Workers, Firing(w) PROVE Ordered'
  BY <1>9 DEF Firing
<1>10. ASSUME NEW w \in Workers, Collect(w) PROVE Ordered'
  BY <1>10 DEF Collect
<1>11. ASSUME NEW w \in Workers, Pull(w) PROVE Ordered'
  BY <1>11 DEF Pull, Visited
<1>12. ASSUME NEW w \in Workers, Inbox(w) PROVE Ordered'
  BY <1>12 DEF Inbox
<1>13. ASSUME NEW w \in Workers, Ack(w) PROVE Ordered'
  BY <1>13 DEF Ack
<1>14. ASSUME NEW w \in Workers, Retire(w) PROVE Ordered'
  <2>1. PICK a \in Activations :
          /\ retired' = IF Retirable(w, a) THEN retired \cup {a} ELSE retired
          /\ todo' = [todo EXCEPT ![w] = @ \ {a}]
    BY <1>14 DEF Retire, Visited
  <2>2. /\ UNCHANGED <<bound, registration, seen>>
        /\ pc' = [pc EXCEPT ![w] = "pull"]
    BY <1>14 DEF Retire
  <2>3. \A b \in retired' : registration'[b] = "closed"
    BY <2>1, <2>2 DEF Retirable
  <2> QED BY <2>1, <2>2, <2>3
<1>15. ASSUME NEW w \in Workers, Refresh(w) PROVE Ordered'
  BY <1>15 DEF Refresh
<1>16. ASSUME NEW w \in Workers, RefreshRow(w) PROVE Ordered'
  BY <1>16 DEF RefreshRow
<1>17. ASSUME NEW w \in Workers, Select(w) PROVE Ordered'
  BY <1>17 DEF Select
<1>18. ASSUME NEW w \in Workers, Admit(w) PROVE Ordered'
  BY <1>18 DEF Admit
<1>19. ASSUME NEW w \in Workers, Launch(w) PROVE Ordered'
  BY <1>19 DEF Launch
<1>20. ASSUME NEW w \in Workers, LaunchUnknown(w) PROVE Ordered'
  BY <1>20 DEF LaunchUnknown
<1>21. ASSUME NEW w \in Workers, Record(w) PROVE Ordered'
  BY <1>21 DEF Record
<1>22. ASSUME NEW w \in Workers, Reread(w) PROVE Ordered'
  BY <1>22 DEF Reread
<1>23. ASSUME NEW w \in Workers, Refuse(w) PROVE Ordered'
  BY <1>23 DEF Refuse
<1>24. ASSUME NEW w \in Workers, Defer(w) PROVE Ordered'
  BY <1>24 DEF Defer
<1>25. ASSUME NEW w \in Workers, Request(w) \/ Poll(w) PROVE Ordered'
  <2>1. PICK place \in ActionPlaces, e \in 0 .. MaxRevision : Acquire(w, place, e)
    BY <1>25, Starts
  <2> QED BY <2>1 DEF Acquire, ActionPlaces
<1>26. ASSUME NEW w \in Workers, Release(w) \/ FailLost(w) \/ Crash(w) PROVE Ordered'
  <2>1. Leaves(w)
    BY <1>26, Ends
  <2> QED BY <2>1 DEF Leaves, Forget
<1>27. CASE Occur
  <2>1. UNCHANGED <<control, registration, pc, todo, seen>>
    BY <1>27 DEF Occur, Publish, RecordDue
  <2> QED BY <2>1
<1>28. ASSUME NEW o \in Occurrences, RunEnds(o) \/ BecomeDue(o) PROVE Ordered'
  BY <1>28 DEF RunEnds, BecomeDue
<1>29. CASE LoseSession
  BY <1>29 DEF LoseSession
<1>30. CASE UNCHANGED vars
  BY <1>30 DEF vars
<1> QED BY <1>1, <1>2, <1>3, <1>4, <1>5, <1>6, <1>7, <1>8, <1>9, <1>10, <1>11, <1>12,
           <1>13, <1>14, <1>15, <1>16, <1>17, <1>18, <1>19, <1>20, <1>21, <1>22, <1>23,
           <1>24, <1>25, <1>26, <1>27, <1>28, <1>29, <1>30
    DEF Next, Step, ControlStep, DispatchStep, Environment

\* The rows that process() goes through are as it has read them while it holds
\* the lock.
Selected ==
  \A w \in Workers : owner = w =>
    /\ pc[w] = "reading" => \A o \in work[w] : dispatch[o] = "running"
    /\ pc[w] \in {"admit", "launch", "record", "reread", "refuse", "defer"} =>
         \A o \in work[w] : dispatch[o] = IF o \in resume[w] THEN "starting" ELSE "pending"
    /\ pc[w] \in {"launch", "record", "refuse", "defer"} =>
         dispatch[cur[w]] = "starting" /\ cur[w] \notin work[w]
    /\ pc[w] = "reread" => dispatch[cur[w]] = "running" /\ cur[w] \notin work[w]

SInv == OInv /\ Selected

LEMMA InitSInv == Init => SInv
BY InitOInv, ConstantsAssumption DEF Init, SInv, Selected

LEMMA StepSInv == SInv /\ [Next]_vars => SInv'
<1> SUFFICES ASSUME SInv, [Next]_vars PROVE SInv'
  OBVIOUS
<1>t. OInv /\ OInv'
  BY StepOInv DEF SInv
<1> SUFFICES Selected'
  BY <1>t DEF SInv
<1> USE ConstantsAssumption
    DEF SInv, OInv, LInv, TInv, TypeOK, Selected, control, trigger, inbox, locals,
        faultVars, At, OnLock, Goto
<1>1. ASSUME NEW w \in Workers, CheckEnable(w) PROVE Selected'
  BY <1>1 DEF CheckEnable
<1>2. ASSUME NEW w \in Workers, Prepare(w) PROVE Selected'
  BY <1>2 DEF Prepare
<1>3. ASSUME NEW w \in Workers, Bind(w) PROVE Selected'
  BY <1>3 DEF Bind
<1>4. ASSUME NEW w \in Workers, Unbind(w) PROVE Selected'
  BY <1>4 DEF Unbind
<1>5. ASSUME NEW w \in Workers, List(w) PROVE Selected'
  BY <1>5 DEF List
<1>6. ASSUME NEW w \in Workers, Visit(w) PROVE Selected'
  BY <1>6 DEF Visit
<1>7. ASSUME NEW w \in Workers, Activate(w) PROVE Selected'
  BY <1>7 DEF Activate
<1>8. ASSUME NEW w \in Workers, CheckFire(w) PROVE Selected'
  BY <1>8 DEF CheckFire
<1>9. ASSUME NEW w \in Workers, Firing(w) PROVE Selected'
  BY <1>9 DEF Firing
<1>10. ASSUME NEW w \in Workers, Collect(w) PROVE Selected'
  BY <1>10 DEF Collect
<1>11. ASSUME NEW w \in Workers, Pull(w) PROVE Selected'
  BY <1>11 DEF Pull
<1>12. ASSUME NEW w \in Workers, Inbox(w) PROVE Selected'
  BY <1>12 DEF Inbox
<1>13. ASSUME NEW w \in Workers, Ack(w) PROVE Selected'
  BY <1>13 DEF Ack
<1>14. ASSUME NEW w \in Workers, Retire(w) PROVE Selected'
  BY <1>14 DEF Retire
<1>15. ASSUME NEW w \in Workers, Refresh(w) PROVE Selected'
  BY <1>15 DEF Refresh
<1>16. ASSUME NEW w \in Workers, RefreshRow(w) PROVE Selected'
  BY <1>16 DEF RefreshRow, RefreshTarget
<1>17. ASSUME NEW w \in Workers, Select(w) PROVE Selected'
  BY <1>17 DEF Select, Dispatchable
<1>18. ASSUME NEW w \in Workers, Admit(w) PROVE Selected'
  BY <1>18 DEF Admit
<1>19. ASSUME NEW w \in Workers, Launch(w) PROVE Selected'
  BY <1>19 DEF Launch
<1>20. ASSUME NEW w \in Workers, LaunchUnknown(w) PROVE Selected'
  BY <1>20 DEF LaunchUnknown
<1>21. ASSUME NEW w \in Workers, Record(w) PROVE Selected'
  BY <1>21 DEF Record, Places
<1>22. ASSUME NEW w \in Workers, Reread(w) PROVE Selected'
  BY <1>22 DEF Reread, Places, RefreshTarget
<1>23. ASSUME NEW w \in Workers, Refuse(w) PROVE Selected'
  BY <1>23 DEF Refuse, Places
<1>24. ASSUME NEW w \in Workers, Defer(w) PROVE Selected'
  BY <1>24 DEF Defer
<1>25. ASSUME NEW w \in Workers, Request(w) \/ Poll(w) PROVE Selected'
  <2>1. PICK place \in ActionPlaces, e \in 0 .. MaxRevision : Acquire(w, place, e)
    BY <1>25, Starts
  <2> QED BY <2>1 DEF Acquire, ActionPlaces
<1>26. ASSUME NEW w \in Workers, Release(w) \/ FailLost(w) \/ Crash(w) PROVE Selected'
  <2>1. Leaves(w)
    BY <1>26, Ends
  <2> QED BY <2>1 DEF Leaves, Forget
<1>27. CASE Occur
  <2>1. UNCHANGED <<dispatch, owner, pc, work, resume, cur>>
    BY <1>27 DEF Occur, Publish, RecordDue
  <2> QED BY <2>1
<1>28. ASSUME NEW o \in Occurrences, RunEnds(o) \/ BecomeDue(o) PROVE Selected'
  BY <1>28 DEF RunEnds, BecomeDue
<1>29. CASE LoseSession
  BY <1>29 DEF LoseSession
<1>30. CASE UNCHANGED vars
  BY <1>30 DEF vars
<1> QED BY <1>1, <1>2, <1>3, <1>4, <1>5, <1>6, <1>7, <1>8, <1>9, <1>10, <1>11, <1>12,
           <1>13, <1>14, <1>15, <1>16, <1>17, <1>18, <1>19, <1>20, <1>21, <1>22, <1>23,
           <1>24, <1>25, <1>26, <1>27, <1>28, <1>29, <1>30
    DEF Next, Step, ControlStep, DispatchStep, Environment

\* The rows: an occurrence with a dispatch was recorded, an acknowledged one has
\* a dispatch, and an event is recorded together with its receipt.
Filed ==
  /\ \A o \in Occurrences : dispatch[o] # "none" => o \in recorded
  /\ InboxBeforeAck
  /\ \A a \in Activations, e \in Events :
       KindOf[a] = "event" /\ <<a, e>> \in recorded => e \in receipts
  /\ EventOnce

FInv == SInv /\ Filed

LEMMA InitFInv == Init => FInv
BY InitSInv DEF Init, FInv, Filed, InboxBeforeAck, EventOnce

LEMMA StepFInv == FInv /\ [Next]_vars => FInv'
<1> SUFFICES ASSUME FInv, [Next]_vars PROVE FInv'
  OBVIOUS
<1>t. SInv /\ SInv'
  BY StepSInv DEF FInv
<1> SUFFICES Filed'
  BY <1>t DEF FInv
<1> USE ConstantsAssumption
    DEF FInv, SInv, OInv, LInv, TInv, TypeOK, Filed, InboxBeforeAck, EventOnce, control, trigger,
        inbox, locals, faultVars, At, OnLock, Goto
\* Most steps leave these rows alone.
<1>1. CASE UNCHANGED <<recorded, acked, receipts, dispatch>>
  BY <1>1
<1>2. ASSUME NEW w \in Workers, Firing(w) PROVE Filed'
  <2>1. PICK e \in Events : \/ recorded' = recorded
                            \/ /\ KindOf[seen[w]] = "manual" /\ seen[w] \in Activations
                               /\ recorded' = recorded \cup {<<seen[w], e>>}
    BY <1>2 DEF Firing, Places
  <2>2. UNCHANGED <<acked, receipts, dispatch>>
    BY <1>2 DEF Firing
  <2>3. \A a \in Activations, d \in Events :
          KindOf[a] = "event" /\ <<a, d>> \in recorded' => <<a, d>> \in recorded
    BY <2>1
  <2> QED BY <2>1, <2>2, <2>3
<1>3. ASSUME NEW e \in Events, Publish(e) PROVE Filed'
  <2>1. /\ e \notin receipts /\ receipts' = receipts \cup {e}
        /\ UNCHANGED <<acked, dispatch>>
    BY <1>3 DEF Publish
  <2>2. \A a \in Activations, d \in Events :
          <<a, d>> \in recorded' <=> \/ <<a, d>> \in recorded
                                     \/ d = e /\ Subscribed(a)
    <3>1. recorded' = recorded \cup {<<a, e>> : a \in {b \in Activations : Subscribed(b)}}
      BY <1>3 DEF Publish
    <3> QED BY ONLY <3>1
  <2>3. \A a, b \in Activations : Subscribed(a) /\ Subscribed(b) => a = b
    <3> SUFFICES ASSUME NEW a \in Activations, NEW b \in Activations,
                        registration[a] = "active", registration[b] = "active", a # b
                 PROVE  FALSE
      BY DEF Subscribed
    <3>1. a \in bound /\ b \in bound
      BY DEF Ordered
    <3>2. a \in Nat /\ b \in Nat /\ a # b
      BY NatActivations
    <3>3. a < b \/ b < a
      BY ONLY <3>2
    <3> QED BY <3>1, <3>3 DEF Ordered
  <2>4. recorded \subseteq recorded'
    BY <1>3 DEF Publish
  <2> QED BY <2>1, <2>2, <2>3, <2>4
<1>4. ASSUME NEW a \in Activations, NEW e \in Events, RecordDue(a, e) PROVE Filed'
  <2>1. /\ KindOf[a] = "time" /\ recorded' = recorded \cup {<<a, e>>}
        /\ UNCHANGED <<acked, receipts, dispatch>>
    BY <1>4 DEF RecordDue
  <2>2. \A b \in Activations, d \in Events :
          KindOf[b] = "event" /\ <<b, d>> \in recorded' => <<b, d>> \in recorded
    BY <2>1
  <2> QED BY <2>1, <2>2
<1>5. ASSUME NEW w \in Workers, Inbox(w) PROVE Filed'
  <2>1. UNCHANGED <<recorded, acked, receipts>>
    BY <1>5 DEF Inbox
  <2>2. PICK o \in recorded : \/ dispatch' = dispatch
                              \/ dispatch' = [dispatch EXCEPT ![o] = "pending"]
    BY <1>5 DEF Inbox, StoreOnce, Store, Places
  <2> QED BY <2>1, <2>2
<1>6. ASSUME NEW w \in Workers, Ack(w) PROVE Filed'
  BY <1>6 DEF Ack, Places
<1>7. ASSUME NEW w \in Workers,
             RefreshRow(w) \/ Admit(w) \/ Record(w) \/ Reread(w) \/ Refuse(w)
      PROVE  Filed'
  <2>1. UNCHANGED <<recorded, acked, receipts>>
    BY <1>7 DEF RefreshRow, Admit, Record, Reread, Refuse
  <2>2. \A o \in Occurrences : /\ dispatch[o] # "none" => dispatch'[o] # "none"
                               /\ dispatch'[o] # "none" => dispatch[o] # "none"
    <3>1. CASE RefreshRow(w) \/ Reread(w)
      BY <3>1 DEF RefreshRow, Reread, RefreshTarget, Selected, Places
    <3>2. CASE Admit(w)
      BY <3>2 DEF Admit, Selected
    <3>3. CASE Record(w) \/ Refuse(w)
      BY <3>3 DEF Record, Refuse, Selected, Places
    <3> QED BY <1>7, <3>1, <3>2, <3>3
  <2> QED BY <2>1, <2>2
<1>8. ASSUME NEW w \in Workers,
             \/ CheckEnable(w) \/ Prepare(w) \/ Bind(w) \/ Unbind(w) \/ List(w) \/ Visit(w)
             \/ Activate(w) \/ CheckFire(w) \/ Collect(w) \/ Pull(w) \/ Retire(w)
             \/ Refresh(w) \/ Select(w) \/ Launch(w) \/ LaunchUnknown(w) \/ Defer(w)
      PROVE  Filed'
  BY <1>1, <1>8 DEF CheckEnable, Prepare, Bind, Unbind, List, Visit, Activate, CheckFire,
     Collect, Pull, Retire, Refresh, Select, Launch, LaunchUnknown, Defer
<1>9. ASSUME NEW w \in Workers, Request(w) \/ Poll(w) PROVE Filed'
  <2>1. PICK place \in ActionPlaces, e \in 0 .. MaxRevision : Acquire(w, place, e)
    BY <1>9, Starts
  <2> QED BY <1>1, <2>1 DEF Acquire
<1>10. ASSUME NEW w \in Workers, Release(w) \/ FailLost(w) \/ Crash(w) PROVE Filed'
  <2>1. Leaves(w)
    BY <1>10, Ends
  <2> QED BY <1>1, <2>1 DEF Leaves
<1>11. ASSUME NEW o \in Occurrences, RunEnds(o) \/ BecomeDue(o) PROVE Filed'
  BY <1>1, <1>11 DEF RunEnds, BecomeDue
<1>12. CASE LoseSession
  BY <1>1, <1>12 DEF LoseSession
<1>13. CASE UNCHANGED vars
  BY <1>1, <1>13 DEF vars
<1> QED BY <1>2, <1>3, <1>4, <1>5, <1>6, <1>7, <1>8, <1>9, <1>10, <1>11, <1>12, <1>13
    DEF Next, Step, ControlStep, DispatchStep, Environment, Occur

LEMMA Invariance == Spec => []FInv
BY InitFInv, StepFInv, PTL DEF Spec

\* The variables of a plan keep their types; among them: what is retired was
\* bound, and what is acknowledged was recorded.
THEOREM TypeCorrect == Spec => []TypeOK
<1>1. FInv => TypeOK
  BY DEF FInv, SInv, OInv, LInv, TInv
<1> QED BY <1>1, Invariance, PTL

\* An occurrence is acknowledged only when its dispatch row is stored, also by a
\* worker that lost the lock: acknowledge() follows the insert it made itself.
THEOREM InboxBeforeAckAlways == Spec => []InboxBeforeAck
<1>1. FInv => InboxBeforeAck
  BY DEF FInv, Filed
<1> QED BY <1>1, Invariance, PTL

\* A published event is recorded at most once for the plan: never are two
\* registrations of one plan active, whatever the workers that lost the lock do.
THEOREM EventOnceAlways == Spec => []EventOnce
<1>1. FInv => EventOnce
  BY DEF FInv, Filed
<1> QED BY <1>1, Invariance, PTL

\* A dispatch is started only under the activation in force and, with overlap =
\* "skip", when nothing of the plan is launched.
THEOREM StartsInForceAlways == Spec => StartsInForce
<1> DEFINE Started == \A o \in Occurrences :
                        dispatch[o] = "pending" /\ dispatch'[o] = "starting"
                          => active = o[1] /\ ~(Skip /\ Busy)
<1>1. FInv /\ [Next]_vars => [Started]_vars
  <2> SUFFICES ASSUME FInv, [Next]_vars, NEW o \in Occurrences,
                      dispatch[o] = "pending", dispatch'[o] = "starting"
               PROVE  active = o[1] /\ ~(Skip /\ Busy)
    OBVIOUS
  <2> USE DEF FInv, SInv, OInv, LInv, TInv, TypeOK, At, OnLock, Goto
  <2>1. CASE dispatch' = dispatch
    BY <2>1
  <2>2. ASSUME NEW w \in Workers, Admit(w) PROVE active = o[1] /\ ~(Skip /\ Busy)
    <3>1. owner = w /\ pc[w] = "admit" /\ InForce(w, o) /\ ~(Skip /\ Busy)
      BY <2>2 DEF Admit
    <3>2. seen[w] = active
      BY <3>1 DEF Locked, Seeing
    <3> QED BY <3>1, <3>2 DEF InForce
  <2>3. ASSUME NEW w \in Workers,
               Inbox(w) \/ RefreshRow(w) \/ Record(w) \/ Reread(w) \/ Refuse(w)
        PROVE  FALSE
    <3>1. \/ dispatch' = dispatch
          \/ \E p \in Occurrences, s \in {"pending", "running", "ended", "failed"} :
               dispatch' = [dispatch EXCEPT ![p] = s] /\ (s = "pending" => dispatch[p] = "none")
      <4>1. CASE Inbox(w)
        BY <4>1 DEF Inbox, StoreOnce, Store, inbox
      <4>2. CASE RefreshRow(w) \/ Reread(w)
        BY <4>2 DEF RefreshRow, Reread, RefreshTarget, Places, inbox
      <4>3. CASE Record(w) \/ Refuse(w)
        BY <4>3 DEF Record, Refuse, Places
      <4> QED BY <2>3, <4>1, <4>2, <4>3
    <3> QED BY <3>1
  <2>4. ASSUME NEW w \in Workers,
               \/ CheckEnable(w) \/ Prepare(w) \/ Bind(w) \/ Unbind(w) \/ List(w) \/ Visit(w)
               \/ Activate(w) \/ CheckFire(w) \/ Firing(w) \/ Collect(w) \/ Pull(w)
               \/ Ack(w) \/ Retire(w) \/ Refresh(w) \/ Select(w) \/ Launch(w)
               \/ LaunchUnknown(w) \/ Defer(w)
        PROVE  dispatch' = dispatch
    BY <2>4 DEF CheckEnable, Prepare, Bind, Unbind, List, Visit, Activate, CheckFire,
       Firing, Collect, Pull, Ack, Retire, Refresh, Select, Launch, LaunchUnknown, Defer,
       inbox
  <2>5. ASSUME NEW w \in Workers,
               Request(w) \/ Poll(w) \/ Release(w) \/ FailLost(w) \/ Crash(w)
        PROVE  dispatch' = dispatch
    BY <2>5, Starts, Ends DEF Acquire, Leaves, inbox
  <2>6. CASE Environment \/ UNCHANGED vars
    BY <2>1, <2>6 DEF Environment, Occur, Publish, RecordDue, RunEnds, BecomeDue,
       LoseSession, inbox, vars
  <2> QED BY <2>1, <2>2, <2>3, <2>4, <2>5, <2>6 DEF Next, Step, ControlStep, DispatchStep
<1>2. StartsInForce <=> [][Started]_vars
  BY PTL DEF StartsInForce
<1> HIDE DEF Started
<1>3. Spec => [][Started]_vars
  BY <1>1, Invariance, PTL DEF Spec
<1> QED BY <1>2, <1>3

-----------------------------------------------------------------------------
(* What holds while the lock is kept *)

\* Nothing of a binding is left when its registration was closed and pending()
\* found nothing: neither now nor later is anything recorded for it.
Emptied(a) == \A o \in recorded : o[1] = a => o \in acked

Kept ==
  losses = 0 =>
    /\ \A w \in Workers :
         /\ pc[w] # "idle" => owner = w
         /\ pc[w] = "retire" => \A a \in Activations :
              InOrder(todo[w], a) /\ registration[a] = "closed" => Emptied(a)
         /\ pc[w] = "refuse" => run[cur[w]] = "none"
    /\ \A a \in retired : Emptied(a)

KInv == FInv /\ Kept

LEMMA InitKInv == Init => KInv
BY InitFInv DEF Init, KInv, Kept, Emptied

\* What is recorded is recorded for an active registration.
LEMMA RecordedActive ==
  ASSUME FInv, [Next]_vars
  PROVE  /\ recorded \subseteq recorded'
         /\ \A o \in recorded' : o \in recorded \/ registration[o[1]] = "active"
<1> USE ConstantsAssumption DEF FInv, SInv, OInv, LInv, TInv, TypeOK, Places, At
<1>1. CASE UNCHANGED recorded
  BY <1>1
<1>2. ASSUME NEW w \in Workers, Firing(w)
      PROVE  /\ recorded \subseteq recorded'
             /\ \A o \in recorded' : o \in recorded \/ registration[o[1]] = "active"
  BY <1>2 DEF Firing
<1>3. ASSUME NEW e \in Events, Publish(e)
      PROVE  /\ recorded \subseteq recorded'
             /\ \A o \in recorded' : o \in recorded \/ registration[o[1]] = "active"
  <2>1. recorded' = recorded \cup {<<a, e>> : a \in {b \in Activations : Subscribed(b)}}
    BY <1>3 DEF Publish
  <2> QED BY ONLY <2>1 DEF Subscribed
<1>4. ASSUME NEW a \in Activations, NEW e \in Events, RecordDue(a, e)
      PROVE  /\ recorded \subseteq recorded'
             /\ \A o \in recorded' : o \in recorded \/ registration[o[1]] = "active"
  BY <1>4 DEF RecordDue
<1>5. ASSUME NEW w \in Workers, (ControlStep(w) /\ ~Firing(w)) \/ DispatchStep(w)
                                  \/ LaunchUnknown(w)
      PROVE  UNCHANGED recorded
  BY <1>5 DEF ControlStep, DispatchStep, CheckEnable, Prepare, Bind, Unbind, List, Visit,
     Activate, CheckFire, Collect, Pull, Inbox, Ack, Retire, Refresh, RefreshRow, Select,
     Admit, Launch, LaunchUnknown, Record, Reread, Refuse, Defer, trigger
<1>6. ASSUME NEW w \in Workers, Request(w) \/ Poll(w) \/ Release(w) \/ FailLost(w) \/ Crash(w)
      PROVE  UNCHANGED recorded
  BY <1>6, Starts, Ends DEF Acquire, Leaves, trigger
<1>7. CASE LoseSession \/ UNCHANGED vars \/ \E o \in Occurrences : RunEnds(o) \/ BecomeDue(o)
  BY <1>1, <1>7 DEF LoseSession, RunEnds, BecomeDue, vars, trigger
<1> QED BY <1>1, <1>2, <1>3, <1>4, <1>5, <1>6, <1>7
    DEF Next, Step, ControlStep, Environment, Occur

LEMMA StepKInv == KInv /\ [Next]_vars => KInv'
<1> SUFFICES ASSUME KInv, [Next]_vars PROVE KInv'
  OBVIOUS
<1>t. FInv /\ FInv'
  BY StepFInv DEF KInv
<1> SUFFICES ASSUME losses' = 0 PROVE Kept'
  BY <1>t DEF KInv, Kept
<1>r. /\ recorded \subseteq recorded'
      /\ \A o \in recorded' : o \in recorded \/ registration[o[1]] = "active"
  BY RecordedActive DEF KInv
<1>s. \A o \in recorded' : o[1] \in Activations
  BY <1>t DEF FInv, SInv, OInv, LInv, TInv, TypeOK, Occurrences
<1> USE ConstantsAssumption
    DEF KInv, FInv, SInv, OInv, LInv, TInv, TypeOK, Kept, Emptied, control, trigger, inbox,
        locals, faultVars, At, OnLock, Goto
<1>1. ASSUME NEW w \in Workers, CheckEnable(w) PROVE Kept'
  BY <1>1, <1>r DEF CheckEnable
<1>2. ASSUME NEW w \in Workers, Prepare(w) PROVE Kept'
  BY <1>2, <1>r DEF Prepare
<1>3. ASSUME NEW w \in Workers, Bind(w) PROVE Kept'
  BY <1>3, <1>r DEF Bind
<1>4. ASSUME NEW w \in Workers, Unbind(w) PROVE Kept'
  BY <1>4, <1>r DEF Unbind
<1>5. ASSUME NEW w \in Workers, List(w) PROVE Kept'
  BY <1>5, <1>r DEF List
<1>6. ASSUME NEW w \in Workers, Visit(w) PROVE Kept'
  BY <1>6, <1>r DEF Visit
<1>7. ASSUME NEW w \in Workers, Activate(w) PROVE Kept'
  BY <1>7, <1>r DEF Activate
<1>8. ASSUME NEW w \in Workers, CheckFire(w) PROVE Kept'
  BY <1>8, <1>r DEF CheckFire
<1>9. ASSUME NEW w \in Workers, Firing(w) PROVE Kept'
  BY <1>9, <1>r DEF Firing, Ordered
<1>10. ASSUME NEW w \in Workers, Collect(w) PROVE Kept'
  BY <1>10, <1>r DEF Collect
<1>11. ASSUME NEW w \in Workers, Pull(w) PROVE Kept'
  <2>1. pc[w] = "pull" /\ UNCHANGED <<retired, registration, recorded, acked, run, owner,
                                     cur, losses>>
    BY <1>11 DEF Pull
  <2>2. CASE todo[w] = {} /\ pc' = [pc EXCEPT ![w] = "refresh"] /\ UNCHANGED todo
    BY <2>1, <2>2
  <2>3. ASSUME NEW a \in Activations, InOrder(todo[w], a), todo' = [todo EXCEPT ![w] = @ \ {a}],
               pc' = [pc EXCEPT ![w] = "inbox"]
        PROVE  Kept'
    BY <2>1, <2>3
  <2>4. ASSUME NEW a \in Activations, InOrder(todo[w], a), UNCHANGED todo, Emptied(a),
               pc' = [pc EXCEPT ![w] = "retire"]
        PROVE  Kept'
    <3>1. \A b \in Activations : InOrder(todo[w], b) => b = a
      BY <2>4, NatActivations DEF InOrder
    <3> QED BY <2>1, <2>4, <3>1
  <2>5. \/ todo[w] = {} /\ pc' = [pc EXCEPT ![w] = "refresh"] /\ UNCHANGED todo
        \/ \E a \in Activations :
             /\ InOrder(todo[w], a)
             /\ \/ Emptied(a) /\ UNCHANGED todo /\ pc' = [pc EXCEPT ![w] = "retire"]
                \/ todo' = [todo EXCEPT ![w] = @ \ {a}] /\ pc' = [pc EXCEPT ![w] = "inbox"]
    BY <1>11 DEF Pull, Visited
  <2> QED BY <2>2, <2>3, <2>4, <2>5
<1>12. ASSUME NEW w \in Workers, Inbox(w) PROVE Kept'
  BY <1>12, <1>r DEF Inbox
<1>13. ASSUME NEW w \in Workers, Ack(w) PROVE Kept'
  BY <1>13, <1>r DEF Ack
<1>14. ASSUME NEW w \in Workers, Retire(w) PROVE Kept'
  BY <1>14, <1>r DEF Retire, Retirable
<1>15. ASSUME NEW w \in Workers, Refresh(w) PROVE Kept'
  BY <1>15, <1>r DEF Refresh
<1>16. ASSUME NEW w \in Workers, RefreshRow(w) PROVE Kept'
  BY <1>16, <1>r DEF RefreshRow
<1>17. ASSUME NEW w \in Workers, Select(w) PROVE Kept'
  BY <1>17, <1>r DEF Select
<1>18. ASSUME NEW w \in Workers, Admit(w) PROVE Kept'
  BY <1>18, <1>r DEF Admit
<1>19. ASSUME NEW w \in Workers, Launch(w) PROVE Kept'
  BY <1>19, <1>r DEF Launch
<1>20. ASSUME NEW w \in Workers, LaunchUnknown(w) PROVE Kept'
  BY <1>20, <1>r DEF LaunchUnknown
<1>21. ASSUME NEW w \in Workers, Record(w) PROVE Kept'
  BY <1>21, <1>r DEF Record
<1>22. ASSUME NEW w \in Workers, Reread(w) PROVE Kept'
  BY <1>22, <1>r DEF Reread
<1>23. ASSUME NEW w \in Workers, Refuse(w) PROVE Kept'
  BY <1>23, <1>r DEF Refuse
<1>24. ASSUME NEW w \in Workers, Defer(w) PROVE Kept'
  BY <1>24, <1>r DEF Defer
<1>25. ASSUME NEW w \in Workers, Request(w) \/ Poll(w) PROVE Kept'
  <2>1. PICK place \in ActionPlaces, e \in 0 .. MaxRevision : Acquire(w, place, e)
    BY <1>25, Starts
  <2> QED BY <2>1 DEF Acquire, ActionPlaces
<1>26. ASSUME NEW w \in Workers, Release(w) \/ FailLost(w) \/ Crash(w) PROVE Kept'
  <2>1. Leaves(w)
    BY <1>26, Ends
  <2> QED BY <2>1 DEF Leaves, Forget
<1>27. CASE Occur
  <2>1. UNCHANGED <<retired, registration, acked, run, owner, pc, todo, cur, losses>>
    BY <1>27 DEF Occur, Publish, RecordDue
  <2> QED BY <1>r, <2>1 DEF Ordered, InOrder
<1>28. ASSUME NEW o \in Occurrences, RunEnds(o) \/ BecomeDue(o) PROVE Kept'
  BY <1>28 DEF RunEnds, BecomeDue, Places
<1>29. CASE LoseSession
  BY <1>29 DEF LoseSession
<1>30. CASE UNCHANGED vars
  BY <1>30 DEF vars
<1> QED BY <1>1, <1>2, <1>3, <1>4, <1>5, <1>6, <1>7, <1>8, <1>9, <1>10, <1>11, <1>12,
           <1>13, <1>14, <1>15, <1>16, <1>17, <1>18, <1>19, <1>20, <1>21, <1>22, <1>23,
           <1>24, <1>25, <1>26, <1>27, <1>28, <1>29, <1>30
    DEF Next, Step, ControlStep, DispatchStep, Environment

LEMMA KeptInvariance == Spec => []KInv
BY InitKInv, StepKInv, PTL DEF Spec

\* While the lock is kept, a binding is retired only when its registration is
\* closed and all that was recorded for it is acknowledged.
THEOREM NothingStrandedAlways == Spec => []NothingStranded
<1>1. KInv => NothingStranded
  BY DEF KInv, FInv, SInv, OInv, Ordered, Kept, Emptied, NothingStranded
<1> QED BY <1>1, KeptInvariance, PTL

-----------------------------------------------------------------------------
(* The refinement *)

PhaseIn(d, r) ==
  [o \in Occurrences |->
     CASE d[o] \in Launched -> "open"
       [] d[o] \in Final -> "closed"
       [] OTHER -> IF o \in r THEN "waiting" ELSE "absent"]

LEMMA PhaseOne ==
  ASSUME NEW d, NEW r, NEW o \in Occurrences
  PROVE  /\ d[o] \in Launched => PhaseIn(d, r)[o] = "open"
         /\ d[o] \in Final => PhaseIn(d, r)[o] = "closed"
         /\ d[o] \in {"none", "pending"} =>
              PhaseIn(d, r)[o] = IF o \in r THEN "waiting" ELSE "absent"
BY DEF PhaseIn, Launched, Final

LEMMA PhaseType ==
  \A d, r : PhaseIn(d, r) \in [Occurrences -> {"absent", "waiting", "open", "closed"}]
BY DEF PhaseIn

\* One dispatch row changes: so does the phase of its occurrence, and no other.
LEMMA PhaseChanges ==
  ASSUME NEW o \in Occurrences, NEW s, TypeOK, recorded' = recorded,
         dispatch' = [dispatch EXCEPT ![o] = s]
  PROVE  PhaseIn(dispatch', recorded')
           = [PhaseIn(dispatch, recorded) EXCEPT ![o] = PhaseIn(dispatch', recorded')[o]]
<1>1. \A p \in Occurrences : p # o => dispatch'[p] = dispatch[p]
  BY DEF TypeOK
<1>2. \A p \in Occurrences :
        p # o => PhaseIn(dispatch', recorded')[p] = PhaseIn(dispatch, recorded)[p]
  BY <1>1 DEF PhaseIn
<1> QED BY <1>2, PhaseType

LEMMA GatePhaseIs ==
  GatePhase = PhaseIn(dispatch, recorded) /\ GatePhase' = PhaseIn(dispatch', recorded')
BY DEF GatePhase, PhaseIn

\* A step that the gate does not see.
LEMMA Unseen ==
  ASSUME UNCHANGED <<active, run>>, PhaseIn(dispatch', recorded') = PhaseIn(dispatch, recorded)
  PROVE  UNCHANGED Gate!vars
BY GatePhaseIs DEF Gate!vars

LEMMA GateInit == Init => Gate!Init
<1> SUFFICES ASSUME Init PROVE Gate!Init
  OBVIOUS
<1>1. active = 0 /\ run = [o \in Occurrences |-> "none"]
  BY DEF Init
<1>2. \A o \in Occurrences : PhaseIn(dispatch, recorded)[o] = "absent"
  BY PhaseOne DEF Init
<1>3. PhaseIn(dispatch, recorded) = [o \in Occurrences |-> "absent"]
  BY <1>2, PhaseType
<1> QED BY <1>1, <1>3, GatePhaseIs DEF Gate!Init

\* Occurrences are recorded.
LEMMA RecordStep ==
  ASSUME TypeOK, UNCHANGED <<active, run, dispatch>>, recorded \subseteq recorded',
         recorded' \subseteq Occurrences
  PROVE  Gate!Next
<1>1. ASSUME NEW o \in Occurrences
      PROVE  PhaseIn(dispatch', recorded')[o]
               = IF o \in recorded' /\ PhaseIn(dispatch, recorded)[o] = "absent"
                 THEN "waiting" ELSE PhaseIn(dispatch, recorded)[o]
  <2>1. dispatch[o] \in {"none", "pending"} \cup Launched \cup Final
    BY DEF TypeOK, Dispatchable, Launched
  <2>2. CASE dispatch[o] \in {"none", "pending"}
    BY <2>2, PhaseOne
  <2>3. CASE dispatch[o] \in Launched \cup Final
    BY <2>3, PhaseOne
  <2> QED BY <2>1, <2>2, <2>3
<1>2. PhaseIn(dispatch', recorded')
        = [o \in Occurrences |->
             IF o \in recorded' /\ PhaseIn(dispatch, recorded)[o] = "absent"
             THEN "waiting" ELSE PhaseIn(dispatch, recorded)[o]]
  BY <1>1, PhaseType
<1>3. Gate!Record(recorded')
  BY <1>2, GatePhaseIs DEF Gate!Record
<1> QED BY <1>3 DEF Gate!Next

\* An occurrence is closed when its run has ended, or cannot come to exist.
LEMMA CloseStep ==
  ASSUME TypeOK, NEW o \in Occurrences, NEW s \in Final, dispatch[o] \in Launched,
         dispatch' = [dispatch EXCEPT ![o] = s], run[o] # "open",
         UNCHANGED <<active, run, recorded>>
  PROVE  Gate!Next
<1>1. PhaseIn(dispatch, recorded)[o] = "open"
  BY PhaseOne
<1>2. dispatch'[o] \in Final
  BY DEF TypeOK
<1>3. PhaseIn(dispatch', recorded')[o] = "closed"
  BY <1>2, PhaseOne
<1>4. PhaseIn(dispatch', recorded') = [PhaseIn(dispatch, recorded) EXCEPT ![o] = "closed"]
  BY <1>3, PhaseChanges
<1>5. Gate!Close(o)
  BY <1>1, <1>4, GatePhaseIs DEF Gate!Close, Gate!Move
<1> QED BY <1>5 DEF Gate!Next

\* An open occurrence gets its run, or keeps the one it has.
LEMMA LaunchStep ==
  ASSUME TypeOK, NEW o \in Occurrences, dispatch[o] = "starting",
         run' = run \/ (run[o] = "none" /\ run' = [run EXCEPT ![o] = "open"]),
         UNCHANGED <<active, dispatch, recorded>>
  PROVE  [Gate!Next]_Gate!vars
<1>1. PhaseIn(dispatch, recorded)[o] = "open"
  BY PhaseOne DEF Launched
<1>2. PhaseIn(dispatch', recorded') = PhaseIn(dispatch, recorded)
  OBVIOUS
<1>3. CASE run' = run
  BY <1>2, <1>3, Unseen
<1>4. CASE run[o] = "none" /\ run' = [run EXCEPT ![o] = "open"]
  <2>1. Gate!Launch(o)
    BY <1>1, <1>2, <1>4, GatePhaseIs DEF Gate!Launch
  <2> QED BY <2>1 DEF Gate!Next
<1> QED BY <1>3, <1>4

LEMMA GateStep == KInv /\ losses = 0 /\ [Next]_vars => [Gate!Next]_Gate!vars
<1> SUFFICES ASSUME KInv, losses = 0, [Next]_vars PROVE [Gate!Next]_Gate!vars
  OBVIOUS
<1>t. TypeOK /\ TypeOK' /\ Places /\ Selected /\ Locked
  BY StepFInv DEF KInv, FInv, SInv, OInv, LInv, TInv
<1>r. recorded \subseteq recorded' /\ recorded' \subseteq Occurrences
  BY <1>t, RecordedActive DEF KInv, TypeOK
<1>k. \A w \in Workers : /\ pc[w] # "idle" => owner = w
                         /\ pc[w] = "refuse" => run[cur[w]] = "none"
  BY DEF KInv, Kept
<1> USE DEF control, trigger, inbox, locals, faultVars, At, OnLock, Goto
<1>1. CASE UNCHANGED <<active, run, dispatch, recorded>>
  BY <1>1, Unseen
<1>2. ASSUME NEW w \in Workers, Bind(w) \/ Unbind(w) PROVE [Gate!Next]_Gate!vars
  <2>1. UNCHANGED <<run, dispatch, recorded>>
    BY <1>2 DEF Bind, Unbind
  <2>2. active' \in Activations \cup {0}
    BY <1>t, ConstantsAssumption DEF TypeOK, Activations
  <2>3. PhaseIn(dispatch', recorded') = PhaseIn(dispatch, recorded)
    BY <2>1
  <2>4. Gate!Switch
    BY <2>1, <2>2, <2>3, GatePhaseIs DEF Gate!Switch
  <2> QED BY <2>4 DEF Gate!Next
<1>3. ASSUME NEW w \in Workers, Firing(w) PROVE [Gate!Next]_Gate!vars
  <2>1. UNCHANGED <<active, run, dispatch>>
    BY <1>3 DEF Firing
  <2> QED BY <1>t, <1>r, <2>1, RecordStep
<1>4. CASE Occur
  <2>1. UNCHANGED <<active, run, dispatch>>
    BY <1>4 DEF Occur, Publish, RecordDue
  <2> QED BY <1>t, <1>r, <2>1, RecordStep
<1>5. ASSUME NEW w \in Workers, Inbox(w) PROVE [Gate!Next]_Gate!vars
  <2>1. UNCHANGED <<active, run, recorded>> /\ pc[w] = "inbox"
    BY <1>5 DEF Inbox
  <2>2. CASE dispatch' = dispatch
    BY <1>1, <2>1, <2>2
  <2>3. ASSUME NEW o \in recorded, dispatch[o] = "none",
               dispatch' = [dispatch EXCEPT ![o] = "pending"]
        PROVE  [Gate!Next]_Gate!vars
    <3>1. o \in Occurrences /\ dispatch'[o] = "pending"
      BY <1>t, <2>3 DEF TypeOK
    <3>2. PhaseIn(dispatch', recorded')[o] = PhaseIn(dispatch, recorded)[o]
      <4>1. PhaseIn(dispatch, recorded)[o] = "waiting"
        BY <2>3, <3>1, PhaseOne
      <4>2. PhaseIn(dispatch', recorded')[o] = "waiting"
        BY <2>1, <3>1, PhaseOne
      <4> QED BY <4>1, <4>2
    <3>3. PhaseIn(dispatch', recorded')
            = [PhaseIn(dispatch, recorded) EXCEPT ![o] = PhaseIn(dispatch', recorded')[o]]
      BY <1>t, <2>1, <2>3, <3>1, PhaseChanges
    <3>4. PhaseIn(dispatch', recorded') = PhaseIn(dispatch, recorded)
      BY <3>2, <3>3, PhaseType
    <3> QED BY <2>1, <3>4, Unseen
  <2>4. dispatch' = dispatch \/ \E o \in recorded : dispatch[o] = "none"
                                  /\ dispatch' = [dispatch EXCEPT ![o] = "pending"]
    BY <1>5, <1>t DEF Inbox, StoreOnce, Store, Places
  <2> QED BY <2>2, <2>3, <2>4
<1>6. ASSUME NEW w \in Workers, RefreshRow(w) \/ Reread(w) PROVE [Gate!Next]_Gate!vars
  <2>1. /\ UNCHANGED <<active, run, recorded>>
        /\ \/ dispatch' = dispatch
           \/ \E o \in Occurrences : /\ dispatch[o] = "running" /\ Ended(o)
                                     /\ dispatch' = [dispatch EXCEPT ![o] = "ended"]
    BY <1>6, <1>t DEF RefreshRow, Reread, RefreshTarget, Selected, Places, TypeOK
  <2> QED BY <1>1, <1>t, <2>1, CloseStep DEF Ended, Final, Launched
<1>7. ASSUME NEW w \in Workers, Refuse(w) PROVE [Gate!Next]_Gate!vars
  <2>1. /\ UNCHANGED <<active, run, recorded>> /\ cur[w] \in Occurrences
        /\ dispatch' = [dispatch EXCEPT ![cur[w]] = "failed"]
        /\ dispatch[cur[w]] = "starting" /\ run[cur[w]] = "none"
    BY <1>7, <1>t, <1>k DEF Refuse, Selected, Places
  <2> QED BY <1>t, <2>1, CloseStep DEF Final, Launched
<1>8. ASSUME NEW w \in Workers, Record(w) PROVE [Gate!Next]_Gate!vars
  <2>1. /\ UNCHANGED <<active, run, recorded>> /\ cur[w] \in Occurrences
        /\ dispatch' = [dispatch EXCEPT ![cur[w]] = "running"]
        /\ dispatch[cur[w]] = "starting"
    BY <1>8, <1>t DEF Record, Selected, Places
  <2>2. dispatch'[cur[w]] = "running"
    BY <1>t, <2>1 DEF TypeOK
  <2>3. PhaseIn(dispatch', recorded')[cur[w]] = PhaseIn(dispatch, recorded)[cur[w]]
    <3>1. PhaseIn(dispatch, recorded)[cur[w]] = "open"
      BY <2>1, PhaseOne DEF Launched
    <3>2. dispatch'[cur[w]] \in Launched
      BY <2>2 DEF Launched
    <3>3. PhaseIn(dispatch', recorded')[cur[w]] = "open"
      BY <2>1, <3>2, PhaseOne
    <3> QED BY <3>1, <3>3
  <2>4. PhaseIn(dispatch', recorded')
          = [PhaseIn(dispatch, recorded) EXCEPT ![cur[w]] = PhaseIn(dispatch', recorded')[cur[w]]]
    BY <1>t, <2>1, PhaseChanges
  <2>5. PhaseIn(dispatch', recorded') = PhaseIn(dispatch, recorded)
    BY <2>3, <2>4, PhaseType
  <2> QED BY <2>1, <2>5, Unseen
<1>9. ASSUME NEW w \in Workers, Admit(w) PROVE [Gate!Next]_Gate!vars
  <2>1. UNCHANGED <<active, run, recorded>> /\ pc[w] = "admit" /\ owner = w
    BY <1>9, <1>k DEF Admit
  <2>2. CASE dispatch' = dispatch
    BY <1>1, <2>1, <2>2
  <2>3. ASSUME NEW o \in work[w] \ resume[w]
        PROVE  /\ o \in Occurrences /\ dispatch[o] = "pending" /\ o \in recorded
               /\ PhaseIn(dispatch, recorded)[o] = "waiting"
    <3>1. o \in Occurrences /\ dispatch[o] = "pending"
      BY <1>t, <2>1, <2>3 DEF TypeOK, Selected
    <3>2. o \in recorded
      BY <3>1 DEF KInv, FInv, Filed
    <3> QED BY <3>1, <3>2, PhaseOne
  <2>4. ASSUME NEW o \in work[w] \ resume[w], NEW s \in {"skipped", "failed"},
               dispatch' = [dispatch EXCEPT ![o] = s]
        PROVE  Gate!Next
    <3>1. dispatch'[o] \in Final
      BY <1>t, <2>3, <2>4 DEF TypeOK, Final
    <3>2. PhaseIn(dispatch', recorded')[o] = "closed"
      BY <2>3, <3>1, PhaseOne
    <3>3. PhaseIn(dispatch', recorded') = [PhaseIn(dispatch, recorded) EXCEPT ![o] = "closed"]
      BY <1>t, <2>1, <2>3, <2>4, <3>2, PhaseChanges
    <3>4. Gate!Reject(o)
      BY <2>1, <2>3, <3>3, GatePhaseIs DEF Gate!Reject, Gate!Move
    <3> QED BY <2>3, <3>4 DEF Gate!Next
  <2>5. ASSUME NEW o \in work[w] \ resume[w], InForce(w, o), ~(Skip /\ Busy),
               dispatch' = [dispatch EXCEPT ![o] = "starting"]
        PROVE  Gate!Next
    <3>1. dispatch'[o] \in Launched
      BY <1>t, <2>3, <2>5 DEF TypeOK, Launched
    <3>2. PhaseIn(dispatch', recorded')[o] = "open"
      BY <2>3, <3>1, PhaseOne
    <3>3. PhaseIn(dispatch', recorded') = [PhaseIn(dispatch, recorded) EXCEPT ![o] = "open"]
      BY <1>t, <2>1, <2>3, <2>5, <3>2, PhaseChanges
    <3>4. ActivationOf[o] = active
      BY <1>t, <2>1, <2>3, <2>5 DEF Locked, Seeing, InForce, ActivationOf
    <3>5. Skip => \A p \in Occurrences : PhaseIn(dispatch, recorded)[p] # "open"
      <4>1. ASSUME NEW p \in Occurrences, dispatch[p] \notin Launched
            PROVE  PhaseIn(dispatch, recorded)[p] # "open"
        BY <4>1 DEF PhaseIn
      <4> QED BY <2>5, <4>1 DEF Busy
    <3>6. Gate!Open(o)
      BY <2>1, <2>3, <3>3, <3>4, <3>5, GatePhaseIs DEF Gate!Open, Gate!Move
    <3> QED BY <2>3, <3>6 DEF Gate!Next
  <2>6. \/ dispatch' = dispatch
        \/ \E o \in work[w] \ resume[w] :
             \/ \E s \in {"skipped", "failed"} : dispatch' = [dispatch EXCEPT ![o] = s]
             \/ /\ InForce(w, o) /\ ~(Skip /\ Busy)
                /\ dispatch' = [dispatch EXCEPT ![o] = "starting"]
    BY <1>9 DEF Admit
  <2> QED BY <2>2, <2>4, <2>5, <2>6
<1>10. ASSUME NEW w \in Workers, Launch(w) \/ LaunchUnknown(w) PROVE [Gate!Next]_Gate!vars
  <2>1. /\ UNCHANGED <<active, dispatch, recorded>> /\ pc[w] = "launch" /\ owner = w
        /\ cur[w] \in Occurrences
        /\ run' = run \/ (run[cur[w]] = "none" /\ run' = [run EXCEPT ![cur[w]] = "open"])
    BY <1>10, <1>t, <1>k DEF Launch, LaunchUnknown, Places, TypeOK
  <2>2. dispatch[cur[w]] = "starting"
    BY <1>t, <2>1 DEF Selected
  <2> QED BY <1>t, <2>1, <2>2, LaunchStep
<1>11. ASSUME NEW o \in Occurrences, RunEnds(o) PROVE [Gate!Next]_Gate!vars
  <2>1. /\ run[o] = "open" /\ run' = [run EXCEPT ![o] = "ended"]
        /\ UNCHANGED <<active, dispatch, recorded>>
    BY <1>11 DEF RunEnds
  <2>2. PhaseIn(dispatch', recorded') = PhaseIn(dispatch, recorded)
    BY <2>1
  <2>3. Gate!RunEnds(o)
    BY <2>1, <2>2, GatePhaseIs DEF Gate!RunEnds
  <2> QED BY <2>3 DEF Gate!Next
<1>12. ASSUME NEW w \in Workers,
              \/ CheckEnable(w) \/ Prepare(w) \/ List(w) \/ Visit(w) \/ Activate(w)
              \/ CheckFire(w) \/ Collect(w) \/ Pull(w) \/ Ack(w) \/ Retire(w)
              \/ Refresh(w) \/ Select(w) \/ Defer(w)
       PROVE  UNCHANGED <<active, run, dispatch, recorded>>
  BY <1>12 DEF CheckEnable, Prepare, List, Visit, Activate, CheckFire, Collect, Pull, Ack,
     Retire, Refresh, Select, Defer
<1>13. ASSUME NEW w \in Workers,
              Request(w) \/ Poll(w) \/ Release(w) \/ FailLost(w) \/ Crash(w)
       PROVE  UNCHANGED <<active, run, dispatch, recorded>>
  BY <1>13, <1>t, Starts, Ends DEF Acquire, Leaves
<1>14. CASE LoseSession \/ UNCHANGED vars \/ \E o \in Occurrences : BecomeDue(o)
  BY <1>1, <1>14 DEF LoseSession, BecomeDue, vars
<1> QED BY <1>1, <1>2, <1>3, <1>4, <1>5, <1>6, <1>7, <1>8, <1>9, <1>10, <1>11, <1>12,
           <1>13, <1>14 DEF Next, Step, ControlStep, DispatchStep, Environment

\* While no worker loses its session, the tables, workers and crashes of a plan
\* implement the gate, for any number of activations, events and workers.
THEOREM PlanImplementsGate ==
  ASSUME MaxLosses = 0
  PROVE  Spec => ImplementsGate
<1>1. Init => losses = 0
  BY DEF Init
<1>2. KInv /\ losses = 0 /\ [Next]_vars => (losses = 0)'
  <2> SUFFICES ASSUME KInv, losses = 0, [Next]_vars PROVE losses' = 0
    OBVIOUS
  <2>1. TypeOK
    BY DEF KInv, FInv, SInv, OInv, LInv, TInv
  <2>2. ~LoseSession
    BY DEF LoseSession
  <2>3. ASSUME NEW w \in Workers, ControlStep(w) \/ DispatchStep(w) \/ LaunchUnknown(w)
        PROVE  losses' = losses
    BY <2>3 DEF ControlStep, DispatchStep, CheckEnable, Prepare, Bind, Unbind, List, Visit,
       Activate, CheckFire, Firing, Collect, Pull, Inbox, Ack, Retire, Refresh, RefreshRow,
       Select, Admit, Launch, LaunchUnknown, Record, Reread, Refuse, Defer, faultVars
  <2>4. ASSUME NEW w \in Workers,
               Request(w) \/ Poll(w) \/ Release(w) \/ FailLost(w) \/ Crash(w)
        PROVE  losses' = losses
    BY <2>1, <2>4, Starts, Ends DEF Acquire, Leaves, faultVars
  <2>5. CASE Occur \/ (\E o \in Occurrences : RunEnds(o) \/ BecomeDue(o)) \/ UNCHANGED vars
    BY <2>5 DEF Occur, Publish, RecordDue, RunEnds, BecomeDue, vars, faultVars
  <2> QED BY <2>2, <2>3, <2>4, <2>5 DEF Next, Step, Environment
<1>3. Spec => [](losses = 0)
  BY <1>1, <1>2, KeptInvariance, PTL DEF Spec
<1>4. Spec => Gate!Init /\ [][Gate!Next]_Gate!vars
  BY <1>3, GateInit, GateStep, KeptInvariance, PTL DEF Spec
<1> QED BY <1>4 DEF ImplementsGate, Gate!Spec

-----------------------------------------------------------------------------
(* How a call comes to its end *)

\* The awaits of the operations, in an order of their code.
Position(place) ==
  CASE place = "enable" -> 1
    [] place = "disable" -> 2
    [] place = "fire" -> 3
    [] place = "prepare" -> 4
    [] place = "firing" -> 5
    [] place = "bind" -> 6
    [] place = "list" -> 7
    [] place = "collect" -> 8
    [] place = "visit" -> 9
    [] place = "activate" -> 10
    [] place = "pull" -> 11
    [] place = "retire" -> 12
    [] place = "inbox" -> 13
    [] place = "ack" -> 14
    [] place = "refresh" -> 15
    [] place = "reading" -> 16
    [] place = "select" -> 17
    [] place = "launch" -> 18
    [] place = "record" -> 19
    [] place = "refuse" -> 20
    [] place = "defer" -> 21
    [] place = "reread" -> 22
    [] place = "admit" -> 23
    [] place = "release" -> 24

\* Its four loops: over the registrations, the bindings, and the rows to be read
\* and to be started.
Loops == {{"visit", "activate"}, {"pull", "retire", "inbox", "ack"}, {"reading"},
          {"launch", "record", "refuse", "defer", "reread", "admit"}}
InLoop(from, to) == \E L \in Loops : from \in L /\ to \in L

\* A binding or a row fewer of those that were listed before the loop, or a later
\* await for the same one.
Shortens(w) ==
  \/ \E a \in todo[w] : todo'[w] = todo[w] \ {a}
  \/ todo'[w] = todo[w] /\ \E o \in work[w] : work'[w] = work[w] \ {o}
  \/ /\ todo'[w] = todo[w] /\ work'[w] \subseteq work[w]
     /\ Position(pc[w]) < Position(pc'[w])

Nears(w) ==
  \/ pc[w] # "idle" /\ pc'[w] = "idle"
  \/ /\ pc[w] # "idle" /\ pc'[w] # "idle"
     /\ IF InLoop(pc[w], pc'[w]) THEN Shortens(w) ELSE Position(pc[w]) < Position(pc'[w])

Rests(w) == pc'[w] = pc[w] /\ todo'[w] = todo[w] /\ work'[w] = work[w]
OthersRest(w) == \A v \in Workers : v # w => Rests(v)

\* What a loop deals with is one of those it has listed.
Listed ==
  \A w \in Workers :
    /\ pc[w] = "activate" => seen[w] \in todo[w]
    /\ pc[w] = "ack" => cur[w] \in work[w]

NInv == TInv /\ Listed

LEMMA WorkersTyped ==
  ASSUME TInv
  PROVE  /\ pc \in [Workers -> {"idle"} \cup Inside]
         /\ seen \in [Workers -> 0 .. MaxRevision]
         /\ todo \in [Workers -> SUBSET Activations]
         /\ work \in [Workers -> SUBSET Occurrences]
         /\ cur \in [Workers -> Occurrences \cup {NoOcc}]
BY DEF TInv, TypeOK

LEMMA ControlNears ==
  ASSUME NInv, NEW w \in Workers, ControlStep(w)
  PROVE  Nears(w) /\ OthersRest(w) /\ Listed'
<1>. USE WorkersTyped DEF NInv, Listed, At, OnLock, Goto, locals, Nears, Shortens, InLoop, Loops,
                          Position, OthersRest, Rests
<1>1. CASE CheckEnable(w)
  BY <1>1 DEF CheckEnable
<1>2. CASE Prepare(w)
  BY <1>2 DEF Prepare
<1>3. CASE Bind(w)
  BY <1>3 DEF Bind
<1>4. CASE Unbind(w)
  BY <1>4 DEF Unbind
<1>5. CASE List(w)
  BY <1>5 DEF List
<1>6. CASE Visit(w)
  BY <1>6 DEF Visit, Visited, InOrder
<1>7. CASE Activate(w)
  BY <1>7 DEF Activate, Visited
<1>8. CASE CheckFire(w)
  BY <1>8 DEF CheckFire
<1>9. CASE Firing(w)
  BY <1>9 DEF Firing
<1>. QED BY <1>1, <1>2, <1>3, <1>4, <1>5, <1>6, <1>7, <1>8, <1>9 DEF ControlStep

LEMMA DispatchNears ==
  ASSUME NInv, NEW w \in Workers, DispatchStep(w) \/ LaunchUnknown(w)
  PROVE  Nears(w) /\ OthersRest(w) /\ Listed'
<1>. USE WorkersTyped DEF NInv, Listed, At, OnLock, Goto, locals, Nears, Shortens, InLoop, Loops,
                          Position, OthersRest, Rests
<1>1. CASE Collect(w)
  BY <1>1 DEF Collect
<1>2. CASE Pull(w)
  BY <1>2 DEF Pull, Visited, InOrder
<1>3. CASE Inbox(w)
  BY <1>3 DEF Inbox
<1>4. CASE Ack(w)
  BY <1>4 DEF Ack
<1>5. CASE Retire(w)
  BY <1>5 DEF Retire, Visited, InOrder
<1>6. CASE Refresh(w)
  BY <1>6 DEF Refresh
<1>7. CASE RefreshRow(w)
  BY <1>7 DEF RefreshRow
<1>8. CASE Select(w)
  BY <1>8 DEF Select
<1>9. CASE Admit(w)
  BY <1>9 DEF Admit
<1>10. CASE Launch(w) \/ LaunchUnknown(w)
  BY <1>10 DEF Launch, LaunchUnknown
<1>11. CASE Record(w) \/ Reread(w) \/ Refuse(w) \/ Defer(w)
  BY <1>11 DEF Record, Reread, Refuse, Defer
<1>. QED BY <1>1, <1>2, <1>3, <1>4, <1>5, <1>6, <1>7, <1>8, <1>9, <1>10, <1>11 DEF DispatchStep

LEMMA LeaveNears ==
  ASSUME NInv, NEW w \in Workers, Release(w) \/ FailLost(w) \/ Crash(w)
  PROVE  Nears(w) /\ OthersRest(w) /\ Listed'
<1>1. pc[w] # "idle"
  BY DEF Release, FailLost, Crash, At, OnSession, Reading
<1>2. Forget(w)
  BY DEF Release, FailLost, Crash
<1>. QED BY <1>1, <1>2, WorkersTyped
         DEF NInv, Listed, Forget, Goto, Nears, OthersRest, Rests

\* A call that has not begun yet, or a step of no call.
LEMMA OtherRests ==
  ASSUME NInv, [Next]_vars,
         ~\E w \in Workers : Step(w) \/ LaunchUnknown(w) \/ Crash(w)
  PROVE  (\A w \in Workers : pc[w] # "idle" => Rests(w)) /\ Listed'
<1>1. ASSUME NEW w \in Workers, Request(w) \/ Poll(w)
      PROVE  (\A v \in Workers : pc[v] # "idle" => Rests(v)) /\ Listed'
  <2>1. PICK place \in ActionPlaces, e \in 0 .. MaxRevision : Acquire(w, place, e)
    BY <1>1, Starts DEF NInv, TInv
  <2>. QED BY <2>1, WorkersTyped
           DEF NInv, Listed, Acquire, ActionPlaces, At, Goto, Rests
<1>2. CASE Environment \/ UNCHANGED vars
  <2>1. UNCHANGED <<pc, locals>>
    BY <1>2 DEF Environment, Occur, Publish, RecordDue, RunEnds, BecomeDue, LoseSession, vars
  <2>. QED BY <2>1 DEF NInv, Listed, Rests, locals
<1>. QED BY <1>1, <1>2 DEF Next

LEMMA ListedInvariance == Spec => []NInv
<1>1. Init => Listed
  BY DEF Init, Listed
<1>2. NInv /\ [Next]_vars => Listed'
  BY ControlNears, DispatchNears, LeaveNears, OtherRests DEF Step
<1>. QED BY <1>1, <1>2, TypesInvariant, PTL DEF Spec, NInv

\* Each step of a call, failures and a lost session included, brings it nearer to its
\* end and to the release of the lock: to a later part of its code, or past one more of
\* the bindings and rows it has listed. Nothing that happens meanwhile, new occurrences
\* among it, sends it back or gives it more to do. What EventuallyDispatched and
\* EventuallyArmed need besides is that steps are taken and the lock is found free.
THEOREM CallsWindDown ==
  Spec => [][\A w \in Workers :
               IF Step(w) \/ LaunchUnknown(w) \/ Crash(w) THEN Nears(w)
               ELSE pc[w] # "idle" => Rests(w)]_vars
<1>1. ASSUME NInv, NEW w \in Workers, Step(w) \/ LaunchUnknown(w) \/ Crash(w)
      PROVE  Nears(w) /\ OthersRest(w)
  BY <1>1, ControlNears, DispatchNears, LeaveNears DEF Step
<1>2. ASSUME NInv, [Next]_vars, NEW w \in Workers
      PROVE  IF Step(w) \/ LaunchUnknown(w) \/ Crash(w) THEN Nears(w)
             ELSE pc[w] # "idle" => Rests(w)
  <2>1. CASE Step(w) \/ LaunchUnknown(w) \/ Crash(w)
    BY <1>1, <1>2, <2>1
  <2>2. CASE /\ ~(Step(w) \/ LaunchUnknown(w) \/ Crash(w))
             /\ \E v \in Workers : Step(v) \/ LaunchUnknown(v) \/ Crash(v)
    BY <1>1, <1>2, <2>2 DEF OthersRest
  <2>3. CASE ~\E v \in Workers : Step(v) \/ LaunchUnknown(v) \/ Crash(v)
    BY <1>2, <2>3, OtherRests
  <2>. QED BY <2>1, <2>2, <2>3
<1>3. NInv /\ [Next]_vars =>
        [\A w \in Workers :
           IF Step(w) \/ LaunchUnknown(w) \/ Crash(w) THEN Nears(w)
           ELSE pc[w] # "idle" => Rests(w)]_vars
  BY <1>2
<1>. QED BY <1>3, ListedInvariance, PTL DEF Spec
=============================================================================
