------------------------------ MODULE DrainLoop ------------------------------
(***************************************************************************)
(* The coordinator that drains the message queue in one process            *)
(* (src/src/modules/message-management/application/                        *)
(* system-message-delivery-coordinator.service.ts).                        *)
(*                                                                         *)
(* requestDrain() starts a loop, or asks the running one for another pass. *)
(* A pass scans the events, then the deliveries, each up to a batch.  What *)
(* happens between two awaits is one step here.                            *)
(***************************************************************************)
EXTENDS Integers

CONSTANTS
  Callers,      \* calls of drain() by the scan task
  Batch,        \* SYSTEM_MESSAGE_BATCH_SIZE
  MaxRows,      \* bound: events that are staged
  MaxRequests,  \* bound: calls of requestDrain() without a new event
  MaxFaults     \* bound: scans that reject

ASSUME ConstantsAssumption ==
  /\ Batch \in Nat \ {0}
  /\ MaxRows \in Nat /\ MaxRequests \in Nat /\ MaxFaults \in Nat

VARIABLES
  events, deliveries,   \* rows that are due
  arrived, requests,    \* events staged, requests made so far
  owed,                 \* events staged whose requestDrain() is still to come
  destroyed,
  closed,               \* onModuleDestroy() has returned
  requested,            \* drainRequested
  pc,                   \* drainPromise: "none"; else the await of the loop
  claimed,              \* rows the current scan has claimed
  full,                 \* the scan of events reached the batch limit
  failed,               \* drainOutcome.error of the current loop
  call,                 \* calls of drain()
  mine,                 \* calls that hold the outcome of the current loop
  hurt,                 \* calls during which a scan rejected
  faults

queue == <<events, deliveries, arrived, requests, owed>>
loop == <<requested, pc, claimed, full, failed>>
calls == <<call, mine, hurt>>
vars == <<queue, destroyed, closed, loop, calls, faults>>

Init ==
  /\ events = 0 /\ deliveries = 0 /\ arrived = 0 /\ requests = 0 /\ owed = 0
  /\ destroyed = FALSE /\ closed = FALSE
  /\ requested = FALSE /\ pc = "none" /\ claimed = 0
  /\ full = FALSE /\ failed = FALSE
  /\ call = [c \in Callers |-> "idle"] /\ mine = {} /\ hurt = {}
  /\ faults = 0

-----------------------------------------------------------------------------

\* The loop clears the request and begins its first scan before it awaits.
BeginPass ==
  /\ requested' = FALSE
  /\ pc' = "events"
  /\ claimed' = 0 /\ full' = FALSE

\* Mutation: a closed service takes requests.
OpenAlways == TRUE

Open == ~destroyed

RequestDrain ==
  IF ~Open THEN UNCHANGED loop
  ELSE IF pc = "none" THEN BeginPass /\ failed' = FALSE
  ELSE requested' = TRUE /\ UNCHANGED <<pc, claimed, full, failed>>

\* stage() in a transaction; requestDrain() comes after its commit.
Stage ==
  /\ arrived < MaxRows
  /\ arrived' = arrived + 1
  /\ events' = events + 1
  /\ owed' = owed + 1
  /\ UNCHANGED <<deliveries, requests, destroyed, closed, loop, calls, faults>>

\* After a commit, or by notifyDependencyChanged().
Request ==
  /\ \/ owed > 0 /\ owed' = owed - 1 /\ UNCHANGED requests
     \/ requests < MaxRequests /\ requests' = requests + 1 /\ UNCHANGED owed
  /\ RequestDrain
  /\ UNCHANGED <<events, deliveries, arrived, destroyed, closed, calls, faults>>

\* Mutation: drain() takes the outcome before it requests the loop.
HoldsEarlier == pc # "none"

HoldsOutcome == TRUE

Drain(c) ==
  /\ call[c] = "idle"
  /\ IF destroyed THEN call' = [call EXCEPT ![c] = "rejected"] /\ UNCHANGED mine
     ELSE /\ call' = [call EXCEPT ![c] = "waiting"]
          /\ mine' = IF HoldsOutcome THEN mine \cup {c} ELSE mine
  /\ RequestDrain
  /\ UNCHANGED <<queue, destroyed, closed, hurt, faults>>

\* onModuleDestroy() returns with the promise of the loop.
Destroy ==
  /\ ~destroyed
  /\ destroyed' = TRUE
  /\ requested' = FALSE
  /\ closed' = (pc = "none")
  /\ UNCHANGED <<queue, pc, claimed, full, failed, calls, faults>>

-----------------------------------------------------------------------------

Room == claimed < Batch

\* One row of runOnce(): an event may leave a delivery.
FanOut ==
  /\ pc = "events" /\ Room /\ events > 0
  /\ events' = events - 1
  /\ deliveries' \in {deliveries, deliveries + 1}
  /\ claimed' = claimed + 1
  /\ UNCHANGED <<arrived, requests, owed, destroyed, closed, requested, pc, full,
                 failed, calls, faults>>

Deliver ==
  /\ pc = "deliveries" /\ Room /\ deliveries > 0
  /\ deliveries' = deliveries - 1
  /\ claimed' = claimed + 1
  /\ UNCHANGED <<events, arrived, requests, owed, destroyed, closed, requested, pc,
                 full, failed, calls, faults>>

\* Mutations: a full batch asks for no other pass; any batch does.
NeverFull(count) == FALSE
AlwaysFull(count) == count <= Batch

Limit(count) == count = Batch

EndEvents ==
  /\ pc = "events" /\ (claimed = Batch \/ events = 0)
  /\ pc' = "deliveries"
  /\ full' = Limit(claimed)
  /\ claimed' = 0
  /\ UNCHANGED <<queue, destroyed, closed, requested, failed, calls, faults>>

\* The condition of the loop.
Again(wish) == ~destroyed /\ wish

EndPass(limit) ==
  LET wish == requested \/ full \/ limit
  IN  IF Again(wish) THEN BeginPass
      ELSE requested' = wish /\ pc' = "done" /\ UNCHANGED <<claimed, full>>

EndDeliveries ==
  /\ pc = "deliveries" /\ (claimed = Batch \/ deliveries = 0)
  /\ EndPass(Limit(claimed))
  /\ UNCHANGED <<queue, destroyed, closed, failed, calls, faults>>

\* runBounded(): a scan that rejects counts as one that claimed nothing, and the
\* pass goes on.
ScanFails ==
  /\ faults < MaxFaults /\ faults' = faults + 1
  /\ failed' = TRUE
  /\ hurt' = hurt \cup {c \in Callers : call[c] = "waiting"}
  /\ \/ pc = "events" /\ pc' = "deliveries" /\ claimed' = 0 /\ full' = FALSE
        /\ UNCHANGED requested
     \/ pc = "deliveries" /\ EndPass(FALSE)
  /\ UNCHANGED <<queue, destroyed, closed, call, mine>>

\* Mutation: what was requested since the loop ended is forgotten.
NotRecalled == FALSE

Recalled == ~destroyed /\ requested

\* The promise settles: finally() looks for a request made since the loop ended,
\* then the callers go on.
Settle ==
  /\ pc = "done"
  /\ IF Recalled THEN BeginPass /\ failed' = FALSE
                 ELSE pc' = "none" /\ UNCHANGED <<requested, claimed, full, failed>>
  /\ closed' = destroyed
  /\ call' = [c \in Callers |-> IF call[c] # "waiting" THEN call[c]
                                ELSE IF failed /\ c \in mine THEN "rejected" ELSE "ok"]
  /\ mine' = {}
  /\ UNCHANGED <<queue, destroyed, hurt, faults>>

-----------------------------------------------------------------------------

Loop == FanOut \/ Deliver \/ EndEvents \/ EndDeliveries \/ Settle

Next == \/ Stage \/ Request \/ Destroy
        \/ \E c \in Callers : Drain(c)
        \/ Loop \/ ScanFails

Spec == Init /\ [][Next]_vars

\* Queries and sends return or reject.
FairSpec == Spec /\ WF_vars(Loop)

-----------------------------------------------------------------------------
(* Properties *)

CountsOK ==
  /\ events \in 0 .. MaxRows /\ deliveries \in 0 .. MaxRows
  /\ arrived \in 0 .. MaxRows /\ owed \in 0 .. MaxRows
  /\ requests \in 0 .. MaxRequests /\ faults \in 0 .. MaxFaults
  /\ claimed \in 0 .. Batch

FlagsOK ==
  /\ destroyed \in BOOLEAN /\ closed \in BOOLEAN /\ requested \in BOOLEAN
  /\ full \in BOOLEAN /\ failed \in BOOLEAN
  /\ pc \in {"none", "events", "deliveries", "done"}

CallsOK ==
  /\ call \in [Callers -> {"idle", "waiting", "ok", "rejected"}]
  /\ mine \subseteq Callers /\ hurt \subseteq Callers

\* Types; no scan claims more rows than its batch.
TypeOK == CountsOK /\ FlagsOK /\ CallsOK

\* No row is forgotten: as long as one is due, its request is still to come or
\* the loop has not ended, however many batches the queue is long and whenever
\* the request arrived.  Only a scan that rejected leaves rows to the next tick.
NoRowForgotten ==
  events + deliveries > 0 /\ ~destroyed /\ faults = 0 => owed > 0 \/ pc # "none"

\* Once onModuleDestroy() has returned nothing scans, so that the connections
\* can be closed.
ClosedQuiet == closed => pc = "none"

\* drain() does not report success if a scan rejected while it waited.
FailureReported == \A c \in hurt : call[c] # "ok"

\* Each call of drain() returns: the passes end when the queue is empty.
DrainReturns == \A c \in Callers : call[c] = "waiting" ~> call[c] # "waiting"
=============================================================================
