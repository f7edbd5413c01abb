-------------------------- MODULE DrainLoopProofs --------------------------
(***************************************************************************)
(* DrainLoop forgets no row, is quiet once it has closed, begins no pass   *)
(* while it closes and reports every scan that rejected, for any batch     *)
(* size, number of callers, events, requests and faults.                   *)
(*                                                                         *)
(* NoRowForgotten is not inductive: it says nothing of rows that arrive    *)
(* while the loop is busy.  The strengthening follows such a row through   *)
(* the pass: an event that the scan of events has left behind came after   *)
(* the pass began, so its request is still to come or is noted, or it was  *)
(* beyond the batch, which is noted in full.                               *)
(*                                                                         *)
(* Last, each step of the loop is shown to spend an effort that only new   *)
(* rows and requests add to.                                               *)
(***************************************************************************)
EXTENDS DrainLoop, TLAPS

-----------------------------------------------------------------------------
(* The inductive invariant *)

\* Every row goes back to an event that was staged.
RowsArrived == events + deliveries <= arrived /\ owed <= arrived

\* What the loop has passed by will be looked at again.
Remembered ==
  ~destroyed /\ faults = 0 =>
    /\ pc = "none" /\ events + deliveries > 0 => owed > 0
    /\ pc = "deliveries" /\ events > 0 => owed > 0 \/ requested \/ full
    /\ pc = "done" /\ events + deliveries > 0 => owed > 0 \/ requested

\* The service closes after it was told to, with no loop.
ClosedInv == closed => destroyed /\ pc = "none"

\* A waiting call holds the outcome of the loop that runs, in which the scans
\* that rejected are noted.
CallInv ==
  /\ \A c \in Callers : call[c] = "waiting" => pc # "none" /\ c \in mine
  /\ \A c \in hurt : \/ call[c] = "waiting" /\ failed
                     \/ call[c] = "rejected"

IInv == TypeOK /\ RowsArrived /\ Remembered /\ ClosedInv /\ CallInv

-----------------------------------------------------------------------------

LEMMA InitIInv == Init => IInv
<1>. SUFFICES ASSUME Init PROVE IInv
  OBVIOUS
<1>. USE DEF Init
<1>1. CountsOK
  BY ConstantsAssumption DEF CountsOK
<1>2. FlagsOK /\ CallsOK
  BY DEF FlagsOK, CallsOK
<1>3. RowsArrived /\ Remembered /\ ClosedInv
  BY DEF RowsArrived, Remembered, ClosedInv
<1>4. CallInv
  BY DEF CallInv
<1>. QED BY <1>1, <1>2, <1>3, <1>4 DEF IInv, TypeOK

LEMMA StepIInv == IInv /\ [Next]_vars => IInv'
<1>. SUFFICES ASSUME IInv, [Next]_vars PROVE IInv'
  OBVIOUS
<1>. USE ConstantsAssumption DEF IInv, TypeOK
<1>1. CASE Stage
  <2>1. CountsOK' /\ RowsArrived'
    BY <1>1 DEF CountsOK, RowsArrived, Stage, loop, calls
  <2>2. FlagsOK'
    BY <1>1 DEF FlagsOK, Stage, loop, calls
  <2>3. CallsOK'
    BY <1>1 DEF CallsOK, Stage, loop, calls
  <2>4. Remembered'
    BY <1>1 DEF CountsOK, FlagsOK, CallsOK, RowsArrived, Remembered, Stage, loop, calls
  <2>5. ClosedInv' /\ CallInv'
    BY <1>1 DEF ClosedInv, CallInv, Stage, loop, calls
  <2>. QED BY <2>1, <2>2, <2>3, <2>4, <2>5
<1>2. CASE Request
  <2>. USE <1>2 DEF Request, RequestDrain, Open, BeginPass, loop, calls
  <2>1. CountsOK' /\ RowsArrived'
    BY DEF CountsOK, RowsArrived
  <2>2. FlagsOK'
    BY DEF FlagsOK
  <2>3. CallsOK'
    BY DEF CallsOK
  <2>4. Remembered'
    BY DEF CountsOK, FlagsOK, CallsOK, RowsArrived, Remembered
  <2>5. ClosedInv' /\ CallInv'
    BY DEF CountsOK, FlagsOK, CallsOK, ClosedInv, CallInv
  <2>. QED BY <2>1, <2>2, <2>3, <2>4, <2>5
<1>3. CASE Destroy
  <2>. USE <1>3 DEF Destroy, queue, calls
  <2>1. CountsOK' /\ RowsArrived'
    BY DEF CountsOK, RowsArrived
  <2>2. FlagsOK'
    BY DEF FlagsOK
  <2>3. CallsOK'
    BY DEF CallsOK
  <2>4. Remembered' /\ ClosedInv' /\ CallInv'
    BY DEF CountsOK, FlagsOK, CallsOK, Remembered, ClosedInv, CallInv
  <2>. QED BY <2>1, <2>2, <2>3, <2>4
<1>4. ASSUME NEW c \in Callers, Drain(c) PROVE IInv'
  <2>. USE <1>4 DEF Drain, RequestDrain, Open, HoldsOutcome, BeginPass, loop, queue
  <2>1. CountsOK' /\ RowsArrived'
    BY DEF CountsOK, RowsArrived
  <2>2. FlagsOK'
    BY DEF FlagsOK
  <2>3. CallsOK'
    BY DEF CallsOK
  <2>4. Remembered'
    BY DEF CountsOK, FlagsOK, CallsOK, RowsArrived, Remembered
  <2>5. ClosedInv'
    BY DEF CountsOK, FlagsOK, CallsOK, ClosedInv
  <2>6. CallInv'
    BY DEF CountsOK, FlagsOK, CallsOK, CallInv
  <2>. QED BY <2>1, <2>2, <2>3, <2>4, <2>5, <2>6
<1>5. CASE FanOut
  <2>. USE <1>5 DEF FanOut, Room, calls
  <2>1. claimed' \in 0 .. Batch
    BY DEF CountsOK
  <2>2. /\ events \in Nat /\ deliveries \in Nat /\ arrived \in Nat
        /\ arrived <= MaxRows /\ events + deliveries <= arrived
        /\ events > 0 /\ MaxRows \in Nat
    BY DEF CountsOK, RowsArrived
  <2>3. /\ events' \in 0 .. MaxRows
        /\ deliveries' \in 0 .. MaxRows
        /\ events' + deliveries' <= arrived
    <3>1. events' = events - 1
      OBVIOUS
    <3>2. deliveries' = deliveries \/ deliveries' = deliveries + 1
      OBVIOUS
    <3>. HIDE <1>5 DEF FanOut, IInv, TypeOK
    <3>. QED BY <2>2, <3>1, <3>2
  <2>4. CountsOK' /\ RowsArrived'
    BY <2>1, <2>3 DEF CountsOK, RowsArrived
  <2>5. FlagsOK' /\ CallsOK'
    BY DEF FlagsOK, CallsOK
  <2>6. Remembered' /\ ClosedInv' /\ CallInv'
    BY DEF CountsOK, FlagsOK, CallsOK, Remembered, ClosedInv, CallInv
  <2>. QED BY <2>4, <2>5, <2>6
<1>6. CASE Deliver
  <2>. USE <1>6 DEF Deliver, Room, calls
  <2>1. CountsOK' /\ RowsArrived'
    BY DEF CountsOK, RowsArrived
  <2>2. FlagsOK'
    BY DEF FlagsOK
  <2>3. CallsOK'
    BY DEF CallsOK
  <2>4. Remembered' /\ ClosedInv' /\ CallInv'
    BY DEF CountsOK, FlagsOK, CallsOK, Remembered, ClosedInv, CallInv
  <2>. QED BY <2>1, <2>2, <2>3, <2>4
<1>7. CASE EndEvents
  <2>. USE <1>7 DEF EndEvents, Limit, queue, calls
  <2>1. CountsOK' /\ RowsArrived'
    BY DEF CountsOK, RowsArrived
  <2>2. full' <=> claimed = Batch
    OBVIOUS
  <2>3. FlagsOK'
    BY <2>2 DEF FlagsOK
  <2>4. CallsOK'
    BY DEF CallsOK
  <2>5. events > 0 => full'
    BY <2>2 DEF CountsOK
  <2>6. Remembered'
    BY <2>5 DEF CountsOK, Remembered
  <2>7. ClosedInv' /\ CallInv'
    BY DEF ClosedInv, CallInv
  <2>. QED BY <2>1, <2>3, <2>4, <2>6, <2>7
<1>8. CASE EndDeliveries
  <2>. USE <1>8 DEF EndDeliveries, EndPass, Again, BeginPass, Limit, queue, calls
  <2>1. CountsOK' /\ RowsArrived'
    BY DEF CountsOK, RowsArrived
  <2>2. FlagsOK'
    BY DEF FlagsOK
  <2>3. CallsOK'
    BY DEF CallsOK
  <2>4. Remembered'
    BY DEF CountsOK, FlagsOK, CallsOK, Remembered
  <2>5. ClosedInv' /\ CallInv'
    BY DEF CountsOK, FlagsOK, CallsOK, ClosedInv, CallInv
  <2>. QED BY <2>1, <2>2, <2>3, <2>4, <2>5
<1>9. CASE ScanFails
  <2>. USE <1>9 DEF ScanFails, EndPass, Again, BeginPass, queue
  <2>1. CountsOK' /\ RowsArrived'
    BY DEF CountsOK, RowsArrived
  <2>2. FlagsOK'
    BY DEF FlagsOK
  <2>3. CallsOK'
    BY DEF CallsOK
  <2>4. Remembered' /\ ClosedInv'
    BY DEF CountsOK, FlagsOK, CallsOK, Remembered, ClosedInv
  <2>5. CallInv'
    BY DEF CountsOK, FlagsOK, CallsOK, CallInv
  <2>. QED BY <2>1, <2>2, <2>3, <2>4, <2>5
<1>10. CASE Settle
  <2>. USE <1>10 DEF Settle, Recalled, BeginPass, queue
  <2>1. CountsOK' /\ RowsArrived'
    BY DEF CountsOK, RowsArrived
  <2>2. FlagsOK'
    BY DEF FlagsOK
  <2>3. CallsOK'
    BY DEF CallsOK
  <2>4. Remembered'
    BY DEF CountsOK, FlagsOK, CallsOK, Remembered
  <2>5. ClosedInv'
    BY DEF CountsOK, FlagsOK, CallsOK, ClosedInv
  <2>6. CallInv'
    BY DEF CountsOK, FlagsOK, CallsOK, CallInv
  <2>. QED BY <2>1, <2>2, <2>3, <2>4, <2>5, <2>6
<1>11. CASE UNCHANGED vars
  BY <1>11
  DEF vars, queue, loop, calls, CountsOK, FlagsOK, CallsOK, RowsArrived, Remembered, ClosedInv, CallInv
<1>. QED
  BY <1>1, <1>2, <1>3, <1>4, <1>5, <1>6, <1>7, <1>8, <1>9, <1>10, <1>11
  DEF Next, Loop

LEMMA Invariance == Spec => []IInv
  BY InitIInv, StepIInv, PTL DEF Spec

-----------------------------------------------------------------------------
(* Results *)

\* The types of the coordinator, and that no scan exceeds its batch.
THEOREM TypeCorrect == Spec => []TypeOK
<1>1. IInv => TypeOK
  BY DEF IInv
<1>. QED BY <1>1, Invariance, PTL

\* A row that is due is never left behind by requestDrain(), drainLoop() and
\* the finally() of its promise, unless a scan rejected or the service closes.
THEOREM RowsRemembered == Spec => []NoRowForgotten
<1>1. IInv => NoRowForgotten
  BY DEF IInv, TypeOK, CountsOK, FlagsOK, CallsOK, Remembered, NoRowForgotten
<1>. QED BY <1>1, Invariance, PTL

\* onModuleDestroy() returns only when nothing scans, and nothing will.
THEOREM QuietWhenClosed == Spec => []ClosedQuiet
<1>1. IInv => ClosedQuiet
  BY DEF IInv, ClosedInv, ClosedQuiet
<1>. QED BY <1>1, Invariance, PTL

\* drain() never reports success over a scan that rejected while it waited.
THEOREM FailuresReported == Spec => []FailureReported
<1>1. IInv => FailureReported
  BY DEF IInv, CallInv, FailureReported
<1>. QED BY <1>1, Invariance, PTL

-----------------------------------------------------------------------------
(* The loop winds down *)

\* What the loop has still to do when nobody asks for more: an event may leave a
\* delivery; a request, or a batch that was full, is worth one more pass.
Due == events + events + deliveries
Wished == IF requested THEN 1 ELSE 0
Earned == IF pc \in {"events", "deliveries"} /\ (full \/ claimed > 0) THEN 1 ELSE 0
Place ==
  CASE pc = "events" -> 3
    [] pc = "deliveries" -> 2
    [] pc = "done" -> 1
    [] OTHER -> 0

Spends ==
  \/ Due' < Due
  \/ Due' = Due /\ Wished' + Earned' < Wished + Earned
  \/ Due' = Due /\ Wished' + Earned' = Wished + Earned /\ Place' < Place

LEMMA LoopSpends ==
  ASSUME TypeOK, Loop \/ ScanFails
  PROVE  Spends
<1>1. ASSUME FanOut \/ Deliver PROVE Spends
  <2>1. events \in Int /\ deliveries \in Int
    BY DEF TypeOK, CountsOK
  <2>2. \/ events' = events - 1 /\ deliveries' \in {deliveries, deliveries + 1}
        \/ events' = events /\ deliveries' = deliveries - 1
    BY <1>1 DEF FanOut, Deliver
  <2>3. Due' = events' + events' + deliveries'
    BY DEF Due
  <2>4. Due' < Due
    BY <2>1, <2>2, <2>3 DEF Due
  <2>. QED BY <2>4 DEF Spends
<1>2. Wished \in {0, 1} /\ Earned \in {0, 1}
  BY DEF Wished, Earned
<1>3. ASSUME UNCHANGED <<events, deliveries>>,
             \/ Wished' + Earned' < Wished + Earned
             \/ Wished' + Earned' = Wished + Earned /\ Place' < Place
      PROVE  Spends
  BY <1>3 DEF Due, Spends
<1>4. CASE EndEvents
  <2>1. UNCHANGED <<events, deliveries, requested>> /\ pc = "events" /\ pc' = "deliveries"
    BY <1>4 DEF EndEvents, queue
  <2>2. Earned' = 1 => Earned = 1
    <3>1. claimed' = 0 /\ (full' => claimed = Batch)
      BY <1>4 DEF EndEvents, Limit
    <3>2. Earned' = 1 => full'
      BY <3>1 DEF Earned
    <3>3. claimed = Batch => claimed > 0
      BY ConstantsAssumption
    <3>. QED BY <2>1, <3>1, <3>2, <3>3 DEF Earned
  <2>3. Wished' = Wished /\ Place' < Place
    BY <2>1 DEF Wished, Place
  <2>4. Earned' \in {0, 1}
    BY DEF Earned
  <2>5. Earned' = Earned \/ (Earned' = 0 /\ Earned = 1)
    BY <1>2, <2>2, <2>4
  <2>6. \/ Wished' + Earned' < Wished + Earned
        \/ Wished' + Earned' = Wished + Earned
    BY <1>2, <2>3, <2>5
  <2>. QED BY <1>3, <2>1, <2>3, <2>6
<1>5. ASSUME NEW limit \in BOOLEAN, pc = "deliveries", EndPass(limit),
             limit => claimed > 0, UNCHANGED <<events, deliveries>>
      PROVE  Spends
  <2>1. CASE requested \/ full \/ limit
    <3>1. Wished + Earned >= 1
      BY <1>5, <2>1 DEF Wished, Earned
    <3>2. CASE pc' = "events" /\ requested' = FALSE /\ claimed' = 0 /\ full' = FALSE
      BY <1>2, <1>3, <1>5, <3>1, <3>2 DEF Wished, Earned
    <3>3. CASE pc' = "done" /\ requested' = TRUE
      <4>1. Wished' = 1 /\ Earned' = 0 /\ Place' < Place
        BY <1>5, <3>3 DEF Wished, Earned, Place
      <4>. QED BY <1>2, <1>3, <1>5, <3>1, <4>1
    <3>. QED BY <1>5, <2>1, <3>2, <3>3 DEF EndPass, Again, BeginPass, TypeOK, FlagsOK
  <2>2. CASE ~(requested \/ full \/ limit)
    <3>1. pc' = "done" /\ requested' = FALSE
      BY <1>5, <2>2 DEF EndPass, Again, TypeOK, FlagsOK
    <3>2. Wished' = 0 /\ Earned' = 0 /\ Place' < Place
      BY <1>5, <3>1 DEF Wished, Earned, Place
    <3>. QED BY <1>2, <1>3, <1>5, <3>2
  <2>. QED BY <2>1, <2>2
<1>6. CASE EndDeliveries
  <2>1. Limit(claimed) \in BOOLEAN /\ (Limit(claimed) => claimed > 0)
    BY ConstantsAssumption DEF Limit
  <2>. QED BY <1>5, <1>6, <2>1 DEF EndDeliveries, queue
<1>7. CASE ScanFails
  <2>1. UNCHANGED <<events, deliveries>>
    BY <1>7 DEF ScanFails, queue
  <2>2. CASE pc = "events"
    <3>1. pc' = "deliveries" /\ claimed' = 0 /\ full' = FALSE /\ requested' = requested
      BY <1>7, <2>2 DEF ScanFails
    <3>2. Wished' = Wished /\ Earned' = 0 /\ Place' < Place
      BY <2>2, <3>1 DEF Wished, Earned, Place
    <3>. QED BY <1>2, <1>3, <2>1, <3>2
  <2>3. CASE pc = "deliveries" /\ EndPass(FALSE)
    BY <1>5, <2>1, <2>3
  <2>. QED BY <1>7, <2>2, <2>3 DEF ScanFails
<1>8. CASE Settle
  <2>1. UNCHANGED <<events, deliveries>> /\ pc = "done"
    BY <1>8 DEF Settle, queue
  <2>2. CASE Recalled
    <3>1. pc' = "events" /\ requested' = FALSE /\ claimed' = 0 /\ full' = FALSE /\ requested
      BY <1>8, <2>2 DEF Settle, Recalled, BeginPass
    <3>2. Wished' = 0 /\ Earned' = 0 /\ Wished = 1
      BY <3>1 DEF Wished, Earned
    <3>. QED BY <1>2, <1>3, <2>1, <3>2
  <2>3. CASE ~Recalled
    <3>1. pc' = "none" /\ requested' = requested
      BY <1>8, <2>3 DEF Settle
    <3>2. Wished' = Wished /\ Earned' = 0 /\ Place' < Place
      BY <2>1, <3>1 DEF Wished, Earned, Place
    <3>. QED BY <1>2, <1>3, <2>1, <3>2
  <2>. QED BY <2>2, <2>3
<1>. QED BY <1>1, <1>4, <1>6, <1>7, <1>8 DEF Loop

\* Each step of the loop, a scan that rejects included, spends some of an effort that
\* only new rows and new requests add to: a pass that is asked for by a full batch has
\* taken rows, and one asked for by a request has used it up. What DrainReturns needs
\* besides is that queries and sends return or reject.
THEOREM LoopWindsDown == Spec => [][Loop \/ ScanFails => Due \in Nat /\ Spends]_vars
<1>1. IInv /\ [Next]_vars => [Loop \/ ScanFails => Due \in Nat /\ Spends]_vars
  BY LoopSpends DEF IInv, TypeOK, CountsOK, Due
<1>. QED BY <1>1, Invariance, PTL DEF Spec
=============================================================================
