------------------------- MODULE DispatchGateProofs -------------------------
(***************************************************************************)
(* The gate keeps what overlap = "skip" promises, for any number of        *)
(* activations and occurrences.  OneOpenRun speaks of workflow runs, the   *)
(* guard of the gate of occurrences, so the induction relates the two: a   *)
(* run is open only while its occurrence is.                               *)
(***************************************************************************)
EXTENDS DispatchGate, TLAPS

-----------------------------------------------------------------------------
(* The inductive invariant *)

TypeOK ==
  /\ phase \in [Occurrences -> {"absent", "waiting", "open", "closed"}]
  /\ run \in [Occurrences -> {"none", "open", "ended"}]

RunWithinPhase == \A o \in Occurrences : run[o] = "open" => phase[o] = "open"

OneOpenPhase ==
  Skip => \A o, p \in Occurrences : phase[o] = "open" /\ phase[p] = "open" => o = p

IInv == TypeOK /\ RunWithinPhase /\ OneOpenPhase

-----------------------------------------------------------------------------

LEMMA InitIInv == Init => IInv
  BY DEF Init, IInv, TypeOK, RunWithinPhase, OneOpenPhase

LEMMA StepIInv == IInv /\ [Next]_vars => IInv'
<1>. SUFFICES ASSUME IInv, [Next]_vars PROVE IInv'
  OBVIOUS
<1>. USE DEF IInv, TypeOK, RunWithinPhase, OneOpenPhase
<1>1. CASE Switch
  BY <1>1 DEF Switch
<1>2. ASSUME NEW S \in SUBSET Occurrences, Record(S) PROVE IInv'
  BY <1>2 DEF Record
<1>3. ASSUME NEW o \in Occurrences, Reject(o) PROVE IInv'
  BY <1>3 DEF Reject, Move
<1>4. ASSUME NEW o \in Occurrences, Open(o) PROVE IInv'
  BY <1>4 DEF Open, Move
<1>5. ASSUME NEW o \in Occurrences, Launch(o) PROVE IInv'
  BY <1>5 DEF Launch
<1>6. ASSUME NEW o \in Occurrences, RunEnds(o) PROVE IInv'
  BY <1>6 DEF RunEnds
<1>7. ASSUME NEW o \in Occurrences, Close(o) PROVE IInv'
  BY <1>7 DEF Close, Move
<1>8. CASE UNCHANGED vars
  BY <1>8 DEF vars
<1>. QED
  BY <1>1, <1>2, <1>3, <1>4, <1>5, <1>6, <1>7, <1>8 DEF Next

-----------------------------------------------------------------------------

\* A plan with overlap = "skip" never has two open workflow runs: whatever
\* implements the gate launches a run only for the one occurrence that is open.
THEOREM OneRunAtATime == Spec => []OneOpenRun
<1>1. IInv => OneOpenRun
  BY DEF IInv, RunWithinPhase, OneOpenPhase, OneOpenRun
<1>. QED BY InitIInv, StepIInv, <1>1, PTL DEF Spec
=============================================================================
