-------------------------- MODULE LocalBatchProofs --------------------------
(***************************************************************************)
(* What the journals of media plans and the reports of a batch are worth,  *)
(* for any plans, files, executors, failing calls, killed processes and    *)
(* files taken away.                                                       *)
(*                                                                         *)
(* The lock file makes an executor the only one at work on its plan, so    *)
(* that what it has seen stays so, except for files that another hand      *)
(* takes away. Every file of the plan is then where the set of moved files *)
(* says, and the line it appends is true of all of them.                   *)
(*                                                                         *)
(* From this follow the truth of the journals and reports, that executors  *)
(* implement SealedPlan step by step (the invariant Course and the lemmas  *)
(* after it), and that the loops of a batch and of its executors end.      *)
(***************************************************************************)
EXTENDS LocalBatch, TLAPS

-----------------------------------------------------------------------------
(* The inductive invariant *)

ExecutionType ==
  /\ place \in [Files -> {"source", "target", "astray"}]
  /\ oldShown \subseteq Replaced
  /\ serving \in BOOLEAN
  /\ last \in [Plans -> {"none", "prepared", "committed", "rolling-back", "rolled-back",
                         "rollback-failed"}]
  /\ way \in [Plans -> Directions]
  /\ spent \in [Plans -> SUBSET Directions]
  /\ locked \subseteq Plans
  /\ pc \in [Executors -> {"idle", "acquire", "exit"} \cup Inside]
  /\ plan \in [Executors -> Plans \cup {NoPlan}]
  /\ dir \in [Executors -> Directions]
  /\ moved \in [Executors -> SUBSET Files]
  /\ outcome \in [Executors -> {"failed", "committed"}]
  /\ faults \in Nat

\* A process at work has a plan; inside, it owns the plan's lock file.
Owning(e) ==
  /\ pc[e] \notin {"idle", "exit"} => plan[e] \in Plans
  /\ pc[e] \in Inside => plan[e] \in locked

Alone ==
  \A a, b \in Executors :
    pc[a] \in Inside /\ pc[b] \in Inside /\ plan[a] = plan[b] => a = b

\* What it does has not been done.
Fresh(e) == pc[e] \in {"prepare", "move"} => dir[e] \notin spent[plan[e]]

\* The files it has moved are at one end, the others at the other.
Placed(e) ==
  pc[e] \in Changing =>
    /\ moved[e] \subseteq FilesOf(plan[e])
    /\ \A f \in moved[e] : place[f] \in {To(dir[e]), "astray"}
    /\ \A f \in Left(e) : place[f] \in {From(dir[e]), "astray"}

\* A restoration ends an inverse, or the undoing of a forward.
Concluding(e) == pc[e] \in {"verify", "commit"} \/ (pc[e] = "restore" /\ dir[e] = "inverse")
Retreating(e) == pc[e] = "undone" \/ (pc[e] = "restore" /\ dir[e] = "forward")

Extent(e) ==
  /\ pc[e] \in {"acquire", "preflight", "prepare"} => moved[e] = {}
  /\ Concluding(e) => moved[e] = FilesOf(plan[e])
  /\ Retreating(e) => moved[e] = {}

Linked(e) ==
  /\ pc[e] = "commit" /\ dir[e] = "inverse" => Shown(plan[e])
  /\ pc[e] = "undone" /\ dir[e] = "forward" => Shown(plan[e])

\* Files move under a line that promises nothing.
Line(e) ==
  /\ pc[e] = "move" \/ Concluding(e) => last[plan[e]] = "prepared"
  /\ pc[e] \in {"undo", "broken"} \/ Retreating(e) => last[plan[e]] = "rolling-back"

\* Nothing is undone, and an undoing does not fail, without a reason.
Excused(p, d) ==
  \/ faults > 1 \/ p \in Cached
  \/ \E f \in FilesOf(p) : place[f] = "astray"
  \/ d = "inverse" /\ Replacing(p) \cap oldShown # {}

Reason(e) ==
  /\ pc[e] \in {"abort", "undo"} \/ Retreating(e) => faults >= 1
  /\ pc[e] = "broken" => Excused(plan[e], dir[e])

ExecutorInv(e) ==
  Owning(e) /\ Fresh(e) /\ Placed(e) /\ Extent(e) /\ Linked(e) /\ Line(e) /\ Reason(e)

\* The conjuncts of Honest for one plan.
Truthful(p) ==
  /\ last[p] = "none" => Whole(p, "source") /\ Shown(p)
  /\ last[p] = "committed" => Whole(p, To(way[p])) /\ (way[p] = "inverse" => Shown(p))
  /\ last[p] = "rolled-back" => Whole(p, From(way[p])) /\ (way[p] = "forward" => Shown(p))
  /\ last[p] = "rollback-failed" => Excused(p, way[p])

Missing == \A f \in Files : place[f] = "astray" => faults >= 1

DiskInv == OneVideoPerPath /\ Missing

IInv ==
  /\ ExecutionType
  /\ Alone
  /\ DiskInv
  /\ \A e \in Executors : ExecutorInv(e)
  /\ \A p \in Plans : Truthful(p)

-----------------------------------------------------------------------------
(* What a step may do to a plan that it is not about *)

\* Its journal, lock file and older videos stay, and so do its files unless
\* somebody takes them away.
Same(p) ==
  /\ last'[p] = last[p] /\ way'[p] = way[p] /\ spent'[p] = spent[p]
  /\ p \in locked' <=> p \in locked
  /\ \A f \in FilesOf(p) : place'[f] \in {place[f], "astray"}
  /\ \A f \in FilesOf(p) : f \in oldShown' <=> f \in oldShown

Stays(e) ==
  /\ pc'[e] = pc[e] /\ plan'[e] = plan[e] /\ dir'[e] = dir[e] /\ moved'[e] = moved[e]
  /\ outcome'[e] = outcome[e]

LEMMA TruthKept ==
  ASSUME NEW p \in Plans, Truthful(p), Same(p), faults \in Nat, faults' \in Nat,
         faults' >= faults
  PROVE  Truthful(p)'
<1>1. Whole(p, "source") => Whole(p, "source")'
  BY DEF Same, Whole
<1>2. Whole(p, "target") => Whole(p, "target")'
  BY DEF Same, Whole
<1>3. Shown(p) => Shown(p)'
  BY DEF Same, Shown, Replacing, FilesOf
<1>4. ASSUME NEW d, Excused(p, d) PROVE Excused(p, d)'
  <2>1. faults > 1 => faults' > 1
    OBVIOUS
  <2>2. \A f \in FilesOf(p) : place[f] = "astray" => place'[f] = "astray"
    BY DEF Same
  <2>3. Replacing(p) \cap oldShown # {} => Replacing(p) \cap oldShown' # {}
    BY DEF Same, Replacing
  <2>. QED BY <1>4, <2>1, <2>2, <2>3 DEF Excused, FilesOf, Replacing
<1>5. Excused(p, way[p]) => Excused(p, way[p])'
  BY <1>4 DEF Same, Excused, FilesOf, Replacing
<1>. QED BY <1>1, <1>2, <1>3, <1>5 DEF Truthful, Same, To, From

LEMMA ExecutorKept ==
  ASSUME IInv, NEW e \in Executors, Stays(e), pc[e] \notin {"idle", "exit"} => Same(plan[e]),
         faults' \in Nat, faults' >= faults
  PROVE  ExecutorInv(e)'
<1>. DEFINE p == plan[e]
<1>1. ExecutorInv(e)
  BY DEF IInv
<1>2. CASE pc[e] \in {"idle", "exit"}
  BY <1>1, <1>2 DEF ExecutorInv, Stays, Owning, Fresh, Placed, Extent, Linked, Line, Reason,
     Concluding, Retreating, Inside, Changing
<1>3. CASE pc[e] \notin {"idle", "exit"}
  <2>1. p \in Plans /\ Same(p) /\ plan'[e] = p
    BY <1>1, <1>3 DEF ExecutorInv, Owning, Stays
  <2>2. Owning(e)' /\ Fresh(e)'
    BY <1>1, <2>1 DEF ExecutorInv, Owning, Fresh, Stays, Same
  <2>3. Placed(e)' /\ Extent(e)'
    <3>1. Left(e)' = Left(e)
      BY <2>1 DEF Left, Stays
    <3>. QED BY <1>1, <2>1, <3>1 DEF ExecutorInv, Placed, Extent, Concluding, Retreating, Stays,
               Same, FilesOf, Left
  <2>4. Linked(e)'
    BY <1>1, <2>1 DEF ExecutorInv, Linked, Stays, Same, Shown, Replacing, FilesOf
  <2>5. Line(e)'
    BY <1>1, <2>1 DEF ExecutorInv, Line, Concluding, Retreating, Stays, Same
  <2>6. Reason(e)'
    <3>1. Excused(p, dir[e]) => Excused(p, dir[e])'
      <4>1. faults > 1 => faults' > 1
        BY DEF IInv, ExecutionType
      <4>2. Replacing(p) \cap oldShown # {} => Replacing(p) \cap oldShown' # {}
        BY <2>1 DEF Same, Replacing
      <4>. QED BY <2>1, <4>1, <4>2 DEF Excused, Same, FilesOf, Replacing, Stays
    <3>2. Excused(p, dir[e])' <=> Excused(plan[e], dir[e])'
      OBVIOUS
    <3>3. faults >= 1 => faults' >= 1
      BY DEF IInv, ExecutionType
    <3>. QED BY <1>1, <2>1, <3>1, <3>2, <3>3 DEF ExecutorInv, Reason, Retreating, Stays
  <2>. QED BY <2>2, <2>3, <2>4, <2>5, <2>6 DEF ExecutorInv
<1>. QED BY <1>2, <1>3

-----------------------------------------------------------------------------
(* The steps of an executor *)

\* It changes nothing of other plans and executors, and works on its own.
Acts(e) ==
  /\ \A a \in Executors \ {e} : Stays(a)
  /\ \A p \in Plans \ {plan[e]} : Same(p)
  /\ plan'[e] = plan[e] /\ dir'[e] = dir[e]
  /\ pc'[e] \in Inside => (pc[e] \in Inside \/ plan[e] \notin locked)
  /\ pc[e] \notin Inside /\ plan[e] \in locked => Same(plan[e])
  /\ faults' \in {faults, faults + 1}

Sound(e) ==
  ExecutionType' /\ Acts(e) /\ DiskInv' /\ ExecutorInv(e)' /\ Truthful(plan[e])'

LEMMA At ==
  ASSUME IInv, NEW e \in Executors, pc[e] \notin {"idle", "exit"}
  PROVE  /\ plan[e] \in Plans /\ dir[e] \in Directions /\ moved[e] \subseteq Files
         /\ ExecutorInv(e) /\ Truthful(plan[e]) /\ DiskInv /\ ExecutionType
  BY DEF IInv, ExecutionType, ExecutorInv, Owning

\* An executor that leaves files, older videos and journal alone.
Still == UNCHANGED <<disk, journal>>

LEMMA StillSound ==
  ASSUME IInv, NEW e \in Executors, pc[e] \notin {"idle", "exit"}, Still,
         UNCHANGED <<serving, mind>>,
         outcome' \in [Executors -> {"failed", "committed"}],
         pc' \in [Executors -> {"idle", "acquire", "exit"} \cup Inside],
         \A a \in Executors \ {e} : Stays(a),
         locked' \subseteq Plans,
         \A p \in Plans \ {plan[e]} : p \in locked' <=> p \in locked,
         pc[e] \notin Inside => locked \subseteq locked',
         faults' \in {faults, faults + 1},
         pc'[e] \in Inside => (/\ plan[e] \in locked'
                                /\ (pc[e] \in Inside \/ plan[e] \notin locked))
  PROVE  /\ ExecutionType' /\ Acts(e) /\ DiskInv' /\ Truthful(plan[e])' /\ Owning(e)'
         /\ faults' >= faults
<1>. USE DEF Still, disk, journal, mind
<1>1. faults \in Nat /\ faults' \in Nat /\ faults' >= faults
  BY DEF IInv, ExecutionType
<1>2. ExecutionType'
  BY <1>1 DEF IInv, ExecutionType
<1>3. Acts(e)
  BY DEF Acts, Same
<1>4. DiskInv'
  <2>1. faults >= 1 => faults' >= 1
    BY <1>1
  <2>. QED BY <2>1 DEF IInv, DiskInv, OneVideoPerPath, Missing
<1>5. Truthful(plan[e])'
  <2>1. Truthful(plan[e]) /\ plan'[e] = plan[e]
    BY At
  <2>2. \A d : Excused(plan[e], d) => Excused(plan[e], d)'
    BY <1>1 DEF Excused, FilesOf, Replacing
  <2>. QED BY <2>1, <2>2 DEF Truthful, Whole, Shown, FilesOf, Replacing, To, From
<1>6. Owning(e)'
  <2>1. plan[e] \in Plans
    BY At
  <2>. QED BY <2>1 DEF Owning
<1>. QED BY <1>1, <1>2, <1>3, <1>4, <1>5, <1>6

LEMMA AcquireSound ==
  ASSUME IInv, NEW e \in Executors, Acquire(e) PROVE Sound(e)
<1>. USE DEF Acquire, Goto, Fault
<1>1. pc[e] = "acquire" /\ plan[e] \in Plans /\ ExecutorInv(e) /\ ExecutionType
  BY At
<1>2. /\ ExecutionType' /\ Acts(e) /\ DiskInv' /\ Truthful(plan[e])' /\ Owning(e)'
      /\ faults' >= faults
  <2>1. pc' \in [Executors -> {"idle", "acquire", "exit"} \cup Inside]
    BY <1>1 DEF ExecutionType, Inside
  <2>2. Still /\ \A a \in Executors \ {e} : Stays(a)
    BY <1>1 DEF Still, disk, journal, mind, Stays, ExecutionType
  <2>3. /\ locked' \subseteq Plans /\ plan[e] \in locked'
        /\ \A p \in Plans \ {plan[e]} : p \in locked' <=> p \in locked
        /\ outcome' \in [Executors -> {"failed", "committed"}]
        /\ faults' \in {faults, faults + 1}
    BY <1>1 DEF ExecutionType
  <2>4. pc'[e] \in Inside => plan[e] \notin locked
    BY <1>1 DEF ExecutionType, Inside, Changing
  <2>. QED BY <1>1, <2>1, <2>2, <2>3, <2>4, StillSound
<1>3. pc'[e] \in {"preflight", "exit"} /\ moved'[e] = moved[e]
  BY <1>1 DEF mind, ExecutionType
<1>4. ExecutorInv(e)'
  BY <1>1, <1>2, <1>3 DEF ExecutorInv, Fresh, Placed, Extent, Linked, Line, Reason, Concluding,
     Retreating, Changing
<1>. QED BY <1>2, <1>4 DEF Sound

LEMMA PreflightSound ==
  ASSUME IInv, NEW e \in Executors, Preflight(e) PROVE Sound(e)
<1>. USE DEF Preflight, Goto, Fault
<1>1. /\ pc[e] = "preflight" /\ plan[e] \in Plans /\ ExecutorInv(e) /\ ExecutionType
      /\ plan[e] \in locked
  <2>1. pc[e] = "preflight"
    OBVIOUS
  <2>. QED BY <2>1, At DEF ExecutorInv, Owning, Inside
<1>2. /\ ExecutionType' /\ Acts(e) /\ DiskInv' /\ Truthful(plan[e])' /\ Owning(e)'
      /\ faults' >= faults
  BY <1>1, StillSound DEF Still, disk, journal, mind, Stays, ExecutionType, Inside, Changing
<1>3. moved[e] = {} /\ moved' = moved
  BY <1>1 DEF ExecutorInv, Extent, mind
<1>4. CASE pc'[e] = "prepare"
  <2>1. dir[e] \notin spent[plan[e]] /\ Ready(plan[e], dir[e])
    BY <1>1, <1>4 DEF ExecutionType
  <2>2. Fresh(e)'
    BY <2>1 DEF Fresh, mind, journal
  <2>3. Placed(e)'
    BY <1>3, <2>1 DEF Placed, Left, Ready, mind, disk, FilesOf
  <2>. QED BY <1>2, <1>3, <1>4, <2>2, <2>3 DEF Sound, ExecutorInv, Extent, Linked, Line, Reason,
           Concluding, Retreating
<1>5. CASE pc'[e] = "release"
  BY <1>2, <1>3, <1>5 DEF Sound, ExecutorInv, Fresh, Placed, Extent, Linked, Line, Reason,
     Concluding, Retreating, Changing
<1>. QED BY <1>1, <1>4, <1>5 DEF ExecutionType

LEMMA ReleaseSound ==
  ASSUME IInv, NEW e \in Executors, Release(e) PROVE Sound(e)
<1>. USE DEF Release, Goto, Fault
<1>1. /\ pc[e] = "release" /\ plan[e] \in Plans /\ ExecutorInv(e) /\ ExecutionType
  BY At
<1>2. pc'[e] = "exit"
  BY <1>1 DEF ExecutionType
<1>3. /\ ExecutionType' /\ Acts(e) /\ DiskInv' /\ Truthful(plan[e])' /\ Owning(e)'
      /\ faults' >= faults
  BY <1>1, <1>2, StillSound DEF Still, disk, journal, mind, Stays, ExecutionType, Inside, Changing
<1>. QED BY <1>2, <1>3 DEF Sound, ExecutorInv, Fresh, Placed, Extent, Linked, Line, Reason,
         Concluding, Retreating, Changing

-----------------------------------------------------------------------------
(* The lines of the journal *)

Lines == {"prepared", "committed", "rolling-back", "rolled-back", "rollback-failed"}

LEMMA AppendFrame ==
  ASSUME IInv, NEW e \in Executors, pc[e] \in Inside,
         NEW s \in Lines, NEW next \in Inside, NEW otherwise \in Inside,
         Append(e, s, next, otherwise),
         outcome' \in [Executors -> {"failed", "committed"}],
         \A a \in Executors \ {e} : outcome'[a] = outcome[a]
  PROVE  /\ ExecutionType' /\ Acts(e) /\ DiskInv' /\ Owning(e)'
         /\ UNCHANGED <<place, oldShown, locked, plan, dir, moved>>
         /\ faults \in Nat /\ faults' >= faults
         /\ \/ pc'[e] = next
            \/ pc'[e] = otherwise /\ faults' >= 1
         /\ \/ UNCHANGED journal /\ pc'[e] = otherwise
            \/ last'[plan[e]] = s /\ way'[plan[e]] = dir[e]
<1>. USE DEF Append, Write, Goto, Fault
<1>1. /\ plan[e] \in Plans /\ dir[e] \in Directions /\ plan[e] \in locked /\ ExecutionType
      /\ DiskInv
  <2>1. pc[e] \notin {"idle", "exit"}
    BY DEF Inside, Changing
  <2>. QED BY <2>1, At DEF ExecutorInv, Owning
<1>2. /\ UNCHANGED <<place, oldShown, serving, locked, plan, dir, moved>>
      /\ faults \in Nat /\ faults' \in {faults, faults + 1}
  BY <1>1 DEF disk, mind, ExecutionType
<1>3. faults' \in Nat /\ faults' >= faults
  BY <1>2
<1>4. /\ pc' \in [Executors -> {"idle", "acquire", "exit"} \cup Inside]
      /\ pc'[e] \in {next, otherwise}
      /\ \A a \in Executors \ {e} : pc'[a] = pc[a]
  BY <1>1 DEF ExecutionType
<1>5. /\ last' \in [Plans -> {"none", "prepared", "committed", "rolling-back", "rolled-back",
                              "rollback-failed"}]
      /\ way' \in [Plans -> Directions]
      /\ \A p \in Plans \ {plan[e]} : last'[p] = last[p] /\ way'[p] = way[p]
  BY <1>1 DEF ExecutionType, journal, Lines
<1>6. /\ spent' \in [Plans -> SUBSET Directions]
      /\ \A p \in Plans \ {plan[e]} : spent'[p] = spent[p]
  BY <1>1 DEF ExecutionType, journal
<1>7. ExecutionType'
  BY <1>1, <1>2, <1>3, <1>4, <1>5, <1>6 DEF ExecutionType
<1>8. Acts(e)
  BY <1>2, <1>4, <1>5, <1>6 DEF Acts, Same, Stays
<1>9. DiskInv'
  <2>1. faults >= 1 => faults' >= 1
    BY <1>2, <1>3
  <2>. QED BY <1>1, <1>2, <2>1 DEF DiskInv, OneVideoPerPath, Missing
<1>10. Owning(e)'
  BY <1>1, <1>2 DEF Owning
<1>11. pc'[e] = next \/ (pc'[e] = otherwise /\ faults' >= 1)
  <2>1. faults' = faults + 1 => faults' >= 1
    BY <1>2
  <2>. QED BY <1>1, <2>1 DEF ExecutionType
<1>12. \/ UNCHANGED journal /\ pc'[e] = otherwise
       \/ last'[plan[e]] = s /\ way'[plan[e]] = dir[e]
  BY <1>1 DEF ExecutionType
<1>. QED BY <1>2, <1>3, <1>7, <1>8, <1>9, <1>10, <1>11, <1>12

\* When nothing but the journal of a plan changes, what is true of it stays so
\* unless a line is appended.
LEMMA TruthUnwritten ==
  ASSUME IInv, NEW e \in Executors, plan[e] \in Plans, UNCHANGED journal,
         UNCHANGED <<place, oldShown, locked, plan>>,
         faults \in Nat, faults' \in Nat, faults' >= faults
  PROVE  Truthful(plan[e])'
<1>. DEFINE p == plan[e]
<1>1. Same(p) /\ Truthful(p)
  BY DEF Same, journal, IInv
<1>2. \A q \in Plans : Truthful(q) /\ Same(q) => Truthful(q)'
  BY TruthKept
<1>3. PICK q \in Plans : q = plan[e] /\ Truthful(q)'
  BY <1>1, <1>2
<1>. QED BY <1>3 DEF Truthful, Whole, Shown, Excused, FilesOf, Replacing

LEMMA PrepareSound ==
  ASSUME IInv, NEW e \in Executors, Prepare(e) PROVE Sound(e)
<1>1. /\ pc[e] = "prepare" /\ Append(e, "prepared", "move", "release") /\ outcome' = outcome
  BY DEF Prepare
<1>2. plan[e] \in Plans /\ ExecutorInv(e) /\ ExecutionType
  BY <1>1, At
<1>3. /\ pc[e] \in Inside /\ "prepared" \in Lines /\ "move" \in Inside /\ "release" \in Inside
  BY <1>1 DEF Inside, Changing, Lines
<1>4. /\ ExecutionType' /\ Acts(e) /\ DiskInv' /\ Owning(e)'
      /\ UNCHANGED <<place, oldShown, locked, plan, dir, moved>>
      /\ faults \in Nat /\ faults' >= faults
      /\ pc'[e] = "move" \/ pc'[e] = "release"
      /\ \/ UNCHANGED journal /\ pc'[e] = "release"
         \/ last'[plan[e]] = "prepared"
  BY <1>1, <1>2, <1>3, AppendFrame DEF ExecutionType
<1>5. Truthful(plan[e])'
  <2>1. CASE UNCHANGED journal
    BY <1>2, <1>4, <2>1, TruthUnwritten DEF ExecutionType
  <2>2. CASE last'[plan[e]] = "prepared"
    BY <1>4, <2>2 DEF Truthful
  <2>. QED BY <1>4, <2>1, <2>2
<1>6. Fresh(e)'
  <2>1. dir[e] \notin spent[plan[e]]
    BY <1>1, <1>2 DEF ExecutorInv, Fresh
  <2>2. spent'[plan[e]] = spent[plan[e]]
    BY <1>1, <1>2 DEF Append, Write, journal, ExecutionType
  <2>. QED BY <1>4, <2>1, <2>2 DEF Fresh
<1>7. Placed(e)'
  BY <1>1, <1>2, <1>4 DEF ExecutorInv, Placed, Left, FilesOf, Changing
<1>8. Extent(e)' /\ Linked(e)' /\ Line(e)' /\ Reason(e)'
  BY <1>4 DEF Extent, Linked, Line, Reason, Concluding, Retreating
<1>. QED BY <1>4, <1>5, <1>6, <1>7, <1>8 DEF Sound, ExecutorInv

LEMMA CommitSound ==
  ASSUME IInv, NEW e \in Executors, Commit(e) PROVE Sound(e)
<1>1. pc[e] = "commit" /\ Append(e, "committed", "release", "abort")
  BY DEF Commit
<1>2. plan[e] \in Plans /\ dir[e] \in Directions /\ ExecutorInv(e) /\ ExecutionType
  BY <1>1, At
<1>3. /\ pc[e] \in Inside /\ "committed" \in Lines /\ "abort" \in Inside /\ "release" \in Inside
      /\ outcome' \in [Executors -> {"failed", "committed"}]
      /\ \A a \in Executors \ {e} : outcome'[a] = outcome[a]
  BY <1>1, <1>2 DEF Inside, Changing, Lines, Commit, ExecutionType
<1>4. /\ ExecutionType' /\ Acts(e) /\ DiskInv' /\ Owning(e)'
      /\ UNCHANGED <<place, oldShown, locked, plan, dir, moved>>
      /\ faults \in Nat /\ faults' >= faults
      /\ pc'[e] = "release" \/ (pc'[e] = "abort" /\ faults' >= 1)
      /\ \/ UNCHANGED journal
         \/ last'[plan[e]] = "committed" /\ way'[plan[e]] = dir[e]
  BY <1>1, <1>2, <1>3, AppendFrame
<1>5. /\ moved[e] = FilesOf(plan[e])
      /\ \A f \in FilesOf(plan[e]) : place[f] \in {To(dir[e]), "astray"}
      /\ dir[e] = "inverse" => Shown(plan[e])
  BY <1>1, <1>2 DEF ExecutorInv, Extent, Concluding, Placed, Changing, Linked
<1>6. Truthful(plan[e])'
  <2>1. CASE UNCHANGED journal
    BY <1>2, <1>4, <2>1, TruthUnwritten DEF ExecutionType
  <2>2. CASE last'[plan[e]] = "committed" /\ way'[plan[e]] = dir[e]
    BY <1>4, <1>5, <2>2 DEF Truthful, Whole, Shown, FilesOf, Replacing
  <2>. QED BY <1>4, <2>1, <2>2
<1>7. Placed(e)'
  BY <1>1, <1>2, <1>4 DEF ExecutorInv, Placed, Left, FilesOf, Changing
<1>8. Fresh(e)' /\ Extent(e)' /\ Linked(e)' /\ Line(e)' /\ Reason(e)'
  BY <1>4 DEF Fresh, Extent, Linked, Line, Reason, Concluding, Retreating
<1>. QED BY <1>4, <1>6, <1>7, <1>8 DEF Sound, ExecutorInv

LEMMA AbortSound ==
  ASSUME IInv, NEW e \in Executors, Abort(e) PROVE Sound(e)
<1>. DEFINE next == IF moved[e] = {} THEN AfterUndo(e) ELSE "undo"
<1>1. pc[e] = "abort" /\ Append(e, "rolling-back", next, "release") /\ outcome' = outcome
  BY DEF Abort
<1>2. plan[e] \in Plans /\ dir[e] \in Directions /\ ExecutorInv(e) /\ ExecutionType
  BY <1>1, At
<1>3. /\ next = "undo" \/ (moved[e] = {} /\ next \in {"restore", "undone"})
      /\ next = "restore" => dir[e] = "forward"
      /\ next = "undone" /\ dir[e] = "forward" => Replacing(plan[e]) = {}
  BY DEF AfterUndo
<1>. HIDE DEF next
<1>4. /\ pc[e] \in Inside /\ "rolling-back" \in Lines /\ next \in Inside /\ "release" \in Inside
  BY <1>1, <1>3 DEF Inside, Changing, Lines
<1>5. /\ ExecutionType' /\ Acts(e) /\ DiskInv' /\ Owning(e)'
      /\ UNCHANGED <<place, oldShown, locked, plan, dir, moved>>
      /\ faults \in Nat /\ faults' >= faults
      /\ pc'[e] = next \/ pc'[e] = "release"
      /\ \/ UNCHANGED journal /\ pc'[e] = "release"
         \/ last'[plan[e]] = "rolling-back"
  BY <1>1, <1>2, <1>4, AppendFrame DEF ExecutionType
<1>6. Truthful(plan[e])'
  <2>1. CASE UNCHANGED journal
    BY <1>2, <1>5, <2>1, TruthUnwritten DEF ExecutionType
  <2>2. CASE last'[plan[e]] = "rolling-back"
    BY <1>5, <2>2 DEF Truthful
  <2>. QED BY <1>5, <2>1, <2>2
<1>7. Placed(e)'
  BY <1>1, <1>2, <1>5 DEF ExecutorInv, Placed, Left, FilesOf, Changing
<1>8. Line(e)'
  BY <1>3, <1>5 DEF Line, Concluding, Retreating
<1>9. Reason(e)'
  <2>1. faults >= 1
    BY <1>1, <1>2 DEF ExecutorInv, Reason
  <2>2. faults' >= 1
    BY <1>2, <1>5, <2>1 DEF ExecutionType
  <2>. QED BY <1>3, <1>5, <2>2 DEF Reason
<1>10. Linked(e)'
  BY <1>3, <1>5 DEF Linked, Shown, Replacing, FilesOf
<1>11. Fresh(e)' /\ Extent(e)'
  BY <1>3, <1>5 DEF Fresh, Extent, Concluding, Retreating
<1>. QED BY <1>5, <1>6, <1>7, <1>8, <1>9, <1>10, <1>11 DEF Sound, ExecutorInv

\* The last two lines are followed by the release.
LEMMA LastLine ==
  ASSUME IInv, NEW e \in Executors, pc[e] \in Changing, NEW s \in Lines,
         Append(e, s, "release", "release"), outcome' = outcome,
         last'[plan[e]] = s /\ way'[plan[e]] = dir[e] => Truthful(plan[e])'
  PROVE  Sound(e)
<1>1. plan[e] \in Plans /\ ExecutorInv(e) /\ ExecutionType
  BY At DEF Changing
<1>2. pc[e] \in Inside /\ "release" \in Inside
  BY DEF Inside
<1>3. /\ ExecutionType' /\ Acts(e) /\ DiskInv' /\ Owning(e)'
      /\ UNCHANGED <<place, oldShown, locked, plan, dir, moved>>
      /\ faults \in Nat /\ faults' >= faults
      /\ pc'[e] = "release"
      /\ UNCHANGED journal \/ (last'[plan[e]] = s /\ way'[plan[e]] = dir[e])
  BY <1>1, <1>2, AppendFrame DEF ExecutionType
<1>4. Truthful(plan[e])'
  <2>1. CASE UNCHANGED journal
    BY <1>1, <1>3, <2>1, TruthUnwritten DEF ExecutionType
  <2>. QED BY <1>3, <2>1
<1>5. Fresh(e)' /\ Placed(e)' /\ Extent(e)' /\ Linked(e)' /\ Line(e)' /\ Reason(e)'
  BY <1>3 DEF Fresh, Placed, Extent, Linked, Line, Reason, Concluding, Retreating, Changing
<1>. QED BY <1>3, <1>4, <1>5 DEF Sound, ExecutorInv

LEMMA UndoneSound ==
  ASSUME IInv, NEW e \in Executors, Undone(e) PROVE Sound(e)
<1>1. /\ pc[e] = "undone" /\ Append(e, "rolled-back", "release", "release") /\ outcome' = outcome
  BY DEF Undone
<1>2. plan[e] \in Plans /\ ExecutorInv(e) /\ UNCHANGED <<place, oldShown, plan>>
  BY <1>1, At DEF Append, disk, mind
<1>3. /\ \A f \in FilesOf(plan[e]) : place[f] \in {From(dir[e]), "astray"}
      /\ dir[e] = "forward" => Shown(plan[e])
  BY <1>1, <1>2 DEF ExecutorInv, Extent, Retreating, Placed, Left, Changing, Linked
<1>4. ASSUME last'[plan[e]] = "rolled-back", way'[plan[e]] = dir[e] PROVE Truthful(plan[e])'
  BY <1>2, <1>3, <1>4 DEF Truthful, Whole, Shown, FilesOf, Replacing
<1>5. pc[e] \in Changing /\ "rolled-back" \in Lines
  BY <1>1 DEF Changing, Lines
<1>. QED BY <1>1, <1>4, <1>5, LastLine

LEMMA BrokenSound ==
  ASSUME IInv, NEW e \in Executors, Broken(e) PROVE Sound(e)
<1>1. /\ pc[e] = "broken" /\ Append(e, "rollback-failed", "release", "release")
      /\ outcome' = outcome
  BY DEF Broken
<1>2. plan[e] \in Plans /\ ExecutorInv(e) /\ UNCHANGED <<place, oldShown, plan>>
  BY <1>1, At DEF Append, disk, mind
<1>3. Excused(plan[e], dir[e])
  BY <1>1, <1>2 DEF ExecutorInv, Reason
<1>4. faults > 1 => faults' > 1
  BY <1>1 DEF Append, Fault, IInv, ExecutionType
<1>5. ASSUME last'[plan[e]] = "rollback-failed", way'[plan[e]] = dir[e]
      PROVE  Truthful(plan[e])'
  <2>1. Excused(plan[e], way[plan[e]])'
    BY <1>2, <1>3, <1>4, <1>5 DEF Excused, FilesOf, Replacing
  <2>. QED BY <1>2, <1>5, <2>1 DEF Truthful
<1>6. pc[e] \in Changing /\ "rollback-failed" \in Lines
  BY <1>1 DEF Changing, Lines
<1>. QED BY <1>1, <1>5, <1>6, LastLine

-----------------------------------------------------------------------------
(* The files *)

LEMMA FileFrame ==
  ASSUME IInv, NEW e \in Executors, pc[e] \in Changing,
         UNCHANGED <<serving, journal, locked, plan, dir, outcome>>,
         NEW l \in Inside, Goto(e, l),
         NEW M \in SUBSET Files, moved' = [moved EXCEPT ![e] = M],
         place' \in [Files -> {"source", "target", "astray"}],
         oldShown' \subseteq Replaced,
         \A f \in Files \ FilesOf(plan[e]) :
            place'[f] = place[f] /\ (f \in oldShown' <=> f \in oldShown),
         faults' \in {faults, faults + 1}
  PROVE  /\ ExecutionType' /\ Acts(e) /\ Owning(e)'
         /\ pc'[e] = l /\ moved'[e] = M /\ plan' = plan /\ dir' = dir /\ UNCHANGED journal
         /\ faults \in Nat /\ faults' >= faults
         /\ plan[e] \in Plans /\ dir[e] \in Directions /\ ExecutorInv(e) /\ DiskInv
<1>. USE DEF Goto
<1>1. /\ plan[e] \in Plans /\ dir[e] \in Directions /\ ExecutorInv(e) /\ ExecutionType
      /\ DiskInv
  BY At DEF Changing
<1>2. plan[e] \in locked /\ pc[e] \in Inside
  BY <1>1 DEF ExecutorInv, Owning, Inside
<1>3. faults \in Nat /\ faults' \in Nat /\ faults' >= faults
  BY <1>1 DEF ExecutionType
<1>4. pc'[e] = l /\ moved'[e] = M
  BY <1>1 DEF ExecutionType
<1>5. ExecutionType'
  <2>1. /\ pc' \in [Executors -> {"idle", "acquire", "exit"} \cup Inside]
        /\ moved' \in [Executors -> SUBSET Files]
    BY <1>1 DEF ExecutionType
  <2>. QED BY <1>1, <1>3, <2>1 DEF ExecutionType, journal
<1>6. Acts(e)
  <2>1. \A a \in Executors \ {e} : Stays(a)
    BY <1>1 DEF Stays, ExecutionType
  <2>2. \A q \in Plans \ {plan[e]} : FilesOf(q) \subseteq Files \ FilesOf(plan[e])
    BY DEF FilesOf
  <2>. QED BY <1>2, <2>1, <2>2 DEF Acts, Same, journal
<1>7. Owning(e)'
  BY <1>1, <1>2 DEF Owning
<1>. QED BY <1>1, <1>3, <1>4, <1>5, <1>6, <1>7

LEMMA VerifySound ==
  ASSUME IInv, NEW e \in Executors, Verify(e) PROVE Sound(e)
<1>. DEFINE arrived == \A f \in FilesOf(plan[e]) : place[f] = To(dir[e])
<1>1. /\ pc[e] = "verify" /\ UNCHANGED <<place, oldShown, serving, last, way, spent, locked,
                                        plan, dir, moved, outcome>>
      /\ \/ arrived /\ Goto(e, AfterMoves(e)) /\ faults' = faults
         \/ ~arrived /\ Goto(e, "abort") /\ faults' = faults
         \/ Goto(e, "abort") /\ faults' = faults + 1
  BY DEF Verify, disk, journal, mind, Fault
<1>2. /\ plan[e] \in Plans /\ dir[e] \in Directions /\ ExecutorInv(e) /\ ExecutionType
      /\ DiskInv /\ Truthful(plan[e])
  BY <1>1, At
<1>3. \E l \in {"restore", "commit", "abort"} : Goto(e, l)
  BY <1>1 DEF AfterMoves
<1>4. PICK l \in {"restore", "commit", "abort"} : Goto(e, l)
  BY <1>3
<1>5. pc[e] \in Changing /\ l \in Inside /\ moved' = [moved EXCEPT ![e] = moved[e]]
  BY <1>1, <1>2 DEF Changing, Inside, ExecutionType
<1>6. /\ ExecutionType' /\ Acts(e) /\ Owning(e)' /\ pc'[e] = l
      /\ faults \in Nat /\ faults' >= faults
  <2>1. UNCHANGED <<serving, journal, locked, plan, dir, outcome>>
    BY <1>1 DEF journal
  <2>2. /\ place' \in [Files -> {"source", "target", "astray"}] /\ oldShown' \subseteq Replaced
        /\ \A f \in Files \ FilesOf(plan[e]) :
             place'[f] = place[f] /\ (f \in oldShown' <=> f \in oldShown)
        /\ moved[e] \in SUBSET Files
    BY <1>1, <1>2 DEF ExecutionType
  <2>3. faults' \in {faults, faults + 1}
    BY <1>1
  <2>. QED BY <1>4, <1>5, <2>1, <2>2, <2>3, FileFrame
<1>7. /\ moved[e] = FilesOf(plan[e]) /\ last[plan[e]] = "prepared"
      /\ \A f \in FilesOf(plan[e]) : place[f] \in {To(dir[e]), "astray"}
  BY <1>1, <1>2 DEF ExecutorInv, Extent, Concluding, Placed, Changing, Line
<1>8. Truthful(plan[e])'
  BY <1>1, <1>7 DEF Truthful
<1>9. Placed(e)'
  BY <1>1, <1>7 DEF Placed, Left, FilesOf
<1>10. l = "restore" => dir[e] = "inverse"
  BY <1>1, <1>2, <1>4, <1>6 DEF AfterMoves, Goto, ExecutionType
<1>11. l = "commit" => (dir[e] = "inverse" => Replacing(plan[e]) = {})
  BY <1>1, <1>2, <1>4, <1>6 DEF AfterMoves, Goto, ExecutionType
<1>12. l = "abort" => faults' >= 1
  <2>1. ASSUME ~arrived PROVE faults >= 1
    <3>1. PICK f \in FilesOf(plan[e]) : place[f] # To(dir[e])
      BY <2>1
    <3>2. f \in Files /\ place[f] = "astray"
      BY <1>7, <3>1 DEF FilesOf
    <3>. QED BY <1>2, <3>2 DEF DiskInv, Missing
  <2>2. l = "abort" => ~arrived \/ faults' = faults + 1
    BY <1>1, <1>2, <1>6 DEF AfterMoves, Goto, ExecutionType
  <2>3. faults >= 1 /\ faults' >= faults => faults' >= 1
    BY <1>1, <1>6
  <2>4. faults' = faults + 1 => faults' >= 1
    BY <1>6
  <2>. QED BY <1>6, <2>1, <2>2, <2>3, <2>4
<1>13. DiskInv'
  <2>1. faults >= 1 => faults' >= 1
    BY <1>1, <1>6
  <2>. QED BY <1>1, <1>2, <2>1 DEF DiskInv, OneVideoPerPath, Missing
<1>14. Extent(e)' /\ Line(e)' /\ Fresh(e)' /\ Reason(e)'
  BY <1>1, <1>4, <1>6, <1>7, <1>10, <1>12 DEF Extent, Line, Fresh, Reason, Concluding,
     Retreating, FilesOf
<1>15. Linked(e)'
  BY <1>1, <1>4, <1>6, <1>11 DEF Linked, Shown, Replacing, FilesOf
<1>. QED BY <1>6, <1>8, <1>9, <1>13, <1>14, <1>15 DEF Sound, ExecutorInv

LEMMA MoveSound ==
  ASSUME IInv, NEW e \in Executors, NEW f \in Files, Move(e, f) PROVE Sound(e)
<1>. DEFINE p == plan[e]  d == dir[e]
<1>1. /\ pc[e] = "move" /\ f \in Left(e)
      /\ UNCHANGED <<serving, last, way, spent, locked, plan, dir, outcome>>
  BY DEF Move, journal
<1>2. /\ p \in Plans /\ d \in Directions /\ ExecutorInv(e) /\ ExecutionType /\ DiskInv
  BY <1>1, At
<1>3. /\ last[p] = "prepared" /\ d \notin spent[p] /\ moved[e] \subseteq FilesOf(p)
      /\ \A g \in moved[e] : place[g] \in {To(d), "astray"}
      /\ \A g \in FilesOf(p) \ moved[e] : place[g] \in {From(d), "astray"}
      /\ f \in FilesOf(p) \ moved[e] /\ FilesOf(p) \subseteq Files
      /\ pc[e] \in Changing
  BY <1>1, <1>2 DEF ExecutorInv, Line, Fresh, Placed, Changing, Left, FilesOf
<1>4. ASSUME NEW l \in {"verify", "move", "abort"}, Goto(e, l),
             place[f] = From(d), Put(f, d), moved' = [moved EXCEPT ![e] = @ \cup {f}],
             l = "verify" => Left(e) = {f},
             \/ l # "abort" /\ faults' = faults
             \/ faults' = faults + 1
      PROVE  Sound(e)
  <2>1. /\ place' \in [Files -> {"source", "target", "astray"}]
        /\ place'[f] = To(d) /\ \A g \in Files \ {f} : place'[g] = place[g]
        /\ oldShown' \subseteq oldShown /\ oldShown' \subseteq Replaced
        /\ \A g \in Files \ {f} : g \in oldShown' <=> g \in oldShown
        /\ d = "forward" => f \notin oldShown'
    BY <1>2, <1>4 DEF Put, To, ExecutionType
  <2>2. /\ moved' = [moved EXCEPT ![e] = moved[e] \cup {f}] /\ moved[e] \cup {f} \in SUBSET Files
        /\ l \in Inside
    BY <1>2, <1>4 DEF ExecutionType, Inside, Changing
  <2>3. /\ ExecutionType' /\ Acts(e) /\ Owning(e)' /\ pc'[e] = l
        /\ moved'[e] = moved[e] \cup {f}
        /\ faults \in Nat /\ faults' >= faults
    <3>1. UNCHANGED <<serving, journal, locked, plan, dir, outcome>>
      BY <1>1 DEF journal
    <3>2. \A g \in Files \ FilesOf(plan[e]) :
            place'[g] = place[g] /\ (g \in oldShown' <=> g \in oldShown)
      BY <1>3, <2>1
    <3>3. faults' \in {faults, faults + 1}
      BY <1>4
    <3>4. pc[e] \in Changing /\ Goto(e, l)
      BY <1>3, <1>4
    <3>5. place' \in [Files -> {"source", "target", "astray"}] /\ oldShown' \subseteq Replaced
      BY <2>1
    <3>. QED BY <2>2, <3>1, <3>2, <3>3, <3>4, <3>5, FileFrame
  <2>4. Truthful(plan[e])'
    BY <1>1, <1>3 DEF Truthful
  <2>5. DiskInv'
    <3>1. OneVideoPerPath'
      BY <1>2, <1>3, <2>1, ExecutionAssumption
         DEF DiskInv, OneVideoPerPath, To, Directions, ExecutionType
    <3>2. faults >= 1 => faults' >= 1
      BY <1>4, <2>3
    <3>3. Missing'
      BY <1>2, <2>1, <3>2 DEF DiskInv, Missing, To, Directions
    <3>. QED BY <3>1, <3>3 DEF DiskInv
  <2>6. Placed(e)'
    BY <1>1, <1>3, <2>1, <2>3 DEF Placed, Left, FilesOf
  <2>7. Extent(e)'
    BY <1>1, <1>3, <1>4, <2>3 DEF Extent, Concluding, Retreating, Left, FilesOf
  <2>8. Line(e)' /\ Fresh(e)' /\ Linked(e)'
    BY <1>1, <1>3, <2>3 DEF Line, Fresh, Linked, Concluding, Retreating
  <2>9. Reason(e)'
    BY <1>4, <2>3 DEF Reason, Retreating
  <2>. QED BY <2>3, <2>4, <2>5, <2>6, <2>7, <2>8, <2>9 DEF Sound, ExecutorInv
<1>5. ASSUME Goto(e, "abort"), UNCHANGED <<place, oldShown, moved>>,
             \/ faults' = faults + 1
             \/ faults' = faults /\ place[f] # From(d)
      PROVE  Sound(e)
  <2>1. "abort" \in Inside /\ moved' = [moved EXCEPT ![e] = moved[e]] /\ moved[e] \in SUBSET Files
    BY <1>2, <1>5 DEF ExecutionType, Inside, Changing
  <2>2. /\ ExecutionType' /\ Acts(e) /\ Owning(e)' /\ pc'[e] = "abort"
        /\ moved'[e] = moved[e]
        /\ faults \in Nat /\ faults' >= faults
    <3>1. UNCHANGED <<serving, journal, locked, plan, dir, outcome>>
      BY <1>1 DEF journal
    <3>2. /\ place' \in [Files -> {"source", "target", "astray"}] /\ oldShown' \subseteq Replaced
          /\ \A g \in Files \ FilesOf(plan[e]) :
               place'[g] = place[g] /\ (g \in oldShown' <=> g \in oldShown)
      BY <1>2, <1>5 DEF ExecutionType
    <3>3. faults' \in {faults, faults + 1}
      BY <1>5
    <3>4. pc[e] \in Changing /\ Goto(e, "abort")
      BY <1>3, <1>5
    <3>. QED BY <2>1, <3>1, <3>2, <3>3, <3>4, FileFrame
  <2>3. faults' >= 1
    <3>1. CASE faults' = faults + 1
      BY <2>2, <3>1
    <3>2. CASE faults' = faults /\ place[f] # From(d)
      BY <1>2, <1>3, <3>2 DEF DiskInv, Missing
    <3>. QED BY <1>5, <3>1, <3>2
  <2>4. DiskInv'
    BY <1>2, <1>5, <2>3 DEF DiskInv, OneVideoPerPath, Missing
  <2>5. Truthful(plan[e])'
    BY <1>1, <1>3 DEF Truthful
  <2>6. Placed(e)'
    BY <1>1, <1>3, <1>5, <2>2 DEF Placed, Left, FilesOf
  <2>. QED BY <2>2, <2>3, <2>4, <2>5, <2>6 DEF Sound, ExecutorInv, Extent, Line, Fresh, Linked,
           Reason, Concluding, Retreating
<1>6. CASE /\ place[f] = From(d) /\ Put(f, d) /\ moved' = [moved EXCEPT ![e] = @ \cup {f}]
           /\ Goto(e, IF Left(e) = {f} THEN "verify" ELSE "move") /\ faults' = faults
  BY <1>4, <1>6
<1>7. CASE /\ place[f] = From(d) /\ Put(f, d) /\ moved' = [moved EXCEPT ![e] = @ \cup {f}]
           /\ Goto(e, "abort") /\ faults' = faults + 1
  BY <1>4, <1>7
<1>. QED BY <1>5, <1>6, <1>7 DEF Move, Fault, disk

LEMMA UndoSound ==
  ASSUME IInv, NEW e \in Executors, NEW f \in Files, Undo(e, f) PROVE Sound(e)
<1>. DEFINE p == plan[e]  d == dir[e]
<1>1. /\ pc[e] = "undo" /\ f \in moved[e]
      /\ UNCHANGED <<serving, journal, locked, plan, dir, outcome>>
      /\ oldShown' = oldShown
  BY DEF Undo
<1>2. /\ p \in Plans /\ d \in Directions /\ ExecutorInv(e) /\ ExecutionType /\ DiskInv
  BY <1>1, At
<1>3. pc[e] \in Changing
  BY <1>1 DEF Changing
<1>4. /\ last[p] = "rolling-back" /\ moved[e] \subseteq FilesOf(p)
      /\ \A g \in moved[e] : place[g] \in {To(d), "astray"}
      /\ \A g \in FilesOf(p) \ moved[e] : place[g] \in {From(d), "astray"}
      /\ f \in FilesOf(p) /\ FilesOf(p) \subseteq Files
  BY <1>1, <1>2, <1>3 DEF ExecutorInv, Line, Placed, Left, FilesOf
<1>5. faults \in Nat /\ faults >= 1
  BY <1>1, <1>2 DEF ExecutorInv, Reason, ExecutionType
<1>6. ASSUME NEW l \in {"undo", "restore", "undone", "broken"}, Goto(e, l),
             ~Obstructed(e, f),
             place' = [place EXCEPT ![f] = From(d)],
             moved' = [moved EXCEPT ![e] = @ \ {f}],
             l \in {"restore", "undone"} => moved[e] = {f} /\ l = AfterUndo(e),
             \/ p \in Cached /\ faults' = faults
             \/ l # "broken" /\ faults' = faults
             \/ faults' = faults + 1
      PROVE  Sound(e)
  <2>1. /\ place' \in [Files -> {"source", "target", "astray"}]
        /\ place'[f] = From(d) /\ \A g \in Files \ {f} : place'[g] = place[g]
    BY <1>2, <1>6 DEF From, ExecutionType
  <2>2. /\ moved' = [moved EXCEPT ![e] = moved[e] \ {f}] /\ moved[e] \ {f} \in SUBSET Files
        /\ l \in Inside
    BY <1>2, <1>6 DEF ExecutionType, Inside, Changing
  <2>3. /\ ExecutionType' /\ Acts(e) /\ Owning(e)' /\ pc'[e] = l
        /\ moved'[e] = moved[e] \ {f} /\ faults' >= faults
    <3>1. /\ \A g \in Files \ FilesOf(plan[e]) :
                place'[g] = place[g] /\ (g \in oldShown' <=> g \in oldShown)
          /\ oldShown' \subseteq Replaced
      BY <1>1, <1>2, <1>4, <2>1 DEF ExecutionType
    <3>2. faults' \in {faults, faults + 1}
      BY <1>6
    <3>3. Goto(e, l) /\ place' \in [Files -> {"source", "target", "astray"}]
      BY <1>6, <2>1
    <3>4. UNCHANGED <<serving, journal, locked, plan, dir, outcome>>
      BY <1>1
    <3>. QED BY <1>3, <2>2, <3>1, <3>2, <3>3, <3>4, FileFrame
  <2>4. /\ faults' >= 1 /\ plan'[e] = p /\ dir'[e] = d /\ last' = last
    <3>1. faults' \in Nat
      BY <2>3 DEF ExecutionType
    <3>. QED BY <1>1, <1>5, <2>3, <3>1 DEF journal
  <2>5. Truthful(plan[e])'
    BY <1>4, <2>4 DEF Truthful
  <2>6. DiskInv'
    <3>1. d = "inverse" => f \notin oldShown
      BY <1>6 DEF Obstructed
    <3>2. OneVideoPerPath'
      BY <1>1, <1>2, <2>1, <3>1, ExecutionAssumption
         DEF DiskInv, OneVideoPerPath, From, Directions, ExecutionType
    <3>. QED BY <2>4, <3>2 DEF DiskInv, Missing
  <2>7. Placed(e)'
    BY <1>4, <2>1, <2>3, <2>4 DEF Placed, Left, FilesOf
  <2>8. l = "restore" => d = "forward"
    BY <1>6 DEF AfterUndo
  <2>9. l = "undone" /\ d = "forward" => Replacing(p) = {}
    BY <1>6 DEF AfterUndo
  <2>10. Extent(e)' /\ Line(e)' /\ Fresh(e)'
    BY <1>4, <1>6, <2>3, <2>4, <2>8 DEF Extent, Line, Fresh, Concluding, Retreating
  <2>11. Linked(e)'
    BY <2>3, <2>4, <2>9 DEF Linked, Shown, Replacing, FilesOf
  <2>12. Reason(e)'
    <3>1. l = "broken" => p \in Cached \/ faults' > 1
      BY <1>5, <1>6
    <3>. QED BY <2>3, <2>4, <3>1 DEF Reason, Excused, Retreating
  <2>. QED BY <2>3, <2>5, <2>6, <2>7, <2>10, <2>11, <2>12 DEF Sound, ExecutorInv
<1>7. ASSUME Goto(e, "broken"), UNCHANGED <<place, moved>>,
             \/ faults' = faults + 1
             \/ faults' = faults /\ Obstructed(e, f)
      PROVE  Sound(e)
  <2>1. "broken" \in Inside /\ moved' = [moved EXCEPT ![e] = moved[e]] /\ moved[e] \in SUBSET Files
    BY <1>2, <1>7 DEF ExecutionType, Inside, Changing
  <2>2. /\ ExecutionType' /\ Acts(e) /\ Owning(e)' /\ pc'[e] = "broken"
        /\ moved'[e] = moved[e] /\ faults' >= faults
    <3>1. /\ \A g \in Files \ FilesOf(plan[e]) :
                place'[g] = place[g] /\ (g \in oldShown' <=> g \in oldShown)
          /\ place' \in [Files -> {"source", "target", "astray"}]
          /\ oldShown' \subseteq Replaced
      BY <1>1, <1>2, <1>7 DEF ExecutionType
    <3>2. faults' \in {faults, faults + 1} /\ Goto(e, "broken")
      BY <1>7
    <3>3. UNCHANGED <<serving, journal, locked, plan, dir, outcome>>
      BY <1>1
    <3>. QED BY <1>3, <2>1, <3>1, <3>2, <3>3, FileFrame
  <2>3. /\ faults' >= 1 /\ plan'[e] = p /\ dir'[e] = d /\ last' = last
    <3>1. faults' \in Nat
      BY <2>2 DEF ExecutionType
    <3>. QED BY <1>1, <1>5, <2>2, <3>1 DEF journal
  <2>4. DiskInv'
    BY <1>1, <1>2, <1>7, <2>3 DEF DiskInv, OneVideoPerPath, Missing
  <2>5. Truthful(plan[e])'
    BY <1>4, <2>3 DEF Truthful
  <2>6. Placed(e)'
    BY <1>4, <1>7, <2>2, <2>3 DEF Placed, Left, FilesOf
  <2>7. Excused(plan[e], dir[e])'
    <3>1. CASE faults' = faults + 1
      <4>1. faults' > 1
        BY <1>5, <3>1
      <4>. QED BY <4>1 DEF Excused
    <3>2. CASE place[f] # To(d)
      BY <1>1, <1>4, <1>7, <2>3, <3>2 DEF Excused, FilesOf
    <3>3. CASE d = "inverse" /\ f \in oldShown
      <4>1. f \in Replacing(p)
        BY <1>2, <1>4, <3>3 DEF Replacing, ExecutionType
      <4>. QED BY <1>1, <2>3, <3>3, <4>1 DEF Excused, Replacing, FilesOf
    <3>. QED BY <1>7, <3>1, <3>2, <3>3 DEF Obstructed
  <2>. QED BY <1>4, <2>2, <2>3, <2>4, <2>5, <2>6, <2>7 DEF Sound, ExecutorInv, Extent, Line, Fresh,
           Linked, Reason, Concluding, Retreating
<1>8. CASE ~Obstructed(e, f) /\ place' = [place EXCEPT ![f] = From(d)]
           /\ moved' = [moved EXCEPT ![e] = @ \ {f}]
  <2>1. CASE /\ plan[e] \notin Cached /\ faults' = faults
             /\ Goto(e, IF moved[e] = {f} THEN AfterUndo(e) ELSE "undo")
    <3>1. CASE moved[e] = {f}
      <4>1. AfterUndo(e) \in {"restore", "undone"}
        BY DEF AfterUndo
      <4>. QED BY <1>6, <1>8, <2>1, <3>1, <4>1
    <3>2. CASE moved[e] # {f}
      BY <1>6, <1>8, <2>1, <3>2
    <3>. QED BY <3>1, <3>2
  <2>2. CASE plan[e] \in Cached /\ Goto(e, "broken") /\ faults' = faults
    BY <1>6, <1>8, <2>2
  <2>3. CASE Goto(e, "broken") /\ faults' = faults + 1
    BY <1>6, <1>8, <2>3
  <2>4. \/ plan[e] \notin Cached /\ faults' = faults
           /\ Goto(e, IF moved[e] = {f} THEN AfterUndo(e) ELSE "undo")
        \/ plan[e] \in Cached /\ Goto(e, "broken") /\ faults' = faults
        \/ Goto(e, "broken") /\ faults' = faults + 1
        \/ Goto(e, "broken") /\ UNCHANGED <<place, moved>> /\ faults' = faults + 1
    BY <1>8 DEF Undo, Fault
  <2>. QED BY <1>7, <2>1, <2>2, <2>3, <2>4
<1>. QED BY <1>7, <1>8 DEF Undo, Fault

LEMMA RestoreSound ==
  ASSUME IInv, NEW e \in Executors, Restore(e) PROVE Sound(e)
<1>. DEFINE p == plan[e]  d == dir[e]
            next == IF d = "inverse" THEN "commit" ELSE "undone"
            otherwise == IF d = "inverse" THEN "abort" ELSE "broken"
<1>1. /\ pc[e] = "restore" /\ place' = place /\ mind' = mind
      /\ UNCHANGED <<serving, journal, locked, plan, dir, outcome>>
      /\ \/ oldShown' = oldShown \cup Replacing(p) /\ ~Covered(p)
            /\ Goto(e, next) /\ faults' = faults
         \/ oldShown' = oldShown /\ Covered(p) /\ Goto(e, otherwise) /\ faults' = faults
         \/ /\ oldShown' \in {oldShown, IF Covered(p) THEN oldShown ELSE oldShown \cup Replacing(p)}
            /\ Goto(e, otherwise) /\ faults' = faults + 1
  BY DEF Restore, mind, Fault
<1>2. /\ p \in Plans /\ d \in Directions /\ ExecutorInv(e) /\ ExecutionType /\ DiskInv
  BY <1>1, At
<1>3. pc[e] \in Changing /\ moved' = moved /\ plan' = plan /\ dir' = dir
  BY <1>1 DEF Changing, mind
<1>4. /\ d = "inverse" => /\ moved[e] = FilesOf(p) /\ last[p] = "prepared"
      /\ d = "forward" => /\ moved[e] = {} /\ last[p] = "rolling-back" /\ faults >= 1
      /\ moved[e] \subseteq FilesOf(p)
  BY <1>1, <1>2, <1>3 DEF ExecutorInv, Extent, Line, Reason, Concluding, Retreating, Placed
<1>5. /\ \A g \in moved[e] : place[g] \in {To(d), "astray"}
      /\ \A g \in FilesOf(p) \ moved[e] : place[g] \in {From(d), "astray"}
  BY <1>2, <1>3 DEF ExecutorInv, Placed, Left
<1>6. \A g \in FilesOf(p) : place[g] # "target"
  BY <1>2, <1>4, <1>5 DEF To, From, Directions
<1>7. ~Covered(p)
  BY <1>6 DEF Covered, Replacing
<1>8. PICK l \in {next, otherwise} :
        /\ Goto(e, l)
        /\ \/ l = next /\ oldShown' = oldShown \cup Replacing(p) /\ faults' = faults
           \/ l = otherwise /\ faults' = faults + 1
        /\ oldShown' \in {oldShown, oldShown \cup Replacing(p)}
  BY <1>1, <1>7
<1>9. /\ ExecutionType' /\ Acts(e) /\ Owning(e)' /\ pc'[e] = l
      /\ faults \in Nat /\ faults' >= faults
  <2>1. l \in Inside /\ moved' = [moved EXCEPT ![e] = moved[e]] /\ moved[e] \in SUBSET Files
    BY <1>2, <1>3 DEF ExecutionType, Inside, Changing
  <2>2. /\ \A g \in Files \ FilesOf(plan[e]) :
              place'[g] = place[g] /\ (g \in oldShown' <=> g \in oldShown)
        /\ place' \in [Files -> {"source", "target", "astray"}]
        /\ oldShown' \subseteq Replaced
    BY <1>1, <1>2, <1>8 DEF ExecutionType, Replacing
  <2>3. faults' \in {faults, faults + 1} /\ Goto(e, l)
    BY <1>8
  <2>4. UNCHANGED <<serving, journal, locked, plan, dir, outcome>>
    BY <1>1
  <2>. QED BY <1>3, <2>1, <2>2, <2>3, <2>4, FileFrame
<1>10. Truthful(plan[e])'
  BY <1>1, <1>2, <1>3, <1>4 DEF Truthful, journal, Directions
<1>11. DiskInv'
  <2>1. OneVideoPerPath'
    BY <1>1, <1>2, <1>6, <1>8 DEF DiskInv, OneVideoPerPath, Replacing
  <2>2. faults >= 1 => faults' >= 1
    BY <1>8, <1>9
  <2>. QED BY <1>1, <1>2, <2>1, <2>2 DEF DiskInv, Missing
<1>12. Placed(e)'
  BY <1>1, <1>3, <1>4, <1>5 DEF Placed, Left, FilesOf
<1>13. Linked(e)'
  <2>1. l \in {"commit", "undone"} => Replacing(p) \subseteq oldShown'
    BY <1>8
  <2>. QED BY <1>3, <1>9, <2>1 DEF Linked, Shown, Replacing, FilesOf
<1>14. Extent(e)' /\ Line(e)' /\ Fresh(e)'
  BY <1>1, <1>2, <1>3, <1>4, <1>9 DEF Extent, Line, Fresh, Concluding, Retreating, FilesOf, journal,
     Directions
<1>15. Reason(e)'
  <2>1. l = "abort" => faults' >= 1
    BY <1>8, <1>9
  <2>2. l = "undone" => faults' >= 1
    BY <1>2, <1>4, <1>8 DEF Directions
  <2>3. l = "broken" => faults' > 1
    <3>1. l = "broken" => faults >= 1 /\ faults' = faults + 1
      BY <1>2, <1>4, <1>8 DEF Directions
    <3>. QED BY <1>9, <3>1
  <2>. QED BY <1>9, <2>1, <2>2, <2>3 DEF Reason, Retreating, Excused
<1>. QED BY <1>9, <1>10, <1>11, <1>12, <1>13, <1>14, <1>15 DEF Sound, ExecutorInv

-----------------------------------------------------------------------------
(* The steps of the system *)

LEMMA StepSound ==
  ASSUME IInv, NEW e \in Executors, ExecutorStep(e) PROVE Sound(e) /\ ~Free(e)
<1>1. ~Free(e)
  BY DEF Free, ExecutorStep, Acquire, Preflight, Prepare, Move, Undo, Verify, Restore, Commit,
     Abort, Undone, Broken, Release
<1>. QED BY <1>1, AcquireSound, PreflightSound, PrepareSound, MoveSound, UndoSound, VerifySound,
     RestoreSound, CommitSound, AbortSound, UndoneSound, BrokenSound, ReleaseSound DEF ExecutorStep

LEMMA OutsiderKept ==
  ASSUME IInv, NEW e \in Executors, pc[e] \notin Inside, Stays(e)
  PROVE  ExecutorInv(e)'
<1>1. ExecutorInv(e)
  BY DEF IInv
<1>. QED BY <1>1 DEF ExecutorInv, Stays, Owning, Fresh, Placed, Extent, Linked, Line, Reason,
         Concluding, Retreating, Inside, Changing

\* A sound step of one executor keeps the invariant: the others are at work on
\* other plans.
LEMMA SoundKeeps ==
  ASSUME IInv, NEW e \in Executors, ~Free(e), Sound(e) PROVE IInv'
<1>1. /\ ExecutionType' /\ DiskInv' /\ ExecutorInv(e)' /\ Truthful(plan[e])' /\ Acts(e)
      /\ plan[e] \in Plans /\ plan'[e] = plan[e]
  <2>1. plan[e] \in Plans
    BY At DEF Free
  <2>. QED BY <2>1 DEF Sound, Acts
<1>2. faults \in Nat /\ faults' \in Nat /\ faults' >= faults
  BY <1>1 DEF Acts, IInv, ExecutionType
<1>3. ASSUME NEW a \in Executors PROVE ExecutorInv(a)'
  <2>1. CASE a # e /\ pc[a] \in Inside
    <3>1. Stays(a)
      BY <1>1, <2>1 DEF Acts
    <3>2. plan[a] \in Plans /\ plan[a] \in locked
      BY <2>1 DEF IInv, ExecutorInv, Owning, Inside, Changing
    <3>3. plan[a] = plan[e] => pc[e] \notin Inside
      BY <2>1 DEF IInv, Alone
    <3>4. Same(plan[a])
      BY <1>1, <3>2, <3>3 DEF Acts
    <3>. QED BY <1>2, <3>1, <3>4, ExecutorKept
  <2>2. CASE a # e /\ pc[a] \notin Inside
    BY <1>1, <2>2, OutsiderKept DEF Acts
  <2>. QED BY <1>1, <2>1, <2>2
<1>4. ASSUME NEW p \in Plans PROVE Truthful(p)'
  <2>1. CASE p # plan[e]
    <3>1. Same(p) /\ Truthful(p)
      BY <1>1, <2>1 DEF Acts, IInv
    <3>. QED BY <1>2, <3>1, TruthKept
  <2>2. CASE p = plan[e]
    BY <1>1, <2>2 DEF Truthful, Whole, Shown, Excused, FilesOf, Replacing
  <2>. QED BY <2>1, <2>2
<1>5. Alone'
  <2>1. ASSUME NEW a \in Executors, NEW b \in Executors, a # e,
               pc'[a] \in Inside, pc'[b] \in Inside, plan'[a] = plan'[b]
        PROVE  a = b
    <3>1. pc[a] \in Inside /\ plan'[a] = plan[a] /\ plan[a] \in locked
      BY <1>1, <2>1 DEF Acts, Stays, IInv, ExecutorInv, Owning
    <3>2. plan'[b] = plan[b] /\ (b # e => pc[b] \in Inside)
      BY <1>1, <2>1 DEF Acts, Stays
    <3>3. b = e => pc[b] \in Inside
      BY <1>1, <2>1, <3>1 DEF Acts
    <3>. QED BY <2>1, <3>1, <3>2, <3>3 DEF IInv, Alone
  <2>. QED BY <2>1 DEF Alone
<1>. QED BY <1>1, <1>3, <1>4, <1>5 DEF IInv

\* A process that begins, or dies, is outside, and changes nothing but itself.
LEMMA OutsideKeeps ==
  ASSUME IInv, NEW e \in Executors,
         UNCHANGED <<disk, journal, locked>>,
         ExecutionType',
         \A a \in Executors \ {e} : Stays(a),
         pc'[e] \in {"acquire", "exit"},
         pc'[e] = "acquire" => plan'[e] \in Plans /\ moved'[e] = {},
         faults' >= faults
  PROVE  IInv'
<1>1. faults \in Nat /\ faults' \in Nat
  BY DEF IInv, ExecutionType
<1>2. \A p \in Plans : Same(p)
  BY DEF Same, disk, journal
<1>3. \A p \in Plans : Truthful(p)'
  BY <1>1, <1>2, TruthKept DEF IInv
<1>4. ExecutorInv(e)'
  BY DEF ExecutorInv, Owning, Fresh, Placed, Extent, Linked, Line, Reason, Concluding,
     Retreating, Inside, Changing
<1>5. ASSUME NEW a \in Executors \ {e} PROVE ExecutorInv(a)'
  <2>1. pc[a] \notin {"idle", "exit"} => Same(plan[a])
    BY <1>2 DEF IInv, ExecutorInv, Owning
  <2>. QED BY <1>1, <2>1, ExecutorKept
<1>6. Alone'
  BY DEF IInv, Alone, Stays, Inside, Changing
<1>7. DiskInv'
  <2>1. faults >= 1 => faults' >= 1
    BY <1>1
  <2>. QED BY <2>1 DEF IInv, DiskInv, OneVideoPerPath, Missing, disk
<1>. QED BY <1>3, <1>4, <1>5, <1>6, <1>7 DEF IInv

\* What is not a step of an executor.
LEMMA NextCases ==
  ASSUME IInv, [Next]_vars
  PROVE  \/ \E e \in Executors : ExecutorStep(e) /\ UNCHANGED batchVars
         \/ \E e \in Executors, p \in Plans, d \in Directions :
              Launch(e, p, d) /\ UNCHANGED <<serving, faults>>
         \/ \E e \in Executors : Killed(e) /\ faults' \in {faults, faults + 1}
         \/ \E f \in Files : Intrude(f)
         \/ UNCHANGED <<disk, journal, locked, pc, mind, outcome>> /\ serving' \in BOOLEAN
              /\ faults' \in {faults, faults + 1}
<1>. DEFINE Rest == UNCHANGED <<disk, journal, locked, pc, mind, outcome>> /\ serving' \in BOOLEAN
                     /\ faults' \in {faults, faults + 1}
<1>0. serving \in BOOLEAN
  BY DEF IInv, ExecutionType
<1>1. CASE BatchStep
  <2>1. CASE Check \/ Inspect
    BY <1>0, <2>1 DEF Check, Inspect, Fault
  <2>2. CASE Stop \/ Start
    BY <1>0, <2>2 DEF Stop, Start, Fault
  <2>3. CASE Forwarded \/ Backed \/ Close
    BY <1>0, <2>3 DEF Forwarded, Backed, Close, executionVars
  <2>4. ASSUME NEW p \in Plans, Forward(p)
        PROVE  Launch(Child, p, "forward") /\ UNCHANGED <<serving, faults>>
    BY <2>4 DEF Forward, Call
  <2>5. ASSUME NEW p \in Plans, Back(p)
        PROVE  Rest \/ (Launch(Child, p, "inverse") /\ UNCHANGED <<serving, faults>>)
    BY <1>0, <2>5 DEF Back, Call, Fault, executionVars
  <2>6. "forward" \in Directions /\ "inverse" \in Directions /\ Child \in Executors
    BY BatchAssumption DEF Directions
  <2>. QED BY <1>1, <2>1, <2>2, <2>3, <2>4, <2>5, <2>6 DEF BatchStep
<1>2. CASE \E e \in Executors : Executing(e)
  BY <1>2 DEF Executing
<1>3. CASE Environment
  <2>1. ASSUME NEW S \in SUBSET Plans \ {{}}, Begin(S) PROVE Rest
    BY <1>0, <2>1 DEF Begin, executionVars
  <2>2. CASE Crash \/ Reopen
    BY <1>0, <2>2 DEF Crash, Reopen, Fault
  <2>3. CASE Interrupt
    BY <2>3, BatchAssumption DEF Interrupt, Fault
  <2>4. ASSUME NEW e \in Executors, KillStray(e)
        PROVE  Killed(e) /\ faults' \in {faults, faults + 1}
    BY <2>4 DEF KillStray, Fault
  <2>5. ASSUME NEW e \in Executors, NEW p \in Plans, NEW d \in Directions, ByHand(e, p, d)
        PROVE  Launch(e, p, d) /\ UNCHANGED <<serving, faults>>
    BY <2>5 DEF ByHand
  <2>. QED BY <1>3, <2>1, <2>2, <2>3, <2>4, <2>5 DEF Environment
<1>4. CASE UNCHANGED vars
  BY <1>0, <1>4 DEF vars, executionVars
<1>. QED BY <1>1, <1>2, <1>3, <1>4 DEF Next

\* Each case of a step, in its effects on executors and plans.
LEMMA LaunchKeeps ==
  ASSUME IInv, NEW e \in Executors, NEW p \in Plans, NEW d \in Directions,
         Launch(e, p, d), UNCHANGED <<serving, faults>>
  PROVE  IInv'
<1>1. /\ UNCHANGED <<disk, journal, locked>>
      /\ pc' = [pc EXCEPT ![e] = IF d \in spent[p] THEN "exit" ELSE "acquire"]
      /\ plan' = [plan EXCEPT ![e] = p] /\ dir' = [dir EXCEPT ![e] = d]
      /\ moved' = [moved EXCEPT ![e] = {}] /\ outcome' = [outcome EXCEPT ![e] = "failed"]
  BY DEF Launch, Goto
<1>2. ExecutionType
  BY DEF IInv
<1>3. ExecutionType'
  BY <1>1, <1>2 DEF ExecutionType, disk, journal
<1>4. \A a \in Executors \ {e} : Stays(a)
  BY <1>1, <1>2 DEF Stays, ExecutionType
<1>5. /\ pc'[e] \in {"acquire", "exit"} /\ plan'[e] = p /\ moved'[e] = {}
      /\ faults \in Nat /\ faults' = faults
  BY <1>1, <1>2 DEF ExecutionType
<1>6. faults' >= faults
  BY <1>5
<1>. QED BY <1>1, <1>3, <1>4, <1>5, <1>6, OutsideKeeps

LEMMA KilledKeeps ==
  ASSUME IInv, NEW e \in Executors, Killed(e), faults' \in {faults, faults + 1}
  PROVE  IInv'
<1>1. /\ UNCHANGED <<disk, journal, locked>> /\ UNCHANGED <<plan, dir, moved, serving>>
      /\ pc' = [pc EXCEPT ![e] = "exit"] /\ outcome' = [outcome EXCEPT ![e] = "failed"]
  BY DEF Killed, Goto, mind
<1>2. ExecutionType
  BY DEF IInv
<1>3. faults \in Nat /\ faults' \in Nat /\ faults' >= faults
  BY <1>2 DEF ExecutionType
<1>4. ExecutionType'
  BY <1>1, <1>2, <1>3 DEF ExecutionType, disk, journal
<1>5. (\A a \in Executors \ {e} : Stays(a)) /\ pc'[e] = "exit"
  BY <1>1, <1>2 DEF Stays, ExecutionType
<1>. QED BY <1>1, <1>3, <1>4, <1>5, OutsideKeeps

\* Nobody moves, though a file may be taken away.
LEMMA NobodyKeeps ==
  ASSUME IInv, UNCHANGED <<oldShown, journal, locked, pc, mind, outcome>>,
         serving' \in BOOLEAN, faults' \in {faults, faults + 1},
         place' \in [Files -> {"source", "target", "astray"}],
         \A f \in Files : \/ place'[f] = place[f]
                         \/ (place'[f] = "astray" /\ faults' = faults + 1)
  PROVE  IInv'
<1>1. ExecutionType
  BY DEF IInv
<1>2. faults \in Nat /\ faults' \in Nat /\ faults' >= faults
  BY <1>1 DEF ExecutionType
<1>3. ExecutionType'
  BY <1>1, <1>2 DEF ExecutionType, journal, mind
<1>4. \A p \in Plans : Same(p)
  BY DEF Same, journal, FilesOf
<1>5. ASSUME NEW e \in Executors PROVE ExecutorInv(e)'
  <2>1. Stays(e)
    BY DEF Stays, mind
  <2>2. pc[e] \notin {"idle", "exit"} => Same(plan[e])
    BY <1>4 DEF IInv, ExecutorInv, Owning
  <2>. QED BY <1>2, <2>1, <2>2, ExecutorKept
<1>6. \A p \in Plans : Truthful(p)'
  BY <1>2, <1>4, TruthKept DEF IInv
<1>7. DiskInv'
  <2>1. faults' = faults + 1 \/ faults >= 1 => faults' >= 1
    BY <1>2
  <2>. QED BY <2>1, ExecutionAssumption DEF IInv, DiskInv, OneVideoPerPath, Missing, ExecutionType
<1>8. Alone'
  BY DEF IInv, Alone, mind
<1>. QED BY <1>3, <1>5, <1>6, <1>7, <1>8 DEF IInv

LEMMA StepIInv == IInv /\ [Next]_vars => IInv'
<1>. SUFFICES ASSUME IInv, [Next]_vars PROVE IInv'
  OBVIOUS
<1>1. ASSUME NEW e \in Executors, ExecutorStep(e) PROVE IInv'
  BY <1>1, StepSound, SoundKeeps
<1>2. ASSUME NEW f \in Files, Intrude(f) PROVE IInv'
  <2>1. /\ UNCHANGED <<oldShown, journal, locked, pc, mind, outcome>> /\ serving' = serving
        /\ faults' = faults + 1 /\ place' = [place EXCEPT ![f] = "astray"]
    BY <1>2 DEF Intrude, Fault
  <2>2. /\ serving' \in BOOLEAN /\ place' \in [Files -> {"source", "target", "astray"}]
        /\ \A g \in Files : \/ place'[g] = place[g]
                            \/ (place'[g] = "astray" /\ faults' = faults + 1)
    BY <2>1 DEF IInv, ExecutionType
  <2>. QED BY <2>1, <2>2, NobodyKeeps
<1>3. ASSUME UNCHANGED <<disk, journal, locked, pc, mind, outcome>>, serving' \in BOOLEAN,
             faults' \in {faults, faults + 1}
      PROVE  IInv'
  <2>1. /\ UNCHANGED <<oldShown, journal, locked, pc, mind, outcome>>
        /\ place' \in [Files -> {"source", "target", "astray"}]
        /\ \A g \in Files : place'[g] = place[g]
    BY <1>3 DEF disk, IInv, ExecutionType
  <2>2. serving' \in BOOLEAN /\ faults' \in {faults, faults + 1}
    BY <1>3
  <2>. QED BY <2>1, <2>2, NobodyKeeps
<1>. QED BY <1>1, <1>2, <1>3, NextCases, LaunchKeeps, KilledKeeps

LEMMA InitIInv == Init => IInv
<1>. SUFFICES ASSUME Init PROVE IInv
  OBVIOUS
<1>. USE DEF Init, ExecutionInit
<1>1. ExecutionType
  BY ExecutionAssumption DEF ExecutionType, Directions
<1>2. Alone /\ DiskInv
  BY ExecutionAssumption DEF Alone, DiskInv, OneVideoPerPath, Missing, Inside, Changing
<1>3. \A e \in Executors : ExecutorInv(e)
  BY DEF ExecutorInv, Owning, Fresh, Placed, Extent, Linked, Line, Reason, Concluding,
     Retreating, Inside, Changing
<1>4. \A p \in Plans : Truthful(p)
  BY DEF Truthful, Whole, Shown, FilesOf, Replacing
<1>. QED BY <1>1, <1>2, <1>3, <1>4 DEF IInv

LEMMA SpecIInv == Spec => []IInv
  BY InitIInv, StepIInv, PTL DEF Spec

-----------------------------------------------------------------------------
(* Theorems *)

\* What the last line of a journal says of files and older videos is so, and an
\* undoing fails for one of the listed reasons only, for any plans, files,
\* executors and faults.
THEOREM HonestAlways == Spec => []Honest
<1>1. IInv => Honest
  BY DEF IInv, Truthful, Excused, Honest
<1>. QED BY SpecIInv, <1>1, PTL

\* A target never has to show an older video and the one that replaces it at
\* once, whichever executors come, fail or die.
THEOREM OneVideoPerPathAlways == Spec => []OneVideoPerPath
<1>1. IInv => OneVideoPerPath
  BY DEF IInv, DiskInv
<1>. QED BY SpecIInv, <1>1, PTL

\* No executor moves a file in a direction that the journal has as committed,
\* whatever it read before it had the lock.
THEOREM OnceAlways == Spec => Once
<1>1. ASSUME IInv, [Next]_vars
      PROVE  [\A e \in Executors :
                pc[e] = "move" /\ moved'[e] # moved[e] => dir[e] \notin spent[plan[e]]
             ]_executionVars
  BY <1>1 DEF IInv, ExecutorInv, Fresh
<1>. QED BY SpecIInv, <1>1, PTL DEF Spec, Once

\* When the owner of a lock file has died, the plan, its files and its journal
\* stay as they are, whoever comes.
THEOREM OrphansRestAlways == Spec => OrphansRest
<1>1. ASSUME IInv, IInv', [Next]_vars, NEW p \in Plans, Orphaned(p)
      PROVE  /\ Orphaned(p)' /\ last'[p] = last[p]
             /\ \A f \in FilesOf(p) : place'[f] \in {place[f], "astray"}
  <2>1. p \in locked /\ \A e \in Executors : pc[e] \in Inside => plan[e] # p
    BY <1>1 DEF Orphaned
  <2>2. ASSUME NEW e \in Executors, ~Free(e), Sound(e)
        PROVE  Same(p) /\ Orphaned(p)'
    <3>1. Acts(e)
      BY <2>2 DEF Sound
    <3>2. Same(p)
      BY <2>1, <3>1 DEF Acts
    <3>3. ASSUME NEW a \in Executors, pc'[a] \in Inside PROVE plan'[a] # p
      <4>1. CASE a = e
        BY <2>1, <3>1, <3>3, <4>1 DEF Acts
      <4>2. CASE a # e
        BY <2>1, <3>1, <3>3, <4>2 DEF Acts, Stays
      <4>. QED BY <4>1, <4>2
    <3>. QED BY <2>1, <3>2, <3>3 DEF Orphaned, Same
  <2>3. ASSUME NEW e \in Executors, pc'[e] \in {"acquire", "exit"},
               \A a \in Executors \ {e} : pc'[a] = pc[a] /\ plan'[a] = plan[a],
               UNCHANGED <<disk, journal, locked>>
        PROVE  Same(p) /\ Orphaned(p)'
    BY <2>1, <2>3 DEF Same, Orphaned, disk, journal, Inside, Changing
  <2>4. ASSUME UNCHANGED <<oldShown, journal, locked, pc, mind>>,
               \A f \in Files : place'[f] \in {place[f], "astray"}
        PROVE  Same(p) /\ Orphaned(p)'
    BY <2>1, <2>4 DEF Same, Orphaned, journal, mind, FilesOf
  <2>5. Same(p) /\ Orphaned(p)'
    <3>1. ASSUME NEW e \in Executors, ExecutorStep(e) PROVE Same(p) /\ Orphaned(p)'
      BY <1>1, <2>2, <3>1, StepSound
    <3>2. ASSUME NEW e \in Executors, NEW q \in Plans, NEW d \in Directions, Launch(e, q, d)
          PROVE  Same(p) /\ Orphaned(p)'
      BY <1>1, <2>3, <3>2 DEF Launch, Goto, IInv, ExecutionType
    <3>3. ASSUME NEW e \in Executors, Killed(e) PROVE Same(p) /\ Orphaned(p)'
      BY <1>1, <2>3, <3>3 DEF Killed, Goto, mind, IInv, ExecutionType
    <3>4. ASSUME NEW f \in Files, Intrude(f) PROVE Same(p) /\ Orphaned(p)'
      BY <1>1, <2>4, <3>4 DEF Intrude, IInv, ExecutionType
    <3>5. ASSUME UNCHANGED <<disk, journal, locked, pc, mind, outcome>>
          PROVE  Same(p) /\ Orphaned(p)'
      BY <2>4, <3>5 DEF disk
    <3>. QED BY <1>1, <3>1, <3>2, <3>3, <3>4, <3>5, NextCases
  <2>. QED BY <2>5 DEF Same
<1>2. ASSUME IInv, IInv', [Next]_vars
      PROVE  [\A p \in Plans : Orphaned(p) =>
                /\ Orphaned(p)'
                /\ last'[p] = last[p]
                /\ \A f \in FilesOf(p) : place'[f] \in {place[f], "astray"}]_executionVars
  BY <1>1, <1>2
<1>. QED BY SpecIInv, <1>2, PTL DEF Spec, OrphansRest

-----------------------------------------------------------------------------
(* A plan is a transaction: the executors implement SealedPlan. The lock    *)
(* keeps all but one of them away from a plan, and that one goes through    *)
(* the states of a transaction; what it still needs is that the last line   *)
(* of the journal is about the direction it executes.                       *)

Course(e) ==
  /\ pc[e] = "prepare" /\ dir[e] = "forward" => Shown(plan[e])
  /\ pc[e] \in Changing \ {"prepare"} => way[plan[e]] = dir[e]
  /\ pc[e] = "abort" => last[plan[e]] \in {"prepared", "committed"}
  /\ pc[e] = "move" \/ Concluding(e) => dir[e] \notin spent[plan[e]]

CourseInv == \A e \in Executors : Course(e)

LEMMA CourseKept ==
  ASSUME NEW e \in Executors, Course(e), Stays(e),
         pc[e] \in Inside => Same(plan[e])
  PROVE  Course(e)'
<1>1. CASE pc[e] \in Inside
  <2>1. Same(plan[e]) /\ plan'[e] = plan[e]
    BY <1>1 DEF Stays
  <2>2. Shown(plan[e]) => Shown(plan[e])'
    BY <2>1 DEF Same, Shown, Replacing, FilesOf
  <2>. QED BY <2>1, <2>2 DEF Course, Concluding, Stays, Same
<1>2. CASE pc[e] \notin Inside
  BY <1>2 DEF Course, Concluding, Stays, Inside, Changing
<1>. QED BY <1>1, <1>2

\* An executor that appends nothing: from where its place can be reached.
LEMMA CourseUnwritten ==
  ASSUME IInv, NEW e \in Executors, Course(e), pc[e] \notin {"idle", "exit"},
         UNCHANGED <<journal, plan, dir>>,
         pc'[e] = "prepare" /\ dir[e] = "forward" => Shown(plan[e])',
         pc'[e] \in Changing \ {"prepare"} => pc[e] \in Changing \ {"prepare"},
         pc'[e] = "abort" => pc[e] = "move" \/ Concluding(e),
         pc'[e] = "move" \/ Concluding(e)' => pc[e] = "move" \/ Concluding(e)
  PROVE  Course(e)'
<1>1. ExecutorInv(e)
  BY DEF IInv
<1>2. pc'[e] = "abort" => last[plan[e]] = "prepared"
  BY <1>1 DEF ExecutorInv, Line
<1>. QED BY <1>2 DEF Course, journal

LEMMA CourseStep ==
  ASSUME IInv, NEW e \in Executors, Course(e), ExecutorStep(e)
  PROVE  Course(e)'
<1>. USE DEF Goto
<1>0. /\ ExecutionType /\ ExecutorInv(e) /\ plan[e] \in Plans /\ dir[e] \in Directions
      /\ pc[e] \notin {"idle", "exit"}
  <2>1. pc[e] \notin {"idle", "exit"}
    BY StepSound DEF Free
  <2>. QED BY <2>1, At
<1>1. CASE Acquire(e) \/ Release(e)
  <2>1. pc'[e] \in {"preflight", "exit"}
    BY <1>0, <1>1 DEF Acquire, Release, ExecutionType
  <2>. QED BY <2>1 DEF Course, Concluding, Changing
<1>2. CASE Preflight(e)
  <2>1. UNCHANGED <<journal, plan, dir, oldShown>> /\ pc'[e] \in {"prepare", "release"}
    BY <1>0, <1>2 DEF Preflight, mind, disk, ExecutionType
  <2>2. pc'[e] = "prepare" /\ dir[e] = "forward" => Shown(plan[e])
    BY <1>0, <1>2 DEF Preflight, Ready, Shown, ExecutionType
  <2>3. Shown(plan[e])' <=> Shown(plan[e])
    BY <2>1 DEF Shown, Replacing, FilesOf
  <2>. QED BY <2>1, <2>2, <2>3 DEF Course, Concluding, Changing
<1>3. CASE Prepare(e)
  <2>1. UNCHANGED <<plan, dir>> /\ pc[e] = "prepare"
    BY <1>3 DEF Prepare, Append, mind
  <2>2. \/ pc'[e] = "release"
        \/ /\ pc'[e] = "move" /\ way'[plan[e]] = dir[e]
           /\ spent'[plan[e]] = spent[plan[e]]
    BY <1>0, <1>3 DEF Prepare, Append, Write, ExecutionType
  <2>3. dir[e] \notin spent[plan[e]]
    BY <1>0, <2>1 DEF ExecutorInv, Fresh
  <2>. QED BY <2>1, <2>2, <2>3 DEF Course, Concluding, Changing
<1>4. ASSUME NEW f \in Files, Move(e, f) PROVE Course(e)'
  <2>1. UNCHANGED <<journal, plan, dir>> /\ pc[e] = "move" /\ pc'[e] \in {"move", "verify", "abort"}
    BY <1>0, <1>4 DEF Move, ExecutionType
  <2>. QED BY <1>0, <2>1, CourseUnwritten DEF Concluding, Changing
<1>5. ASSUME NEW f \in Files, Undo(e, f) PROVE Course(e)'
  <2>1. /\ UNCHANGED <<journal, plan, dir>> /\ pc[e] = "undo"
        /\ pc'[e] \in {"undo", "broken", "undone", "restore"}
        /\ pc'[e] = "restore" => dir[e] = "forward"
    BY <1>0, <1>5 DEF Undo, AfterUndo, ExecutionType
  <2>. QED BY <1>0, <2>1, CourseUnwritten DEF Concluding, Changing
<1>6. CASE Verify(e)
  <2>1. /\ UNCHANGED <<journal, plan, dir>> /\ pc[e] = "verify"
        /\ pc'[e] \in {"restore", "commit", "abort"}
    BY <1>0, <1>6 DEF Verify, AfterMoves, mind, ExecutionType
  <2>. QED BY <1>0, <2>1, CourseUnwritten DEF Concluding, Changing
<1>7. CASE Restore(e)
  <2>1. /\ UNCHANGED <<journal, plan, dir>> /\ pc[e] = "restore"
        /\ dir[e] = "inverse" => pc'[e] \in {"commit", "abort"}
        /\ dir[e] # "inverse" => pc'[e] \in {"undone", "broken"}
    BY <1>0, <1>7 DEF Restore, mind, ExecutionType
  <2>2. pc'[e] \in {"abort", "commit", "undone", "broken"}
    BY <2>1
  <2>3. pc'[e] \in {"abort", "commit"} => Concluding(e)
    BY <2>1 DEF Concluding
  <2>. QED BY <1>0, <2>1, <2>2, <2>3, CourseUnwritten DEF Concluding, Changing
<1>8. CASE Commit(e)
  <2>1. /\ UNCHANGED <<plan, dir>> /\ pc[e] = "commit" /\ pc'[e] \in {"release", "abort"}
        /\ \/ UNCHANGED journal
           \/ last'[plan[e]] = "committed" /\ way'[plan[e]] = dir[e]
    BY <1>0, <1>8 DEF Commit, Append, Write, mind, ExecutionType
  <2>2. way[plan[e]] = dir[e] /\ last[plan[e]] = "prepared"
    BY <1>0, <2>1 DEF Course, Changing, ExecutorInv, Line, Concluding
  <2>. QED BY <2>1, <2>2 DEF Course, Concluding, Changing, journal
<1>9. CASE Abort(e)
  <2>1. /\ UNCHANGED <<plan, dir>> /\ pc[e] = "abort"
        /\ pc'[e] \in {"release", "undo", "undone", "restore"}
        /\ pc'[e] = "restore" => dir[e] = "forward"
        /\ UNCHANGED journal \/ way'[plan[e]] = dir[e]
    BY <1>0, <1>9 DEF Abort, Append, Write, AfterUndo, mind, ExecutionType
  <2>. QED BY <2>1 DEF Course, Concluding, Changing, journal
<1>10. CASE Undone(e) \/ Broken(e)
  <2>1. pc'[e] = "release"
    BY <1>0, <1>10 DEF Undone, Broken, Append, ExecutionType
  <2>. QED BY <2>1 DEF Course, Concluding, Changing
<1>. QED BY <1>1, <1>2, <1>3, <1>4, <1>5, <1>6, <1>7, <1>8, <1>9, <1>10 DEF ExecutorStep

LEMMA StepCourse == IInv /\ CourseInv /\ [Next]_vars => CourseInv'
<1>. SUFFICES ASSUME IInv, CourseInv, [Next]_vars PROVE CourseInv'
  OBVIOUS
<1>1. ASSUME NEW e \in Executors, ExecutorStep(e) PROVE CourseInv'
  <2>1. ~Free(e) /\ Acts(e)
    BY <1>1, StepSound DEF Sound
  <2>2. ASSUME NEW a \in Executors \ {e} PROVE Course(a)'
    <3>1. Stays(a) /\ Course(a)
      BY <2>1 DEF Acts, CourseInv
    <3>2. ASSUME pc[a] \in Inside PROVE Same(plan[a])
      <4>1. plan[a] \in Plans /\ plan[a] \in locked
        BY <3>2 DEF IInv, ExecutorInv, Owning, Inside, Changing
      <4>2. plan[a] = plan[e] => pc[e] \notin Inside
        BY <3>2 DEF IInv, Alone
      <4>. QED BY <2>1, <4>1, <4>2 DEF Acts
    <3>. QED BY <3>1, <3>2, CourseKept
  <2>3. Course(e)'
    BY <1>1, CourseStep DEF CourseInv
  <2>. QED BY <2>2, <2>3 DEF CourseInv
<1>2. ASSUME NEW e \in Executors, UNCHANGED <<disk, journal, locked>>,
             \A a \in Executors \ {e} : Stays(a), pc'[e] \in {"acquire", "exit"}
      PROVE  CourseInv'
  <2>1. \A p : Same(p)
    BY <1>2 DEF Same, disk, journal
  <2>2. \A a \in Executors \ {e} : Course(a)'
    BY <1>2, <2>1, CourseKept DEF CourseInv
  <2>3. Course(e)'
    BY <1>2 DEF Course, Concluding, Changing
  <2>. QED BY <2>2, <2>3 DEF CourseInv
<1>3. ASSUME UNCHANGED <<oldShown, journal, locked, pc, mind, outcome>>,
             \A f \in Files : place'[f] \in {place[f], "astray"}
      PROVE  CourseInv'
  <2>1. \A p : Same(p)
    BY <1>3 DEF Same, journal, FilesOf
  <2>2. \A a \in Executors : Stays(a)
    BY <1>3 DEF Stays, mind
  <2>. QED BY <2>1, <2>2, CourseKept DEF CourseInv
<1>4. ASSUME NEW e \in Executors, NEW p \in Plans, NEW d \in Directions, Launch(e, p, d)
      PROVE  CourseInv'
  BY <1>2, <1>4 DEF Launch, Goto, Stays, IInv, ExecutionType
<1>5. ASSUME NEW e \in Executors, Killed(e) PROVE CourseInv'
  BY <1>2, <1>5 DEF Killed, Goto, mind, Stays, IInv, ExecutionType
<1>6. ASSUME NEW f \in Files, Intrude(f) PROVE CourseInv'
  BY <1>3, <1>6 DEF Intrude, IInv, ExecutionType
<1>7. ASSUME UNCHANGED <<disk, journal, locked, pc, mind, outcome>> PROVE CourseInv'
  BY <1>3, <1>7 DEF disk
<1>. QED BY <1>1, <1>4, <1>5, <1>6, <1>7, NextCases

LEMMA SpecCourse == Spec => [](IInv /\ CourseInv)
<1>1. Init => CourseInv
  BY DEF Init, ExecutionInit, CourseInv, Course, Concluding, Changing
<1>. QED BY <1>1, InitIInv, StepIInv, StepCourse, PTL DEF Spec

\* Where a journal has its plan.
LEMMA Standing ==
  ASSUME NEW p
  PROVE  /\ last[p] = "prepared" => Stand(p) = "going"
         /\ last[p] = "committed" => Stand(p) = IF Doubtful(p) THEN "doubtful" ELSE To(way[p])
         /\ last[p] = "rolling-back" => Stand(p) = "returning"
  BY DEF Stand

LEMMA StandingThen ==
  ASSUME NEW p
  PROVE  /\ last'[p] = "prepared" => Stand(p)' = "going"
         /\ last'[p] = "committed" =>
              Stand(p)' = IF Doubtful(p)' THEN "doubtful" ELSE To(way'[p])
         /\ last'[p] = "rolling-back" => Stand(p)' = "returning"
         /\ last'[p] = "rolled-back" => Stand(p)' = From(way'[p])
         /\ last'[p] = "rollback-failed" => Stand(p)' = "broken"
  BY DEF Stand, To, From

LEMMA StandSame ==
  ASSUME NEW p, last'[p] = last[p], way'[p] = way[p],
         last[p] = "committed" => (Doubtful(p)' <=> Doubtful(p))
  PROVE  Stand(p)' = Stand(p)
<1>1. CASE last[p] = "committed"
  BY <1>1, Standing, StandingThen DEF To
<1>2. CASE last[p] # "committed"
  BY <1>2 DEF Stand, From
<1>. QED BY <1>1, <1>2

\* Only the executor inside can have its plan in doubt.
LEMMA DoubtOwn ==
  ASSUME IInv, NEW e \in Executors, pc[e] \in Inside, Acts(e), NEW p \in Plans, p = plan[e]
  PROVE  /\ Doubtful(p) <=> last[p] = "committed" /\ pc[e] = "abort"
         /\ Doubtful(p)' <=> last'[p] = "committed" /\ pc'[e] = "abort"
<1>1. \A a \in Executors : pc[a] = "abort" /\ plan[a] = p => a = e
  BY DEF IInv, Alone, Inside, Changing
<1>2. \A a \in Executors : pc'[a] = "abort" /\ plan'[a] = p => a = e
  BY <1>1 DEF Acts, Stays
<1>3. plan'[e] = p
  BY DEF Acts
<1>. QED BY <1>1, <1>2, <1>3 DEF Doubtful

LEMMA StandElse ==
  ASSUME NEW e \in Executors, Acts(e), NEW q \in Plans \ {plan[e]}
  PROVE  Stand(q)' = Stand(q)
<1>1. \A a \in Executors : pc'[a] = "abort" /\ plan'[a] = q <=> pc[a] = "abort" /\ plan[a] = q
  BY DEF Acts, Stays
<1>2. last'[q] = last[q] /\ way'[q] = way[q]
  BY DEF Acts, Same
<1>. QED BY <1>1, <1>2, StandSame DEF Doubtful

LEMMA Becomes ==
  ASSUME NEW e \in Executors, Acts(e), NEW p \in Plans, p = plan[e], NEW s, Stand(p)' = s
  PROVE  Sealed!Become(p, s)
  BY StandElse DEF Sealed!Become, Stands

\* A step that changes no journal, and no doubt about a commit.
LEMMA StandsStill ==
  ASSUME NEW e \in Executors, Acts(e), UNCHANGED journal,
         last[plan[e]] = "committed" => (pc'[e] = "abort" <=> pc[e] = "abort")
  PROVE  Stands' = Stands /\ (UNCHANGED disk => UNCHANGED Sealed!vars)
<1>1. ASSUME NEW q \in Plans PROVE Stand(q)' = Stand(q)
  <2>1. CASE q = plan[e]
    <3>1. last[q] = "committed" => (Doubtful(q)' <=> Doubtful(q))
      BY <2>1 DEF Doubtful, Acts, Stays, journal
    <3>. QED BY <3>1, StandSame DEF journal
  <2>2. CASE q # plan[e]
    BY <2>2, StandElse
  <2>. QED BY <2>1, <2>2
<1>2. Stands' = Stands
  BY <1>1 DEF Stands
<1>. QED BY <1>2 DEF Sealed!vars, disk, journal

\* What an executor at work knows of its plan.
LEMMA AtWork ==
  ASSUME IInv, CourseInv, NEW e \in Executors, pc[e] \in Changing
  PROVE  /\ ExecutionType /\ ExecutorInv(e) /\ Course(e) /\ pc[e] \in Inside
         /\ plan[e] \in Plans /\ dir[e] \in Directions
         /\ pc[e] # "prepare" => way[plan[e]] = dir[e]
  BY At DEF CourseInv, Course, Inside, Changing

\* A line of the journal in the terms of SealedPlan.
LEMMA LineWritten ==
  ASSUME ExecutionType, NEW e \in Executors, plan[e] \in Plans, NEW s, Write(e, s)
  PROVE  /\ last'[plan[e]] = s
         /\ way' = [way EXCEPT ![plan[e]] = dir[e]]
         /\ way[plan[e]] = dir[e] => way' = way
         /\ s # "committed" => spent' = spent
         /\ s = "committed" => spent' = [spent EXCEPT ![plan[e]] = @ \cup {dir[e]}]
  BY DEF Write, ExecutionType

LEMMA PrepareSealed ==
  ASSUME IInv, CourseInv, NEW e \in Executors, Prepare(e)
  PROVE  Sealed!Next \/ UNCHANGED Sealed!vars
<1>. PICK p : p = plan[e]
  OBVIOUS
<1>. PICK d : d = dir[e]
  OBVIOUS
<1>1. pc[e] = "prepare" /\ pc[e] \in Changing
  BY DEF Prepare, Changing
<1>2. Acts(e) /\ ExecutionType /\ ExecutorInv(e) /\ Course(e) /\ p \in Plans /\ d \in Directions
  BY <1>1, PrepareSound, AtWork DEF Sound
<1>3. UNCHANGED disk
  BY DEF Prepare, Append
<1>4. CASE UNCHANGED journal
  <2>1. pc'[e] # "abort"
    BY <1>2 DEF Prepare, Append, Goto, ExecutionType
  <2>. QED BY <1>1, <1>2, <1>3, <1>4, <2>1, StandsStill
<1>5. CASE Write(e, "prepared")
  <2>1. Sealed!Become(p, "going")
    BY <1>2, <1>5, LineWritten, StandingThen, Becomes
  <2>2. d \notin spent[p]
    BY <1>1, <1>2 DEF ExecutorInv, Fresh
  <2>3. Whole(p, From(d))
    BY <1>1, <1>2 DEF ExecutorInv, Placed, Extent, Left, Whole
  <2>4. d = "forward" => Shown(p)
    BY <1>1, <1>2 DEF Course
  <2>5. way' = [way EXCEPT ![p] = d] /\ UNCHANGED <<spent, place, oldShown>>
    BY <1>2, <1>3, <1>5, LineWritten DEF disk
  <2>6. Sealed!Depart(p, d)
    BY <2>1, <2>2, <2>3, <2>4, <2>5 DEF Sealed!Depart, Sealed!Whole, Sealed!Shown, Sealed!FilesOf,
       Sealed!From, Whole, Shown, Replacing, FilesOf, From
  <2>. QED BY <1>2, <2>6 DEF Sealed!Next, Sealed!Directions, Directions
<1>. QED BY <1>4, <1>5 DEF Prepare, Append

LEMMA CommitSealed ==
  ASSUME IInv, CourseInv, NEW e \in Executors, Commit(e)
  PROVE  Sealed!Next \/ UNCHANGED Sealed!vars
<1>. PICK p : p = plan[e]
  OBVIOUS
<1>. PICK d : d = dir[e]
  OBVIOUS
<1>1. pc[e] = "commit" /\ pc[e] \in Changing
  BY DEF Commit, Changing
<1>2. /\ Acts(e) /\ ExecutionType /\ ExecutorInv(e) /\ Course(e) /\ p \in Plans
      /\ d \in Directions /\ way[p] = d /\ pc[e] \in Inside
  BY <1>1, CommitSound, AtWork DEF Sound
<1>3. last[p] = "prepared" /\ d \notin spent[p] /\ UNCHANGED disk
  BY <1>1, <1>2 DEF ExecutorInv, Line, Course, Concluding, Commit, Append
<1>4. CASE UNCHANGED journal
  BY <1>2, <1>3, <1>4, StandsStill
<1>5. CASE Write(e, "committed")
  <2>1. PICK s : s = IF pc'[e] = "abort" THEN "doubtful" ELSE To(d)
    OBVIOUS
  <2>2. last'[p] = "committed" /\ way' = way
    BY <1>2, <1>5, LineWritten
  <2>3. Doubtful(p)' <=> pc'[e] = "abort"
    BY <1>2, <2>2, DoubtOwn
  <2>4. Stand(p)' = s
    BY <1>2, <2>1, <2>2, <2>3, StandingThen
  <2>5. Sealed!Become(p, s)
    BY <1>2, <2>4, Becomes
  <2>6. Stands[p] = "going"
    BY <1>2, <1>3, Standing DEF Stands
  <2>7. Whole(p, To(d)) /\ (d = "inverse" => Shown(p))
    BY <1>1, <1>2 DEF ExecutorInv, Placed, Extent, Concluding, Linked, Whole
  <2>8. spent' = [spent EXCEPT ![p] = @ \cup {d}] /\ UNCHANGED <<way, place, oldShown>>
    BY <1>2, <1>3, <1>5, LineWritten DEF disk
  <2>9. Sealed!Commit(p, s)
    BY <1>2, <1>3, <2>1, <2>5, <2>6, <2>7, <2>8 DEF Sealed!Commit, Sealed!Whole, Sealed!Shown,
       Sealed!FilesOf, Sealed!To, Whole, Shown, Replacing, FilesOf, To
  <2>10. s \in {"source", "target", "doubtful"}
    BY <2>1 DEF To
  <2>. QED BY <1>2, <2>9, <2>10 DEF Sealed!Next
<1>. QED BY <1>4, <1>5 DEF Commit, Append

\* A commit that is taken back, or left as it is.
LEMMA AbortSealed ==
  ASSUME IInv, CourseInv, NEW e \in Executors, Abort(e)
  PROVE  Sealed!Next \/ UNCHANGED Sealed!vars
<1>. PICK p : p = plan[e]
  OBVIOUS
<1>1. pc[e] = "abort" /\ pc[e] \in Changing
  BY DEF Abort, Changing
<1>2. /\ Acts(e) /\ ExecutionType /\ p \in Plans /\ way[p] = dir[e] /\ pc[e] \in Inside
      /\ last[p] \in {"prepared", "committed"}
  BY <1>1, AbortSound, AtWork DEF Sound, Course
<1>3. UNCHANGED disk
  BY DEF Abort, Append
<1>4. pc'[e] # "abort"
  BY <1>2 DEF Abort, Append, AfterUndo, Goto, ExecutionType
<1>5. Stands[p] = IF last[p] = "committed" THEN "doubtful" ELSE "going"
  BY <1>1, <1>2, DoubtOwn, Standing DEF Stands
<1>6. CASE UNCHANGED journal /\ last[p] = "prepared"
  BY <1>2, <1>3, <1>6, StandsStill
<1>7. CASE UNCHANGED journal /\ last[p] = "committed"
  <2>1. ~Doubtful(p)' /\ last'[p] = "committed" /\ way'[p] = way[p]
    BY <1>2, <1>4, <1>7, DoubtOwn DEF journal
  <2>2. Stand(p)' = To(way[p])
    BY <2>1, StandingThen
  <2>3. Sealed!Become(p, To(way[p]))
    BY <1>2, <2>2, Becomes
  <2>4. Sealed!Confirm(p)
    BY <1>3, <1>5, <1>7, <2>3 DEF Sealed!Confirm, Sealed!To, To, disk, journal
  <2>. QED BY <1>2, <2>4 DEF Sealed!Next
<1>8. CASE Write(e, "rolling-back")
  <2>1. Sealed!Become(p, "returning")
    BY <1>2, <1>8, LineWritten, StandingThen, Becomes
  <2>2. UNCHANGED <<way, spent, place, oldShown>>
    BY <1>2, <1>3, <1>8, LineWritten DEF disk
  <2>3. Sealed!Retreat(p)
    BY <1>2, <1>5, <2>1, <2>2 DEF Sealed!Retreat
  <2>. QED BY <1>2, <2>3 DEF Sealed!Next
<1>. QED BY <1>2, <1>6, <1>7, <1>8 DEF Abort, Append

LEMMA UndoneSealed ==
  ASSUME IInv, CourseInv, NEW e \in Executors, Undone(e)
  PROVE  Sealed!Next \/ UNCHANGED Sealed!vars
<1>. PICK p : p = plan[e]
  OBVIOUS
<1>1. pc[e] = "undone" /\ pc[e] \in Changing
  BY DEF Undone, Changing
<1>2. /\ Acts(e) /\ ExecutionType /\ ExecutorInv(e) /\ p \in Plans /\ way[p] = dir[e]
      /\ dir[e] \in Directions
  BY <1>1, UndoneSound, AtWork DEF Sound
<1>3. last[p] = "rolling-back" /\ UNCHANGED disk
  BY <1>1, <1>2 DEF ExecutorInv, Line, Retreating, Undone, Append
<1>4. CASE UNCHANGED journal
  BY <1>2, <1>3, <1>4, StandsStill
<1>5. CASE Write(e, "rolled-back")
  <2>1. UNCHANGED <<way, spent, place, oldShown>>
    BY <1>2, <1>3, <1>5, LineWritten DEF disk
  <2>2. Stand(p)' = From(way[p])
    BY <1>2, <1>5, <2>1, LineWritten, StandingThen
  <2>3. Sealed!Become(p, From(way[p]))
    BY <1>2, <2>2, Becomes
  <2>4. Stands[p] = "returning"
    BY <1>2, <1>3, Standing DEF Stands
  <2>5. Whole(p, From(way[p])) /\ (way[p] = "forward" => Shown(p))
    BY <1>1, <1>2 DEF ExecutorInv, Placed, Extent, Retreating, Linked, Left, Whole
  <2>6. Sealed!Return(p)
    BY <2>1, <2>3, <2>4, <2>5 DEF Sealed!Return, Sealed!Whole, Sealed!Shown,
       Sealed!FilesOf, Sealed!From, Whole, Shown, Replacing, FilesOf, From
  <2>. QED BY <1>2, <2>6 DEF Sealed!Next
<1>. QED BY <1>4, <1>5 DEF Undone, Append

LEMMA BrokenSealed ==
  ASSUME IInv, CourseInv, NEW e \in Executors, Broken(e)
  PROVE  Sealed!Next \/ UNCHANGED Sealed!vars
<1>. PICK p : p = plan[e]
  OBVIOUS
<1>1. pc[e] = "broken" /\ pc[e] \in Changing
  BY DEF Broken, Changing
<1>2. Acts(e) /\ ExecutionType /\ ExecutorInv(e) /\ p \in Plans /\ way[p] = dir[e]
  BY <1>1, BrokenSound, AtWork DEF Sound
<1>3. last[p] = "rolling-back" /\ UNCHANGED disk
  BY <1>1, <1>2 DEF ExecutorInv, Line, Broken, Append
<1>4. CASE UNCHANGED journal
  BY <1>2, <1>3, <1>4, StandsStill
<1>5. CASE Write(e, "rollback-failed")
  <2>1. Sealed!Become(p, "broken")
    BY <1>2, <1>5, LineWritten, StandingThen, Becomes
  <2>2. Stands[p] = "returning" /\ UNCHANGED <<way, spent, place, oldShown>>
    BY <1>2, <1>3, <1>5, LineWritten, Standing DEF Stands, disk
  <2>3. Sealed!Break(p)
    BY <2>1, <2>2 DEF Sealed!Break
  <2>. QED BY <1>2, <2>3 DEF Sealed!Next
<1>. QED BY <1>4, <1>5 DEF Broken, Append

LEMMA MoveSealed ==
  ASSUME IInv, CourseInv, NEW e \in Executors, NEW f \in Files, Move(e, f)
  PROVE  Sealed!Next \/ UNCHANGED Sealed!vars
<1>. PICK p : p = plan[e]
  OBVIOUS
<1>. PICK d : d = dir[e]
  OBVIOUS
<1>1. pc[e] = "move" /\ pc[e] \in Changing
  BY DEF Move, Changing
<1>2. /\ Acts(e) /\ ExecutionType /\ ExecutorInv(e) /\ Course(e) /\ p \in Plans
      /\ d \in Directions /\ way[p] = d
  BY <1>1, MoveSound, AtWork DEF Sound
<1>3. last[p] = "prepared" /\ d \notin spent[p] /\ UNCHANGED journal
  BY <1>1, <1>2 DEF ExecutorInv, Line, Course, Move
<1>4. UNCHANGED <<Stands, way, spent>>
  BY <1>2, <1>3, StandsStill DEF journal
<1>5. CASE UNCHANGED disk
  BY <1>4, <1>5 DEF Sealed!vars, disk
<1>6. CASE place[f] = From(d) /\ Put(f, d)
  <2>1. Stands[p] = "going"
    BY <1>2, <1>3, Standing DEF Stands
  <2>2. f \in FilesOf(p)
    BY DEF Move, Left
  <2>3. Sealed!Advance(p, f)
    BY <1>2, <1>3, <1>4, <1>6, <2>1, <2>2 DEF Sealed!Advance, Sealed!FilesOf, Sealed!From, Sealed!To,
       Put, FilesOf, From, To
  <2>. QED BY <1>2, <2>3 DEF Sealed!Next
<1>. QED BY <1>5, <1>6 DEF Move

LEMMA UndoSealed ==
  ASSUME IInv, CourseInv, NEW e \in Executors, NEW f \in Files, Undo(e, f)
  PROVE  Sealed!Next \/ UNCHANGED Sealed!vars
<1>. PICK p : p = plan[e]
  OBVIOUS
<1>. PICK d : d = dir[e]
  OBVIOUS
<1>1. pc[e] = "undo" /\ pc[e] \in Changing
  BY DEF Undo, Changing
<1>2. /\ Acts(e) /\ ExecutionType /\ ExecutorInv(e) /\ p \in Plans
      /\ d \in Directions /\ way[p] = d
  BY <1>1, UndoSound, AtWork DEF Sound
<1>3. last[p] = "rolling-back" /\ UNCHANGED <<journal, oldShown>>
  BY <1>1, <1>2 DEF ExecutorInv, Line, Undo
<1>4. UNCHANGED <<Stands, way, spent, oldShown>>
  BY <1>2, <1>3, StandsStill DEF journal
<1>5. CASE UNCHANGED place
  BY <1>4, <1>5 DEF Sealed!vars
<1>6. CASE ~Obstructed(e, f) /\ place' = [place EXCEPT ![f] = From(d)]
  <2>1. Stands[p] = "returning"
    BY <1>2, <1>3, Standing DEF Stands
  <2>2. f \in FilesOf(p)
    BY <1>1, <1>2 DEF Undo, ExecutorInv, Placed
  <2>3. Sealed!Recede(p, f)
    BY <1>2, <1>4, <1>6, <2>1, <2>2 DEF Sealed!Recede, Sealed!FilesOf, Sealed!From, Sealed!To,
       Obstructed, FilesOf, From, To
  <2>. QED BY <1>2, <2>3 DEF Sealed!Next
<1>. QED BY <1>5, <1>6 DEF Undo

LEMMA RestoreSealed ==
  ASSUME IInv, CourseInv, NEW e \in Executors, Restore(e)
  PROVE  Sealed!Next \/ UNCHANGED Sealed!vars
<1>. PICK p : p = plan[e]
  OBVIOUS
<1>. PICK d : d = dir[e]
  OBVIOUS
<1>1. pc[e] = "restore" /\ pc[e] \in Changing
  BY DEF Restore, Changing
<1>2. /\ Acts(e) /\ ExecutionType /\ ExecutorInv(e) /\ p \in Plans
      /\ d \in Directions /\ way[p] = d
  BY <1>1, RestoreSound, AtWork DEF Sound
<1>3. UNCHANGED <<journal, place>>
  BY DEF Restore
<1>4. /\ d = "inverse" => last[p] = "prepared"
      /\ d = "forward" => last[p] = "rolling-back"
  BY <1>1, <1>2 DEF ExecutorInv, Line, Concluding, Retreating
<1>5. UNCHANGED <<Stands, way, spent, place>>
  BY <1>2, <1>3, <1>4, StandsStill DEF journal, Directions
<1>6. CASE UNCHANGED oldShown
  BY <1>5, <1>6 DEF Sealed!vars
<1>7. CASE oldShown' = oldShown \cup Replacing(p)
  <2>1. \/ Stands[p] = "going" /\ way[p] = "inverse"
        \/ Stands[p] = "returning" /\ way[p] = "forward"
    BY <1>2, <1>4, Standing DEF Stands, Directions
  <2>2. ASSUME d = "inverse" PROVE Whole(p, "source")
    <3>1. moved[e] = FilesOf(p)
      BY <1>1, <1>2, <2>2 DEF ExecutorInv, Extent, Concluding
    <3>. QED BY <1>1, <1>2, <2>2, <3>1 DEF ExecutorInv, Placed, To, Whole
  <2>3. ASSUME d = "forward" PROVE Whole(p, "source")
    <3>1. moved[e] = {}
      BY <1>1, <1>2, <2>3 DEF ExecutorInv, Extent, Retreating
    <3>. QED BY <1>1, <1>2, <2>3, <3>1 DEF ExecutorInv, Placed, From, Left, Whole
  <2>4. Whole(p, "source")
    BY <1>2, <2>2, <2>3 DEF Directions
  <2>5. Sealed!Relink(p)
    BY <1>5, <1>7, <2>1, <2>4 DEF Sealed!Relink, Sealed!Whole, Sealed!FilesOf, Whole, FilesOf,
       Replacing
  <2>. QED BY <1>2, <2>5 DEF Sealed!Next
<1>. QED BY <1>6, <1>7 DEF Restore

LEMMA StepSealed ==
  ASSUME IInv, CourseInv, NEW e \in Executors, ExecutorStep(e)
  PROVE  Sealed!Next \/ UNCHANGED Sealed!vars
<1>1. ASSUME Acquire(e) \/ Preflight(e) \/ Verify(e) \/ Release(e)
      PROVE  UNCHANGED Sealed!vars
  <2>1. Acts(e) /\ plan[e] \in Plans /\ ExecutionType /\ ExecutorInv(e)
    <3>1. Sound(e) /\ pc[e] \notin {"idle", "exit"}
      BY StepSound DEF Free
    <3>. QED BY <3>1, At DEF Sound
  <2>2. UNCHANGED <<disk, journal>>
    BY <1>1 DEF Acquire, Preflight, Verify, Release
  <2>3. \/ pc[e] # "abort" /\ pc'[e] # "abort"
        \/ last[plan[e]] = "prepared"
    <3>1. CASE Verify(e)
      BY <2>1, <3>1 DEF Verify, ExecutorInv, Line, Concluding
    <3>2. CASE Acquire(e) \/ Preflight(e) \/ Release(e)
      BY <2>1, <3>2 DEF Acquire, Preflight, Release, Goto, ExecutionType
    <3>. QED BY <1>1, <3>1, <3>2
  <2>. QED BY <2>1, <2>2, <2>3, StandsStill
<1>. QED BY <1>1, PrepareSealed, MoveSealed, UndoSealed, RestoreSealed, CommitSealed, AbortSealed,
     UndoneSealed, BrokenSealed DEF ExecutorStep

\* Nobody is inside who was not, and the journals stay.
LEMMA StandsAside ==
  ASSUME UNCHANGED journal,
         \A a \in Executors : /\ pc'[a] = "abort" <=> pc[a] = "abort"
                              /\ pc[a] = "abort" => plan'[a] = plan[a]
  PROVE  Stands' = Stands
<1>1. \A q \in Plans : Doubtful(q)' <=> Doubtful(q)
  BY DEF Doubtful, journal
<1>2. \A q \in Plans : Stand(q)' = Stand(q)
  BY <1>1, StandSame DEF journal
<1>. QED BY <1>2 DEF Stands

\* Who dies without having written that it takes its commit back has confirmed it.
LEMMA KilledSealed ==
  ASSUME IInv, NEW e \in Executors, Killed(e), faults' \in {faults, faults + 1}
  PROVE  Sealed!Next \/ UNCHANGED Sealed!vars
<1>1. /\ UNCHANGED <<disk, journal, locked, plan, dir, moved>> /\ pc'[e] = "exit"
      /\ \A a \in Executors \ {e} : Stays(a)
  BY DEF Killed, Goto, mind, Stays, IInv, ExecutionType
<1>2. Acts(e)
  BY <1>1 DEF Acts, Same, disk, journal, Inside, Changing
<1>3. CASE pc[e] = "abort" /\ last[plan[e]] = "committed"
  <2>. PICK p : p = plan[e]
    OBVIOUS
  <2>1. p \in Plans /\ pc[e] \in Inside
    BY <1>3, At DEF Inside, Changing
  <2>2. Doubtful(p) /\ ~Doubtful(p)'
    BY <1>1, <1>2, <1>3, <2>1, DoubtOwn
  <2>3. Stands[p] = "doubtful"
    BY <1>3, <2>1, <2>2, Standing DEF Stands
  <2>4. Stand(p)' = To(way[p])
    BY <1>1, <1>3, <2>2, StandingThen DEF journal
  <2>5. Sealed!Become(p, To(way[p]))
    BY <1>2, <2>1, <2>4, Becomes
  <2>6. Sealed!Confirm(p)
    BY <1>1, <2>3, <2>5 DEF Sealed!Confirm, Sealed!To, To, disk, journal
  <2>. QED BY <2>1, <2>6 DEF Sealed!Next
<1>4. CASE ~(pc[e] = "abort" /\ last[plan[e]] = "committed")
  <2>1. Stands' = Stands /\ (UNCHANGED disk => UNCHANGED Sealed!vars)
    BY <1>1, <1>2, <1>4, StandsStill
  <2>. QED BY <1>1, <2>1
<1>. QED BY <1>3, <1>4

LEMMA IntrudeSealed ==
  ASSUME IInv, NEW f \in Files, Intrude(f)
  PROVE  Sealed!Next
<1>1. UNCHANGED <<oldShown, journal, pc, plan>>
  BY DEF Intrude, mind
<1>2. Stands' = Stands
  BY <1>1, StandsAside
<1>3. Sealed!TakeAway(f)
  BY <1>1, <1>2 DEF Sealed!TakeAway, Intrude, journal
<1>. QED BY <1>3 DEF Sealed!Next

\* Whichever executors come, fail or die, and whatever they had read before they had
\* the lock: what happens to plans, files and older videos is what SealedPlan allows.
\* No file moves in a direction that has been committed, and none over an older
\* video on the way back; a commit has all files at one side.
THEOREM PlansAreTransactions == Spec => ImplementsSealed
<1>1. Init => Sealed!Init
  <2>. SUFFICES ASSUME Init PROVE Sealed!Init
    OBVIOUS
  <2>1. Stands = [p \in Plans |-> "source"]
    BY DEF Init, ExecutionInit, Stands, Stand
  <2>. QED BY <2>1 DEF Init, ExecutionInit, Sealed!Init
<1>2. IInv /\ CourseInv /\ [Next]_vars => [Sealed!Next]_(Sealed!vars)
  <2>. SUFFICES ASSUME IInv, CourseInv, [Next]_vars
                PROVE  Sealed!Next \/ UNCHANGED Sealed!vars
    OBVIOUS
  <2>1. ASSUME NEW e \in Executors, NEW p \in Plans, NEW d \in Directions, Launch(e, p, d)
        PROVE  UNCHANGED Sealed!vars
    <3>1. UNCHANGED <<disk, journal>>
      BY <2>1 DEF Launch
    <3>2. \A a \in Executors : /\ pc'[a] = "abort" <=> pc[a] = "abort"
                               /\ pc[a] = "abort" => plan'[a] = plan[a]
      BY <2>1 DEF Launch, Free, Goto, IInv, ExecutionType
    <3>. QED BY <3>1, <3>2, StandsAside DEF Sealed!vars, disk, journal
  <2>2. ASSUME UNCHANGED <<disk, journal, locked, pc, mind, outcome>>
        PROVE  UNCHANGED Sealed!vars
    <3>1. UNCHANGED <<disk, journal, pc, plan>>
      BY <2>2 DEF mind
    <3>. QED BY <3>1, StandsAside DEF Sealed!vars, disk, journal
  <2>. QED BY <2>1, <2>2, StepSealed, KilledSealed, IntrudeSealed, NextCases
<1>. QED BY <1>1, <1>2, SpecCourse, PTL DEF Spec, ImplementsSealed, Sealed!Spec

-----------------------------------------------------------------------------
(* The batch and its executor *)

\* The executor of a batch runs while the batch waits for it, or is left over by
\* a batch that was killed; until then the application is stopped.
Attended ==
  /\ stage \notin {"forwarding", "backing", "dead"} => Free(Child)
  /\ stage # "dead" /\ pc[Child] \in Changing => ~serving

LEMMA StepAttended ==
  ASSUME IInv, IInv', Attended, [Next]_vars PROVE Attended'
<1>1. Child \in Executors /\ ExecutionType /\ ExecutionType'
  BY BatchAssumption DEF IInv
<1>2. ASSUME NEW e \in Executors, Executing(e) PROVE Attended'
  <2>1. ~Free(e) /\ UNCHANGED <<stage, serving>>
    <3>1. ExecutorStep(e) /\ UNCHANGED batchVars
      BY <1>2 DEF Executing
    <3>2. serving' = serving
      BY <3>1 DEF ExecutorStep, Acquire, Preflight, Prepare, Move, Undo, Verify, Restore, Commit,
         Abort, Undone, Broken, Release, Append
    <3>. QED BY <3>1, <3>2, StepSound DEF batchVars
  <2>2. \A a \in Executors \ {e} : pc'[a] = pc[a]
    BY <1>2, StepSound DEF Executing, Sound, Acts, Stays
  <2>3. CASE e = Child
    <3>1. stage \in {"forwarding", "backing", "dead"}
      BY <2>1, <2>3 DEF Attended
    <3>2. pc'[Child] \in Changing => pc[Child] \in Changing \/ ~serving
      <4>1. CASE Preflight(Child)
        BY <1>1, <4>1 DEF Preflight, Goto, Changing, ExecutionType
      <4>2. CASE Acquire(Child) \/ Release(Child)
        BY <1>1, <4>2 DEF Acquire, Release, Goto, Changing, ExecutionType
      <4>3. CASE pc[Child] \in Changing
        BY <4>3
      <4>4. \/ Preflight(Child) \/ Acquire(Child) \/ Release(Child)
            \/ pc[Child] \in Changing
        BY <1>2, <2>3 DEF Executing, ExecutorStep, Prepare, Move, Undo, Verify, Restore, Commit,
           Abort, Undone, Broken, Changing
      <4>. QED BY <4>1, <4>2, <4>3, <4>4
    <3>. QED BY <2>1, <3>1, <3>2 DEF Attended
  <2>4. CASE e # Child
    BY <1>1, <2>1, <2>2, <2>4 DEF Attended, Free
  <2>. QED BY <2>3, <2>4
<1>3. CASE BatchStep
  <2>1. CASE Check \/ Close
    BY <2>1 DEF Check, Close, Attended, Free, executionVars
  <2>2. CASE Stop \/ Start
    BY <2>2 DEF Stop, Start, Attended, Free, Changing
  <2>3. CASE Forwarded \/ Backed
    BY <2>3 DEF Forwarded, Backed, Attended, Free, executionVars, Changing
  <2>4. CASE Inspect
    BY <2>4 DEF Inspect, Attended, Free
  <2>5. ASSUME NEW p \in Plans, NEW d \in Directions, Launch(Child, p, d), stage # "dead",
               stage' \in {"forwarding", "backing"}
        PROVE  Attended'
    <3>1. pc'[Child] \in {"exit", "acquire"}
      BY <1>1, <2>5 DEF Launch, Goto, ExecutionType
    <3>. QED BY <2>5, <3>1 DEF Attended, Changing
  <2>6. ASSUME NEW p \in Plans, Forward(p) PROVE Attended'
    <3>1. /\ Launch(Child, p, "forward") /\ stage # "dead" /\ stage' \in {"forwarding", "backing"}
          /\ "forward" \in Directions
      BY <2>6 DEF Forward, Call, Directions
    <3>. QED BY <2>5, <3>1
  <2>7. ASSUME NEW p \in Plans, Back(p) PROVE Attended'
    <3>1. CASE Call(p, "inverse") /\ stage' = "backing"
      <4>1. Launch(Child, p, "inverse") /\ stage # "dead" /\ "inverse" \in Directions
        BY <2>7, <3>1 DEF Back, Call, Directions
      <4>. QED BY <2>5, <3>1, <4>1
    <3>2. CASE UNCHANGED <<stage, pc, serving>>
      BY <3>2 DEF Attended, Free
    <3>. QED BY <2>7, <3>1, <3>2 DEF Back, executionVars
  <2>. QED BY <1>3, <2>1, <2>2, <2>3, <2>4, <2>6, <2>7 DEF BatchStep
<1>4. CASE Environment
  <2>1. ASSUME NEW S \in SUBSET Plans \ {{}}, Begin(S) PROVE Attended'
    BY <2>1 DEF Begin, executionVars, Attended, Free
  <2>2. CASE Crash
    BY <2>2 DEF Crash, Attended
  <2>3. CASE Reopen
    BY <2>3 DEF Reopen, Attended, Free, batchVars, Changing
  <2>4. CASE Interrupt
    BY <1>1, <2>4 DEF Interrupt, Killed, Goto, batchVars, Attended, Free, ExecutionType, Changing
  <2>5. ASSUME NEW e \in Executors, KillStray(e) PROVE Attended'
    BY <1>1, <2>5 DEF KillStray, Killed, Goto, batchVars, Attended, Free, ExecutionType, Changing
  <2>6. ASSUME NEW e \in Executors, NEW p \in Plans, NEW d \in Directions, ByHand(e, p, d)
        PROVE  Attended'
    BY <1>1, <2>6 DEF ByHand, Launch, Goto, Attended, Free, ExecutionType
  <2>7. ASSUME NEW f \in Files, Intrude(f), UNCHANGED batchVars PROVE Attended'
    BY <2>7 DEF Intrude, batchVars, Attended, Free
  <2>. QED BY <1>4, <2>1, <2>2, <2>3, <2>4, <2>5, <2>6, <2>7 DEF Environment
<1>5. CASE UNCHANGED vars
  BY <1>5 DEF vars, executionVars, batchVars, Attended, Free
<1>. QED BY <1>2, <1>3, <1>4, <1>5 DEF Next

LEMMA SpecAttended == Spec => []Attended
<1>1. Init => Attended
  BY BatchAssumption DEF Init, ExecutionInit, BatchInit, Attended, Free, Changing
<1>. QED BY <1>1, SpecIInv, StepAttended, PTL DEF Spec

\* The executor of a batch changes files only while the application is stopped,
\* whatever times out, fails or is killed.
THEOREM StoppedForChangesAlways == Spec => []StoppedForChanges
<1>1. Attended => StoppedForChanges
  BY DEF Attended, StoppedForChanges
<1>. QED BY SpecAttended, <1>1, PTL

-----------------------------------------------------------------------------
(* What a batch reports *)

Early == {"idle", "check", "stop", "forward", "forwarding", "inspect"}

BatchType ==
  /\ stage \in Early \cup {"back", "backing", "start", "done", "dead"}
  /\ batch \subseteq Plans /\ committed \subseteq batch
  /\ rolledBack \subseteq committed /\ missed \subseteq committed
  /\ failed \in BOOLEAN /\ byHand \in Nat

\* What the batch remembers, at each stage.
Phases ==
  /\ stage \in {"forwarding", "inspect"} =>
       at \in batch /\ plan[Child] = at /\ dir[Child] = "forward"
  /\ stage = "forwarding" => at \notin committed
  /\ stage = "inspect" => at \in committed
  /\ stage = "backing" => at \in ToUndo /\ plan[Child] = at /\ dir[Child] = "inverse"
  /\ stage \in Early => ~failed /\ rolledBack = {} /\ missed = {} /\ result = "none"
  /\ stage \in {"idle", "check", "stop"} => committed = {}
  /\ stage \in {"back", "backing"} => failed /\ result = "none"

\* What it reports, against that.
Verdicts ==
  /\ stage = "start" => result \in {"none", "aborted"}
  /\ stage = "dead" => result \in {"none", "aborted"}
  /\ stage = "start" /\ result = "none" /\ failed => ToUndo = {}
  /\ (stage = "start" /\ result = "none" /\ ~failed)
       \/ result \in {"committed", "service-restore-failed"} =>
       committed = batch /\ missed = {} /\ rolledBack = {}
  /\ result = "committed" => stage = "done" /\ serving
  /\ result = "rolled-back" => failed /\ missed = {} /\ ToUndo = {}

BatchInv == BatchType /\ Phases /\ Verdicts

\* A line "committed" for a plan.
Committed(p, d) == last[p] = "committed" /\ way[p] = d

\* As long as nobody executes plans by hand, the journals say what the batch has
\* in memory; the plans it has not come to have none.
Ledger ==
  /\ \A e \in Executors \ {Child} : pc[e] = "idle"
  /\ stage # "dead" =>
       /\ outcome[Child] = "committed" =>
            pc[Child] \in {"release", "exit"} /\ Committed(plan[Child], dir[Child])
       /\ \A p \in committed : \/ p \in rolledBack \cup missed
                               \/ (stage = "backing" /\ p = at)
                               \/ Committed(p, "forward")
       /\ \A p \in rolledBack : Committed(p, "inverse")
       /\ stage \in Early =>
            \A p \in Plans \ committed : (stage = "forwarding" /\ p = at) \/ last[p] = "none"
       /\ failed => \E q \in batch : \A p \in batch \ (committed \cup {q}) : last[p] = "none"

ReportInv == BatchInv /\ (byHand = 0 => Ledger)

LEMMA InitReportInv == Init => ReportInv
<1>. SUFFICES ASSUME Init PROVE ReportInv
  OBVIOUS
<1>1. BatchInv
  BY DEF Init, BatchInit, BatchInv, BatchType, Phases, Verdicts, Early
<1>2. Ledger
  BY BatchAssumption DEF Init, ExecutionInit, BatchInit, Ledger
<1>. QED BY <1>1, <1>2 DEF ReportInv

\* The memory of the batch. Its executor does not touch it.
LEMMA BatchKept ==
  ASSUME BatchInv, UNCHANGED batchVars, plan'[Child] = plan[Child], dir'[Child] = dir[Child],
         serving => serving'
  PROVE  BatchInv'
  BY DEF BatchInv, BatchType, Phases, Verdicts, ToUndo, batchVars

LEMMA StepBatchInv ==
  ASSUME IInv, BatchInv, Attended, [Next]_vars PROVE BatchInv'
<1>0. Child \in Executors /\ ExecutionType
  BY BatchAssumption DEF IInv
<1>. USE DEF BatchInv, BatchType, Phases, Verdicts, Early, ToUndo
<1>1. CASE BatchStep
  <2>1. CASE Check
    BY <2>1 DEF Check, mind
  <2>2. CASE Stop
    BY <2>2 DEF Stop, mind
  <2>3. ASSUME NEW p \in Plans, Forward(p) PROVE BatchInv'
    <3>1. plan'[Child] = p /\ dir'[Child] = "forward"
      BY <1>0, <2>3 DEF Forward, Call, Launch, ExecutionType
    <3>. QED BY <2>3, <3>1 DEF Forward, Call
  <2>4. CASE Forwarded
    BY <2>4 DEF Forwarded, executionVars, mind
  <2>5. CASE Inspect
    <3>1. /\ stage = "inspect" /\ UNCHANGED <<serving, batch, at, committed, rolledBack, missed,
                                            startFailed, result, byHand>>
          /\ plan'[Child] = plan[Child] /\ dir'[Child] = dir[Child]
          /\ \/ stage' = "forward" /\ failed' = failed
             \/ stage' = "back" /\ failed' = TRUE
      BY <2>5 DEF Inspect, mind
    <3>2. CASE stage' = "forward" /\ failed' = failed
      BY <3>1, <3>2
    <3>3. CASE stage' = "back" /\ failed' = TRUE
      BY <3>1, <3>3
    <3>. QED BY <3>1, <3>2, <3>3
  <2>6. ASSUME NEW p \in Plans, Back(p) PROVE BatchInv'
    <3>1. CASE Call(p, "inverse") /\ stage' = "backing" /\ UNCHANGED missed
      <4>1. plan'[Child] = p /\ dir'[Child] = "inverse"
        BY <1>0, <3>1 DEF Call, Launch, ExecutionType
      <4>. QED BY <2>6, <3>1, <4>1 DEF Back, Call
    <3>2. CASE missed' = missed \cup {p} /\ UNCHANGED <<stage, at, serving>>
      BY <2>6, <3>2 DEF Back
    <3>. QED BY <2>6, <3>1, <3>2 DEF Back, executionVars
  <2>7. CASE Backed
    BY <2>7 DEF Backed, executionVars
  <2>8. CASE Close
    BY <2>8 DEF Close, executionVars
  <2>9. CASE Start
    BY <2>9 DEF Start, Verdict
  <2>. QED BY <1>1, <2>1, <2>2, <2>3, <2>4, <2>5, <2>6, <2>7, <2>8, <2>9 DEF BatchStep
<1>2. ASSUME NEW e \in Executors, Executing(e) PROVE BatchInv'
  <2>1. ExecutorStep(e) /\ UNCHANGED batchVars
    BY <1>2 DEF Executing
  <2>2. serving' = serving
    BY <2>1 DEF ExecutorStep, Acquire, Preflight, Prepare, Move, Undo, Verify, Restore, Commit,
       Abort, Undone, Broken, Release, Append
  <2>3. plan'[Child] = plan[Child] /\ dir'[Child] = dir[Child]
    BY <1>0, <2>1, StepSound DEF Sound, Acts, Stays
  <2>. QED BY <2>1, <2>2, <2>3, BatchKept
<1>3. CASE Environment
  <2>1. ASSUME NEW S \in SUBSET Plans \ {{}}, Begin(S) PROVE BatchInv'
    BY <2>1 DEF Begin, executionVars
  <2>2. CASE Crash
    BY <2>2 DEF Crash
  <2>3. CASE Reopen \/ Interrupt
    BY <2>3, BatchKept DEF Reopen, Interrupt, Killed, mind
  <2>4. ASSUME NEW e \in Executors, KillStray(e) PROVE BatchInv'
    BY <2>4, BatchKept DEF KillStray, Killed, mind
  <2>5. ASSUME NEW e \in Executors, NEW p \in Plans, NEW d \in Directions, ByHand(e, p, d)
        PROVE  BatchInv'
    <3>1. plan'[Child] = plan[Child] /\ dir'[Child] = dir[Child] /\ byHand' \in Nat
      BY <1>0, <2>5 DEF ByHand, Launch, ExecutionType
    <3>. QED BY <2>5, <3>1 DEF ByHand
  <2>6. ASSUME NEW f \in Files, Intrude(f), UNCHANGED batchVars PROVE BatchInv'
    BY <2>6, BatchKept DEF Intrude, mind
  <2>. QED BY <1>3, <2>1, <2>2, <2>3, <2>4, <2>5, <2>6 DEF Environment
<1>4. CASE UNCHANGED vars
  BY <1>4, BatchKept DEF vars, executionVars, mind
<1>. QED BY <1>1, <1>2, <1>3, <1>4 DEF Next

\* A process says "committed" only after the line has been appended.
LEMMA OutcomeWritten ==
  ASSUME IInv, NEW e \in Executors, ExecutorStep(e),
         outcome[e] = "committed" => pc[e] \in {"release", "exit"} /\ Committed(plan[e], dir[e]),
         outcome'[e] = "committed"
  PROVE  pc'[e] \in {"release", "exit"} /\ Committed(plan[e], dir[e])'
<1>1. ExecutionType /\ ~Free(e) /\ plan[e] \in Plans
  BY StepSound, At DEF IInv, Free
<1>2. CASE Commit(e)
  <2>1. pc'[e] = "release"
    BY <1>1, <1>2 DEF Commit, ExecutionType
  <2>2. UNCHANGED <<plan, dir>>
    BY <1>2 DEF Commit, Append, mind
  <2>3. Write(e, "committed")
    BY <1>1, <1>2, <2>1 DEF Commit, Append, Goto, ExecutionType
  <2>. QED BY <1>1, <2>1, <2>2, <2>3 DEF Committed, Write, ExecutionType
<1>3. CASE Release(e)
  <2>1. UNCHANGED <<journal, plan, dir>> /\ pc'[e] = "exit"
    BY <1>1, <1>3 DEF Release, Goto, mind, ExecutionType
  <2>2. outcome[e] = "committed"
    BY <1>1, <1>3 DEF Release, ExecutionType
  <2>. QED BY <2>1, <2>2 DEF Committed, journal
<1>4. CASE ~Commit(e) /\ ~Release(e)
  <2>1. pc[e] \notin {"release", "exit"} /\ outcome' = outcome
    BY <1>4 DEF ExecutorStep, Acquire, Preflight, Prepare, Move, Undo, Verify, Restore, Abort,
       Undone, Broken
  <2>. QED BY <2>1
<1>. QED BY <1>2, <1>3, <1>4

\* The executor of the batch writes about the plan the batch is at.
LEMMA ExecutingLedger ==
  ASSUME IInv, BatchInv, Attended, Ledger, ExecutorStep(Child), UNCHANGED batchVars
  PROVE  Ledger'
<1>1. Child \in Executors
  BY BatchAssumption
<1>2. Acts(Child) /\ ~Free(Child) /\ plan'[Child] = plan[Child]
  BY <1>1, StepSound DEF Sound, Acts
<1>3. \A e \in Executors \ {Child} : pc'[e] = "idle"
  BY <1>2 DEF Acts, Stays, Ledger
<1>4. CASE stage # "dead"
  <2>1. stage \in {"forwarding", "backing"} /\ plan[Child] = at
    BY <1>2, <1>4 DEF Attended, BatchInv, Phases
  <2>2. \A p \in Plans \ {at} : last'[p] = last[p] /\ way'[p] = way[p]
    BY <1>2, <2>1 DEF Acts, Same
  <2>3. outcome'[Child] = "committed" =>
          pc'[Child] \in {"release", "exit"} /\ Committed(plan[Child], dir[Child])'
    BY <1>1, <1>4, OutcomeWritten DEF Ledger
  <2>4. \A p \in committed : \/ p \in rolledBack \cup missed
                            \/ (stage = "backing" /\ p = at)
                            \/ Committed(p, "forward")'
    <3>1. ASSUME NEW p \in committed, p # at PROVE last'[p] = last[p] /\ way'[p] = way[p]
      BY <2>2, <3>1 DEF BatchInv, BatchType
    <3>2. stage = "forwarding" => at \notin committed
      BY DEF BatchInv, Phases
    <3>3. ASSUME NEW p \in committed
          PROVE  \/ p \in rolledBack \cup missed
                 \/ (stage = "backing" /\ p = at)
                 \/ Committed(p, "forward")'
      <4>1. \/ p \in rolledBack \cup missed
            \/ (stage = "backing" /\ p = at)
            \/ Committed(p, "forward")
        BY <1>4 DEF Ledger
      <4>2. p = at => stage = "backing"
        BY <2>1, <3>2
      <4>3. p # at /\ Committed(p, "forward") => Committed(p, "forward")'
        BY <3>1 DEF Committed
      <4>. QED BY <4>1, <4>2, <4>3
    <3>. QED BY <3>3
  <2>5. \A p \in rolledBack : Committed(p, "inverse")'
    <3>1. at \notin rolledBack
      BY <2>1 DEF BatchInv, BatchType, Phases, ToUndo, Early
    <3>2. rolledBack \subseteq Plans
      BY DEF BatchInv, BatchType
    <3>. QED BY <1>4, <2>2, <3>1, <3>2 DEF Ledger, Committed
  <2>6. stage \in Early =>
          \A p \in Plans \ committed : (stage = "forwarding" /\ p = at) \/ last'[p] = "none"
    BY <1>4, <2>1, <2>2 DEF Ledger, Early
  <2>7. failed => \E q \in batch : \A p \in batch \ (committed \cup {q}) : last'[p] = "none"
    <3>1. SUFFICES ASSUME failed
                   PROVE  \E q \in batch : \A p \in batch \ (committed \cup {q}) : last'[p] = "none"
      OBVIOUS
    <3>2. stage = "backing" /\ at \in committed
      BY <2>1, <3>1 DEF BatchInv, Phases, Early, ToUndo
    <3>3. PICK q \in batch : \A p \in batch \ (committed \cup {q}) : last[p] = "none"
      BY <1>4, <3>1 DEF Ledger
    <3>4. \A p \in batch \ (committed \cup {q}) : last'[p] = "none"
      BY <2>2, <3>2, <3>3 DEF BatchInv, BatchType
    <3>. QED BY <3>4
  <2>. QED BY <1>3, <2>3, <2>4, <2>5, <2>6, <2>7 DEF Ledger, batchVars
<1>5. CASE stage = "dead"
  BY <1>3, <1>5 DEF Ledger, batchVars
<1>. QED BY <1>4, <1>5

\* A step that leaves executors and journals alone.
LEMMA MemoryLedger ==
  ASSUME IInv, BatchInv, BatchInv', Ledger, UNCHANGED <<last, way, pc, plan, dir>>,
         outcome'[Child] = outcome[Child],
         stage # "dead",
         \A p \in committed' : \/ p \in rolledBack' \cup missed'
                              \/ (stage' = "backing" /\ p = at')
                              \/ Committed(p, "forward"),
         \A p \in rolledBack' : Committed(p, "inverse"),
         stage' \in Early =>
            \A p \in Plans \ committed' : (stage' = "forwarding" /\ p = at') \/ last[p] = "none",
         failed' => \E q \in batch' : \A p \in batch' \ (committed' \cup {q}) : last[p] = "none"
  PROVE  Ledger'
<1>1. \A e \in Executors \ {Child} : pc'[e] = "idle"
  BY DEF Ledger
<1>2. outcome'[Child] = "committed" =>
         pc'[Child] \in {"release", "exit"} /\ Committed(plan[Child], dir[Child])'
  BY DEF Ledger, Committed
<1>3. \A p, d : Committed(p, d)' <=> Committed(p, d)
  BY DEF Committed
<1>. QED BY <1>1, <1>2, <1>3 DEF Ledger

\* The batch starts its executor.
LEMMA CallLedger ==
  ASSUME IInv, BatchInv, BatchInv', Ledger, stage # "dead",
         NEW p \in Plans, NEW d \in Directions, Call(p, d),
         UNCHANGED <<batch, committed, rolledBack, missed, failed>>,
         \/ stage = "forward" /\ stage' = "forwarding" /\ p \notin committed
         \/ stage = "back" /\ stage' = "backing"
  PROVE  Ledger'
<1>1. Child \in Executors /\ ExecutionType
  BY BatchAssumption DEF IInv
<1>2. /\ UNCHANGED <<last, way>> /\ at' = p /\ outcome'[Child] = "failed"
      /\ \A e \in Executors \ {Child} : pc'[e] = pc[e]
  BY <1>1 DEF Call, Launch, Goto, journal, ExecutionType
<1>3. \A q, c : Committed(q, c)' <=> Committed(q, c)
  BY <1>2 DEF Committed
<1>4. \A q \in committed : \/ q \in rolledBack \cup missed
                          \/ Committed(q, "forward")
  BY DEF Ledger
<1>5. stage \in Early => \A q \in Plans \ committed : last[q] = "none"
  BY DEF Ledger, Early
<1>. QED BY <1>2, <1>3, <1>4, <1>5 DEF Ledger, Early

LEMMA BatchLedger ==
  ASSUME IInv, BatchInv, BatchInv', Ledger, BatchStep PROVE Ledger'
<1>1. CASE Check \/ Stop
  <2>1. /\ UNCHANGED <<last, way, pc, plan, dir, outcome, committed, rolledBack, missed, failed,
                      batch>>
        /\ stage \in {"check", "stop"} /\ stage' \notin {"forwarding", "backing"}
    BY <1>1 DEF Check, Stop, journal, mind
  <2>. QED BY <2>1, MemoryLedger DEF Ledger, Early
<1>2. CASE Close \/ Start
  <2>1. /\ UNCHANGED <<last, way, pc, plan, dir, outcome, committed, rolledBack, missed, failed,
                      batch>>
        /\ stage \in {"forward", "back", "start"} /\ stage' \in {"start", "done"}
    BY <1>2 DEF Close, Start, journal, mind, executionVars
  <2>. QED BY <2>1, MemoryLedger DEF Ledger, Early
<1>3. ASSUME NEW p \in Plans, Forward(p) PROVE Ledger'
  <2>1. /\ Call(p, "forward") /\ UNCHANGED <<batch, committed, rolledBack, missed, failed>>
        /\ stage = "forward" /\ stage' = "forwarding" /\ p \notin committed
        /\ "forward" \in Directions
    BY <1>3 DEF Forward, Directions
  <2>. QED BY <2>1, CallLedger
<1>4. ASSUME NEW p \in Plans, Back(p) PROVE Ledger'
  <2>1. CASE Call(p, "inverse") /\ stage' = "backing" /\ UNCHANGED missed
    <3>1. /\ UNCHANGED <<batch, committed, rolledBack, missed, failed>> /\ stage = "back"
          /\ "inverse" \in Directions
      BY <1>4, <2>1 DEF Back, Directions
    <3>. QED BY <2>1, <3>1, CallLedger
  <2>2. CASE missed' = missed \cup {p} /\ stage' = "back"
             /\ UNCHANGED <<last, way, pc, plan, dir, outcome>>
    <3>1. stage = "back" /\ UNCHANGED <<batch, committed, rolledBack, failed>>
      BY <1>4 DEF Back
    <3>2. \A q \in committed : q \in rolledBack \cup missed' \/ Committed(q, "forward")
      BY <2>2, <3>1 DEF Ledger
    <3>. QED BY <2>2, <3>1, <3>2, MemoryLedger DEF Ledger, Early
  <2>3. stage = "back"
    BY <1>4 DEF Back
  <2>. QED BY <1>4, <2>1, <2>2, <2>3 DEF Back, executionVars, journal, mind
<1>5. CASE Forwarded
  <2>1. /\ stage = "forwarding" /\ UNCHANGED <<last, way, pc, plan, dir, outcome, batch, at,
                                              rolledBack, missed>>
        /\ \/ /\ outcome[Child] = "committed" /\ committed' = committed \cup {at}
              /\ stage' = "inspect" /\ failed' = failed
           \/ failed' = TRUE /\ stage' = "back" /\ committed' = committed
    BY <1>5 DEF Forwarded, executionVars, journal, mind
  <2>2. /\ at \in batch /\ plan[Child] = at /\ dir[Child] = "forward" /\ ~failed
        /\ batch \subseteq Plans
    BY <2>1 DEF BatchInv, BatchType, Phases, Early
  <2>3. /\ \A p \in committed : p \in rolledBack \cup missed \/ Committed(p, "forward")
        /\ \A p \in rolledBack : Committed(p, "inverse")
        /\ \A p \in Plans \ committed : p = at \/ last[p] = "none"
        /\ outcome[Child] = "committed" => Committed(at, "forward")
    BY <2>1, <2>2 DEF Ledger, Early
  <2>4. CASE /\ outcome[Child] = "committed" /\ committed' = committed \cup {at}
             /\ stage' = "inspect" /\ failed' = failed
    BY <2>1, <2>2, <2>3, <2>4, MemoryLedger
  <2>5. CASE failed' = TRUE /\ stage' = "back" /\ committed' = committed
    <3>1. \A p \in batch \ (committed \cup {at}) : last[p] = "none"
      BY <2>2, <2>3
    <3>. QED BY <2>1, <2>2, <2>3, <2>5, <3>1, MemoryLedger DEF Early
  <2>. QED BY <2>1, <2>4, <2>5
<1>6. CASE Inspect
  <2>1. /\ stage = "inspect" /\ UNCHANGED <<last, way, pc, plan, dir, outcome, batch, at, committed,
                                           rolledBack, missed>>
        /\ \/ stage' = "forward" /\ failed' = failed
           \/ failed' = TRUE /\ stage' = "back"
    BY <1>6 DEF Inspect, journal, mind
  <2>2. at \in batch /\ ~failed /\ batch \subseteq Plans
    BY <2>1 DEF BatchInv, BatchType, Phases, Early
  <2>3. /\ \A p \in committed : p \in rolledBack \cup missed \/ Committed(p, "forward")
        /\ \A p \in rolledBack : Committed(p, "inverse")
        /\ \A p \in Plans \ committed : last[p] = "none"
    BY <2>1 DEF Ledger, Early
  <2>4. \E q \in batch : \A p \in batch \ (committed \cup {q}) : last[p] = "none"
    BY <2>2, <2>3
  <2>. QED BY <2>1, <2>2, <2>3, <2>4, MemoryLedger DEF Early
<1>7. CASE Backed
  <2>1. /\ stage = "backing" /\ stage' = "back"
        /\ UNCHANGED <<last, way, pc, plan, dir, outcome, batch, committed, failed>>
        /\ \/ /\ outcome[Child] = "committed" /\ rolledBack' = rolledBack \cup {at}
              /\ missed' = missed
           \/ missed' = missed \cup {at} /\ rolledBack' = rolledBack
    BY <1>7 DEF Backed, executionVars, journal, mind
  <2>2. plan[Child] = at /\ dir[Child] = "inverse"
    BY <2>1 DEF BatchInv, Phases
  <2>3. /\ \A p \in committed : p \in rolledBack' \cup missed' \/ Committed(p, "forward")
        /\ \A p \in rolledBack' : Committed(p, "inverse")
        /\ failed => \E q \in batch : \A p \in batch \ (committed \cup {q}) : last[p] = "none"
    BY <2>1, <2>2 DEF Ledger
  <2>. QED BY <2>1, <2>3, MemoryLedger DEF Early
<1>. QED BY <1>1, <1>2, <1>3, <1>4, <1>5, <1>6, <1>7 DEF BatchStep

LEMMA EnvironmentLedger ==
  ASSUME IInv, BatchInv, BatchInv', Ledger, Environment, byHand' = 0, byHand = 0 PROVE Ledger'
<1>1. Child \in Executors /\ ExecutionType
  BY BatchAssumption DEF IInv
<1>2. ASSUME NEW S \in SUBSET Plans \ {{}}, Begin(S) PROVE Ledger'
  <2>1. /\ UNCHANGED <<last, way, pc, plan, dir, outcome, committed, rolledBack, missed, failed>>
        /\ stage = "idle" /\ stage' = "check"
    BY <1>2 DEF Begin, executionVars, journal, mind
  <2>2. ~failed
    BY <2>1 DEF BatchInv, Phases, Early
  <2>. QED BY <2>1, <2>2, MemoryLedger DEF Ledger, Early
<1>3. CASE Crash
  BY <1>3 DEF Crash, Ledger
<1>4. ASSUME UNCHANGED <<last, way, pc, plan, dir, outcome, batchVars>> PROVE Ledger'
  BY <1>4 DEF Ledger, Committed, batchVars
<1>5. ASSUME NEW e \in Executors, Killed(e), e = Child \/ ~Free(e), UNCHANGED batchVars
      PROVE  Ledger'
  <2>1. /\ UNCHANGED <<last, way, plan, dir>> /\ outcome'[e] = "failed"
        /\ \A a \in Executors \ {e} : pc'[a] = pc[a] /\ outcome'[a] = outcome[a]
    BY <1>1, <1>5 DEF Killed, Goto, journal, mind, ExecutionType
  <2>2. CASE e = Child
    BY <1>5, <2>1, <2>2 DEF Ledger, Committed, batchVars
  <2>3. CASE e # Child /\ ~Free(e)
    BY <2>3 DEF Ledger, Free
  <2>. QED BY <1>5, <2>2, <2>3
<1>6. CASE Reopen
  BY <1>4, <1>6 DEF Reopen, journal, mind
<1>7. CASE Interrupt
  BY <1>1, <1>5, <1>7 DEF Interrupt
<1>8. ASSUME NEW e \in Executors, KillStray(e) PROVE Ledger'
  BY <1>5, <1>8 DEF KillStray
<1>9. ASSUME NEW e \in Executors, NEW p \in Plans, NEW d \in Directions, ByHand(e, p, d)
      PROVE  FALSE
  BY <1>9 DEF ByHand
<1>10. ASSUME NEW f \in Files, Intrude(f), UNCHANGED batchVars PROVE Ledger'
  BY <1>4, <1>10 DEF Intrude, journal, mind
<1>. QED BY <1>2, <1>3, <1>6, <1>7, <1>8, <1>9, <1>10 DEF Environment

LEMMA StepReportInv ==
  ASSUME IInv, Attended, ReportInv, [Next]_vars PROVE ReportInv'
<1>1. BatchInv /\ BatchInv'
  BY StepBatchInv DEF ReportInv
<1>2. byHand' = 0 => byHand = 0
  <2>1. byHand \in Nat
    BY <1>1 DEF BatchInv, BatchType
  <2>2. ASSUME NEW e \in Executors, NEW p \in Plans, NEW d \in Directions, ByHand(e, p, d)
        PROVE  byHand' # 0
    BY <2>1, <2>2 DEF ByHand
  <2>3. CASE BatchStep
    BY <2>3 DEF BatchStep, Check, Stop, Forward, Forwarded, Inspect, Back, Backed, Close, Start
  <2>4. CASE Environment
    BY <2>2, <2>4 DEF Environment, Begin, Interrupt, Crash, Reopen, KillStray, Intrude, batchVars
  <2>. QED BY <2>3, <2>4 DEF Next, Executing, vars, batchVars
<1>3. ASSUME byHand' = 0 PROVE Ledger'
  <2>1. byHand = 0 /\ Ledger
    BY <1>2, <1>3 DEF ReportInv
  <2>2. CASE BatchStep
    BY <1>1, <2>1, <2>2, BatchLedger
  <2>3. CASE Environment
    BY <1>1, <1>3, <2>1, <2>3, EnvironmentLedger
  <2>4. ASSUME NEW e \in Executors, Executing(e) PROVE Ledger'
    <3>1. ExecutorStep(e) /\ UNCHANGED batchVars /\ ~Free(e)
      BY <2>4, StepSound DEF Executing
    <3>2. e = Child
      BY <2>1, <3>1 DEF Ledger, Free
    <3>. QED BY <1>1, <2>1, <3>1, <3>2, ExecutingLedger
  <2>5. CASE UNCHANGED vars
    BY <2>1, <2>5 DEF vars, executionVars, batchVars, mind, journal, Ledger, Committed
  <2>. QED BY <2>2, <2>3, <2>4, <2>5 DEF Next
<1>. QED BY <1>1, <1>3 DEF ReportInv

LEMMA SpecReport == Spec => []ReportInv
  BY InitReportInv, StepReportInv, SpecIInv, SpecAttended, PTL DEF Spec

\* What a batch reports of the sides its plans are at is so, for any number of
\* plans, failures and interruptions: after an undoing at most one is in doubt.
THEOREM ReportedAlways == Spec => []Reported
<1>1. ASSUME IInv, ReportInv PROVE Reported
  <2>1. SUFFICES ASSUME byHand = 0
        PROVE  /\ result = "committed" => serving
               /\ result \in {"committed", "service-restore-failed"} =>
                    \A p \in batch : Whole(p, "target")
               /\ result = "rolled-back" =>
                    \E q \in batch : \A p \in batch \ {q} : Whole(p, "source") /\ Shown(p)
               /\ result \in {"rolled-back", "rollback-failed"} =>
                    \A p \in rolledBack : Whole(p, "source") /\ Shown(p)
    BY DEF Reported
  <2>2. BatchInv /\ Ledger /\ batch \subseteq Plans /\ rolledBack \subseteq batch
    BY <1>1, <2>1 DEF ReportInv, BatchInv, BatchType
  <2>3. ASSUME NEW p \in Plans
        PROVE  /\ Committed(p, "forward") => Whole(p, "target")
               /\ Committed(p, "inverse") => Whole(p, "source") /\ Shown(p)
               /\ last[p] = "none" => Whole(p, "source") /\ Shown(p)
    BY <1>1, <2>3 DEF IInv, Truthful, Committed, To
  <2>4. ASSUME result \in {"committed", "service-restore-failed"}
        PROVE  \A p \in batch : Whole(p, "target")
    <3>1. stage \notin {"dead", "backing"} /\ committed = batch /\ missed = {} /\ rolledBack = {}
      BY <2>2, <2>4 DEF BatchInv, Phases, Verdicts
    <3>2. \A p \in batch : Committed(p, "forward")
      BY <2>2, <3>1 DEF Ledger
    <3>. QED BY <2>2, <2>3, <3>2
  <2>5. ASSUME result \in {"rolled-back", "rollback-failed"}
        PROVE  stage \notin {"dead", "backing"} /\ \A p \in rolledBack : Committed(p, "inverse")
    <3>1. stage \notin {"dead", "backing"}
      BY <2>2, <2>5 DEF BatchInv, Phases, Verdicts
    <3>. QED BY <2>2, <3>1 DEF Ledger
  <2>6. ASSUME result = "rolled-back"
        PROVE  \E q \in batch : \A p \in batch \ {q} : Whole(p, "source") /\ Shown(p)
    <3>1. failed /\ committed \subseteq rolledBack /\ stage # "dead"
      BY <2>2, <2>5, <2>6 DEF BatchInv, Verdicts, ToUndo
    <3>2. PICK q \in batch : \A p \in batch \ (committed \cup {q}) : last[p] = "none"
      BY <2>2, <3>1 DEF Ledger
    <3>3. ASSUME NEW p \in batch \ {q} PROVE Whole(p, "source") /\ Shown(p)
      <4>1. last[p] = "none" \/ Committed(p, "inverse")
        BY <2>5, <2>6, <3>1, <3>2
      <4>. QED BY <2>2, <2>3, <4>1
    <3>. QED BY <3>3
  <2>7. result = "committed" => serving
    BY <2>2 DEF BatchInv, Verdicts
  <2>8. ASSUME result \in {"rolled-back", "rollback-failed"}
        PROVE  \A p \in rolledBack : Whole(p, "source") /\ Shown(p)
    BY <2>2, <2>3, <2>5, <2>8
  <2>. QED BY <2>4, <2>6, <2>7, <2>8
<1>. QED BY SpecReport, SpecIInv, <1>1, PTL

\* Every variable keeps its type; what a batch has undone, or could not undo, it had
\* committed, and what it has committed are plans of its own.
THEOREM TypeCorrect == Spec => [](ExecutionType /\ BatchType)
<1>1. IInv /\ ReportInv => ExecutionType /\ BatchType
  BY DEF IInv, ReportInv, BatchInv
<1>. QED BY SpecIInv, SpecReport, <1>1, PTL

\* The lock file: two executors are never inside on one plan, whoever dies or fails to
\* remove the file.
THEOREM OneExecutorPerPlan == Spec => []Alone
<1>1. IInv => Alone
  BY DEF IInv
<1>. QED BY SpecIInv, <1>1, PTL

-----------------------------------------------------------------------------
(* The loops of a batch end *)

\* The part of execute_batch() that a batch is in, counted down, the plans this part has
\* still to deal with, and what is left of the turn of one plan.
Part ==
  CASE stage = "check" -> 5
    [] stage = "stop" -> 4
    [] stage \in {"forward", "forwarding", "inspect"} -> 3
    [] stage \in {"back", "backing"} -> 2
    [] stage = "start" -> 1
    [] OTHER -> 0

Ahead == IF Part = 3 THEN batch \ committed ELSE ToUndo

Turn ==
  CASE stage = "inspect" -> 2
    [] stage \in {"forward", "back"} -> 1
    [] OTHER -> 0

Advances ==
  \/ Part' < Part
  \/ Part' = Part /\ Ahead' \subseteq Ahead /\ Ahead' # Ahead
  \/ Part' = Part /\ Ahead' = Ahead /\ Turn' < Turn

LEMMA BatchStepAdvances == ReportInv /\ BatchStep => Advances
<1>. SUFFICES ASSUME ReportInv, BatchStep PROVE Advances
  OBVIOUS
<1>. USE DEF Advances, Part
<1>1. BatchType /\ Phases
  BY DEF ReportInv, BatchInv
<1>2. CASE Check \/ Stop \/ Close \/ Start
  <2>1. \/ stage = "check" /\ stage' \in {"stop", "done"}
        \/ stage = "stop" /\ stage' \in {"forward", "start"}
        \/ stage \in {"forward", "back"} /\ stage' = "start"
        \/ stage = "start" /\ stage' = "done"
    <3>1. Check => stage = "check" /\ stage' \in {"stop", "done"}
      BY DEF Check
    <3>2. Stop => stage = "stop" /\ stage' \in {"forward", "start"}
      BY DEF Stop
    <3>3. Close => stage \in {"forward", "back"} /\ stage' = "start"
      BY DEF Close
    <3>4. Start => stage = "start" /\ stage' = "done"
      BY DEF Start
    <3>. QED BY <1>2, <3>1, <3>2, <3>3, <3>4
  <2>. QED BY <2>1
<1>3. ASSUME NEW p \in Plans, Forward(p) PROVE Advances
  BY <1>3 DEF Forward, Ahead, Turn
<1>4. CASE Forwarded
  <2>1. at \in batch \ committed
    BY <1>1, <1>4 DEF Forwarded, Phases
  <2>. QED BY <1>4, <2>1 DEF Forwarded, Ahead
<1>5. CASE Inspect
  BY <1>5 DEF Inspect, Ahead, Turn
<1>6. ASSUME NEW p \in Plans, Back(p) PROVE Advances
  <2>1. CASE stage' = "backing" /\ UNCHANGED missed
    BY <1>6, <2>1 DEF Back, Ahead, Turn, ToUndo
  <2>2. CASE stage' = stage /\ missed' = missed \cup {p}
    BY <1>6, <2>2 DEF Back, Ahead, ToUndo
  <2>. QED BY <1>6, <2>1, <2>2 DEF Back, executionVars
<1>7. CASE Backed
  <2>1. at \in ToUndo
    BY <1>1, <1>7 DEF Backed, Phases
  <2>. QED BY <1>7, <2>1 DEF Backed, Ahead, ToUndo
<1>. QED BY <1>2, <1>3, <1>4, <1>5, <1>6, <1>7 DEF BatchStep

\* The same for an executor, whose parts are one after the other, those of the catch
\* block last; in two of them it goes through a set of files.
PartOf(e) ==
  CASE pc[e] = "acquire" -> 12
    [] pc[e] = "preflight" -> 11
    [] pc[e] = "prepare" -> 10
    [] pc[e] = "move" -> 9
    [] pc[e] = "verify" -> 8
    [] pc[e] = "restore" /\ dir[e] = "inverse" -> 7
    [] pc[e] = "commit" -> 6
    [] pc[e] = "abort" -> 5
    [] pc[e] = "undo" -> 4
    [] pc[e] = "restore" /\ dir[e] # "inverse" -> 3
    [] pc[e] \in {"undone", "broken"} -> 2
    [] pc[e] = "release" -> 1
    [] OTHER -> 0

AheadOf(e) == IF pc[e] = "move" THEN Left(e) ELSE moved[e]

AdvancesOf(e) ==
  \/ PartOf(e)' < PartOf(e)
  \/ PartOf(e)' = PartOf(e) /\ AheadOf(e)' \subseteq AheadOf(e) /\ AheadOf(e)' # AheadOf(e)

LEMMA ExecutorStepAdvances ==
  ASSUME IInv, NEW e \in Executors, ExecutorStep(e)
  PROVE  AdvancesOf(e)
<1>. USE DEF Goto
<1>0. ExecutionType
  BY DEF IInv
<1>1. dir'[e] = dir[e] /\ plan'[e] = plan[e]
  BY StepSound DEF Sound, Acts
<1>2. ASSUME NEW f \in Files, Move(e, f) PROVE AdvancesOf(e)
  <2>1. pc[e] = "move" /\ f \in Left(e) /\ pc'[e] \in {"move", "verify", "abort"}
    BY <1>0, <1>2 DEF Move, ExecutionType
  <2>2. pc'[e] = "move" => moved'[e] = moved[e] \cup {f}
    BY <1>0, <1>2 DEF Move, ExecutionType
  <2>3. CASE pc'[e] = "move"
    <3>1. Left(e)' = Left(e) \ {f}
      BY <1>1, <2>2, <2>3 DEF Left, FilesOf
    <3>2. AheadOf(e) = Left(e) /\ AheadOf(e)' = Left(e)'
      BY <2>1, <2>3 DEF AheadOf
    <3>. QED BY <2>1, <2>3, <3>1, <3>2 DEF AdvancesOf, PartOf
  <2>. QED BY <2>1, <2>3 DEF AdvancesOf, PartOf
<1>3. ASSUME NEW f \in Files, Undo(e, f) PROVE AdvancesOf(e)
  <2>1. /\ pc[e] = "undo" /\ f \in moved[e]
        /\ pc'[e] \in {"undo", "undone", "restore", "broken"}
        /\ pc'[e] = "restore" => dir[e] # "inverse"
    BY <1>0, <1>3 DEF Undo, AfterUndo, ExecutionType
  <2>2. pc'[e] = "undo" => moved'[e] = moved[e] \ {f}
    BY <1>0, <1>3 DEF Undo, AfterUndo, ExecutionType
  <2>. QED BY <1>1, <2>1, <2>2 DEF AdvancesOf, PartOf, AheadOf
<1>4. CASE Acquire(e) \/ Preflight(e) \/ Prepare(e)
  <2>1. \/ pc[e] = "acquire" /\ pc'[e] \in {"preflight", "exit"}
        \/ pc[e] = "preflight" /\ pc'[e] \in {"prepare", "release"}
        \/ pc[e] = "prepare" /\ pc'[e] \in {"move", "release"}
    BY <1>0, <1>4 DEF Acquire, Preflight, Prepare, Append, ExecutionType
  <2>. QED BY <2>1 DEF AdvancesOf, PartOf
<1>5. CASE Verify(e)
  <2>1. /\ pc[e] = "verify" /\ pc'[e] \in {"restore", "commit", "abort"}
    BY <1>0, <1>5 DEF Verify, AfterMoves, ExecutionType
  <2>. QED BY <2>1 DEF AdvancesOf, PartOf
<1>6. CASE Restore(e)
  <2>1. /\ pc[e] = "restore"
        /\ dir[e] = "inverse" => pc'[e] \in {"commit", "abort"}
        /\ dir[e] # "inverse" => pc'[e] \in {"undone", "broken"}
    BY <1>0, <1>6 DEF Restore, ExecutionType
  <2>. QED BY <2>1 DEF AdvancesOf, PartOf
<1>7. CASE Commit(e) \/ Abort(e)
  <2>1. \/ pc[e] = "commit" /\ pc'[e] \in {"release", "abort"}
        \/ /\ pc[e] = "abort" /\ pc'[e] \in {"undo", "undone", "restore", "release"}
           /\ pc'[e] = "restore" => dir[e] # "inverse"
    BY <1>0, <1>7 DEF Commit, Abort, AfterUndo, Append, ExecutionType
  <2>. QED BY <1>1, <2>1 DEF AdvancesOf, PartOf
<1>8. CASE Undone(e) \/ Broken(e) \/ Release(e)
  <2>1. \/ pc[e] \in {"undone", "broken"} /\ pc'[e] = "release"
        \/ pc[e] = "release" /\ pc'[e] = "exit"
    BY <1>0, <1>8 DEF Undone, Broken, Release, Append, ExecutionType
  <2>. QED BY <2>1 DEF AdvancesOf, PartOf
<1>. QED BY <1>2, <1>3, <1>4, <1>5, <1>6, <1>7, <1>8 DEF ExecutorStep

\* Each step of a batch, or of an executor, brings it nearer to its end: it goes on to
\* the next part of its code, or deals with one more of the plans or files of the part
\* it is in. No failure makes it take up a plan or a file again that it has dealt with
\* in that part. What BatchEnds needs besides is that these steps are taken.
THEOREM NothingIsRepeated ==
  Spec => [][/\ BatchStep => Advances
             /\ \A e \in Executors : Executing(e) => AdvancesOf(e)]_vars
<1>1. IInv /\ ReportInv /\ [Next]_vars =>
        [/\ BatchStep => Advances
         /\ \A e \in Executors : Executing(e) => AdvancesOf(e)]_vars
  BY BatchStepAdvances, ExecutorStepAdvances DEF Executing
<1>. QED BY SpecIInv, SpecReport, <1>1, PTL DEF Spec
=============================================================================
