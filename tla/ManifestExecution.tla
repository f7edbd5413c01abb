------------------------- MODULE ManifestExecution -------------------------
(***************************************************************************)
(* The executor of a sealed local media plan                               *)
(* (src/scripts/media-governance/runtime/media-manifest-executor.mjs).     *)
(*                                                                         *)
(* An executor is a process that carries out one direction of one plan:    *)
(* it moves every file of the plan from one path to another, and moves     *)
(* them back when anything fails. The journal of a plan is a file to which *)
(* a line is appended at each turn; a lock file, created exclusively and   *)
(* removed at the end, keeps other executors of the plan away. A process   *)
(* that dies leaves the lock file, its files and its journal as they are.  *)
(*                                                                         *)
(* A file system call may fail without an effect, or have its effect and   *)
(* fail: a move whose checkpoint cannot be recorded, a line that cannot be *)
(* synchronised. The files of a plan are moved one by one, in any order:   *)
(* no target is another one's source, which the preflight refuses. The     *)
(* scans that come before and after the moves are one step each.           *)
(*                                                                         *)
(* Left out: dry runs, legacy plans, the shape of a plan, a line of the    *)
(* journal that is cut off, power failures that undo a finished call, and  *)
(* contents that another hand changes in place.                            *)
(***************************************************************************)
EXTENDS Naturals, FiniteSets

CONSTANTS
  Plans,
  Files,      \* the videos, subtitles and assets that plans move
  PlanOf,     \* the plan that moves a file
  Replaced,   \* files whose target holds an older video, kept by a hard link
  Cached,     \* plans whose executors are given a verification cache
  Executors,  \* processes
  MaxFaults,  \* bound: failing calls, killed processes, files taken away
  NoPlan

ASSUME ExecutionAssumption ==
  /\ PlanOf \in [Files -> Plans]
  /\ \A p \in Plans : \E f \in Files : PlanOf[f] = p
  /\ Replaced \subseteq Files /\ Cached \subseteq Plans
  /\ MaxFaults \in Nat
  /\ NoPlan \notin Plans

VARIABLES
  place,      \* where a file is; "astray" when another hand has taken it
  oldShown,   \* replaced files whose target shows the older video
  serving,    \* trim.media runs
  last, way,  \* state and direction of the last line of a plan's journal
  spent,      \* directions that have a line "committed"
  locked,     \* plans whose lock file exists
  pc, plan, dir,  \* of an executor
  moved,      \* completed: the files it has moved
  outcome,    \* what the process tells its parent
  faults

disk == <<place, oldShown>>
journal == <<last, way, spent>>
mind == <<plan, dir, moved>>
executionVars == <<disk, serving, journal, locked, pc, mind, outcome, faults>>

Directions == {"forward", "inverse"}
From(d) == IF d = "forward" THEN "source" ELSE "target"
To(d) == IF d = "forward" THEN "target" ELSE "source"
FilesOf(p) == {f \in Files : PlanOf[f] = p}
Replacing(p) == FilesOf(p) \cap Replaced

\* An executor after its preflight, and one between acquire() and release().
Changing == {"prepare", "move", "verify", "restore", "commit", "abort", "undo", "undone",
             "broken"}
Inside == {"preflight", "release"} \cup Changing
Free(e) == pc[e] \in {"idle", "exit"}

ExecutionInit ==
  /\ place = [f \in Files |-> "source"] /\ oldShown = Replaced
  /\ serving = TRUE
  /\ last = [p \in Plans |-> "none"] /\ way = [p \in Plans |-> "forward"]
  /\ spent = [p \in Plans |-> {}]
  /\ locked = {}
  /\ pc = [e \in Executors |-> "idle"]
  /\ plan = [e \in Executors |-> NoPlan]
  /\ dir = [e \in Executors |-> "forward"]
  /\ moved = [e \in Executors |-> {}]
  /\ outcome = [e \in Executors |-> "failed"]
  /\ faults = 0

Goto(e, l) == pc' = [pc EXCEPT ![e] = l]
Fault == faults < MaxFaults /\ faults' = faults + 1

-----------------------------------------------------------------------------
(* Lock and preflight *)

\* The process begins and reads the journal a first time.
Launch(e, p, d) ==
  /\ Free(e)
  /\ plan' = [plan EXCEPT ![e] = p]
  /\ dir' = [dir EXCEPT ![e] = d]
  /\ moved' = [moved EXCEPT ![e] = {}]
  /\ outcome' = [outcome EXCEPT ![e] = "failed"]
  /\ Goto(e, IF d \in spent[p] THEN "exit" ELSE "acquire")
  /\ UNCHANGED <<disk, journal, locked>>

\* Mutation: the file is created, or opened.
AcquireStale(e) ==
  /\ pc[e] = "acquire"
  /\ \/ Goto(e, "preflight") /\ UNCHANGED faults
     \/ Fault /\ Goto(e, "exit")
  /\ locked' = locked \cup {plan[e]}
  /\ UNCHANGED <<disk, serving, journal, mind, outcome>>

\* acquire() creates the file, or finds it. The file stays when writing to it
\* fails, because acquire() is not in the block that releases. An open that fails and
\* creates nothing ends the executor where Kill may end it, before this step.
Acquire(e) ==
  /\ pc[e] = "acquire"
  /\ \/ plan[e] \notin locked /\ Goto(e, "preflight") /\ UNCHANGED faults
     \/ plan[e] \in locked /\ Goto(e, "exit") /\ UNCHANGED faults
     \/ Fault /\ Goto(e, "exit")
  /\ locked' = locked \cup {plan[e]}
  /\ UNCHANGED <<disk, serving, journal, mind, outcome>>

\* preflightLocal(): each file is where the direction begins, and the target of
\* a replacement still shows the older video.
Ready(p, d) ==
  /\ \A f \in FilesOf(p) : place[f] = From(d)
  /\ d = "forward" => Replacing(p) \subseteq oldShown

\* Mutation: the journal is not read again.
PreflightOnce(e) ==
  /\ pc[e] = "preflight"
  /\ \/ /\ Ready(plan[e], dir[e]) /\ ~serving
        /\ Goto(e, "prepare") /\ UNCHANGED faults
     \/ /\ ~Ready(plan[e], dir[e]) \/ serving
        /\ Goto(e, "release") /\ UNCHANGED faults
     \/ Fault /\ Goto(e, "release")
  /\ UNCHANGED <<disk, serving, journal, locked, mind, outcome>>

\* The journal is read again under the lock.
Preflight(e) ==
  /\ pc[e] = "preflight"
  /\ \/ /\ dir[e] \notin spent[plan[e]] /\ Ready(plan[e], dir[e]) /\ ~serving
        /\ Goto(e, "prepare") /\ UNCHANGED faults
     \/ /\ dir[e] \in spent[plan[e]] \/ ~Ready(plan[e], dir[e]) \/ serving
        /\ Goto(e, "release") /\ UNCHANGED faults
     \/ Fault /\ Goto(e, "release")
  /\ UNCHANGED <<disk, serving, journal, locked, mind, outcome>>

\* Where an older video has to come back, and when: at the end of an inverse, or of
\* the undoing of a forward.
AfterMoves(e) == IF dir[e] = "inverse" /\ Replacing(plan[e]) # {} THEN "restore" ELSE "commit"

\* Mutation: the undoing of a forward leaves the older video unlinked.
AfterUndoBare(e) == "undone"

AfterUndo(e) == IF dir[e] = "forward" /\ Replacing(plan[e]) # {} THEN "restore" ELSE "undone"

-----------------------------------------------------------------------------
(* The journal *)

Write(e, s) ==
  /\ last' = [last EXCEPT ![plan[e]] = s]
  /\ way' = [way EXCEPT ![plan[e]] = dir[e]]
  /\ spent' = [spent EXCEPT ![plan[e]] = IF s = "committed" THEN @ \cup {dir[e]} ELSE @]

\* append() throws when the line was not written, or not synchronised.
Append(e, s, next, otherwise) ==
  /\ \/ Write(e, s) /\ Goto(e, next) /\ UNCHANGED faults
     \/ Write(e, s) /\ Fault /\ Goto(e, otherwise)
     \/ UNCHANGED journal /\ Fault /\ Goto(e, otherwise)
  /\ UNCHANGED <<disk, serving, locked, mind>>

Prepare(e) ==
  /\ pc[e] = "prepare"
  /\ Append(e, "prepared", "move", "release")
  /\ UNCHANGED outcome

Commit(e) ==
  /\ pc[e] = "commit"
  /\ Append(e, "committed", "release", "abort")
  /\ outcome' = [outcome EXCEPT ![e] = IF pc'[e] = "release" THEN "committed" ELSE @]

\* The catch block: nothing is moved back when its first line fails.
Abort(e) ==
  /\ pc[e] = "abort"
  /\ Append(e, "rolling-back", IF moved[e] = {} THEN AfterUndo(e) ELSE "undo", "release")
  /\ UNCHANGED outcome

Undone(e) ==
  /\ pc[e] = "undone"
  /\ Append(e, "rolled-back", "release", "release")
  /\ UNCHANGED outcome

Broken(e) ==
  /\ pc[e] = "broken"
  /\ Append(e, "rollback-failed", "release", "release")
  /\ UNCHANGED outcome

-----------------------------------------------------------------------------
(* The files *)

\* A rename to the target replaces the directory entry of the older video.
Put(f, d) ==
  /\ place' = [place EXCEPT ![f] = To(d)]
  /\ oldShown' = IF d = "forward" THEN oldShown \ {f} ELSE oldShown

Left(e) == FilesOf(plan[e]) \ moved[e]

\* One turn of the loop. A rename is within one filesystem, as the preflight sees to: it
\* takes effect, or throws and has none. The checks after it may fail.
Move(e, f) ==
  /\ pc[e] = "move" /\ f \in Left(e)
  /\ \/ /\ place[f] = From(dir[e])
        /\ Put(f, dir[e]) /\ moved' = [moved EXCEPT ![e] = @ \cup {f}]
        /\ \/ Goto(e, IF Left(e) = {f} THEN "verify" ELSE "move") /\ UNCHANGED faults
           \/ Fault /\ Goto(e, "abort")
     \/ UNCHANGED <<disk, moved>> /\ Fault /\ Goto(e, "abort")
     \/ /\ place[f] # From(dir[e])
        /\ UNCHANGED <<disk, moved, faults>> /\ Goto(e, "abort")
  /\ UNCHANGED <<serving, journal, locked, plan, dir, outcome>>

\* The second scan.
Verify(e) ==
  /\ pc[e] = "verify"
  /\ LET arrived == \A f \in FilesOf(plan[e]) : place[f] = To(dir[e])
     IN \/ arrived /\ Goto(e, AfterMoves(e)) /\ UNCHANGED faults
        \/ ~arrived /\ Goto(e, "abort") /\ UNCHANGED faults
        \/ Fault /\ Goto(e, "abort")
  /\ UNCHANGED <<disk, serving, journal, locked, mind, outcome>>

\* One file of those moved goes back, unless the older video is back already and
\* occupies the path. With a verification cache, recording the file refers to
\* evidenceById, which the catch block does not see: the undoing fails after its
\* first file.
Obstructed(e, f) ==
  \/ place[f] # To(dir[e])
  \/ dir[e] = "inverse" /\ f \in oldShown

Undo(e, f) ==
  /\ pc[e] = "undo" /\ f \in moved[e]
  /\ \/ /\ ~Obstructed(e, f)
        /\ place' = [place EXCEPT ![f] = From(dir[e])]
        /\ moved' = [moved EXCEPT ![e] = @ \ {f}]
        /\ \/ /\ plan[e] \notin Cached
              /\ Goto(e, IF moved[e] = {f} THEN AfterUndo(e) ELSE "undo") /\ UNCHANGED faults
           \/ plan[e] \in Cached /\ Goto(e, "broken") /\ UNCHANGED faults
           \/ Fault /\ Goto(e, "broken")
     \/ Fault /\ Goto(e, "broken") /\ UNCHANGED <<place, moved>>
     \/ Obstructed(e, f) /\ Goto(e, "broken") /\ UNCHANGED <<place, moved, faults>>
  /\ UNCHANGED <<oldShown, serving, journal, locked, plan, dir, outcome>>

\* restoreExistingCanonicalTarget() links the older video, unless it is there or
\* the newer one is.
Covered(p) == \E f \in Replacing(p) : f \notin oldShown /\ place[f] = "target"

Restore(e) ==
  /\ pc[e] = "restore"
  /\ LET p == plan[e]
         next == IF dir[e] = "inverse" THEN "commit" ELSE "undone"
         otherwise == IF dir[e] = "inverse" THEN "abort" ELSE "broken"
     IN \/ /\ oldShown' = IF Covered(p) THEN oldShown ELSE oldShown \cup Replacing(p)
           /\ \/ Goto(e, IF Covered(p) THEN otherwise ELSE next) /\ UNCHANGED faults
              \/ Goto(e, otherwise) /\ Fault
        \/ UNCHANGED oldShown /\ Goto(e, otherwise) /\ Fault
  /\ UNCHANGED <<place, serving, journal, locked, mind, outcome>>

-----------------------------------------------------------------------------
(* The end of a process *)

\* release() in the finally block; the file may stay when it fails.
Release(e) ==
  /\ pc[e] = "release"
  /\ Goto(e, "exit")
  /\ \/ locked' = locked \ {plan[e]} /\ UNCHANGED <<outcome, faults>>
     \/ Fault /\ UNCHANGED locked /\ outcome' = [outcome EXCEPT ![e] = "failed"]
  /\ UNCHANGED <<disk, serving, journal, mind>>

\* A killed process does not reach its finally block, or its result is not read.
Killed(e) ==
  /\ Goto(e, "exit")
  /\ outcome' = [outcome EXCEPT ![e] = "failed"]
  /\ UNCHANGED <<disk, serving, journal, locked, mind>>

ExecutorStep(e) ==
  \/ Acquire(e) \/ Preflight(e) \/ Prepare(e)
  \/ \E f \in Files : Move(e, f) \/ Undo(e, f)
  \/ Verify(e) \/ Restore(e) \/ Commit(e)
  \/ Abort(e) \/ Undone(e) \/ Broken(e) \/ Release(e)

\* Another hand takes a file away.
Intrude(f) ==
  /\ place[f] # "astray" /\ Fault
  /\ place' = [place EXCEPT ![f] = "astray"]
  /\ UNCHANGED <<oldShown, serving, journal, locked, pc, mind, outcome>>

-----------------------------------------------------------------------------
(* Properties *)

Whole(p, where) == \A f \in FilesOf(p) : place[f] \in {where, "astray"}
Shown(p) == Replacing(p) \subseteq oldShown

\* What the last line of a journal says of the end of an execution is so: the
\* files are all at one side, and the older video is back where it should be.
\* Files that have been moved in part never stand under such a line. One failing
\* call does not break the undoing: that takes a second one, a file that is
\* gone, a verification cache, or an older video that is back already.
Honest ==
  \A p \in Plans :
    /\ last[p] = "none" => Whole(p, "source") /\ Shown(p)
    /\ last[p] = "committed" => Whole(p, To(way[p])) /\ (way[p] = "inverse" => Shown(p))
    /\ last[p] = "rolled-back" => Whole(p, From(way[p])) /\ (way[p] = "forward" => Shown(p))
    /\ last[p] = "rollback-failed" =>
         \/ faults > 1 \/ p \in Cached
         \/ \E f \in FilesOf(p) : place[f] = "astray"
         \/ way[p] = "inverse" /\ Replacing(p) \cap oldShown # {}

\* The older video and the one that replaces it are never both given the target:
\* neither a restoration nor the undoing of an inverse overwrites a file.
OneVideoPerPath == \A f \in oldShown : place[f] # "target"

\* A direction that the journal has as committed is not carried out again, by a
\* process that had read the journal before, for instance.
Once ==
  [][\A e \in Executors :
       pc[e] = "move" /\ moved'[e] # moved[e] => dir[e] \notin spent[plan[e]]]_executionVars

\* Where the journal has a plan. A line "committed" that could not be confirmed is in
\* doubt until its executor has written that it takes it back.
Doubtful(p) == last[p] = "committed" /\ \E e \in Executors : pc[e] = "abort" /\ plan[e] = p

Stand(p) ==
  CASE last[p] = "none" -> "source"
    [] last[p] = "prepared" -> "going"
    [] last[p] = "committed" -> IF Doubtful(p) THEN "doubtful" ELSE To(way[p])
    [] last[p] = "rolling-back" -> "returning"
    [] last[p] = "rolled-back" -> From(way[p])
    [] last[p] = "rollback-failed" -> "broken"
Stands == [p \in Plans |-> Stand(p)]

\* Whichever executors come, fail or die, and whatever they had read before they had
\* the lock: a plan is a transaction between two sides, as SealedPlan has it.
Sealed == INSTANCE SealedPlan WITH stand <- Stands, shown <- oldShown
ImplementsSealed == Sealed!Spec

\* When the owner of a lock file has died, no executor touches the plan.
Orphaned(p) == p \in locked /\ \A e \in Executors : ~(pc[e] \in Inside /\ plan[e] = p)
OrphansRest ==
  [][\A p \in Plans : Orphaned(p) =>
       /\ Orphaned(p)'
       /\ last'[p] = last[p]
       /\ \A f \in FilesOf(p) : place'[f] \in {place[f], "astray"}]_executionVars
=============================================================================
