----------------------------- MODULE SealedPlan -----------------------------
(***************************************************************************)
(* What a sealed media plan promises to whoever executes it, without       *)
(* processes, lock files and failing calls: a plan is a transaction        *)
(* between two sides. It departs from one of them with all its files, in a *)
(* direction that was never committed; only then do files move; and it     *)
(* stands at a side again only when all of them are there, and the older   *)
(* video too that one of them had replaced. A plan that stands at a side   *)
(* stays there until it departs again, but for files taken away.           *)
(*                                                                         *)
(* A plan may be left on its way for good. ManifestExecution implements    *)
(* this specification.                                                     *)
(***************************************************************************)
CONSTANTS
  Plans, Files, PlanOf,
  Replaced  \* files whose target holds an older video

VARIABLES
  stand,  \* the side a plan is at, or what it is going through
  way,    \* the direction it last departed in
  spent,  \* the directions it has been committed in
  place,  \* of a file: "source", "target" or "astray"
  shown   \* replaced files whose target shows the older video

vars == <<stand, way, spent, place, shown>>

Directions == {"forward", "inverse"}
From(d) == IF d = "forward" THEN "source" ELSE "target"
To(d) == IF d = "forward" THEN "target" ELSE "source"
FilesOf(p) == {f \in Files : PlanOf[f] = p}

Whole(p, where) == \A f \in FilesOf(p) : place[f] \in {where, "astray"}
Shown(p) == FilesOf(p) \cap Replaced \subseteq shown

Init ==
  /\ stand = [p \in Plans |-> "source"]
  /\ way = [p \in Plans |-> "forward"]
  /\ spent = [p \in Plans |-> {}]
  /\ place = [f \in Files |-> "source"]
  /\ shown = Replaced

Become(p, s) == stand' = [stand EXCEPT ![p] = s]

Depart(p, d) ==
  /\ d \notin spent[p]
  /\ Whole(p, From(d))
  /\ d = "forward" => Shown(p)
  /\ Become(p, "going")
  /\ way' = [way EXCEPT ![p] = d]
  /\ UNCHANGED <<spent, place, shown>>

\* A file goes ahead, or back: never over the older video, but in its place.
Advance(p, f) ==
  /\ stand[p] = "going" /\ way[p] \notin spent[p]
  /\ f \in FilesOf(p) /\ place[f] = From(way[p])
  /\ place' = [place EXCEPT ![f] = To(way[p])]
  /\ shown' = IF way[p] = "forward" THEN shown \ {f} ELSE shown
  /\ UNCHANGED <<stand, way, spent>>

Recede(p, f) ==
  /\ stand[p] = "returning"
  /\ f \in FilesOf(p) /\ place[f] = To(way[p])
  /\ way[p] = "inverse" => f \notin shown
  /\ place' = [place EXCEPT ![f] = From(way[p])]
  /\ UNCHANGED <<stand, way, spent, shown>>

\* The older videos come back when no newer one is in their place.
Relink(p) ==
  /\ \/ stand[p] = "going" /\ way[p] = "inverse"
     \/ stand[p] = "returning" /\ way[p] = "forward"
  /\ Whole(p, "source")
  /\ shown' = shown \cup (FilesOf(p) \cap Replaced)
  /\ UNCHANGED <<stand, way, spent, place>>

\* A commit may be in doubt: it is confirmed or taken back.
Commit(p, s) ==
  /\ stand[p] = "going" /\ way[p] \notin spent[p]
  /\ Whole(p, To(way[p]))
  /\ way[p] = "inverse" => Shown(p)
  /\ s \in {To(way[p]), "doubtful"}
  /\ Become(p, s)
  /\ spent' = [spent EXCEPT ![p] = @ \cup {way[p]}]
  /\ UNCHANGED <<way, place, shown>>

Confirm(p) ==
  /\ stand[p] = "doubtful"
  /\ Become(p, To(way[p]))
  /\ UNCHANGED <<way, spent, place, shown>>

Retreat(p) ==
  /\ stand[p] \in {"going", "doubtful"}
  /\ Become(p, "returning")
  /\ UNCHANGED <<way, spent, place, shown>>

Return(p) ==
  /\ stand[p] = "returning"
  /\ Whole(p, From(way[p]))
  /\ way[p] = "forward" => Shown(p)
  /\ Become(p, From(way[p]))
  /\ UNCHANGED <<way, spent, place, shown>>

\* The way back failed: the plan needs somebody who looks at it.
Break(p) ==
  /\ stand[p] = "returning"
  /\ Become(p, "broken")
  /\ UNCHANGED <<way, spent, place, shown>>

TakeAway(f) ==
  /\ place' = [place EXCEPT ![f] = "astray"]
  /\ UNCHANGED <<stand, way, spent, shown>>

Next ==
  \/ \E p \in Plans :
       \/ \E d \in Directions : Depart(p, d)
       \/ \E f \in Files : Advance(p, f) \/ Recede(p, f)
       \/ \E s \in {"source", "target", "doubtful"} : Commit(p, s)
       \/ Relink(p) \/ Confirm(p) \/ Retreat(p) \/ Return(p) \/ Break(p)
  \/ \E f \in Files : TakeAway(f)

Spec == Init /\ [][Next]_vars
=============================================================================
