----------------------------- MODULE LeasedWork -----------------------------
(***************************************************************************)
(* What the tables of message events and deliveries promise, without       *)
(* processes, leases, clocks and subscriptions: a row is worked on in      *)
(* numbered attempts. Claiming a row starts the next attempt, and nothing  *)
(* stops the ones before it; but only the latest may write the outcome,    *)
(* and only of a row that nobody has withdrawn. An outcome is final. An    *)
(* attempt may call out at most once, after its claim was compared with    *)
(* the row once more; "success" says that a call was accepted.             *)
(*                                                                         *)
(* When a row may be claimed, how often, and which rows are withdrawn is   *)
(* not said here. MessageDelivery implements this specification.           *)
(***************************************************************************)
EXTENDS Naturals

CONSTANTS
  Rows,
  Callable  \* rows whose attempts call out: the deliveries

VARIABLES
  stage,     \* "absent", "waiting", "processing", or how the row ended
  attempts,  \* attempts of a row so far
  held,      \* <<row, number>> of the attempts that go on
  fresh,     \* those that may yet be admitted to their call
  admitted,  \* those that may call out
  calls      \* accepted calls of a row

vars == <<stage, attempts, held, fresh, admitted, calls>>
work == <<attempts, held, fresh, admitted, calls>>

Withdrawals == {"cancelled", "superseded"}
Outcomes == {"completed", "failed", "success", "cancelled"}

Init ==
  /\ stage = [r \in Rows |-> "absent"]
  /\ attempts = [r \in Rows |-> 0]
  /\ held = {} /\ fresh = {} /\ admitted = {}
  /\ calls = [r \in Callable |-> 0]

\* Rows appear and are withdrawn, some of both in one transaction.
Rearrange ==
  /\ DOMAIN stage' = Rows
  /\ \A r \in Rows :
       \/ stage'[r] = stage[r]
       \/ stage[r] = "absent" /\ stage'[r] = "waiting"
       \/ stage[r] \in {"waiting", "processing"} /\ stage'[r] \in Withdrawals
  /\ UNCHANGED work

Claim(r) ==
  /\ stage[r] \in {"waiting", "processing"}
  /\ stage' = [stage EXCEPT ![r] = "processing"]
  /\ attempts' = [attempts EXCEPT ![r] = @ + 1]
  /\ held' = held \cup {<<r, attempts[r] + 1>>}
  /\ fresh' = IF r \in Callable THEN fresh \cup {<<r, attempts[r] + 1>>} ELSE fresh
  /\ UNCHANGED <<admitted, calls>>

Latest(r, n) == n = attempts[r] /\ stage[r] = "processing"

Admit(r, n) ==
  /\ <<r, n>> \in fresh
  /\ Latest(r, n)
  /\ fresh' = fresh \ {<<r, n>>}
  /\ admitted' = admitted \cup {<<r, n>>}
  /\ UNCHANGED <<stage, attempts, held, calls>>

\* The attempt is not going to call out.
Forgo(r, n) ==
  /\ fresh' = fresh \ {<<r, n>>}
  /\ admitted' = admitted \ {<<r, n>>}
  /\ UNCHANGED <<stage, attempts, held, calls>>

Call(r, n) ==
  /\ <<r, n>> \in admitted
  /\ calls' = [calls EXCEPT ![r] = @ + 1]
  /\ admitted' = admitted \ {<<r, n>>}
  /\ UNCHANGED <<stage, attempts, held, fresh>>

Over(r, n) ==
  /\ <<r, n>> \in held
  /\ held' = held \ {<<r, n>>}
  /\ fresh' = fresh \ {<<r, n>>}
  /\ admitted' = admitted \ {<<r, n>>}
  /\ UNCHANGED <<attempts, calls>>

\* The attempt writes what became of the row, or ends without a word.
Settle(r, n, to) ==
  /\ Latest(r, n)
  /\ <<r, n>> \notin fresh \cup admitted
  /\ to = "success" => r \in Callable /\ calls[r] > 0
  /\ stage' = [stage EXCEPT ![r] = to]
  /\ Over(r, n)

Drop(r, n) == Over(r, n) /\ UNCHANGED stage

Next ==
  \/ Rearrange
  \/ \E r \in Rows :
       \/ Claim(r)
       \/ \E n \in 1 .. attempts[r] :
            \/ Admit(r, n) \/ Forgo(r, n) \/ Call(r, n) \/ Drop(r, n)
            \/ \E to \in {"waiting"} \cup Outcomes : Settle(r, n, to)

Spec == Init /\ [][Next]_vars
=============================================================================
