--------------------------- MODULE MessageDelivery ---------------------------
(***************************************************************************)
(* From a staged message event to the messages that a bot sends for it     *)
(* (src/src/modules/message-management and                                  *)
(* src/src/modules/bot-adapter/message-management).                         *)
(*                                                                         *)
(* The events of one resource are rows of message_event; fan-out turns an  *)
(* event into one delivery per subscription, a row of bot_message_delivery, *)
(* and the bot runner sends it.  Rows of both tables are claimed under a   *)
(* lease of 30 seconds and carry the same life cycle, hence one status     *)
(* function for both: <<e, Self>> is the event e, <<e, s>> its delivery to *)
(* the subscription s.  A later event of the resource makes the earlier    *)
(* ones obsolete.                                                          *)
(*                                                                         *)
(* Each process of the application scans the events, then the deliveries   *)
(* (DrainLoop), one row after the other.  A token is the attempt number of *)
(* a claim: the row is written only while it is processing under it.       *)
(***************************************************************************)
EXTENDS Integers

CONSTANTS
  Events,       \* 1 .. n, by occurredAt
  Subs,         \* subscriptions, each with one binding, target and template
  Readiness,    \* what resolveDelivery() of the source may answer for each
  Processes,
  MaxTries,     \* bound: attempts that fit into the retry window of 24 hours
  MaxFaults,    \* bound: errors, lost answers, slow owners, crashes
  MaxChanges,   \* bound: changes of the configuration of each subscription
  Self, NoRow

Deliveries == Events \X Subs
Row(e) == <<e, Self>>
EventRows == {Row(e) : e \in Events}
Rows == EventRows \cup Deliveries

ASSUME ConstantsAssumption ==
  /\ Events \subseteq Nat
  /\ Self \notin Subs
  /\ Readiness \in [Subs -> SUBSET {"ready", "deferred", "cancelled", "superseded"}]
  /\ MaxTries \in Nat \ {0} /\ MaxFaults \in Nat /\ MaxChanges \in Nat
  /\ NoRow \notin Rows

VARIABLES
  status,       \* fanoutStatus of an event, status of a delivery
  tries,        \* fanoutAttemptCount, attemptCount
  due,          \* rows whose nextFanoutAt or nextAttemptAt has come
  lapsed,       \* claimed rows whose lease has passed
  matching,     \* enabled subscriptions whose configuration names the resource
  bound,        \* subscriptions whose binding, target and account are enabled
  changes,      \* changes of the configuration of each subscription
  sends,        \* times the platform accepted the message of a delivery
  pc,           \* the await the scan of each process is at
  row, token,   \* the row a process works on, the attempt number of its claim
  todo,         \* the subscriptions it has yet to visit
  cur, usable,  \* the one whose transaction is open; has it a usable binding
  outcome,      \* the status it is going to write
  faults

rows == <<status, tries, due, lapsed>>
config == <<matching, bound, changes>>
claim == <<row, token, todo, cur, usable, outcome>>
vars == <<rows, config, sends, pc, claim, faults>>

-----------------------------------------------------------------------------

Waiting == {"accepted", "deferred", "pending", "retry"}
Unsent == {"pending", "retry"}         \* SUPERSEDED_STATUSES
Final == {"completed", "failed", "success", "cancelled", "superseded"}

Init ==
  /\ status = [r \in Rows |-> "absent"]
  /\ tries = [r \in Rows |-> 0]
  /\ due = {} /\ lapsed = {}
  /\ matching = Subs /\ bound = Subs
  /\ changes = [s \in Subs |-> 0]
  /\ sends = [d \in Deliveries |-> 0]
  /\ pc = [p \in Processes |-> "idle"]
  /\ row = [p \in Processes |-> NoRow]
  /\ token = [p \in Processes |-> 0]
  /\ todo = [p \in Processes |-> {}]
  /\ cur = [p \in Processes |-> Self]
  /\ usable = {}
  /\ outcome = [p \in Processes |-> "none"]
  /\ faults = 0

At(p, place) == pc[p] = place

Goto(p, place) == pc' = [pc EXCEPT ![p] = place]

Fault == faults < MaxFaults /\ faults' = faults + 1

\* Mutation: the claim is not compared any more.
OwnsAny(p) == status[row[p]] \in {"processing"} \cup Final

\* ownsClaim(), owns() and the where clause of every write of a claimant.
Owns(p) == status[row[p]] = "processing" /\ tries[row[p]] = token[p]

\* Transactions of fan-out hold the row locks of their event and subscription.
Locked(s) == \E p \in Processes : At(p, "fanning") /\ cur[p] = s
LockedRow(r) == \E p \in Processes : At(p, "fanning") /\ row[p] = r

SetAll(rs, st) == status' = [r \in Rows |-> IF r \in rs THEN st ELSE status[r]]

-----------------------------------------------------------------------------
(* Claiming a row *)

Claimable(r) ==
  /\ ~LockedRow(r)
  /\ \/ status[r] \in Waiting /\ r \in due
     \/ status[r] = "processing" /\ r \in lapsed

\* Mutation: a row is claimed before the lease of its owner has passed.
ClaimableEarly(r) ==
  /\ ~LockedRow(r)
  /\ \/ status[r] \in Waiting /\ r \in due
     \/ status[r] = "processing"

\* Mutation: a row whose owner died is never taken over.
ClaimableWaiting(r) == ~LockedRow(r) /\ status[r] \in Waiting /\ r \in due

Candidate(r) == Claimable(r)

\* claimOne(): a locked row is skipped.  Of the others each process takes the
\* earliest by the clock at the start of its batch, which is any of them.
Claim(p, rs, place) ==
  /\ At(p, "idle")
  /\ \E r \in rs :
       /\ Candidate(r)
       /\ status' = [status EXCEPT ![r] = "processing"]
       /\ tries' = [tries EXCEPT ![r] = @ + 1]
       /\ due' = due \ {r}
       /\ lapsed' = lapsed \ {r}
       /\ row' = [row EXCEPT ![p] = r]
       /\ token' = [token EXCEPT ![p] = tries[r] + 1]
  /\ Goto(p, place)
  /\ UNCHANGED <<config, sends, todo, cur, usable, outcome, faults>>

ClaimEvent(p) == Claim(p, EventRows, "match")
ClaimDelivery(p) == Claim(p, Deliveries, "prepare")

Release(p) ==
  /\ row' = [row EXCEPT ![p] = NoRow]
  /\ token' = [token EXCEPT ![p] = 0]
  /\ todo' = [todo EXCEPT ![p] = {}]
  /\ cur' = [cur EXCEPT ![p] = Self]
  /\ usable' = usable \ {p}
  /\ outcome' = [outcome EXCEPT ![p] = "none"]

\* The process goes on with its scan, or with the next one.
Done(p) == Release(p) /\ Goto(p, "idle")

\* The process dies, or the scan of events rejects: a row that was claimed stays
\* so until its lease passes.
Crash(p) ==
  /\ ~At(p, "idle")
  /\ Fault
  /\ Done(p)
  /\ UNCHANGED <<rows, config, sends>>

-----------------------------------------------------------------------------
(* Fan-out of a claimed event *)

Plan(p, result, place) ==
  /\ outcome' = [outcome EXCEPT ![p] = result]
  /\ Goto(p, place)

\* processClaim(): an event past its deadline or against its contract fails;
\* otherwise the matching subscriptions are read.
Match(p) ==
  /\ At(p, "match")
  /\ \/ Plan(p, "failed", "settle") /\ UNCHANGED <<todo, faults>>
     \/ Plan(p, "retry", "settle") /\ Fault /\ UNCHANGED todo
     \/ /\ todo' = [todo EXCEPT ![p] = matching]
        /\ Plan(p, "completed", "fan")
        /\ UNCHANGED faults
  /\ UNCHANGED <<rows, config, sends, row, token, cur, usable>>

\* Mutations: what was read before the transaction is not read again in it.
NewerUnread(e) == FALSE
MatchesRead(s) == TRUE

\* hasStrictlyNewerEvent()
Newer(e) == \E f \in Events : f > e /\ status[Row(f)] # "absent"

Matches(s) == s \in matching

Withdraw(ds, from, to) ==
  LET hit == {d \in ds : status[d] \in from}
  IN  SetAll(hit, to) /\ due' = due \ hit /\ lapsed' = lapsed \ hit

\* fanOutSubscription() up to what it writes for the subscription s. Every subscription
\* has its templates: one without an enabled template is left before anything is asked.
Visit(p) ==
  LET e == row[p][1]
  IN  /\ At(p, "fan")
      /\ ~LockedRow(row[p])
      /\ \E s \in todo[p] :
           /\ ~Locked(s)
           /\ Owns(p)
           /\ todo' = [todo EXCEPT ![p] = @ \ {s}]
           /\ \/ /\ Newer(e)
                 /\ Withdraw({<<e, s>>}, Unsent, "superseded")
                 /\ UNCHANGED <<pc, cur, usable, outcome>>
              \/ /\ ~Newer(e) /\ ~Matches(s)
                 /\ UNCHANGED <<status, due, lapsed, pc, cur, usable, outcome>>
              \/ \E answer \in Readiness[s] :
                   /\ ~Newer(e) /\ Matches(s)
                   /\ \/ /\ answer = "deferred"
                         /\ outcome' = IF outcome[p] = "retry" THEN outcome
                                       ELSE [outcome EXCEPT ![p] = "deferred"]
                         /\ UNCHANGED <<status, due, lapsed, pc, cur, usable>>
                      \/ /\ answer \in {"cancelled", "superseded"}
                         /\ Withdraw({<<e, s>>}, Unsent, answer)
                         /\ UNCHANGED <<pc, cur, usable, outcome>>
                      \/ /\ answer = "ready"
                         /\ Goto(p, "fanning")
                         /\ cur' = [cur EXCEPT ![p] = s]
                         /\ usable' = IF s \in bound THEN usable \cup {p} ELSE usable
                         /\ UNCHANGED <<status, due, lapsed, outcome>>
      /\ UNCHANGED <<tries, config, sends, row, token, faults>>

\* stale_claim: another process has claimed the event meanwhile.
LeaveStale(p) ==
  /\ At(p, "fan") /\ todo[p] # {} /\ ~Owns(p)
  /\ Done(p)
  /\ UNCHANGED <<rows, config, sends, faults>>

\* receive() of the subscriber: deliveries of earlier events are superseded and
\* the delivery of this one is created unless it exists.
Receive(p) ==
  LET e == row[p][1]
      s == cur[p]
      earlier == {d \in Deliveries : d[1] < e /\ d[2] = s /\ status[d] \in Unsent}
      new == {d \in {<<e, s>>} : p \in usable /\ status[d] = "absent"}
  IN  /\ status' = [r \in Rows |-> IF r \in earlier THEN "superseded"
                                   ELSE IF r \in new THEN "pending" ELSE status[r]]
      /\ due' = (due \ earlier) \cup new
      /\ UNCHANGED <<tries, lapsed>>

CloseVisit(p) ==
  /\ cur' = [cur EXCEPT ![p] = Self]
  /\ usable' = usable \ {p}
  /\ Goto(p, "fan")

Commit(p) ==
  /\ At(p, "fanning")
  /\ Receive(p)
  /\ CloseVisit(p)
  /\ UNCHANGED <<config, sends, row, token, todo, outcome, faults>>

\* Mutation: an event is completed though one of its subscriptions failed.
Forgive(p) == outcome

Blame(p) == [outcome EXCEPT ![p] = "retry"]

\* The transaction of one subscription fails: before it writes, when it commits,
\* or when the answer to its commit is lost.  The others go on.
FailVisit(p) ==
  /\ Fault
  /\ \/ /\ At(p, "fan")
        /\ \E s \in todo[p] : todo' = [todo EXCEPT ![p] = @ \ {s}]
        /\ UNCHANGED <<rows, pc, cur, usable>>
     \/ /\ At(p, "fanning")
        /\ Receive(p) \/ UNCHANGED rows
        /\ CloseVisit(p)
        /\ UNCHANGED todo
  /\ outcome' = Blame(p)
  /\ UNCHANGED <<config, sends, row, token>>

-----------------------------------------------------------------------------
(* Writing the result of a claim *)

\* retryOrFail(), defer(): no attempt is planned past the deadline of the row.
Verdict(p) ==
  IF outcome[p] \in {"retry", "deferred"}
  THEN {"failed"} \cup (IF token[p] < MaxTries THEN {outcome[p]} ELSE {})
  ELSE {outcome[p]}

Write(p) ==
  IF Owns(p)
  THEN /\ \E st \in Verdict(p) : status' = [status EXCEPT ![row[p]] = st]
       /\ lapsed' = lapsed \ {row[p]}
       /\ UNCHANGED <<tries, due>>
  ELSE UNCHANGED rows

SettleEvent(p) ==
  /\ \/ At(p, "settle")
     \/ At(p, "fan") /\ todo[p] = {}
  /\ Write(p)
  /\ Done(p)
  /\ UNCHANGED <<config, sends, faults>>

\* The write at the end of the fan-out rejects: the catch of processClaim()
\* plans a retry.
FailSettle(p) ==
  /\ At(p, "fan") /\ todo[p] = {}
  /\ Fault
  /\ Plan(p, "retry", "settle")
  /\ UNCHANGED <<rows, config, sends, row, token, todo, cur, usable>>

-----------------------------------------------------------------------------
(* The runner of deliveries *)

\* prepare(): the claim and the configuration are read again, under row locks.
Prepare(p) ==
  /\ At(p, "prepare")
  /\ \/ Plan(p, "failed", "store") /\ UNCHANGED faults
     \/ Plan(p, "retry", "store") /\ Fault
     \/ /\ Owns(p) /\ UNCHANGED faults
        /\ IF row[p][2] \in bound THEN Goto(p, "send") /\ UNCHANGED outcome
                                  ELSE Plan(p, "cancelled", "store")
  /\ UNCHANGED <<rows, config, sends, row, token, todo, cur, usable>>

DropStale(p) ==
  /\ At(p, "prepare") /\ ~Owns(p)
  /\ Done(p)
  /\ UNCHANGED <<rows, config, sends, faults>>

Accept(p) == sends' = [sends EXCEPT ![row[p]] = @ + 1]

\* sendStrictPlainText(): accepted; rejected; not reached; or accepted with the
\* answer lost, or with an error when its log is written, which counts as
\* retryable too.
Send(p) ==
  /\ At(p, "send")
  /\ \/ Accept(p) /\ Plan(p, "success", "store") /\ UNCHANGED faults
     \/ UNCHANGED <<sends, faults>> /\ Plan(p, "failed", "store")
     \/ UNCHANGED <<sends, faults>> /\ Plan(p, "retry", "store")
     \/ Accept(p) /\ Plan(p, "retry", "store") /\ Fault
  /\ UNCHANGED <<rows, config, row, token, todo, cur, usable>>

\* persistOwnerTransition(), whose error after a second try is swallowed.
Store(p) ==
  /\ At(p, "store")
  /\ \/ Write(p) /\ UNCHANGED faults
     \/ UNCHANGED rows /\ Fault
  /\ Done(p)
  /\ UNCHANGED <<config, sends>>

-----------------------------------------------------------------------------
(* Events, configuration, the clock and faults *)

\* stage(): once for an event identity, in the transaction of its cause.
Stage(e) ==
  /\ status[Row(e)] = "absent"
  /\ status' = [status EXCEPT ![Row(e)] = "accepted"]
  /\ due' = due \cup {Row(e)}
  /\ UNCHANGED <<tries, lapsed, config, sends, pc, claim, faults>>

DeliveriesOf(s) == {d \in Deliveries : d[2] = s}

Change(s) ==
  /\ changes[s] < MaxChanges
  /\ changes' = [changes EXCEPT ![s] = @ + 1]
  /\ UNCHANGED <<tries, sends, pc, claim, faults>>

\* setEnabled(false), or update() to disabled: what is being sent goes on.
Disable(s) ==
  /\ s \in matching /\ ~Locked(s)
  /\ matching' = matching \ {s}
  /\ Withdraw(DeliveriesOf(s), Unsent, "cancelled")
  /\ Change(s)
  /\ UNCHANGED bound

Enable(s) ==
  /\ s \notin matching /\ ~Locked(s)
  /\ matching' = matching \cup {s}
  /\ Change(s)
  /\ UNCHANGED <<status, due, lapsed, bound>>

\* update() with another source configuration: what is being sent is cancelled.
Retarget(s) ==
  /\ ~Locked(s)
  /\ matching' \in {matching \cup {s}, matching \ {s}}
  /\ Withdraw(DeliveriesOf(s), Unsent \cup {"processing"}, "cancelled")
  /\ Change(s)
  /\ UNCHANGED bound

\* The binding, the target or the account is disabled or removed; not all of
\* these lock the subscription.
Unbind(s) ==
  /\ s \in bound
  /\ bound' = bound \ {s}
  /\ Withdraw(DeliveriesOf(s), Unsent, "cancelled")
  /\ Change(s)
  /\ UNCHANGED matching

Rebind(s) ==
  /\ s \notin bound
  /\ bound' = bound \cup {s}
  /\ Change(s)
  /\ UNCHANGED <<status, due, lapsed, matching>>

\* notifyDependencyChanged(): deferred events are due at once.
WakeDeferred ==
  LET deferred == {r \in EventRows : status[r] = "deferred"}
  IN  /\ deferred \ due # {}
      /\ due' = due \cup deferred
      /\ UNCHANGED <<status, tries, lapsed, config, sends, pc, claim, faults>>

\* Mutation: the retry of a delivery is written without its time.
PlannedEvent(r) == r \in EventRows /\ status[r] \in Waiting

\* nextFanoutAt, nextAttemptAt: an event without one would be due at once, a
\* delivery never.
HasTime(r) == status[r] \in Waiting

BecomeDue(r) ==
  /\ HasTime(r) /\ r \notin due
  /\ due' = due \cup {r}
  /\ UNCHANGED <<status, tries, lapsed, config, sends, pc, claim, faults>>

Held(r) == \E p \in Processes : row[p] = r /\ token[p] = tries[r]

\* A lease passes when nobody works on the row any more, or under an owner that
\* takes too long.
Lapse(r) ==
  /\ status[r] = "processing" /\ r \notin lapsed
  /\ lapsed' = lapsed \cup {r}
  /\ IF Held(r) THEN Fault ELSE UNCHANGED faults
  /\ UNCHANGED <<status, tries, due, config, sends, pc, claim>>

-----------------------------------------------------------------------------

Step(p) == \/ ClaimEvent(p) \/ Match(p) \/ Visit(p) \/ LeaveStale(p) \/ Commit(p)
           \/ SettleEvent(p)
           \/ ClaimDelivery(p) \/ Prepare(p) \/ DropStale(p) \/ Send(p) \/ Store(p)

Disturb(p) == FailVisit(p) \/ FailSettle(p) \/ Crash(p)

Configure(s) == Disable(s) \/ Enable(s) \/ Retarget(s) \/ Unbind(s) \/ Rebind(s)

Next == \/ \E p \in Processes : Step(p) \/ Disturb(p)
        \/ \E e \in Events : Stage(e)
        \/ \E s \in Subs : Configure(s)
        \/ \E r \in Rows : BecomeDue(r) \/ Lapse(r)
        \/ WakeDeferred

Spec == Init /\ [][Next]_vars

\* The scan task drains every five seconds in each process, and each scan goes
\* on to the next row (DrainLoop); calls and queries return or reject; the clock
\* goes on.
Fairness ==
  /\ \A p \in Processes : WF_vars(Step(p))
  /\ \A r \in Rows : WF_vars(BecomeDue(r)) /\ WF_vars(Lapse(r))

FairSpec == Spec /\ Fairness

-----------------------------------------------------------------------------
(* Properties *)

\* Types; and no row is tried more often than its deadline admits, except for
\* the claims that replace a claim that was lost.
TypeOK ==
  /\ status \in [Rows -> {"absent", "processing"} \cup Waiting \cup Final]
  /\ tries \in [Rows -> 0 .. MaxTries + MaxFaults]
  /\ due \subseteq Rows /\ lapsed \subseteq Rows
  /\ matching \subseteq Subs /\ bound \subseteq Subs
  /\ changes \in [Subs -> 0 .. MaxChanges]
  /\ sends \in [Deliveries -> Nat]
  /\ pc \in [Processes -> {"idle", "match", "fan", "fanning", "settle", "prepare",
                           "send", "store"}]
  /\ row \in [Processes -> Rows \cup {NoRow}]
  /\ token \in [Processes -> 0 .. MaxTries + MaxFaults]
  /\ todo \in [Processes -> SUBSET Subs]
  /\ cur \in [Processes -> Subs \cup {Self}] /\ usable \subseteq Processes
  /\ outcome \in [Processes -> {"none", "retry", "deferred"} \cup Final]
  /\ faults \in 0 .. MaxFaults

\* Once a later event of the resource has a delivery, no earlier one has a
\* delivery to the same subscription that was never tried: it is superseded,
\* whichever of the two was staged, claimed or retried first.
NoFreshObsolete ==
  \A e, f \in Events, s \in Subs :
    e < f /\ status[<<f, s>>] # "absent" => status[<<e, s>>] # "pending"

\* A subscription that is disabled, or no longer names the resource, has no
\* delivery left that was never tried, though fan-out may have read it before.
NoFreshDisabled ==
  \A e \in Events, s \in Subs : s \notin matching => status[<<e, s>>] # "pending"

\* What is final stays so: a claimant whose lease passed writes nothing over the
\* work of its successor, nor over a cancellation ("避免旧执行者覆盖新租约").
FinalStays ==
  [][\A r \in Rows : status[r] \in Final => status'[r] = status[r]]_vars

\* The attempts that are at one of these awaits.
AttemptsAt(places) ==
  {<<row[p], token[p]>> : p \in {q \in Processes : pc[q] \in places}}

Working == {"match", "fan", "fanning", "settle", "prepare", "send", "store"}

\* The status of each row, whatever it waits for.
Phase == [r \in Rows |-> IF status[r] \in Waiting THEN "waiting" ELSE status[r]]

Leased ==
  INSTANCE LeasedWork WITH
    Callable <- Deliveries,
    stage <- Phase,
    attempts <- tries,
    held <- AttemptsAt(Working),
    fresh <- AttemptsAt({"prepare"}),
    admitted <- AttemptsAt({"send"}),
    calls <- sends

\* However claims lapse and are taken over: only the latest attempt of a row
\* writes its outcome, over no withdrawal and no other outcome; an attempt sends
\* at most once, after its claim was compared again; and a delivery succeeds only
\* after the platform accepted a message of it.
ImplementsLeases == Leased!Spec

\* Every message beyond the first that reaches the platform for a delivery is
\* paid for by a fault: a lost answer, a lost write, a crash or a slow owner.
DuplicatesPaid == \A d \in Deliveries : sends[d] <= 1 + faults

\* A completed event has reached each subscription that waits for it: the
\* delivery exists or a later event is there, even if transactions of other
\* subscriptions failed, were deferred or were taken over half-way.
CompletedReached ==
  \A e \in Events, s \in Subs :
    /\ status[Row(e)] = "completed"
    /\ changes[s] = 0
    /\ Readiness[s] \subseteq {"ready", "deferred"}
    => status[<<e, s>>] # "absent" \/ Newer(e)

\* Every staged event is completed or fails.
EventuallyFannedOut ==
  \A e \in Events : status[Row(e)] # "absent" ~> status[Row(e)] \in Final

\* Every delivery ends, one way or the other.
EventuallySettled ==
  \A d \in Deliveries : status[d] # "absent" ~> status[d] \in Final
=============================================================================
