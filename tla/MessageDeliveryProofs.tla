------------------------ MODULE MessageDeliveryProofs ------------------------
(***************************************************************************)
(* The safety of MessageDelivery for any events, subscriptions, processes, *)
(* changes of the configuration and faults.                                *)
(*                                                                         *)
(* First every action is reduced to what it does to one row and one        *)
(* process (NextCases).  Upon that rest five invariants, none of which     *)
(* follows from the property it is for:                                    *)
(*   AInv   an attempt has one holder, and each attempt beyond the last    *)
(*          that the deadline admits was paid for when its holder lost it; *)
(*   OInv   a transaction of the fan-out is alone with its subscription,   *)
(*          and what it read when it began still holds when it commits;    *)
(*   CInv   a fan-out that may still complete its event has left nobody    *)
(*          behind who waits for it;                                       *)
(*   DInv   the messages sent, the processes that may yet send one and the *)
(*          next claim of the row are together paid for by the faults;     *)
(*   LInv   attempts are numbered as LeasedWork numbers them, and what is  *)
(*          going to be called a success was sent.                         *)
(* The last part says how a claim comes to its end.                        *)
(***************************************************************************)
EXTENDS MessageDelivery, FiniteSetTheorems, TLAPS

-----------------------------------------------------------------------------
(* Rows *)

LEMMA RowKinds ==
  /\ Rows = EventRows \cup Deliveries
  /\ \A r \in EventRows : r \notin Deliveries /\ r[1] \in Events /\ r = Row(r[1])
  /\ \A r \in Deliveries : r[1] \in Events /\ r[2] \in Subs /\ r = <<r[1], r[2]>>
  /\ \A e \in Events : Row(e) \in EventRows /\ Row(e)[1] = e
  /\ \A e \in Events, s \in Subs : /\ <<e, s>> \in Deliveries
                                   /\ <<e, s>>[1] = e /\ <<e, s>>[2] = s
  /\ NoRow \notin Rows
<1>1. Rows = EventRows \cup Deliveries
  BY DEF Rows
<1>2. \A r \in EventRows : r \notin Deliveries /\ r[1] \in Events /\ r = Row(r[1])
  BY ConstantsAssumption DEF EventRows, Deliveries, Row
<1>3. \A r \in Deliveries : r[1] \in Events /\ r[2] \in Subs /\ r = <<r[1], r[2]>>
  BY DEF Deliveries
<1>4. \A e \in Events : Row(e) \in EventRows /\ Row(e)[1] = e
  BY DEF EventRows, Row
<1>5. \A e \in Events, s \in Subs : /\ <<e, s>> \in Deliveries
                                    /\ <<e, s>>[1] = e /\ <<e, s>>[2] = s
  BY DEF Deliveries
<1>. QED
  BY <1>1, <1>2, <1>3, <1>4, <1>5, ConstantsAssumption

-----------------------------------------------------------------------------
(* Types and places *)

Statuses == {"absent", "processing"} \cup Waiting \cup Final

RowsTyped ==
  /\ status \in [Rows -> Statuses]
  /\ tries \in [Rows -> Nat]
  /\ due \subseteq Rows /\ lapsed \subseteq Rows

ConfigTyped ==
  /\ matching \subseteq Subs /\ bound \subseteq Subs
  /\ changes \in [Subs -> 0 .. MaxChanges]

PcTyped ==
  pc \in [Processes -> {"idle", "match", "fan", "fanning", "settle", "prepare",
                        "send", "store"}]

ClaimTyped ==
  /\ row \in [Processes -> Rows \cup {NoRow}]
  /\ token \in [Processes -> Nat]
  /\ todo \in [Processes -> SUBSET Subs]
  /\ cur \in [Processes -> Subs \cup {Self}] /\ usable \subseteq Processes
  /\ outcome \in [Processes -> {"none", "retry", "deferred"} \cup Final]

CountsTyped == sends \in [Deliveries -> Nat] /\ faults \in 0 .. MaxFaults

AtEvent(p) == pc[p] \in {"match", "fan", "fanning", "settle"}
AtDelivery(p) == pc[p] \in {"prepare", "send", "store"}

\* What a process works on fits the await it is at.
Place(p) ==
  /\ pc[p] = "idle" => row[p] = NoRow
  /\ AtEvent(p) => row[p] \in EventRows
  /\ AtDelivery(p) => row[p] \in Deliveries
  /\ pc[p] = "fanning" => cur[p] \in Subs
  /\ pc[p] \in {"fan", "fanning"} => outcome[p] \in {"completed", "deferred", "retry"}
  /\ pc[p] = "settle" => outcome[p] \in {"failed", "retry"}
  /\ pc[p] = "store" => outcome[p] \in {"failed", "retry", "cancelled", "success"}

TInv == /\ RowsTyped /\ ConfigTyped /\ PcTyped /\ ClaimTyped /\ CountsTyped
        /\ \A p \in Processes : Place(p)

LEMMA TypesInit == Init => TInv
<1>. SUFFICES ASSUME Init PROVE TInv
  OBVIOUS
<1>. USE ConstantsAssumption DEF Init
<1>1. RowsTyped
  BY DEF RowsTyped, Statuses
<1>2. ConfigTyped /\ PcTyped /\ CountsTyped
  BY DEF ConfigTyped, PcTyped, CountsTyped
<1>3. ClaimTyped
  BY DEF ClaimTyped
<1>4. \A p \in Processes : Place(p)
  BY DEF Place, AtEvent, AtDelivery
<1>. QED BY <1>1, <1>2, <1>3, <1>4 DEF TInv

\* What the step of one process leaves to the others.
Stays(q) ==
  /\ pc'[q] = pc[q] /\ row'[q] = row[q] /\ token'[q] = token[q]
  /\ todo'[q] = todo[q] /\ cur'[q] = cur[q] /\ outcome'[q] = outcome[q]
  /\ q \in usable' <=> q \in usable

OthersStay(p) == \A q \in Processes : q # p => Stays(q)

\* Where a process that let go of its claim is.
Freed(p) ==
  /\ pc'[p] = "idle" /\ row'[p] = NoRow /\ token'[p] = 0 /\ todo'[p] = {}
  /\ cur'[p] = Self /\ outcome'[p] = "none" /\ p \notin usable'

LEMMA DoneTypes ==
  ASSUME TInv, NEW p \in Processes, Done(p)
  PROVE  /\ PcTyped' /\ ClaimTyped'
         /\ OthersStay(p) /\ Freed(p)
<1>. USE DEF TInv, PcTyped, ClaimTyped, Done, Release, Goto
<1>1. PcTyped' /\ ClaimTyped'
  OBVIOUS
<1>2. OthersStay(p) /\ Freed(p)
  BY DEF OthersStay, Stays, Freed
<1>. QED BY <1>1, <1>2

LEMMA PlaceOfOthers ==
  ASSUME TInv, NEW p \in Processes, OthersStay(p), Place(p)'
  PROVE  \A q \in Processes : Place(q)'
<1>. SUFFICES ASSUME NEW q \in Processes, q # p PROVE Place(q)'
  OBVIOUS
<1>1. Place(q) /\ Stays(q)
  BY DEF TInv, OthersStay
<1>. QED BY <1>1 DEF Place, Stays, AtEvent, AtDelivery

LEMMA FreedPlace ==
  ASSUME TInv, NEW p \in Processes, OthersStay(p), Freed(p)
  PROVE  \A q \in Processes : Place(q)'
<1>1. Place(p)'
  BY DEF Place, Freed, AtEvent, AtDelivery
<1>. QED BY <1>1, PlaceOfOthers

\* The steps of processes.
LEMMA ClaimTypes ==
  ASSUME TInv, NEW p \in Processes,
         NEW rs, NEW place, Claim(p, rs, place),
         \/ rs = EventRows /\ place = "match"
         \/ rs = Deliveries /\ place = "prepare"
  PROVE  TInv' /\ OthersStay(p)
<1>. USE DEF TInv
<1>1. PICK r \in rs :
        /\ status' = [status EXCEPT ![r] = "processing"]
        /\ tries' = [tries EXCEPT ![r] = @ + 1]
        /\ due' = due \ {r}
        /\ lapsed' = lapsed \ {r}
        /\ row' = [row EXCEPT ![p] = r]
        /\ token' = [token EXCEPT ![p] = tries[r] + 1]
  BY DEF Claim
<1>2. r \in Rows
  BY RowKinds
<1>3. /\ pc' = [pc EXCEPT ![p] = place]
      /\ UNCHANGED <<config, sends, todo, cur, usable, outcome, faults>>
  BY DEF Claim, Goto
<1>4. RowsTyped'
  BY <1>1, <1>2 DEF RowsTyped, Statuses
<1>5. ConfigTyped' /\ CountsTyped'
  BY <1>3 DEF ConfigTyped, CountsTyped, config
<1>6. PcTyped'
  BY <1>3 DEF PcTyped
<1>7. ClaimTyped'
  <2>1. tries[r] + 1 \in Nat
    BY <1>2 DEF RowsTyped
  <2>. QED BY <1>1, <1>2, <1>3, <2>1 DEF ClaimTyped
<1>8. OthersStay(p)
  BY <1>1, <1>3 DEF OthersStay, Stays, PcTyped, ClaimTyped
<1>9. Place(p)'
  <2>1. pc'[p] = place /\ row'[p] = r
    BY <1>1, <1>3 DEF PcTyped, ClaimTyped
  <2>. QED BY <2>1, <1>1 DEF Place, AtEvent, AtDelivery
<1>10. \A q \in Processes : Place(q)'
  BY <1>8, <1>9, PlaceOfOthers
<1>. QED BY <1>4, <1>5, <1>6, <1>7, <1>8, <1>10

LEMMA MatchTypes ==
  ASSUME TInv, NEW p \in Processes, Match(p)
  PROVE  TInv' /\ OthersStay(p)
<1>. USE DEF TInv, Match, Plan, Goto, At
<1>1. RowsTyped' /\ ConfigTyped'
  BY DEF RowsTyped, ConfigTyped, rows, config
<1>2. CountsTyped'
  BY ConstantsAssumption DEF CountsTyped, Fault
<1>3. PcTyped'
  BY DEF PcTyped
<1>4. ClaimTyped'
  BY DEF ClaimTyped, ConfigTyped, Final
<1>5. OthersStay(p)
  BY DEF OthersStay, Stays, PcTyped, ClaimTyped
<1>6. Place(p)'
  BY DEF Place, AtEvent, AtDelivery, PcTyped, ClaimTyped
<1>7. \A q \in Processes : Place(q)'
  BY <1>5, <1>6, PlaceOfOthers
<1>. QED BY <1>1, <1>2, <1>3, <1>4, <1>5, <1>7

\* Rows that are withdrawn, and rows that are not.
LEMMA WithdrawRows ==
  ASSUME TInv, NEW ds, NEW from, NEW to \in Final, Withdraw(ds, from, to)
  PROVE  /\ \A r \in Rows : status'[r] = IF r \in ds /\ status[r] \in from
                                         THEN to ELSE status[r]
         /\ due' \subseteq Rows /\ lapsed' \subseteq Rows
         /\ lapsed' \subseteq lapsed
         /\ \A r \in Rows : r \in lapsed /\ r \notin lapsed' => status'[r] = to
         /\ status' \in [Rows -> Statuses]
<1>. USE DEF TInv, RowsTyped, Withdraw, SetAll
<1>1. \A r \in Rows : status'[r] = IF r \in ds /\ status[r] \in from
                                   THEN to ELSE status[r]
  OBVIOUS
<1>2. status' \in [Rows -> Statuses]
  BY DEF Statuses
<1>3. /\ due' \subseteq Rows /\ lapsed' \subseteq Rows
      /\ lapsed' \subseteq lapsed
  OBVIOUS
<1>4. \A r \in Rows : r \in lapsed /\ r \notin lapsed' => status'[r] = to
  OBVIOUS
<1>. QED BY <1>1, <1>2, <1>3, <1>4

\* What a visit of the subscription s does, seen from the process.
Halted(p) == pc'[p] = "fan" /\ cur'[p] = cur[p] /\ (p \in usable' <=> p \in usable)

Outdone(p, s) ==
  Halted(p) /\ outcome'[p] = outcome[p] /\ Newer(row[p][1])

Passed(p, s) ==
  Halted(p) /\ outcome'[p] = outcome[p] /\ s \notin matching

Put(p, s) ==
  Halted(p) /\ outcome'[p] \in {"retry", "deferred"}

Refused(p, s) ==
  /\ Halted(p) /\ outcome'[p] = outcome[p]
  /\ Readiness[s] \cap {"cancelled", "superseded"} # {}

Opened(p, s) ==
  /\ pc'[p] = "fanning" /\ cur'[p] = s /\ outcome'[p] = outcome[p]
  /\ ~Newer(row[p][1]) /\ s \in matching /\ status' = status
  /\ s \in bound => p \in usable'

VisitOf(p, s) ==
  /\ pc[p] = "fan" /\ s \in todo[p] /\ ~Locked(s) /\ Owns(p)
  /\ row'[p] = row[p] /\ token'[p] = token[p] /\ todo'[p] = todo[p] \ {s}
  /\ Outdone(p, s) \/ Passed(p, s) \/ Put(p, s) \/ Refused(p, s) \/ Opened(p, s)

\* Rows of which some are withdrawn before they were sent.
Gone == {"cancelled", "superseded"}

Withdrawn(from) ==
  /\ \A r \in Rows : status'[r] = status[r] \/ status'[r] \in Gone
  /\ \A r \in Rows : \/ status'[r] = status[r]
                     \/ r \in Deliveries /\ status[r] \in from /\ status'[r] \in Final
  /\ lapsed' \subseteq lapsed
  /\ \A r \in Rows : r \in lapsed /\ r \notin lapsed' => status'[r] \in Final

LEMMA WithdrawIs ==
  ASSUME TInv, NEW ds \in SUBSET Deliveries, NEW from, NEW to \in Gone,
         Withdraw(ds, from, to)
  PROVE  /\ Withdrawn(from) /\ status' \in [Rows -> Statuses]
         /\ due' \subseteq Rows /\ lapsed' \subseteq Rows
<1>0. to \in Final
  BY DEF Gone, Final
<1>1. /\ \A r \in Rows : status'[r] = IF r \in ds /\ status[r] \in from
                                         THEN to ELSE status[r]
      /\ due' \subseteq Rows /\ lapsed' \subseteq Rows
      /\ lapsed' \subseteq lapsed
      /\ \A r \in Rows : r \in lapsed /\ r \notin lapsed' => status'[r] = to
      /\ status' \in [Rows -> Statuses]
  BY <1>0, WithdrawRows
<1>2. Withdrawn(from)
  BY <1>0, <1>1 DEF Withdrawn
<1>. QED BY <1>1, <1>2

LEMMA SameRows ==
  ASSUME TInv, UNCHANGED <<status, due, lapsed>>, NEW from
  PROVE  /\ Withdrawn(from) /\ status' \in [Rows -> Statuses]
         /\ due' \subseteq Rows /\ lapsed' \subseteq Rows
  BY DEF TInv, RowsTyped, Withdrawn

LEMMA VisitTypes ==
  ASSUME TInv, NEW p \in Processes, Visit(p)
  PROVE  /\ TInv' /\ OthersStay(p)
         /\ Withdrawn(Unsent)
         /\ UNCHANGED <<tries, config, sends, faults>>
         /\ \E s \in Subs : VisitOf(p, s)
<1>. DEFINE e == row[p][1]
<1>0. /\ pc[p] = "fan" /\ row[p] \in EventRows /\ e \in Events
      /\ outcome[p] \in {"completed", "deferred", "retry"}
  BY RowKinds DEF TInv, Place, AtEvent, Visit, At
<1>1. PICK s \in todo[p] :
        /\ ~Locked(s)
        /\ Owns(p)
        /\ todo' = [todo EXCEPT ![p] = @ \ {s}]
        /\ \/ /\ Newer(e)
              /\ Withdraw({<<e, s>>}, Unsent, "superseded")
              /\ UNCHANGED <<pc, cur, usable, outcome>>
           \/ /\ ~Newer(e) /\ ~Matches(s)
              /\ UNCHANGED <<status, due, lapsed, pc, cur, usable, outcome>>
           \/ \E answer \in Readiness[s] :
                /\ ~Newer(e) /\ Matches(s)
                /\ \/ /\ answer = "deferred"
                      /\ outcome' = IF outcome[p] = "retry" THEN outcome
                                    ELSE [outcome EXCEPT ![p] = "deferred"]
                      /\ UNCHANGED <<status, due, lapsed, pc, cur, usable>>
                   \/ /\ answer \in {"cancelled", "superseded"}
                      /\ Withdraw({<<e, s>>}, Unsent, answer)
                      /\ UNCHANGED <<pc, cur, usable, outcome>>
                   \/ /\ answer = "ready"
                      /\ Goto(p, "fanning")
                      /\ cur' = [cur EXCEPT ![p] = s]
                      /\ usable' = IF s \in bound THEN usable \cup {p} ELSE usable
                      /\ UNCHANGED <<status, due, lapsed, outcome>>
  BY DEF Visit
<1>2. UNCHANGED <<tries, config, sends, row, token, faults>>
  BY DEF Visit
<1>3. s \in Subs /\ {<<e, s>>} \in SUBSET Deliveries
  BY <1>0, RowKinds DEF TInv, ClaimTyped
<1>4. TInv /\ todo'[p] = todo[p] \ {s} /\ row'[p] = row[p] /\ token'[p] = token[p]
  BY <1>1, <1>2 DEF TInv, ClaimTyped
<1>. DEFINE RowsGood == /\ Withdrawn(Unsent) /\ status' \in [Rows -> Statuses]
                        /\ due' \subseteq Rows /\ lapsed' \subseteq Rows
            ClaimGood == /\ ClaimTyped' /\ PcTyped'
                         /\ OthersStay(p) /\ Place(p)'
            KindGood == \/ Outdone(p, s) \/ Passed(p, s) \/ Put(p, s)
                        \/ Refused(p, s) \/ Opened(p, s)
<1>5. RowsGood /\ ClaimGood /\ KindGood
  <2>1. CASE /\ Newer(e)
             /\ Withdraw({<<e, s>>}, Unsent, "superseded")
             /\ UNCHANGED <<pc, cur, usable, outcome>>
    <3>1. RowsGood
      <4>1. "superseded" \in Gone
        BY DEF Gone
      <4>. QED BY <2>1, <1>3, <4>1, WithdrawIs
    <3>2. ClaimGood
      BY <2>1, <1>0, <1>1, <1>2, <1>3
         DEF TInv, ClaimTyped, PcTyped, OthersStay, Stays, Place, AtEvent, AtDelivery
    <3>3. Outdone(p, s)
      BY <2>1, <1>0 DEF Outdone, Halted
    <3>. QED BY <3>1, <3>2, <3>3
  <2>2. CASE /\ ~Newer(e) /\ ~Matches(s)
             /\ UNCHANGED <<status, due, lapsed, pc, cur, usable, outcome>>
    <3>1. RowsGood
      BY <2>2, SameRows
    <3>2. ClaimGood
      BY <2>2, <1>0, <1>1, <1>2, <1>3
         DEF TInv, ClaimTyped, PcTyped, OthersStay, Stays, Place, AtEvent, AtDelivery
    <3>3. Passed(p, s)
      BY <2>2, <1>0 DEF Passed, Halted, Matches
    <3>. QED BY <3>1, <3>2, <3>3
  <2>3. CASE \E answer \in Readiness[s] :
                /\ ~Newer(e) /\ Matches(s)
                /\ \/ /\ answer = "deferred"
                      /\ outcome' = IF outcome[p] = "retry" THEN outcome
                                    ELSE [outcome EXCEPT ![p] = "deferred"]
                      /\ UNCHANGED <<status, due, lapsed, pc, cur, usable>>
                   \/ /\ answer \in {"cancelled", "superseded"}
                      /\ Withdraw({<<e, s>>}, Unsent, answer)
                      /\ UNCHANGED <<pc, cur, usable, outcome>>
                   \/ /\ answer = "ready"
                      /\ Goto(p, "fanning")
                      /\ cur' = [cur EXCEPT ![p] = s]
                      /\ usable' = IF s \in bound THEN usable \cup {p} ELSE usable
                      /\ UNCHANGED <<status, due, lapsed, outcome>>
    <3>1. PICK answer \in Readiness[s] :
                /\ ~Newer(e) /\ Matches(s)
                /\ \/ /\ answer = "deferred"
                      /\ outcome' = IF outcome[p] = "retry" THEN outcome
                                    ELSE [outcome EXCEPT ![p] = "deferred"]
                      /\ UNCHANGED <<status, due, lapsed, pc, cur, usable>>
                   \/ /\ answer \in {"cancelled", "superseded"}
                      /\ Withdraw({<<e, s>>}, Unsent, answer)
                      /\ UNCHANGED <<pc, cur, usable, outcome>>
                   \/ /\ answer = "ready"
                      /\ Goto(p, "fanning")
                      /\ cur' = [cur EXCEPT ![p] = s]
                      /\ usable' = IF s \in bound THEN usable \cup {p} ELSE usable
                      /\ UNCHANGED <<status, due, lapsed, outcome>>
      BY <2>3
    <3>2. CASE answer = "deferred"
      <4>0. /\ outcome' = IF outcome[p] = "retry" THEN outcome
                          ELSE [outcome EXCEPT ![p] = "deferred"]
            /\ UNCHANGED <<status, due, lapsed, pc, cur, usable>>
        BY <3>1, <3>2
      <4>1. RowsGood
        BY <4>0, SameRows
      <4>2. outcome'[p] \in {"retry", "deferred"}
        BY <4>0 DEF TInv, ClaimTyped
      <4>3. ClaimGood
        BY <4>0, <4>2, <1>0, <1>1, <1>2, <1>3
           DEF TInv, ClaimTyped, PcTyped, OthersStay, Stays, Place, AtEvent, AtDelivery
      <4>4. Put(p, s)
        BY <4>0, <4>2, <1>0 DEF Put, Halted
      <4>. QED BY <4>1, <4>3, <4>4
    <3>3. CASE answer \in {"cancelled", "superseded"}
      <4>0. /\ Withdraw({<<e, s>>}, Unsent, answer)
            /\ UNCHANGED <<pc, cur, usable, outcome>>
        BY <3>1, <3>3
      <4>1. RowsGood
        <5>1. answer \in Gone
          BY <3>3 DEF Gone
        <5>. QED BY <4>0, <1>3, <5>1, WithdrawIs
      <4>2. ClaimGood
        BY <4>0, <1>0, <1>1, <1>2, <1>3
           DEF TInv, ClaimTyped, PcTyped, OthersStay, Stays, Place, AtEvent, AtDelivery
      <4>3. Refused(p, s)
        BY <4>0, <1>0, <3>3 DEF Refused, Halted
      <4>. QED BY <4>1, <4>2, <4>3
    <3>4. CASE answer = "ready"
      <4>0. /\ pc' = [pc EXCEPT ![p] = "fanning"]
            /\ cur' = [cur EXCEPT ![p] = s]
            /\ usable' = IF s \in bound THEN usable \cup {p} ELSE usable
            /\ UNCHANGED <<status, due, lapsed, outcome>>
        BY <3>1, <3>4 DEF Goto
      <4>1. RowsGood
        BY <4>0, SameRows
      <4>2. pc'[p] = "fanning" /\ cur'[p] = s /\ PcTyped'
        BY <4>0 DEF TInv, PcTyped, ClaimTyped
      <4>3. ClaimTyped'
        BY <4>0, <1>1, <1>2, <1>3 DEF TInv, ClaimTyped
      <4>4. OthersStay(p)
        BY <4>0, <1>1, <1>2 DEF TInv, PcTyped, ClaimTyped, OthersStay, Stays
      <4>5. Place(p)'
        BY <4>0, <4>2, <1>0, <1>2, <1>3 DEF Place, AtEvent, AtDelivery
      <4>6. Opened(p, s)
        BY <4>0, <4>2, <3>1 DEF Opened, Matches
      <4>. QED BY <4>1, <4>2, <4>3, <4>4, <4>5, <4>6
    <3>. QED BY <3>1, <3>2, <3>3, <3>4
  <2>. QED BY <1>1, <2>1, <2>2, <2>3
<1>6. TInv'
  <2>1. RowsTyped'
    BY <1>2, <1>5 DEF TInv, RowsTyped
  <2>2. ConfigTyped' /\ CountsTyped'
    BY <1>2 DEF TInv, ConfigTyped, CountsTyped, config
  <2>3. \A q \in Processes : Place(q)'
    BY <1>5, PlaceOfOthers
  <2>. QED BY <1>5, <2>1, <2>2, <2>3 DEF TInv
<1>7. VisitOf(p, s)
  BY <1>0, <1>1, <1>4, <1>5 DEF VisitOf
<1>. QED BY <1>2, <1>3, <1>5, <1>6, <1>7

\* What a receipt does to the rows.
ReceiptOf(p) ==
  /\ \A r \in Rows :
       \/ /\ status'[r] = status[r]
          /\ r \in Deliveries /\ r[1] < row[p][1] /\ r[2] = cur[p]
               => status[r] \notin Unsent
       \/ /\ r \in Deliveries /\ r[1] < row[p][1] /\ r[2] = cur[p]
          /\ status[r] \in Unsent /\ status'[r] = "superseded"
       \/ /\ r = <<row[p][1], cur[p]>> /\ status[r] = "absent" /\ status'[r] = "pending"
          /\ p \in usable
  /\ p \in usable => status'[<<row[p][1], cur[p]>>] # "absent"

LEMMA ReceiveIs ==
  ASSUME TInv, NEW p \in Processes, pc[p] = "fanning", Receive(p)
  PROVE  /\ ReceiptOf(p) /\ RowsTyped' /\ UNCHANGED <<tries, lapsed>>
<1>. DEFINE e == row[p][1]
            s == cur[p]
            earlier == {d \in Deliveries : d[1] < e /\ d[2] = s /\ status[d] \in Unsent}
            new == {d \in {<<e, s>>} : p \in usable /\ status[d] = "absent"}
<1>1. /\ status' = [r \in Rows |-> IF r \in earlier THEN "superseded"
                                   ELSE IF r \in new THEN "pending" ELSE status[r]]
      /\ due' = (due \ earlier) \cup new
      /\ UNCHANGED <<tries, lapsed>>
  BY DEF Receive
<1>2. row[p] \in EventRows /\ e \in Events /\ s \in Subs
  BY RowKinds DEF TInv, Place, AtEvent
<1>3. <<e, s>> \in Deliveries /\ <<e, s>>[1] = e
  BY <1>2, RowKinds
<1>4. Deliveries \subseteq Rows
  BY DEF Rows
<1>5. e \in Nat
  BY <1>2, ConstantsAssumption
<1>6. <<e, s>> \notin earlier
  BY <1>3, <1>5
<1>7. RowsTyped'
  BY <1>1, <1>3, <1>4 DEF TInv, RowsTyped, Statuses, Waiting, Final
<1>8. \A r \in Rows : status'[r] = IF r \in earlier THEN "superseded"
                                   ELSE IF r \in new THEN "pending" ELSE status[r]
  BY <1>1
<1>9. p \in usable => status'[<<e, s>>] # "absent"
  BY <1>3, <1>4, <1>6, <1>8
<1>10. ASSUME NEW r \in Rows
       PROVE  \/ /\ status'[r] = status[r]
                 /\ r \in Deliveries /\ r[1] < e /\ r[2] = s
                      => status[r] \notin Unsent
              \/ /\ r \in Deliveries /\ r[1] < e /\ r[2] = s
                 /\ status[r] \in Unsent /\ status'[r] = "superseded"
              \/ /\ r = <<e, s>> /\ status[r] = "absent" /\ status'[r] = "pending"
                 /\ p \in usable
  <2>1. CASE r \in earlier
    BY <2>1, <1>8
  <2>2. CASE r \in new
    BY <2>2, <1>6, <1>8
  <2>3. CASE r \notin earlier /\ r \notin new
    BY <2>3, <1>8
  <2>. QED BY <2>1, <2>2, <2>3
<1>. QED BY <1>1, <1>7, <1>9, <1>10 DEF ReceiptOf

\* The transaction of a visit is over, with or without its writes.
VisitClosed(p) ==
  /\ pc[p] = "fanning" /\ pc'[p] = "fan"
  /\ row'[p] = row[p] /\ token'[p] = token[p] /\ todo'[p] = todo[p]
  /\ UNCHANGED <<tries, lapsed, config, sends>>
  /\ \/ outcome'[p] = outcome[p] /\ ReceiptOf(p) /\ UNCHANGED faults
     \/ outcome'[p] = "retry" /\ (ReceiptOf(p) \/ UNCHANGED status)

LEMMA ClosePlace ==
  ASSUME TInv, NEW p \in Processes, pc[p] = "fanning", CloseVisit(p),
         NEW o \in {"completed", "deferred", "retry"},
         outcome' = [outcome EXCEPT ![p] = o], UNCHANGED <<row, token, todo>>
  PROVE  /\ PcTyped' /\ ClaimTyped' /\ OthersStay(p)
         /\ \A q \in Processes : Place(q)'
         /\ pc'[p] = "fan" /\ outcome'[p] = o
<1>. USE DEF TInv, CloseVisit, Goto
<1>1. PcTyped' /\ ClaimTyped' /\ OthersStay(p) /\ pc'[p] = "fan" /\ outcome'[p] = o
  BY DEF PcTyped, ClaimTyped, OthersStay, Stays, Final
<1>2. Place(p)'
  BY <1>1 DEF Place, AtEvent, AtDelivery
<1>. QED BY <1>1, <1>2, PlaceOfOthers

LEMMA CommitTypes ==
  ASSUME TInv, NEW p \in Processes, Commit(p)
  PROVE  TInv' /\ OthersStay(p) /\ VisitClosed(p)
<1>1. /\ pc[p] = "fanning" /\ Receive(p) /\ CloseVisit(p)
      /\ UNCHANGED <<config, sends, row, token, todo, outcome, faults>>
  BY DEF Commit, At
<1>2. outcome[p] \in {"completed", "deferred", "retry"} /\ outcome \in [Processes -> {"none", "retry", "deferred"} \cup Final]
  BY <1>1 DEF TInv, Place, ClaimTyped
<1>3. outcome' = [outcome EXCEPT ![p] = outcome[p]]
  BY <1>1, <1>2
<1>4. ReceiptOf(p) /\ RowsTyped' /\ UNCHANGED <<tries, lapsed>>
  BY <1>1, ReceiveIs
<1>5. /\ PcTyped' /\ ClaimTyped' /\ OthersStay(p)
      /\ \A q \in Processes : Place(q)'
      /\ pc'[p] = "fan"
  BY <1>1, <1>2, <1>3, ClosePlace
<1>6. ConfigTyped' /\ CountsTyped'
  BY <1>1 DEF TInv, ConfigTyped, CountsTyped, config
<1>. QED BY <1>1, <1>4, <1>5, <1>6 DEF TInv, VisitClosed

\* A visit that fails before its transaction writes.
VisitSkipped(p) ==
  /\ pc[p] = "fan" /\ pc'[p] = "fan" /\ outcome'[p] = "retry"
  /\ row'[p] = row[p] /\ token'[p] = token[p]
  /\ UNCHANGED <<rows, config, sends>>

LEMMA FailVisitTypes ==
  ASSUME TInv, NEW p \in Processes, FailVisit(p)
  PROVE  TInv' /\ OthersStay(p) /\ (VisitClosed(p) \/ VisitSkipped(p))
<1>1. /\ Fault /\ UNCHANGED <<config, sends, row, token>>
      /\ outcome' = [outcome EXCEPT ![p] = "retry"]
  BY DEF FailVisit, Blame
<1>2. ConfigTyped' /\ CountsTyped'
  BY <1>1, ConstantsAssumption DEF TInv, ConfigTyped, CountsTyped, config, Fault
<1>3. CASE /\ At(p, "fan")
           /\ \E s \in todo[p] : todo' = [todo EXCEPT ![p] = @ \ {s}]
           /\ UNCHANGED <<rows, pc, cur, usable>>
  <2>1. PcTyped' /\ ClaimTyped' /\ OthersStay(p)
    BY <1>1, <1>3 DEF TInv, PcTyped, ClaimTyped, OthersStay, Stays, Final
  <2>2. pc[p] = "fan" /\ pc'[p] = "fan" /\ outcome'[p] = "retry"
    BY <1>1, <1>3 DEF TInv, PcTyped, ClaimTyped, At
  <2>3. Place(p)'
    BY <2>2, <1>1 DEF TInv, Place, AtEvent, AtDelivery
  <2>4. RowsTyped'
    BY <1>3 DEF TInv, RowsTyped, rows
  <2>. QED BY <1>1, <1>2, <1>3, <2>1, <2>2, <2>3, <2>4, PlaceOfOthers DEF TInv, VisitSkipped
<1>4. CASE /\ At(p, "fanning")
           /\ Receive(p) \/ UNCHANGED rows
           /\ CloseVisit(p)
           /\ UNCHANGED todo
  <2>1. pc[p] = "fanning"
    BY <1>4 DEF At
  <2>2. /\ PcTyped' /\ ClaimTyped' /\ OthersStay(p)
        /\ \A q \in Processes : Place(q)'
        /\ pc'[p] = "fan" /\ outcome'[p] = "retry"
    BY <1>1, <1>4, <2>1, ClosePlace
  <2>3. RowsTyped' /\ UNCHANGED <<tries, lapsed>> /\ (ReceiptOf(p) \/ UNCHANGED status)
    <3>1. CASE Receive(p)
      BY <3>1, <2>1, ReceiveIs
    <3>2. CASE UNCHANGED rows
      BY <3>2 DEF TInv, RowsTyped, rows
    <3>. QED BY <1>4, <3>1, <3>2
  <2>. QED BY <1>1, <1>2, <1>4, <2>1, <2>2, <2>3 DEF TInv, VisitClosed
<1>. QED BY <1>3, <1>4 DEF FailVisit

-----------------------------------------------------------------------------

\* What the write of a claimant does to its row.
WriteOf(p) ==
  \/ /\ Owns(p) /\ status'[row[p]] \in Verdict(p)
     /\ \A r \in Rows : r # row[p] => status'[r] = status[r]
     /\ lapsed' = lapsed \ {row[p]}
     /\ UNCHANGED tries
  \/ ~Owns(p) /\ UNCHANGED rows

LEMMA VerdictFacts ==
  ASSUME TInv, NEW p \in Processes,
         outcome[p] \in {"completed", "deferred", "retry", "failed", "cancelled", "success"}
  PROVE  /\ Verdict(p) \subseteq Waiting \cup Final
         /\ \A st \in Verdict(p) : st \in {"failed", outcome[p]}
         /\ \A st \in Verdict(p) : st \in Waiting => token[p] < MaxTries /\ outcome[p] = st
         /\ Verdict(p) \cap {"pending", "accepted"} = {}
<1>1. CASE outcome[p] \in {"retry", "deferred"}
  BY <1>1 DEF Verdict, Waiting, Final
<1>2. CASE outcome[p] \in {"completed", "failed", "cancelled", "success"}
  BY <1>2 DEF Verdict, Waiting, Final
<1>. QED BY <1>1, <1>2

LEMMA WriteIs ==
  ASSUME TInv, NEW p \in Processes, row[p] \in Rows, Write(p),
         outcome[p] \in {"completed", "deferred", "retry", "failed", "cancelled", "success"}
  PROVE  WriteOf(p) /\ RowsTyped'
<1>1. CASE Owns(p)
  <2>1. PICK st \in Verdict(p) : status' = [status EXCEPT ![row[p]] = st]
    BY <1>1 DEF Write
  <2>2. lapsed' = lapsed \ {row[p]} /\ UNCHANGED <<tries, due>>
    BY <1>1 DEF Write
  <2>3. st \in Statuses
    BY VerdictFacts DEF Statuses
  <2>. QED BY <1>1, <2>1, <2>2, <2>3 DEF TInv, RowsTyped, WriteOf
<1>2. CASE ~Owns(p)
  BY <1>2 DEF TInv, Write, WriteOf, RowsTyped, rows
<1>. QED BY <1>1, <1>2

\* A process that lets go of its claim.
Leaves(p) == OthersStay(p) /\ Freed(p) /\ UNCHANGED <<config, sends>>

LEMMA LeaveTypes ==
  ASSUME TInv, NEW p \in Processes, Done(p), RowsTyped', UNCHANGED <<config, sends>>,
         faults' \in 0 .. MaxFaults
  PROVE  TInv' /\ Leaves(p)
<1>1. PcTyped' /\ ClaimTyped' /\ OthersStay(p) /\ Freed(p)
  BY DoneTypes
<1>2. \A q \in Processes : Place(q)'
  BY <1>1, FreedPlace
<1>3. ConfigTyped' /\ CountsTyped'
  BY DEF TInv, ConfigTyped, CountsTyped, config
<1>. QED BY <1>1, <1>2, <1>3 DEF TInv, Leaves

LEMMA LeaveStaleTypes ==
  ASSUME TInv, NEW p \in Processes, LeaveStale(p) \/ DropStale(p)
  PROVE  TInv' /\ Leaves(p) /\ ~Owns(p) /\ UNCHANGED <<rows, faults>>
<1>1. Done(p) /\ ~Owns(p) /\ UNCHANGED <<rows, config, sends, faults>>
  BY DEF LeaveStale, DropStale
<1>2. RowsTyped' /\ faults' \in 0 .. MaxFaults
  BY <1>1 DEF TInv, RowsTyped, rows, CountsTyped
<1>. QED BY <1>1, <1>2, LeaveTypes

LEMMA CrashTypes ==
  ASSUME TInv, NEW p \in Processes, Crash(p)
  PROVE  TInv' /\ Leaves(p) /\ UNCHANGED rows /\ faults' = faults + 1
<1>1. Done(p) /\ UNCHANGED <<rows, config, sends>> /\ Fault
  BY DEF Crash
<1>2. RowsTyped' /\ faults' \in 0 .. MaxFaults /\ faults' = faults + 1
  BY <1>1, ConstantsAssumption DEF TInv, RowsTyped, rows, CountsTyped, Fault
<1>. QED BY <1>1, <1>2, LeaveTypes

LEMMA SettleEventTypes ==
  ASSUME TInv, NEW p \in Processes, SettleEvent(p)
  PROVE  /\ TInv' /\ Leaves(p) /\ WriteOf(p) /\ UNCHANGED faults
         /\ row[p] \in EventRows
         /\ pc[p] = "settle" \/ (pc[p] = "fan" /\ todo[p] = {})
<1>0. pc[p] = "settle" \/ (pc[p] = "fan" /\ todo[p] = {})
  BY DEF SettleEvent, At
<1>1. Write(p) /\ Done(p) /\ UNCHANGED <<config, sends, faults>>
  BY DEF SettleEvent
<1>2. row[p] \in EventRows /\ row[p] \in Rows
      /\ outcome[p] \in {"completed", "deferred", "retry", "failed"}
  BY <1>0 DEF TInv, Place, AtEvent, Rows
<1>3. WriteOf(p) /\ RowsTyped'
  BY <1>1, <1>2, WriteIs
<1>4. faults' \in 0 .. MaxFaults
  BY <1>1 DEF TInv, CountsTyped
<1>. QED BY <1>0, <1>1, <1>2, <1>3, <1>4, LeaveTypes

LEMMA StoreTypes ==
  ASSUME TInv, NEW p \in Processes, Store(p)
  PROVE  /\ TInv' /\ Leaves(p)
         /\ pc[p] = "store" /\ row[p] \in Deliveries
         /\ \/ WriteOf(p) /\ UNCHANGED faults
            \/ UNCHANGED rows /\ faults' = faults + 1
<1>1. /\ pc[p] = "store" /\ Done(p) /\ UNCHANGED <<config, sends>>
      /\ \/ Write(p) /\ UNCHANGED faults
         \/ UNCHANGED rows /\ Fault
  BY DEF Store, At
<1>2. row[p] \in Deliveries /\ row[p] \in Rows
      /\ outcome[p] \in {"retry", "failed", "cancelled", "success"}
  BY <1>1 DEF TInv, Place, AtDelivery, Rows
<1>3. CASE Write(p) /\ UNCHANGED faults
  <2>1. WriteOf(p) /\ RowsTyped'
    BY <1>2, <1>3, WriteIs
  <2>2. faults' \in 0 .. MaxFaults
    BY <1>3 DEF TInv, CountsTyped
  <2>. QED BY <1>1, <1>2, <1>3, <2>1, <2>2, LeaveTypes
<1>4. CASE UNCHANGED rows /\ Fault
  <2>1. RowsTyped' /\ faults' \in 0 .. MaxFaults /\ faults' = faults + 1
    BY <1>4, ConstantsAssumption DEF TInv, RowsTyped, rows, CountsTyped, Fault
  <2>. QED BY <1>1, <1>2, <1>4, <2>1, LeaveTypes
<1>. QED BY <1>1, <1>3, <1>4

\* A process that turns to the next await with the same claim.
Turns(p) ==
  /\ OthersStay(p)
  /\ row'[p] = row[p] /\ token'[p] = token[p]
  /\ UNCHANGED <<rows, config>>

FailSettleOf(p) ==
  /\ Turns(p) /\ pc'[p] = "settle" /\ outcome'[p] = "retry"
  /\ pc[p] = "fan" /\ UNCHANGED sends /\ faults' = faults + 1

PrepareOf(p) ==
  /\ Turns(p) /\ pc[p] = "prepare" /\ UNCHANGED sends
  /\ \/ pc'[p] = "send" /\ Owns(p) /\ UNCHANGED faults
     \/ pc'[p] = "store" /\ outcome'[p] \in {"failed", "cancelled"} /\ UNCHANGED faults
     \/ pc'[p] = "store" /\ outcome'[p] = "retry" /\ faults' = faults + 1

SendOf(p) ==
  /\ Turns(p) /\ pc[p] = "send" /\ pc'[p] = "store"
  /\ \/ /\ sends' = [sends EXCEPT ![row[p]] = @ + 1]
        /\ outcome'[p] = "success" /\ UNCHANGED faults
     \/ UNCHANGED <<sends, faults>> /\ outcome'[p] \in {"failed", "retry"}
     \/ /\ sends' = [sends EXCEPT ![row[p]] = @ + 1]
        /\ outcome'[p] = "retry" /\ faults' = faults + 1

LEMMA PlanTypes ==
  ASSUME TInv, NEW p \in Processes,
         NEW o \in {"none", "retry", "deferred"} \cup Final,
         NEW place \in {"fan", "settle", "store"},
         Plan(p, o, place), UNCHANGED <<rows, config, row, token, todo, cur, usable>>
  PROVE  /\ PcTyped' /\ ClaimTyped' /\ RowsTyped' /\ ConfigTyped'
         /\ Turns(p) /\ pc'[p] = place /\ outcome'[p] = o
<1>. USE DEF TInv, Plan, Goto
<1>1. PcTyped' /\ ClaimTyped' /\ OthersStay(p) /\ pc'[p] = place /\ outcome'[p] = o
  BY DEF PcTyped, ClaimTyped, OthersStay, Stays
<1>2. RowsTyped' /\ ConfigTyped'
  BY DEF RowsTyped, ConfigTyped, rows, config
<1>3. row'[p] = row[p] /\ token'[p] = token[p]
  OBVIOUS
<1>. QED BY <1>1, <1>2, <1>3 DEF Turns

LEMMA FailSettleTypes ==
  ASSUME TInv, NEW p \in Processes, FailSettle(p)
  PROVE  TInv' /\ FailSettleOf(p)
<1>1. /\ pc[p] = "fan" /\ Fault /\ Plan(p, "retry", "settle")
      /\ UNCHANGED <<rows, config, sends, row, token, todo, cur, usable>>
  BY DEF FailSettle, At
<1>2. /\ PcTyped' /\ ClaimTyped' /\ RowsTyped' /\ ConfigTyped'
      /\ Turns(p) /\ pc'[p] = "settle" /\ outcome'[p] = "retry"
  BY <1>1, PlanTypes
<1>3. CountsTyped' /\ faults' = faults + 1
  BY <1>1, ConstantsAssumption DEF TInv, CountsTyped, Fault
<1>4. Place(p)'
  BY <1>1, <1>2 DEF TInv, Place, AtEvent, AtDelivery
<1>5. \A q \in Processes : Place(q)'
  BY <1>2, <1>4, PlaceOfOthers DEF Turns
<1>. QED BY <1>1, <1>2, <1>3, <1>5 DEF TInv, FailSettleOf

LEMMA PrepareTypes ==
  ASSUME TInv, NEW p \in Processes, Prepare(p)
  PROVE  TInv' /\ PrepareOf(p)
<1>1. /\ pc[p] = "prepare"
      /\ UNCHANGED <<rows, config, sends, row, token, todo, cur, usable>>
  BY DEF Prepare, At
<1>2. row[p] \in Deliveries
  BY <1>1 DEF TInv, Place, AtDelivery
<1>. DEFINE Good == /\ PcTyped' /\ ClaimTyped' /\ RowsTyped' /\ ConfigTyped'
                    /\ CountsTyped' /\ PrepareOf(p) /\ Place(p)'
<1>3. ASSUME NEW o \in {"failed", "cancelled"}, Plan(p, o, "store"), UNCHANGED faults
      PROVE  Good
  <2>1. o \in {"none", "retry", "deferred"} \cup Final
    BY DEF Final
  <2>2. /\ PcTyped' /\ ClaimTyped' /\ RowsTyped' /\ ConfigTyped'
        /\ Turns(p) /\ pc'[p] = "store" /\ outcome'[p] = o
    BY <1>1, <1>3, <2>1, PlanTypes
  <2>3. CountsTyped'
    BY <1>1, <1>3 DEF TInv, CountsTyped
  <2>4. Place(p)'
    BY <1>1, <1>2, <2>2 DEF Place, AtEvent, AtDelivery
  <2>. QED BY <1>1, <1>3, <2>2, <2>3, <2>4 DEF PrepareOf
<1>4. ASSUME Plan(p, "retry", "store"), Fault
      PROVE  Good
  <2>1. /\ PcTyped' /\ ClaimTyped' /\ RowsTyped' /\ ConfigTyped'
        /\ Turns(p) /\ pc'[p] = "store" /\ outcome'[p] = "retry"
    BY <1>1, <1>4, PlanTypes
  <2>2. CountsTyped' /\ faults' = faults + 1
    BY <1>1, <1>4, ConstantsAssumption DEF TInv, CountsTyped, Fault
  <2>3. Place(p)'
    BY <1>1, <1>2, <2>1 DEF Place, AtEvent, AtDelivery
  <2>. QED BY <1>1, <2>1, <2>2, <2>3 DEF PrepareOf
<1>5. ASSUME Owns(p), UNCHANGED faults, Goto(p, "send"), UNCHANGED outcome
      PROVE  Good
  <2>1. PcTyped' /\ ClaimTyped' /\ OthersStay(p) /\ pc'[p] = "send"
    BY <1>1, <1>5 DEF TInv, Goto, PcTyped, ClaimTyped, OthersStay, Stays
  <2>2. RowsTyped' /\ ConfigTyped' /\ CountsTyped'
    BY <1>1, <1>5 DEF TInv, RowsTyped, ConfigTyped, rows, config, CountsTyped
  <2>3. Place(p)'
    BY <1>1, <1>2, <2>1 DEF Place, AtEvent, AtDelivery
  <2>. QED BY <1>1, <1>5, <2>1, <2>2, <2>3 DEF PrepareOf, Turns
<1>6. Good
  BY <1>3, <1>4, <1>5 DEF Prepare
<1>7. \A q \in Processes : Place(q)'
  BY <1>6, PlaceOfOthers DEF PrepareOf, Turns
<1>. QED BY <1>6, <1>7 DEF TInv

LEMMA SendTypes ==
  ASSUME TInv, NEW p \in Processes, Send(p)
  PROVE  TInv' /\ SendOf(p) /\ row[p] \in Deliveries
<1>1. /\ pc[p] = "send"
      /\ UNCHANGED <<rows, config, row, token, todo, cur, usable>>
  BY DEF Send, At
<1>2. row[p] \in Deliveries
  BY <1>1 DEF TInv, Place, AtDelivery
<1>3. PICK o \in {"success", "failed", "retry"} :
        /\ Plan(p, o, "store")
        /\ \/ Accept(p) /\ o = "success" /\ UNCHANGED faults
           \/ UNCHANGED <<sends, faults>> /\ o \in {"failed", "retry"}
           \/ Accept(p) /\ o = "retry" /\ Fault
  BY DEF Send
<1>4. o \in {"none", "retry", "deferred"} \cup Final
  BY DEF Final
<1>5. /\ PcTyped' /\ ClaimTyped' /\ RowsTyped' /\ ConfigTyped'
      /\ Turns(p) /\ pc'[p] = "store" /\ outcome'[p] = o
  BY <1>1, <1>3, <1>4, PlanTypes
<1>6. Accept(p) => sends' = [sends EXCEPT ![row[p]] = @ + 1]
                   /\ sends' \in [Deliveries -> Nat]
  BY <1>2 DEF Accept, TInv, CountsTyped
<1>7. Fault => faults' = faults + 1 /\ faults' \in 0 .. MaxFaults
  BY ConstantsAssumption DEF TInv, CountsTyped, Fault
<1>8. CountsTyped'
  BY <1>3, <1>6, <1>7 DEF TInv, CountsTyped
<1>9. SendOf(p)
  BY <1>1, <1>3, <1>5, <1>6, <1>7 DEF SendOf
<1>10. Place(p)'
  BY <1>1, <1>2, <1>5 DEF Place, AtEvent, AtDelivery
<1>11. \A q \in Processes : Place(q)'
  BY <1>5, <1>10, PlaceOfOthers DEF Turns
<1>. QED BY <1>2, <1>5, <1>8, <1>9, <1>11 DEF TInv

-----------------------------------------------------------------------------
(* The steps of nobody: events, configuration, the clock *)

LEMMA SamePlaces ==
  ASSUME TInv, UNCHANGED <<pc, claim>>
  PROVE  PcTyped' /\ ClaimTyped' /\ \A p \in Processes : Place(p)'
<1>1. UNCHANGED <<pc, row, token, todo, cur, usable, outcome>>
  BY DEF claim
<1>2. PcTyped' /\ ClaimTyped'
  BY <1>1 DEF TInv, PcTyped, ClaimTyped
<1>3. \A p \in Processes : Place(p)'
  BY <1>1 DEF TInv, Place, AtEvent, AtDelivery
<1>. QED BY <1>2, <1>3

LEMMA StageTypes ==
  ASSUME TInv, NEW e \in Events, Stage(e)
  PROVE  /\ TInv' /\ UNCHANGED <<tries, lapsed, config, sends, pc, claim, faults>>
         /\ Row(e) \in Rows /\ status[Row(e)] = "absent" /\ status'[Row(e)] = "accepted"
         /\ \A r \in Rows : r # Row(e) => status'[r] = status[r]
<1>1. Row(e) \in Rows
  BY RowKinds
<1>2. RowsTyped' /\ ConfigTyped' /\ CountsTyped'
  BY <1>1 DEF TInv, Stage, RowsTyped, ConfigTyped, CountsTyped, config, Statuses, Waiting
<1>3. PcTyped' /\ ClaimTyped' /\ \A p \in Processes : Place(p)'
  BY SamePlaces DEF Stage
<1>4. status'[Row(e)] = "accepted" /\ \A r \in Rows : r # Row(e) => status'[r] = status[r]
  BY <1>1 DEF TInv, Stage, RowsTyped
<1>. QED BY <1>1, <1>2, <1>3, <1>4 DEF TInv, Stage

\* A change of the configuration of s: what is withdrawn with it.
ConfiguredOf(s) ==
  /\ changes' = [changes EXCEPT ![s] = @ + 1]
  /\ UNCHANGED <<tries, sends, pc, claim, faults>>
  /\ Withdrawn(Unsent \cup {"processing"})
  /\ \A x \in Subs : x # s => /\ x \in matching' <=> x \in matching
                              /\ x \in bound' <=> x \in bound
  /\ \/ ~Locked(s)
     \/ \A x \in Subs : x \in matching' <=> x \in matching
  /\ s \in matching /\ s \notin matching' =>
       \A e \in Events : status'[<<e, s>>] # "pending"

LEMMA ChangeTypes ==
  ASSUME TInv, NEW s \in Subs, Change(s), matching' \subseteq Subs, bound' \subseteq Subs,
         status' \in [Rows -> Statuses], due' \subseteq Rows, lapsed' \subseteq Rows
  PROVE  TInv'
<1>1. UNCHANGED <<tries, sends, pc, claim, faults>>
      /\ changes[s] < MaxChanges /\ changes' = [changes EXCEPT ![s] = @ + 1]
  BY DEF Change
<1>2. RowsTyped' /\ CountsTyped'
  BY <1>1 DEF TInv, RowsTyped, CountsTyped
<1>3. ConfigTyped'
  BY <1>1, ConstantsAssumption DEF TInv, ConfigTyped
<1>4. PcTyped' /\ ClaimTyped' /\ \A p \in Processes : Place(p)'
  BY <1>1, SamePlaces
<1>. QED BY <1>2, <1>3, <1>4 DEF TInv

LEMMA DeliveriesOfRows ==
  ASSUME NEW s \in Subs
  PROVE  /\ DeliveriesOf(s) \in SUBSET Deliveries
         /\ \A e \in Events : <<e, s>> \in DeliveriesOf(s) /\ <<e, s>> \in Rows
  BY DEF DeliveriesOf, Deliveries, Rows

LEMMA WithdrawAll ==
  ASSUME TInv, NEW s \in Subs, NEW from, Unsent \subseteq from,
         Withdraw(DeliveriesOf(s), from, "cancelled")
  PROVE  \A e \in Events : status'[<<e, s>>] # "pending"
<1>1. "cancelled" \in Final
  BY DEF Final
<1>2. \A r \in Rows : status'[r] = IF r \in DeliveriesOf(s) /\ status[r] \in from
                                   THEN "cancelled" ELSE status[r]
  BY <1>1, WithdrawRows
<1>3. "pending" \in from
  BY DEF Unsent
<1>. QED BY <1>2, <1>3, DeliveriesOfRows

LEMMA WithdrawWidens ==
  ASSUME NEW from, NEW wide, from \subseteq wide, Withdrawn(from)
  PROVE  Withdrawn(wide)
  BY DEF Withdrawn

LEMMA ConfigureTypes ==
  ASSUME TInv, NEW s \in Subs, Configure(s)
  PROVE  TInv' /\ ConfiguredOf(s)
<1>. DEFINE wide == Unsent \cup {"processing"}
<1>0. Change(s) /\ UNCHANGED <<tries, sends, pc, claim, faults>>
      /\ changes' = [changes EXCEPT ![s] = @ + 1]
  BY DEF Configure, Disable, Enable, Retarget, Unbind, Rebind, Change
<1>1. ASSUME NEW from, Unsent \subseteq from, from \subseteq wide,
             Withdraw(DeliveriesOf(s), from, "cancelled")
      PROVE  /\ Withdrawn(wide) /\ status' \in [Rows -> Statuses]
             /\ due' \subseteq Rows /\ lapsed' \subseteq Rows
             /\ \A e \in Events : status'[<<e, s>>] # "pending"
  <2>1. "cancelled" \in Gone
    BY DEF Gone
  <2>2. /\ Withdrawn(from) /\ status' \in [Rows -> Statuses]
        /\ due' \subseteq Rows /\ lapsed' \subseteq Rows
    BY <1>1, <2>1, DeliveriesOfRows, WithdrawIs
  <2>3. Withdrawn(wide)
    BY <1>1, <2>2, WithdrawWidens
  <2>. QED BY <1>1, <2>2, <2>3, WithdrawAll
<1>2. ASSUME UNCHANGED <<status, due, lapsed>>
      PROVE  /\ Withdrawn(wide) /\ status' \in [Rows -> Statuses]
             /\ due' \subseteq Rows /\ lapsed' \subseteq Rows
  BY <1>2, SameRows
<1>. DEFINE Good == /\ Withdrawn(wide) /\ status' \in [Rows -> Statuses]
                    /\ due' \subseteq Rows /\ lapsed' \subseteq Rows
                    /\ matching' \subseteq Subs /\ bound' \subseteq Subs
                    /\ \A x \in Subs : x # s => /\ x \in matching' <=> x \in matching
                                                /\ x \in bound' <=> x \in bound
                    /\ \/ ~Locked(s)
                       \/ \A x \in Subs : x \in matching' <=> x \in matching
                    /\ s \in matching /\ s \notin matching' =>
                         \A e \in Events : status'[<<e, s>>] # "pending"
<1>3. ASSUME Disable(s) PROVE Good
  <2>1. /\ ~Locked(s) /\ matching' = matching \ {s} /\ UNCHANGED bound
        /\ Withdraw(DeliveriesOf(s), Unsent, "cancelled")
    BY <1>3 DEF Disable
  <2>. HIDE DEF wide
  <2>2. Unsent \subseteq wide
    BY DEF wide
  <2>3. /\ Withdrawn(wide) /\ status' \in [Rows -> Statuses]
        /\ due' \subseteq Rows /\ lapsed' \subseteq Rows
        /\ \A e \in Events : status'[<<e, s>>] # "pending"
    BY <1>1, <2>1, <2>2
  <2>. QED BY <2>1, <2>3 DEF TInv, ConfigTyped
<1>4. ASSUME Enable(s) PROVE Good
  <2>1. /\ ~Locked(s) /\ matching' = matching \cup {s}
        /\ UNCHANGED <<status, due, lapsed, bound>>
    BY <1>4 DEF Enable
  <2>2. /\ Withdrawn(wide) /\ status' \in [Rows -> Statuses]
        /\ due' \subseteq Rows /\ lapsed' \subseteq Rows
    BY <1>2, <2>1
  <2>. HIDE DEF wide
  <2>. QED BY <2>1, <2>2 DEF TInv, ConfigTyped
<1>5. ASSUME Retarget(s) PROVE Good
  <2>1. /\ ~Locked(s) /\ matching' \in {matching \cup {s}, matching \ {s}}
        /\ Withdraw(DeliveriesOf(s), wide, "cancelled")
        /\ UNCHANGED bound
    BY <1>5 DEF Retarget
  <2>2. Unsent \subseteq wide
    OBVIOUS
  <2>. HIDE DEF wide
  <2>3. /\ Withdrawn(wide) /\ status' \in [Rows -> Statuses]
        /\ due' \subseteq Rows /\ lapsed' \subseteq Rows
        /\ \A e \in Events : status'[<<e, s>>] # "pending"
    BY <1>1, <2>1, <2>2
  <2>. QED BY <2>1, <2>3 DEF TInv, ConfigTyped
<1>6. ASSUME Unbind(s) PROVE Good
  <2>1. /\ bound' = bound \ {s} /\ UNCHANGED matching
        /\ Withdraw(DeliveriesOf(s), Unsent, "cancelled")
    BY <1>6 DEF Unbind
  <2>2. Unsent \subseteq wide
    OBVIOUS
  <2>. HIDE DEF wide
  <2>3. /\ Withdrawn(wide) /\ status' \in [Rows -> Statuses]
        /\ due' \subseteq Rows /\ lapsed' \subseteq Rows
    BY <1>1, <2>1, <2>2
  <2>. QED BY <2>1, <2>3 DEF TInv, ConfigTyped
<1>7. ASSUME Rebind(s) PROVE Good
  <2>1. /\ bound' = bound \cup {s}
        /\ UNCHANGED <<status, due, lapsed, matching>>
    BY <1>7 DEF Rebind
  <2>2. /\ Withdrawn(wide) /\ status' \in [Rows -> Statuses]
        /\ due' \subseteq Rows /\ lapsed' \subseteq Rows
    BY <1>2, <2>1
  <2>. HIDE DEF wide
  <2>. QED BY <2>1, <2>2 DEF TInv, ConfigTyped
<1>8. Good
  BY <1>3, <1>4, <1>5, <1>6, <1>7 DEF Configure
<1>. QED BY <1>0, <1>8, ChangeTypes DEF ConfiguredOf

\* The clock, and the wake-up of deferred events.
LEMMA DueTypes ==
  ASSUME TInv, WakeDeferred \/ (\E r \in Rows : BecomeDue(r))
  PROVE  TInv' /\ UNCHANGED <<status, tries, lapsed, config, sends, pc, claim, faults>>
<1>1. UNCHANGED <<status, tries, lapsed, config, sends, pc, claim, faults>>
  BY DEF WakeDeferred, BecomeDue
<1>2. due' \subseteq Rows
  BY DEF WakeDeferred, BecomeDue, TInv, RowsTyped, Rows
<1>3. RowsTyped' /\ ConfigTyped' /\ CountsTyped'
  BY <1>1, <1>2 DEF TInv, RowsTyped, ConfigTyped, CountsTyped, config
<1>. QED BY <1>1, <1>3, SamePlaces DEF TInv

LapseOf(r) ==
  /\ status[r] = "processing" /\ lapsed' = lapsed \cup {r}
  /\ UNCHANGED <<status, tries, config, sends, pc, claim>>
  /\ \/ Held(r) /\ faults' = faults + 1
     \/ ~Held(r) /\ UNCHANGED faults

LEMMA LapseTypes ==
  ASSUME TInv, NEW r \in Rows, Lapse(r)
  PROVE  TInv' /\ LapseOf(r)
<1>1. /\ UNCHANGED <<status, tries, due, config, sends, pc, claim>>
      /\ status[r] = "processing" /\ lapsed' = lapsed \cup {r}
  BY DEF Lapse
<1>2. /\ faults' \in 0 .. MaxFaults
      /\ \/ Held(r) /\ faults' = faults + 1
         \/ ~Held(r) /\ UNCHANGED faults
  BY ConstantsAssumption DEF Lapse, Fault, TInv, CountsTyped
<1>3. RowsTyped' /\ ConfigTyped' /\ CountsTyped'
  BY <1>1, <1>2 DEF TInv, RowsTyped, ConfigTyped, CountsTyped, config
<1>. QED BY <1>1, <1>2, <1>3, SamePlaces DEF TInv, LapseOf

-----------------------------------------------------------------------------
(* The steps, one case for each way in which a claim goes on *)

ClaimOf(p, r) ==
  /\ r \in Rows /\ Claimable(r) /\ pc[p] = "idle"
  /\ status'[r] = "processing" /\ tries'[r] = tries[r] + 1
  /\ \A x \in Rows : x # r => status'[x] = status[x] /\ tries'[x] = tries[x]
  /\ lapsed' = lapsed \ {r}
  /\ row'[p] = r /\ token'[p] = tries[r] + 1
  /\ pc'[p] = IF r \in EventRows THEN "match" ELSE "prepare"
  /\ OthersStay(p) /\ UNCHANGED <<config, sends, faults>>

\* A process writes its row, or leaves it to the clock.
LeavesOf(p) ==
  /\ Leaves(p) /\ row[p] \in Rows /\ pc[p] # "idle"
  /\ \/ /\ WriteOf(p) /\ UNCHANGED faults
        /\ outcome[p] \in {"completed", "deferred", "retry", "failed", "cancelled",
                           "success"}
        /\ pc[p] \in {"settle", "store"} \/ (pc[p] = "fan" /\ todo[p] = {})
     \/ ~Owns(p) /\ UNCHANGED <<rows, faults>>
     \/ UNCHANGED rows /\ faults' = faults + 1

LEMMA ClaimIs ==
  ASSUME TInv, NEW p \in Processes,
         NEW rs, NEW place, Claim(p, rs, place),
         \/ rs = EventRows /\ place = "match"
         \/ rs = Deliveries /\ place = "prepare"
  PROVE  \E r \in Rows : ClaimOf(p, r)
<1>1. PICK r \in rs :
        /\ Candidate(r)
        /\ status' = [status EXCEPT ![r] = "processing"]
        /\ tries' = [tries EXCEPT ![r] = @ + 1]
        /\ due' = due \ {r}
        /\ lapsed' = lapsed \ {r}
        /\ row' = [row EXCEPT ![p] = r]
        /\ token' = [token EXCEPT ![p] = tries[r] + 1]
  BY DEF Claim
<1>2. r \in Rows /\ place = IF r \in EventRows THEN "match" ELSE "prepare"
  BY RowKinds
<1>3. pc[p] = "idle" /\ pc' = [pc EXCEPT ![p] = place]
      /\ UNCHANGED <<config, sends, faults>>
  BY DEF Claim, Goto, At
<1>4. OthersStay(p)
  BY ClaimTypes
<1>5. row'[p] = r /\ token'[p] = tries[r] + 1 /\ pc'[p] = place
  BY <1>1, <1>3 DEF TInv, ClaimTyped, PcTyped
<1>6. /\ status'[r] = "processing" /\ tries'[r] = tries[r] + 1
      /\ \A x \in Rows : x # r => status'[x] = status[x] /\ tries'[x] = tries[x]
  BY <1>1, <1>2 DEF TInv, RowsTyped
<1>7. Claimable(r)
  BY <1>1 DEF Candidate
<1>. QED BY <1>1, <1>2, <1>3, <1>4, <1>5, <1>6, <1>7 DEF ClaimOf

LEMMA KeptRows ==
  ASSUME NEW p \in Processes, OthersStay(p), row'[p] = row[p], token'[p] = token[p]
  PROVE  \A q \in Processes : row'[q] = row[q] /\ token'[q] = token[q]
  BY DEF OthersStay, Stays

MatchOf(p) ==
  /\ pc[p] = "match" /\ row'[p] = row[p] /\ token'[p] = token[p]
  /\ UNCHANGED <<rows, config, sends>>
  /\ \/ pc'[p] = "settle"
     \/ pc'[p] = "fan" /\ todo'[p] = matching

VisitStep(p) ==
  /\ Withdrawn(Unsent) /\ UNCHANGED <<tries, config, sends, faults>>
  /\ \E s \in Subs : VisitOf(p, s)

FaultOrNot == faults' \in {faults, faults + 1}

Fans(p) == /\ OthersStay(p) /\ FaultOrNot
           /\ MatchOf(p) \/ VisitStep(p) \/ VisitClosed(p) \/ VisitSkipped(p)

Runs(p) == FailSettleOf(p) \/ PrepareOf(p) \/ (SendOf(p) /\ row[p] \in Deliveries)

StageOf(e) ==
  /\ UNCHANGED <<tries, lapsed, config, sends, pc, claim, faults>>
  /\ Row(e) \in Rows /\ status[Row(e)] = "absent" /\ status'[Row(e)] = "accepted"
  /\ \A r \in Rows : r # Row(e) => status'[r] = status[r]

DueOf == UNCHANGED <<status, tries, lapsed, config, sends, pc, claim, faults>>

LEMMA MatchIs ==
  ASSUME TInv, NEW p \in Processes, Match(p)
  PROVE  TInv' /\ Fans(p)
<1>1. TInv' /\ OthersStay(p)
  BY MatchTypes
<1>2. FaultOrNot /\ pc[p] = "match" /\ UNCHANGED <<rows, config, sends, row, token>>
  BY DEF Match, Fault, FaultOrNot, At
<1>3. \/ pc'[p] = "settle"
      \/ pc'[p] = "fan" /\ todo'[p] = matching
  BY DEF Match, Plan, Goto, TInv, PcTyped, ClaimTyped
<1>. QED BY <1>1, <1>2, <1>3 DEF Fans, MatchOf

LEMMA StepCases ==
  ASSUME TInv, NEW p \in Processes, Step(p) \/ Disturb(p)
  PROVE  /\ TInv'
         /\ (\E r \in Rows : ClaimOf(p, r)) \/ LeavesOf(p) \/ Fans(p) \/ Runs(p)
<1>1. CASE ClaimEvent(p) \/ ClaimDelivery(p)
  BY <1>1, ClaimTypes, ClaimIs DEF ClaimEvent, ClaimDelivery
<1>2. CASE Match(p)
  BY <1>2, MatchIs
<1>3. CASE Visit(p)
  <2>1. FaultOrNot
    BY <1>3 DEF Visit, FaultOrNot
  <2>2. TInv' /\ OthersStay(p) /\ VisitStep(p)
    BY <1>3, VisitTypes DEF VisitStep
  <2>. QED BY <2>1, <2>2 DEF Fans
<1>4. CASE Commit(p)
  <2>1. FaultOrNot
    BY <1>4 DEF Commit, FaultOrNot
  <2>. QED BY <1>4, <2>1, CommitTypes DEF Fans
<1>5. CASE FailVisit(p)
  <2>1. FaultOrNot
    BY <1>5 DEF FailVisit, FaultOrNot, Fault
  <2>. QED BY <1>5, <2>1, FailVisitTypes DEF Fans
<1>6. CASE FailSettle(p) \/ Prepare(p) \/ Send(p)
  BY <1>6, FailSettleTypes, PrepareTypes, SendTypes DEF Runs
<1>7. CASE LeaveStale(p) \/ DropStale(p) \/ Crash(p) \/ SettleEvent(p) \/ Store(p)
  <2>1. Place(p) /\ pc[p] # "idle" /\ row[p] \in Rows
    BY <1>7 DEF LeaveStale, DropStale, Crash, SettleEvent, Store, At, TInv, Place,
                AtEvent, AtDelivery, Rows, PcTyped
  <2>2. CASE LeaveStale(p) \/ DropStale(p)
    BY <2>1, <2>2, LeaveStaleTypes DEF LeavesOf
  <2>3. CASE Crash(p)
    BY <2>1, <2>3, CrashTypes DEF LeavesOf
  <2>4. CASE SettleEvent(p)
    BY <2>1, <2>4, SettleEventTypes DEF LeavesOf, Place
  <2>5. CASE Store(p)
    BY <2>1, <2>5, StoreTypes DEF LeavesOf, Place
  <2>. QED BY <1>7, <2>2, <2>3, <2>4, <2>5
<1>. QED BY <1>1, <1>2, <1>3, <1>4, <1>5, <1>6, <1>7 DEF Step, Disturb

LEMMA NextCases ==
  ASSUME TInv, [Next]_vars
  PROVE  /\ TInv'
         /\ \/ \E p \in Processes : \/ \E r \in Rows : ClaimOf(p, r)
                                    \/ LeavesOf(p) \/ Fans(p) \/ Runs(p)
            \/ \E e \in Events : StageOf(e)
            \/ \E s \in Subs : ConfiguredOf(s)
            \/ \E r \in Rows : LapseOf(r)
            \/ DueOf
<1>1. CASE UNCHANGED vars
  <2>1. UNCHANGED <<rows, config, sends, pc, claim, faults>>
    BY <1>1 DEF vars
  <2>2. RowsTyped' /\ ConfigTyped' /\ CountsTyped'
    BY <2>1 DEF TInv, RowsTyped, ConfigTyped, CountsTyped, rows, config
  <2>3. PcTyped' /\ ClaimTyped' /\ \A p \in Processes : Place(p)'
    BY <2>1, SamePlaces
  <2>. QED BY <2>1, <2>2, <2>3 DEF TInv, DueOf, rows
<1>2. CASE \E p \in Processes : Step(p) \/ Disturb(p)
  BY <1>2, StepCases
<1>3. CASE \E e \in Events : Stage(e)
  BY <1>3, StageTypes DEF StageOf
<1>4. CASE \E s \in Subs : Configure(s)
  BY <1>4, ConfigureTypes
<1>5. CASE WakeDeferred \/ \E r \in Rows : BecomeDue(r)
  BY <1>5, DueTypes DEF DueOf
<1>6. CASE \E r \in Rows : Lapse(r)
  BY <1>6, LapseTypes
<1>. QED BY <1>1, <1>2, <1>3, <1>4, <1>5, <1>6 DEF Next

-----------------------------------------------------------------------------
(* The steps, as far as rows are concerned *)

\* No claim is made or given up.
Gentle ==
  /\ \A p \in Processes : row'[p] = row[p] /\ token'[p] = token[p]
  /\ UNCHANGED tries /\ lapsed' \subseteq lapsed
  /\ faults' \in {faults, faults + 1}
  /\ \A r \in Rows :
       \/ status'[r] = status[r]
       \/ status[r] \in Unsent \cup {"processing"} /\ status'[r] \in Final
       \/ status[r] = "absent" /\ status'[r] \in {"accepted", "pending"}

LEMMA FansGentle ==
  ASSUME TInv, NEW p \in Processes, Fans(p)
  PROVE  Gentle
<1>1. OthersStay(p) /\ faults' \in {faults, faults + 1} /\ row'[p] = row[p] /\ token'[p] = token[p]
  BY DEF Fans, FaultOrNot, MatchOf, VisitStep, VisitOf, VisitClosed, VisitSkipped
<1>2. \A q \in Processes : row'[q] = row[q] /\ token'[q] = token[q]
  BY <1>1, KeptRows
<1>3. UNCHANGED tries /\ lapsed' \subseteq lapsed
  BY DEF Fans, MatchOf, VisitStep, Withdrawn, VisitClosed, VisitSkipped, rows
<1>4. \A r \in Rows :
       \/ status'[r] = status[r]
       \/ status[r] \in Unsent \cup {"processing"} /\ status'[r] \in Final
       \/ status[r] = "absent" /\ status'[r] \in {"accepted", "pending"}
  <2>1. CASE MatchOf(p) \/ VisitSkipped(p)
    BY <2>1 DEF MatchOf, VisitSkipped, rows
  <2>2. CASE VisitStep(p)
    BY <2>2 DEF VisitStep, Withdrawn
  <2>3. CASE VisitClosed(p)
    BY <2>3 DEF VisitClosed, ReceiptOf, Final
  <2>. QED BY <2>1, <2>2, <2>3 DEF Fans
<1>. QED BY <1>1, <1>2, <1>3, <1>4 DEF Gentle

LEMMA RunsGentle ==
  ASSUME TInv, NEW p \in Processes, Runs(p)
  PROVE  Gentle
<1>1. Turns(p) /\ faults' \in {faults, faults + 1}
  BY DEF Runs, FailSettleOf, PrepareOf, SendOf
<1>2. \A q \in Processes : row'[q] = row[q] /\ token'[q] = token[q]
  BY <1>1, KeptRows DEF Turns
<1>. QED BY <1>1, <1>2 DEF Gentle, Turns, rows

LEMMA NextRows ==
  ASSUME TInv, [Next]_vars
  PROVE  /\ TInv'
         /\ \/ Gentle
            \/ \E p \in Processes : (\E r \in Rows : ClaimOf(p, r)) \/ LeavesOf(p)
            \/ \E r \in Rows : LapseOf(r)
<1>1. ASSUME NEW p \in Processes, Fans(p) \/ Runs(p) PROVE Gentle
  BY <1>1, FansGentle, RunsGentle
<1>2. ASSUME NEW e \in Events, StageOf(e) PROVE Gentle
  BY <1>2 DEF StageOf, Gentle, claim
<1>3. ASSUME NEW s \in Subs, ConfiguredOf(s) PROVE Gentle
  BY <1>3 DEF ConfiguredOf, Gentle, claim, Withdrawn
<1>4. DueOf => Gentle
  BY DEF DueOf, Gentle, claim
<1>. QED BY <1>1, <1>2, <1>3, <1>4, NextCases

\* What is final stays so: no write of a claimant, no withdrawal and no receipt
\* touches a row that has ended.
THEOREM FinalStaysAlways == Spec => FinalStays
<1>1. Spec => []TInv
  <2>1. TInv /\ [Next]_vars => TInv'
    BY NextRows
  <2>. QED BY <2>1, TypesInit, PTL DEF Spec
<1>2. TInv /\ [Next]_vars => [\A r \in Rows : status[r] \in Final => status'[r] = status[r]]_vars
  <2>. SUFFICES ASSUME TInv, [Next]_vars, NEW r \in Rows, status[r] \in Final
                PROVE  status'[r] = status[r]
    OBVIOUS
  <2>0. status[r] \notin Unsent \cup {"absent", "processing"} \cup Waiting
    BY DEF Unsent, Final, Waiting
  <2>1. CASE Gentle
    BY <2>0, <2>1 DEF Gentle
  <2>2. ASSUME NEW p \in Processes, NEW x \in Rows, ClaimOf(p, x)
        PROVE  status'[r] = status[r]
    BY <2>0, <2>2 DEF ClaimOf, Claimable
  <2>3. ASSUME NEW p \in Processes, LeavesOf(p)
        PROVE  status'[r] = status[r]
    BY <2>0, <2>3 DEF LeavesOf, WriteOf, Owns, rows
  <2>4. ASSUME NEW x \in Rows, LapseOf(x)
        PROVE  status'[r] = status[r]
    BY <2>4 DEF LapseOf
  <2>. QED BY <2>1, <2>2, <2>3, <2>4, NextRows
<1>. QED BY <1>1, <1>2, PTL DEF Spec, FinalStays

-----------------------------------------------------------------------------
(* Attempts *)

\* No two processes hold the same attempt of a row, and none holds a later one
\* than the last.
Claims ==
  /\ \A p \in Processes : row[p] \in Rows => token[p] <= tries[row[p]]
  /\ \A p \in Processes : row[p] = NoRow => token[p] = 0
  /\ \A p, q \in Processes :
       row[p] = row[q] /\ row[p] \in Rows /\ token[p] = token[q] => p = q

\* An attempt beyond the last that the deadline admits replaces one that was
\* lost, and the fault that lost it is counted before the next claim.
Tried(r) ==
  /\ tries[r] <= MaxTries + faults
  /\ status[r] = "absent" => tries[r] = 0
  /\ status[r] \in Waiting => tries[r] < MaxTries
  /\ status[r] = "processing" /\ (r \in lapsed \/ ~Held(r)) => tries[r] < MaxTries + faults

AInv == TInv /\ Claims /\ \A r \in Rows : Tried(r)

LEMMA AttemptsInit == Init => AInv
<1>. SUFFICES ASSUME Init PROVE AInv
  OBVIOUS
<1>1. TInv
  BY TypesInit
<1>2. Claims
  BY RowKinds DEF Init, Claims
<1>3. \A r \in Rows : Tried(r)
  BY ConstantsAssumption DEF Init, Tried, Waiting
<1>. QED BY <1>1, <1>2, <1>3 DEF AInv

LEMMA ClaimsStep ==
  ASSUME AInv, [Next]_vars
  PROVE  Claims'
<1>0. TInv' /\ TInv /\ Claims
  BY NextRows DEF AInv
<1>1. CASE Gentle
  BY <1>0, <1>1 DEF Gentle, Claims
<1>2. ASSUME NEW p \in Processes, NEW r \in Rows, ClaimOf(p, r) PROVE Claims'
  <2>1. /\ tries'[r] = tries[r] + 1 /\ tries[r] \in Nat
        /\ \A x \in Rows : x # r => tries'[x] = tries[x]
        /\ row'[p] = r /\ token'[p] = tries[r] + 1 /\ r # NoRow
    BY <1>0, <1>2, RowKinds DEF ClaimOf, TInv, RowsTyped
  <2>2. \A q \in Processes : q # p => row'[q] = row[q] /\ token'[q] = token[q]
    BY <1>2 DEF ClaimOf, OthersStay, Stays
  <2>3. \A q \in Processes : token[q] \in Nat /\ token'[q] \in Nat
    BY <1>0 DEF TInv, ClaimTyped
  <2>4. \A x \in Rows : tries[x] \in Nat /\ tries'[x] \in Nat
    BY <1>0 DEF TInv, RowsTyped
  <2>5. \A q \in Processes : row'[q] \in Rows => token'[q] <= tries'[row'[q]]
    BY <1>0, <2>1, <2>2, <2>3, <2>4 DEF Claims
  <2>6. \A q \in Processes : row'[q] = NoRow => token'[q] = 0
    BY <1>0, <2>1, <2>2 DEF Claims
  <2>7. \A q \in Processes : q # p /\ row'[q] = r => token'[q] # token'[p]
    BY <1>0, <2>1, <2>2, <2>3 DEF Claims
  <2>8. \A q, u \in Processes :
          row'[q] = row'[u] /\ row'[q] \in Rows /\ token'[q] = token'[u] => q = u
    BY <1>0, <2>1, <2>2, <2>7 DEF Claims
  <2>. QED BY <2>5, <2>6, <2>8 DEF Claims
<1>3. ASSUME NEW p \in Processes, LeavesOf(p) PROVE Claims'
  <2>1. /\ row'[p] = NoRow /\ token'[p] = 0 /\ UNCHANGED tries
        /\ \A q \in Processes : q # p => row'[q] = row[q] /\ token'[q] = token[q]
    BY <1>3 DEF LeavesOf, Leaves, Freed, OthersStay, Stays, WriteOf, rows
  <2>. QED BY <1>0, <2>1, RowKinds DEF Claims
<1>4. ASSUME NEW r \in Rows, LapseOf(r) PROVE Claims'
  BY <1>0, <1>4 DEF LapseOf, claim, Claims
<1>. QED BY <1>1, <1>2, <1>3, <1>4, NextRows DEF AInv

LEMMA AttemptsStep == AInv /\ [Next]_vars => AInv'
<1>. SUFFICES ASSUME AInv, [Next]_vars PROVE AInv'
  OBVIOUS
<1>0. TInv' /\ TInv /\ Claims /\ Claims'
  BY NextRows, ClaimsStep DEF AInv
<1>. SUFFICES ASSUME NEW r \in Rows PROVE Tried(r)'
  BY <1>0 DEF AInv
<1>1. Tried(r)
  BY DEF AInv
<1>2. /\ tries[r] \in Nat /\ tries'[r] \in Nat /\ faults \in Nat /\ faults' \in Nat
      /\ MaxTries \in Nat /\ MaxTries > 0
  BY <1>0, ConstantsAssumption DEF TInv, RowsTyped, CountsTyped
<1>3. CASE Gentle
  <2>1. Held(r)' <=> Held(r)
    BY <1>3 DEF Gentle, Held
  <2>2. tries'[r] = tries[r] /\ faults' \in {faults, faults + 1}
        /\ (r \in lapsed' => r \in lapsed)
    BY <1>3 DEF Gentle
  <2>3. status'[r] = status[r] \/ status'[r] \in Final
        \/ (status[r] = "absent" /\ status'[r] \in {"accepted", "pending"})
    BY <1>3 DEF Gentle
  <2>4. \A st \in Final : st \notin Waiting \cup {"absent", "processing"}
    BY DEF Final, Waiting
  <2>. QED BY <1>1, <1>2, <2>1, <2>2, <2>3, <2>4 DEF Tried
<1>4. ASSUME NEW p \in Processes, NEW x \in Rows, ClaimOf(p, x) PROVE Tried(r)'
  <2>1. faults' = faults
    BY <1>4 DEF ClaimOf
  <2>2. CASE x = r
    <3>1. tries[r] < MaxTries + faults
      BY <1>1, <1>2, <1>4, <2>2 DEF ClaimOf, Claimable, Tried
    <3>2. Held(r)' /\ r \notin lapsed' /\ status'[r] = "processing" /\ tries'[r] = tries[r] + 1
      BY <1>4, <2>2 DEF ClaimOf, Held
    <3>3. "processing" \notin Waiting
      BY DEF Waiting
    <3>. QED BY <1>2, <2>1, <3>1, <3>2, <3>3 DEF Tried
  <2>3. CASE x # r
    <3>1. status'[r] = status[r] /\ tries'[r] = tries[r] /\ (r \in lapsed' <=> r \in lapsed)
      BY <1>4, <2>3 DEF ClaimOf
    <3>2. row[p] = NoRow /\ NoRow # r
      BY <1>0, <1>4, RowKinds DEF ClaimOf, TInv, Place
    <3>3. Held(r)' <=> Held(r)
      BY <1>4, <2>3, <3>1, <3>2 DEF ClaimOf, OthersStay, Stays, Held
    <3>. QED BY <1>1, <2>1, <3>1, <3>3 DEF Tried
  <2>. QED BY <2>2, <2>3
<1>5. ASSUME NEW p \in Processes, LeavesOf(p) PROVE Tried(r)'
  <2>1. tries'[r] = tries[r] /\ UNCHANGED tries
    BY <1>5 DEF LeavesOf, WriteOf, rows
  <2>2. row'[p] = NoRow /\ \A q \in Processes : q # p => row'[q] = row[q] /\ token'[q] = token[q]
    BY <1>5 DEF LeavesOf, Leaves, Freed, OthersStay, Stays
  <2>3. ~(row[p] = r /\ token[p] = tries[r]) => (Held(r)' <=> Held(r))
    BY <2>1, <2>2, RowKinds DEF Held
  <2>4. CASE UNCHANGED rows /\ faults' = faults + 1
    <3>1. status'[r] = status[r] /\ (r \in lapsed' <=> r \in lapsed)
      BY <2>4 DEF rows
    <3>. QED BY <1>1, <1>2, <2>1, <2>4, <3>1 DEF Tried
  <2>5. CASE ~Owns(p) /\ UNCHANGED <<rows, faults>>
    <3>1. status'[r] = status[r] /\ (r \in lapsed' <=> r \in lapsed) /\ faults' = faults
      BY <2>5 DEF rows
    <3>2. status[r] = "processing" => (Held(r)' <=> Held(r))
      BY <2>3, <2>5 DEF Owns
    <3>. QED BY <1>1, <2>1, <3>1, <3>2 DEF Tried
  <2>6. CASE /\ Owns(p) /\ status'[row[p]] \in Verdict(p)
             /\ \A x \in Rows : x # row[p] => status'[x] = status[x]
             /\ lapsed' = lapsed \ {row[p]}
             /\ UNCHANGED faults
             /\ outcome[p] \in {"completed", "deferred", "retry", "failed", "cancelled",
                                "success"}
    <3>1. CASE row[p] = r
      <4>1. /\ status'[r] \in Waiting \cup Final
            /\ status'[r] \in Waiting => token[p] < MaxTries
        BY <1>0, <2>6, <3>1, VerdictFacts
      <4>2. token[p] = tries[r]
        BY <2>6, <3>1 DEF Owns
      <4>3. "absent" \notin Waiting \cup Final /\ "processing" \notin Waiting \cup Final
        BY DEF Waiting, Final
      <4>. QED BY <1>1, <1>2, <2>1, <2>6, <4>1, <4>2, <4>3 DEF Tried
    <3>2. CASE row[p] # r
      <4>1. status'[r] = status[r] /\ (r \in lapsed' <=> r \in lapsed) /\ faults' = faults
        BY <2>6, <3>2
      <4>. QED BY <1>1, <2>1, <2>3, <3>2, <4>1 DEF Tried
    <3>. QED BY <3>1, <3>2
  <2>. QED BY <1>5, <2>4, <2>5, <2>6 DEF LeavesOf, WriteOf
<1>6. ASSUME NEW x \in Rows, LapseOf(x) PROVE Tried(r)'
  <2>1. tries' = tries /\ status' = status /\ (Held(r)' <=> Held(r))
    BY <1>6 DEF LapseOf, claim, Held
  <2>2. faults' = faults \/ faults' = faults + 1
    BY <1>6 DEF LapseOf
  <2>3. CASE x = r
    BY <1>1, <1>2, <1>6, <2>1, <2>2, <2>3 DEF LapseOf, Tried
  <2>4. CASE x # r
    <3>1. r \in lapsed' <=> r \in lapsed
      BY <1>6, <2>4 DEF LapseOf
    <3>. QED BY <1>1, <1>2, <2>1, <2>2, <3>1 DEF Tried
  <2>. QED BY <2>3, <2>4
<1>. QED BY <1>0, <1>3, <1>4, <1>5, <1>6, NextRows

LEMMA Attempts == Spec => []AInv
  BY AttemptsInit, AttemptsStep, PTL DEF Spec

\* Types, and the bound of the attempts of a row by its deadline and the faults.
THEOREM TypeCorrect == Spec => []TypeOK
<1>1. AInv => TypeOK
  <2>. SUFFICES ASSUME AInv PROVE TypeOK
    OBVIOUS
  <2>1. faults \in 0 .. MaxFaults /\ MaxTries \in Nat /\ MaxFaults \in Nat
    BY ConstantsAssumption DEF AInv, TInv, CountsTyped
  <2>2. \A r \in Rows : tries[r] \in 0 .. MaxTries + MaxFaults
    <3>. SUFFICES ASSUME NEW r \in Rows PROVE tries[r] \in 0 .. MaxTries + MaxFaults
      OBVIOUS
    <3>1. tries[r] \in Nat /\ tries[r] <= MaxTries + faults
      BY DEF AInv, TInv, RowsTyped, Tried
    <3>. QED BY <2>1, <3>1
  <2>3. \A p \in Processes : token[p] \in 0 .. MaxTries + MaxFaults
    <3>. SUFFICES ASSUME NEW p \in Processes PROVE token[p] \in 0 .. MaxTries + MaxFaults
      OBVIOUS
    <3>1. token[p] \in Nat /\ row[p] \in Rows \cup {NoRow}
      BY DEF AInv, TInv, ClaimTyped
    <3>2. CASE row[p] \in Rows
      <4>1. token[p] <= tries[row[p]]
        BY <3>2 DEF AInv, Claims
      <4>2. tries[row[p]] \in 0 .. MaxTries + MaxFaults
        BY <2>2, <3>2
      <4>. QED BY <2>1, <3>1, <4>1, <4>2
    <3>3. CASE row[p] = NoRow
      BY <2>1, <3>3 DEF AInv, Claims
    <3>. QED BY <3>1, <3>2, <3>3
  <2>4. tries \in [Rows -> 0 .. MaxTries + MaxFaults]
    BY <2>2 DEF AInv, TInv, RowsTyped
  <2>5. token \in [Processes -> 0 .. MaxTries + MaxFaults]
    BY <2>3 DEF AInv, TInv, ClaimTyped
  <2>. QED
    BY <2>4, <2>5
       DEF AInv, TInv, RowsTyped, ConfigTyped, PcTyped, ClaimTyped, CountsTyped, TypeOK,
           Statuses
<1>. QED BY <1>1, Attempts, PTL

-----------------------------------------------------------------------------
(* The order of events *)

\* The row locks of the fan-out keep the transactions of a subscription apart.
Serial ==
  \A p, q \in Processes :
    pc[p] = "fanning" /\ pc[q] = "fanning" /\ cur[p] = cur[q] => p = q

\* A delivery goes back to an event that was staged, and so does a claim.
Sourced ==
  /\ \A e \in Events, s \in Subs : status[<<e, s>>] # "absent" => status[Row(e)] # "absent"
  /\ \A p \in Processes : row[p] \in Rows => status[row[p]] # "absent"

\* What a transaction read when it began still holds for its subscription.
Current(p) ==
  pc[p] = "fanning" =>
    /\ cur[p] \in matching
    /\ \A f \in Events : f > row[p][1] => status[<<f, cur[p]>>] = "absent"

OInv == /\ TInv /\ Serial /\ Sourced /\ \A p \in Processes : Current(p)
        /\ NoFreshObsolete /\ NoFreshDisabled

LEMMA OrderInit == Init => OInv
<1>. SUFFICES ASSUME Init PROVE OInv
  OBVIOUS
<1>1. TInv
  BY TypesInit
<1>2. \A r \in Rows : status[r] = "absent"
  BY DEF Init
<1>3. NoFreshObsolete /\ NoFreshDisabled /\ Sourced
  BY <1>2, RowKinds DEF Init, NoFreshObsolete, NoFreshDisabled, Sourced, Rows
<1>4. Serial /\ \A p \in Processes : Current(p)
  BY DEF Init, Serial, Current
<1>. QED BY <1>1, <1>3, <1>4 DEF OInv

\* Steps that open no transaction and create no delivery.
Calm ==
  /\ \A p \in Processes : pc'[p] = "fanning" =>
       pc[p] = "fanning" /\ row'[p] = row[p] /\ cur'[p] = cur[p]
  /\ UNCHANGED matching
  /\ \A r \in Rows : \/ status'[r] = status[r]
                     \/ status[r] # "absent" /\ status'[r] \notin {"absent", "pending"}
                     \/ r \in EventRows /\ status'[r] # "absent"
  /\ \A p \in Processes : row'[p] \in Rows =>
       row'[p] = row[p] \/ status'[row'[p]] # "absent"

LEMMA CalmOrder ==
  ASSUME OInv, TInv', Calm
  PROVE  OInv'
<1>1. Serial'
  BY DEF OInv, Calm, Serial
<1>2. \A e \in Events, s \in Subs :
        /\ <<e, s>> \in Rows /\ Row(e) \in Rows
        /\ status[Row(e)] # "absent" => status'[Row(e)] # "absent"
        /\ status'[<<e, s>>] # "absent" <=> status[<<e, s>>] # "absent"
        /\ status'[<<e, s>>] = "pending" => status[<<e, s>>] = "pending"
  <2>. TAKE e \in Events, s \in Subs
  <2>. DEFINE d == <<e, s>>
              r == Row(e)
  <2>1. d \in Rows /\ r \in Rows /\ d \notin EventRows
    BY RowKinds
  <2>. HIDE DEF d, r
  <2>2. \/ status'[d] = status[d]
        \/ status[d] # "absent" /\ status'[d] \notin {"absent", "pending"}
    BY <2>1 DEF Calm
  <2>3. \/ status'[r] = status[r]
        \/ status'[r] # "absent"
    BY <2>1 DEF Calm
  <2>4. /\ status[r] # "absent" => status'[r] # "absent"
        /\ status'[d] # "absent" <=> status[d] # "absent"
        /\ status'[d] = "pending" => status[d] = "pending"
    BY <2>2, <2>3
  <2>. QED BY <2>1, <2>4 DEF d, r
<1>3. Sourced'
  <2>1. \A p \in Processes : row'[p] \in Rows => status'[row'[p]] # "absent"
    BY DEF OInv, Sourced, Calm
  <2>. QED BY <1>2, <2>1 DEF OInv, Sourced
<1>4. NoFreshObsolete' /\ NoFreshDisabled'
  BY <1>2 DEF OInv, Calm, NoFreshObsolete, NoFreshDisabled
<1>5. ASSUME NEW p \in Processes PROVE Current(p)'
  <2>. SUFFICES ASSUME pc'[p] = "fanning" PROVE Current(p)'
    BY DEF Current
  <2>1. pc[p] = "fanning" /\ row'[p] = row[p] /\ cur'[p] = cur[p] /\ cur[p] \in Subs
    BY DEF Calm, OInv, TInv, Place
  <2>2. Current(p)
    BY DEF OInv
  <2>. QED BY <1>2, <2>1, <2>2 DEF Current, Calm
<1>. QED BY <1>1, <1>3, <1>4, <1>5 DEF OInv

LEMMA WithdrawnCalm ==
  ASSUME TInv, Withdrawn(Unsent \cup {"processing"})
  PROVE  \A r \in Rows : \/ status'[r] = status[r]
                         \/ status[r] # "absent" /\ status'[r] \notin {"absent", "pending"}
  BY DEF Withdrawn, Unsent, Final

LEMMA ClaimCalm ==
  ASSUME TInv, NEW p \in Processes, NEW r \in Rows, ClaimOf(p, r)
  PROVE  Calm
<1>1. UNCHANGED matching /\ pc'[p] # "fanning" /\ row'[p] = r /\ status'[r] = "processing"
  BY DEF ClaimOf, config
<1>2. \A q \in Processes : q # p => pc'[q] = pc[q] /\ row'[q] = row[q] /\ cur'[q] = cur[q]
  BY DEF ClaimOf, OthersStay, Stays
<1>3. status[r] # "absent"
  BY DEF ClaimOf, Claimable, Waiting
<1>4. \A x \in Rows : x # r => status'[x] = status[x]
  BY DEF ClaimOf
<1>. QED BY <1>1, <1>2, <1>3, <1>4 DEF Calm

LEMMA LeavesCalm ==
  ASSUME TInv, NEW p \in Processes, LeavesOf(p)
  PROVE  Calm
<1>1. UNCHANGED matching /\ pc'[p] = "idle" /\ row'[p] = NoRow
  BY DEF LeavesOf, Leaves, Freed, config
<1>2. \A q \in Processes : q # p => pc'[q] = pc[q] /\ row'[q] = row[q] /\ cur'[q] = cur[q]
  BY DEF LeavesOf, Leaves, OthersStay, Stays
<1>3. \A r \in Rows : \/ status'[r] = status[r]
                      \/ status[r] # "absent" /\ status'[r] \notin {"absent", "pending"}
  <2>1. CASE UNCHANGED rows
    BY <2>1 DEF rows
  <2>2. CASE ~(UNCHANGED rows)
    <3>1. /\ Owns(p) /\ status'[row[p]] \in Verdict(p)
          /\ \A r \in Rows : r # row[p] => status'[r] = status[r]
          /\ outcome[p] \in {"completed", "deferred", "retry", "failed", "cancelled",
                             "success"}
      BY <2>2 DEF LeavesOf, WriteOf, rows
    <3>2. status'[row[p]] \in Waiting \cup Final /\ status'[row[p]] \notin {"pending", "accepted"}
      BY <3>1, VerdictFacts
    <3>3. status'[row[p]] # "absent" /\ status[row[p]] = "processing"
      BY <3>1, <3>2 DEF Waiting, Final, Owns
    <3>. QED BY <3>1, <3>2, <3>3
  <2>. QED BY <2>1, <2>2
<1>. QED BY <1>1, <1>2, <1>3, RowKinds DEF Calm

LEMMA RunsCalm ==
  ASSUME TInv, NEW p \in Processes, Runs(p)
  PROVE  Calm
<1>1. Turns(p) /\ pc'[p] # "fanning"
  BY DEF Runs, FailSettleOf, PrepareOf, SendOf
<1>2. UNCHANGED <<status, matching>> /\ row'[p] = row[p]
      /\ \A q \in Processes : q # p => pc'[q] = pc[q] /\ row'[q] = row[q] /\ cur'[q] = cur[q]
  BY <1>1 DEF Turns, rows, config, OthersStay, Stays
<1>. QED BY <1>1, <1>2 DEF Calm

LEMMA ClockCalm ==
  ASSUME TInv, \/ \E e \in Events : StageOf(e)
               \/ \E r \in Rows : LapseOf(r)
               \/ DueOf
  PROVE  Calm
<1>1. UNCHANGED <<matching, pc, row, cur>>
  BY DEF StageOf, LapseOf, DueOf, config, claim
<1>2. \A r \in Rows : \/ status'[r] = status[r]
                      \/ r \in EventRows /\ status'[r] # "absent"
  BY RowKinds DEF StageOf, LapseOf, DueOf
<1>. QED BY <1>1, <1>2 DEF Calm

LEMMA VisitOrder ==
  ASSUME OInv, TInv', NEW p \in Processes, OthersStay(p), VisitStep(p)
  PROVE  OInv'
<1>1. PICK s \in Subs : VisitOf(p, s)
  BY DEF VisitStep
<1>2. UNCHANGED matching /\ row'[p] = row[p]
  BY <1>1 DEF VisitStep, VisitOf, config
<1>3. \A q \in Processes : q # p => pc'[q] = pc[q] /\ row'[q] = row[q] /\ cur'[q] = cur[q]
  BY DEF OthersStay, Stays
<1>4. CASE Opened(p, s)
  <2>1. /\ status' = status /\ pc'[p] = "fanning" /\ cur'[p] = s /\ s \in matching
        /\ ~Newer(row[p][1]) /\ pc[p] = "fan" /\ ~Locked(s)
    BY <1>1, <1>4 DEF Opened, VisitOf
  <2>2. Serial'
    BY <1>3, <2>1 DEF OInv, Serial, Locked, At
  <2>3. \A f \in Events : f > row[p][1] => status[<<f, s>>] = "absent"
    BY <2>1 DEF Newer, OInv, Sourced
  <2>4. \A q \in Processes : Current(q)'
    BY <1>2, <1>3, <2>1, <2>3 DEF OInv, Current
  <2>5. Sourced'
    BY <1>2, <1>3, <2>1 DEF OInv, Sourced
  <2>6. NoFreshObsolete' /\ NoFreshDisabled'
    BY <1>2, <2>1 DEF OInv, NoFreshObsolete, NoFreshDisabled
  <2>. QED BY <2>2, <2>4, <2>5, <2>6 DEF OInv
<1>5. CASE ~Opened(p, s)
  <2>1. pc'[p] = "fan"
    BY <1>1, <1>5 DEF VisitOf, Outdone, Passed, Put, Refused, Halted
  <2>2. \A r \in Rows : \/ status'[r] = status[r]
                        \/ status[r] # "absent" /\ status'[r] \notin {"absent", "pending"}
    BY WithdrawnCalm, WithdrawWidens DEF VisitStep, OInv
  <2>3. Calm
    BY <1>2, <1>3, <2>1, <2>2 DEF Calm
  <2>. QED BY <2>3, CalmOrder
<1>. QED BY <1>4, <1>5

LEMMA ReceiptOrder ==
  ASSUME OInv, NEW p \in Processes, pc[p] = "fanning", ReceiptOf(p), UNCHANGED matching
  PROVE  /\ NoFreshObsolete' /\ NoFreshDisabled'
         /\ \A f \in Events, s \in Subs : status[<<f, s>>] # "absent" => status'[<<f, s>>] # "absent"
         /\ \A f \in Events, s \in Subs :
              status[<<f, s>>] = "absent" /\ status'[<<f, s>>] # "absent"
                => f = row[p][1] /\ s = cur[p]
         /\ \A f \in Events : status'[Row(f)] = status[Row(f)]
<1>. DEFINE e == row[p][1]
            s == cur[p]
<1>1. row[p] \in EventRows /\ e \in Events /\ s \in Subs /\ s \in matching
  BY RowKinds DEF OInv, TInv, Place, AtEvent, Current
<1>2. \A f \in Events : f > e => status[<<f, s>>] = "absent"
  BY DEF OInv, Current
<1>. HIDE DEF e, s
<1>3. \A r \in Rows :
       \/ /\ status'[r] = status[r]
          /\ r \in Deliveries /\ r[1] < e /\ r[2] = s => status[r] \notin Unsent
       \/ /\ status[r] \in Unsent /\ status'[r] = "superseded"
       \/ /\ r = <<e, s>> /\ status[r] = "absent" /\ status'[r] = "pending"
  BY DEF ReceiptOf, e, s
<1>4. "absent" \notin Unsent /\ "pending" \in Unsent
  BY DEF Unsent
<1>5. ASSUME NEW f \in Events, NEW x \in Subs
      PROVE  /\ status[<<f, x>>] # "absent" => status'[<<f, x>>] # "absent"
             /\ status[<<f, x>>] = "absent" /\ status'[<<f, x>>] # "absent" => f = e /\ x = s
             /\ status'[<<f, x>>] = "pending" =>
                  \/ status[<<f, x>>] = "pending" /\ ~(f < e /\ x = s)
                  \/ f = e /\ x = s
  <2>1. <<f, x>> \in Rows /\ <<f, x>> \in Deliveries /\ <<f, x>>[1] = f /\ <<f, x>>[2] = x
    BY RowKinds
  <2>2. <<f, x>> = <<e, s>> => f = e /\ x = s
    OBVIOUS
  <2>. DEFINE d == <<f, x>>
  <2>3. /\ d \in Rows /\ d \in Deliveries /\ d[1] = f /\ d[2] = x
        /\ d = <<e, s>> => f = e /\ x = s
    BY <2>1, <2>2
  <2>. HIDE DEF d
  <2>4. /\ status[d] # "absent" => status'[d] # "absent"
        /\ status[d] = "absent" /\ status'[d] # "absent" => f = e /\ x = s
        /\ status'[d] = "pending" =>
             \/ status[d] = "pending" /\ ~(f < e /\ x = s)
             \/ f = e /\ x = s
    BY <1>3, <1>4, <2>3
  <2>. QED BY <2>4 DEF d
<1>6. \A f \in Events : status'[Row(f)] = status[Row(f)]
  <2>. TAKE f \in Events
  <2>1. Row(f) \in Rows /\ Row(f) \notin Deliveries /\ <<e, s>> \in Deliveries
    BY <1>1, RowKinds
  <2>2. \/ status'[Row(f)] = status[Row(f)]
        \/ Row(f) \in Deliveries
        \/ Row(f) = <<e, s>>
    BY <2>1 DEF ReceiptOf, e, s
  <2>. QED BY <2>1, <2>2
<1>7. NoFreshDisabled'
  BY <1>1, <1>5 DEF OInv, NoFreshDisabled
<1>8. NoFreshObsolete'
  <2>. SUFFICES ASSUME NEW a \in Events, NEW b \in Events, NEW x \in Subs, a < b,
                       status'[<<b, x>>] # "absent", status'[<<a, x>>] = "pending"
                PROVE  FALSE
    BY DEF NoFreshObsolete
  <2>0. a \in Nat /\ b \in Nat /\ e \in Nat
    BY <1>1, ConstantsAssumption
  <2>1. CASE status[<<a, x>>] = "pending" /\ ~(a < e /\ x = s)
    <3>1. status[<<b, x>>] = "absent"
      BY <2>1 DEF OInv, NoFreshObsolete
    <3>2. b = e /\ x = s
      BY <1>5, <3>1
    <3>. QED BY <2>1, <3>2
  <2>2. CASE a = e /\ x = s
    <3>1. status[<<b, s>>] = "absent"
      BY <1>2, <2>0, <2>2
    <3>2. b = e
      BY <1>1, <1>5, <2>2, <3>1
    <3>. QED BY <2>0, <2>2, <3>2
  <2>. QED BY <1>5, <2>1, <2>2
<1>. QED BY <1>5, <1>6, <1>7, <1>8 DEF e, s

LEMMA CloseOrder ==
  ASSUME OInv, TInv', NEW p \in Processes, OthersStay(p), VisitClosed(p)
  PROVE  OInv'
<1>1. /\ UNCHANGED matching /\ row'[p] = row[p] /\ pc[p] = "fanning" /\ pc'[p] = "fan"
      /\ UNCHANGED status \/ ReceiptOf(p)
  BY DEF VisitClosed, config
<1>2. \A q \in Processes : q # p => pc'[q] = pc[q] /\ row'[q] = row[q] /\ cur'[q] = cur[q]
  BY DEF OthersStay, Stays
<1>3. CASE UNCHANGED status
  <2>1. Calm
    BY <1>1, <1>2, <1>3 DEF Calm
  <2>. QED BY <2>1, CalmOrder
<1>4. CASE ReceiptOf(p)
  <2>1. /\ NoFreshObsolete' /\ NoFreshDisabled'
        /\ \A f \in Events, s \in Subs :
             status[<<f, s>>] # "absent" => status'[<<f, s>>] # "absent"
        /\ \A f \in Events, s \in Subs :
             status[<<f, s>>] = "absent" /\ status'[<<f, s>>] # "absent"
               => f = row[p][1] /\ s = cur[p]
        /\ \A f \in Events : status'[Row(f)] = status[Row(f)]
    BY <1>1, <1>4, ReceiptOrder
  <2>2. Serial'
    BY <1>1, <1>2 DEF OInv, Serial
  <2>3. Current(p)'
    BY <1>1 DEF Current
  <2>4. ASSUME NEW q \in Processes, q # p PROVE Current(q)'
    <3>. SUFFICES ASSUME pc[q] = "fanning" PROVE Current(q)'
      BY <1>2, <2>4 DEF Current
    <3>1. cur[q] # cur[p] /\ cur[q] \in Subs /\ Current(q)
      BY <1>1, <2>4 DEF OInv, Serial, TInv, Place
    <3>. QED BY <1>1, <1>2, <2>1, <2>4, <3>1 DEF Current
  <2>5. row[p] \in EventRows /\ status[row[p]] # "absent" /\ row[p] = Row(row[p][1])
        /\ row[p][1] \in Events
    BY <1>1, RowKinds DEF OInv, TInv, Place, AtEvent, Sourced
  <2>6. \A e \in Events, s \in Subs :
          status'[<<e, s>>] # "absent" => status'[Row(e)] # "absent"
    BY <2>1, <2>5 DEF OInv, Sourced
  <2>7. \A r \in Rows : status[r] # "absent" => status'[r] # "absent"
    <3>1. \A r \in EventRows : status'[r] = status[r]
      BY <2>1, RowKinds
    <3>2. \A r \in Deliveries : status[r] # "absent" => status'[r] # "absent"
      BY <2>1, RowKinds
    <3>. QED BY <3>1, <3>2 DEF Rows
  <2>8. \A q \in Processes : row'[q] \in Rows => status'[row'[q]] # "absent"
    BY <1>1, <1>2, <2>7 DEF OInv, Sourced
  <2>. QED BY <2>1, <2>2, <2>3, <2>4, <2>6, <2>8 DEF OInv, Sourced
<1>. QED BY <1>1, <1>3, <1>4

LEMMA ConfigureOrder ==
  ASSUME OInv, TInv', NEW s \in Subs, ConfiguredOf(s)
  PROVE  OInv'
<1>1. UNCHANGED <<pc, row, cur>>
  BY DEF ConfiguredOf, claim
<1>2. \A r \in Rows : \/ status'[r] = status[r]
                      \/ status[r] # "absent" /\ status'[r] \notin {"absent", "pending"}
  BY WithdrawnCalm DEF ConfiguredOf, OInv
<1>3. \A e \in Events, x \in Subs :
        /\ status'[<<e, x>>] # "absent" <=> status[<<e, x>>] # "absent"
        /\ status'[<<e, x>>] = "pending" => status[<<e, x>>] = "pending"
  <2>1. \A e \in Events, x \in Subs : <<e, x>> \in Rows
    BY RowKinds
  <2>. QED BY <1>2, <2>1
<1>4. Serial'
  BY <1>1 DEF OInv, Serial
<1>5. Sourced'
  <2>1. \A e \in Events : Row(e) \in Rows
    BY RowKinds
  <2>. QED BY <1>1, <1>2, <1>3, <2>1 DEF OInv, Sourced
<1>6. NoFreshObsolete'
  BY <1>3 DEF OInv, NoFreshObsolete
<1>7. NoFreshDisabled'
  <2>. SUFFICES ASSUME NEW e \in Events, NEW x \in Subs, x \notin matching'
                PROVE  status'[<<e, x>>] # "pending"
    BY DEF NoFreshDisabled
  <2>1. CASE x \notin matching
    BY <1>3, <2>1 DEF OInv, NoFreshDisabled
  <2>2. CASE x \in matching
    <3>1. x = s
      BY <2>2 DEF ConfiguredOf
    <3>. QED BY <2>2, <3>1 DEF ConfiguredOf
  <2>. QED BY <2>1, <2>2
<1>8. ASSUME NEW p \in Processes PROVE Current(p)'
  <2>. SUFFICES ASSUME pc[p] = "fanning" PROVE Current(p)'
    BY <1>1 DEF Current
  <2>1. Current(p) /\ cur[p] \in Subs
    BY DEF OInv, TInv, Place
  <2>2. cur[p] \in matching'
    <3>1. CASE cur[p] = s
      <4>1. Locked(s)
        BY <3>1 DEF Locked, At
      <4>. QED BY <2>1, <3>1, <4>1 DEF ConfiguredOf, Current
    <3>2. CASE cur[p] # s
      BY <2>1, <3>2 DEF ConfiguredOf, Current
    <3>. QED BY <3>1, <3>2
  <2>. QED BY <1>1, <1>3, <2>1, <2>2 DEF Current
<1>. QED BY <1>4, <1>5, <1>6, <1>7, <1>8 DEF OInv

LEMMA FansOrder ==
  ASSUME OInv, TInv', NEW p \in Processes, Fans(p)
  PROVE  OInv'
<1>0. OthersStay(p)
  BY DEF Fans
<1>1. \A q \in Processes : q # p => pc'[q] = pc[q] /\ row'[q] = row[q] /\ cur'[q] = cur[q]
  BY <1>0 DEF OthersStay, Stays
<1>2. CASE MatchOf(p) \/ VisitSkipped(p)
  <2>1. UNCHANGED <<status, matching>> /\ row'[p] = row[p] /\ pc'[p] # "fanning"
    BY <1>2 DEF MatchOf, VisitSkipped, rows, config
  <2>2. Calm
    BY <1>1, <2>1 DEF Calm
  <2>. QED BY <2>2, CalmOrder
<1>. QED BY <1>0, <1>2, VisitOrder, CloseOrder DEF Fans

LEMMA OrderStep == OInv /\ [Next]_vars => OInv'
<1>. SUFFICES ASSUME OInv, [Next]_vars PROVE OInv'
  OBVIOUS
<1>0. TInv /\ TInv'
  BY NextRows DEF OInv
<1>1. ASSUME NEW p \in Processes, (\E r \in Rows : ClaimOf(p, r)) \/ LeavesOf(p) \/ Runs(p)
      PROVE  OInv'
  BY <1>0, <1>1, ClaimCalm, LeavesCalm, RunsCalm, CalmOrder
<1>2. ASSUME NEW p \in Processes, Fans(p) PROVE OInv'
  BY <1>0, <1>2, FansOrder
<1>3. ASSUME NEW s \in Subs, ConfiguredOf(s) PROVE OInv'
  BY <1>0, <1>3, ConfigureOrder
<1>4. CASE \/ \E e \in Events : StageOf(e)
           \/ \E r \in Rows : LapseOf(r)
           \/ DueOf
  BY <1>0, <1>4, ClockCalm, CalmOrder
<1>. QED BY <1>0, <1>1, <1>2, <1>3, <1>4, NextCases

LEMMA Order == Spec => []OInv
  BY OrderInit, OrderStep, PTL DEF Spec

\* Once a later event has a delivery, no earlier delivery of the subscription is
\* waiting untried.
THEOREM NoFreshObsoleteAlways == Spec => []NoFreshObsolete
<1>1. OInv => NoFreshObsolete
  BY DEF OInv
<1>. QED BY <1>1, Order, PTL

\* A subscription that is disabled or retargeted has no untried delivery.
THEOREM NoFreshDisabledAlways == Spec => []NoFreshDisabled
<1>1. OInv => NoFreshDisabled
  BY DEF OInv
<1>. QED BY <1>1, Order, PTL

-----------------------------------------------------------------------------
(* Whom a completed event has reached *)

\* A subscription that has waited for every event, and gets each that is ready.
Waits(s) == changes[s] = 0 /\ Readiness[s] \subseteq {"ready", "deferred"}

Reached(e, s) == status[<<e, s>>] # "absent" \/ Newer(e)

Untouched == \A s \in Subs : changes[s] = 0 => s \in matching /\ s \in bound

\* A fan-out that may still complete its event has left no such subscription
\* behind.
Covered(p) ==
  /\ pc[p] = "fan" /\ outcome[p] = "completed" =>
       \A s \in Subs : Waits(s) /\ s \notin todo[p] => Reached(row[p][1], s)
  /\ pc[p] = "fanning" /\ outcome[p] = "completed" =>
       \A s \in Subs : Waits(s) /\ s \notin todo[p] /\ s # cur[p] => Reached(row[p][1], s)
  /\ pc[p] = "fanning" /\ changes[cur[p]] = 0 => p \in usable

CInv == TInv /\ Untouched /\ (\A p \in Processes : Covered(p)) /\ CompletedReached

LEMMA CompletedReachedIs ==
  CompletedReached <=> \A e \in Events, s \in Subs :
                         status[Row(e)] = "completed" /\ Waits(s) => Reached(e, s)
  BY DEF CompletedReached, Waits, Reached

LEMMA CoverInit == Init => CInv
<1>. SUFFICES ASSUME Init PROVE CInv
  OBVIOUS
<1>1. TInv
  BY TypesInit
<1>2. Untouched /\ \A p \in Processes : Covered(p)
  BY DEF Init, Untouched, Covered
<1>3. CompletedReached
  BY RowKinds DEF Init, CompletedReached, Rows
<1>. QED BY <1>1, <1>2, <1>3 DEF CInv

\* Nothing disappears, and nobody becomes untouched.
Grows ==
  /\ \A e \in Events, s \in Subs : Reached(e, s) => Reached(e, s)'
  /\ \A s \in Subs : Waits(s)' => Waits(s)
  /\ \A s \in Subs : changes'[s] = 0 => changes[s] = 0

LEMMA NextGrows ==
  ASSUME TInv, [Next]_vars
  PROVE  Grows
<1>1. \A r \in Rows : status[r] # "absent" => status'[r] # "absent"
  <2>1. CASE Gentle
    BY <2>1 DEF Gentle, Final
  <2>2. ASSUME NEW p \in Processes, (\E r \in Rows : ClaimOf(p, r)) \/ LeavesOf(p)
        PROVE  \A r \in Rows : status[r] # "absent" => status'[r] # "absent"
    BY <2>2, ClaimCalm, LeavesCalm DEF Calm
  <2>3. ASSUME NEW r \in Rows, LapseOf(r)
        PROVE  \A x \in Rows : status[x] # "absent" => status'[x] # "absent"
    BY <2>3 DEF LapseOf
  <2>. QED BY <2>1, <2>2, <2>3, NextRows
<1>2. \A s \in Subs : changes'[s] = 0 => changes[s] = 0
  <2>1. CASE UNCHANGED changes
    BY <2>1
  <2>2. ASSUME NEW x \in Subs, ConfiguredOf(x)
        PROVE  \A s \in Subs : changes'[s] = 0 => changes[s] = 0
    BY <2>2 DEF ConfiguredOf, TInv, ConfigTyped
  <2>3. ASSUME NEW p \in Processes,
               (\E r \in Rows : ClaimOf(p, r)) \/ LeavesOf(p) \/ Fans(p) \/ Runs(p)
        PROVE  UNCHANGED changes
    BY <2>3 DEF ClaimOf, LeavesOf, Leaves, Fans, MatchOf, VisitStep, VisitClosed,
                VisitSkipped, Runs, FailSettleOf, PrepareOf, SendOf, Turns, config
  <2>4. ASSUME \/ \E e \in Events : StageOf(e)
               \/ \E r \in Rows : LapseOf(r)
               \/ DueOf
        PROVE  UNCHANGED changes
    BY <2>4 DEF StageOf, LapseOf, DueOf, config
  <2>. QED BY <2>1, <2>2, <2>3, <2>4, NextCases
<1>3. \A s \in Subs : Waits(s)' => Waits(s)
  BY <1>2 DEF Waits
<1>4. \A e \in Events : Newer(e) => Newer(e)'
  BY <1>1, RowKinds DEF Newer, Rows
<1>5. \A e \in Events, s \in Subs : Reached(e, s) => Reached(e, s)'
  BY <1>1, <1>4, RowKinds DEF Reached, Rows
<1>. QED BY <1>2, <1>3, <1>5 DEF Grows

LEMMA CoveredStays ==
  ASSUME CInv, Grows, NEW q \in Processes,
         pc'[q] \in {"fan", "fanning"} => Stays(q)
  PROVE  Covered(q)'
<1>. SUFFICES ASSUME pc'[q] \in {"fan", "fanning"} PROVE Covered(q)'
  BY DEF Covered
<1>1. Stays(q) /\ Covered(q) /\ pc[q] \in {"fan", "fanning"}
  BY DEF CInv, Stays
<1>2. row[q] \in EventRows /\ row[q][1] \in Events
  BY <1>1, RowKinds DEF CInv, TInv, Place, AtEvent
<1>3. pc[q] = "fanning" => cur[q] \in Subs
  BY DEF CInv, TInv, Place
<1>. QED BY <1>1, <1>2, <1>3 DEF Covered, Stays, Grows

\* No step but the last of its fan-out completes an event.
LEMMA CompletedBy ==
  ASSUME TInv, [Next]_vars, NEW e \in Events,
         status[Row(e)] # "completed", status'[Row(e)] = "completed"
  PROVE  \E p \in Processes : /\ pc[p] = "fan" /\ todo[p] = {}
                              /\ outcome[p] = "completed" /\ row[p] = Row(e)
<1>0. Row(e) \in Rows /\ Row(e) \notin Deliveries /\ Row(e) \in EventRows
  BY RowKinds
<1>1. ASSUME NEW p \in Processes, LeavesOf(p)
      PROVE  /\ pc[p] = "fan" /\ todo[p] = {}
             /\ outcome[p] = "completed" /\ row[p] = Row(e)
  <2>1. /\ WriteOf(p) /\ Owns(p)
        /\ outcome[p] \in {"completed", "deferred", "retry", "failed", "cancelled",
                           "success"}
        /\ pc[p] \in {"settle", "store"} \/ (pc[p] = "fan" /\ todo[p] = {})
    BY <1>0, <1>1 DEF LeavesOf, WriteOf, rows
  <2>2. row[p] = Row(e) /\ status'[row[p]] \in Verdict(p)
    BY <1>0, <2>1 DEF WriteOf
  <2>3. outcome[p] = "completed"
    BY <2>1, <2>2, VerdictFacts
  <2>4. Place(p)
    BY DEF TInv
  <2>. QED BY <2>1, <2>2, <2>3, <2>4 DEF Place
<1>2. ASSUME NEW p \in Processes, NEW r \in Rows, ClaimOf(p, r) PROVE FALSE
  BY <1>0, <1>2 DEF ClaimOf
<1>3. ASSUME NEW p \in Processes, Fans(p) PROVE FALSE
  <2>1. CASE MatchOf(p) \/ VisitSkipped(p)
    BY <2>1 DEF MatchOf, VisitSkipped, rows
  <2>2. CASE VisitStep(p)
    BY <1>0, <2>2 DEF VisitStep, Withdrawn
  <2>3. CASE VisitClosed(p)
    BY <1>0, <2>3 DEF VisitClosed, ReceiptOf
  <2>. QED BY <1>3, <2>1, <2>2, <2>3 DEF Fans
<1>4. ASSUME NEW p \in Processes, Runs(p) PROVE FALSE
  BY <1>4 DEF Runs, FailSettleOf, PrepareOf, SendOf, Turns, rows
<1>5. ASSUME NEW x \in Events, StageOf(x) PROVE FALSE
  BY <1>0, <1>5 DEF StageOf
<1>6. ASSUME NEW s \in Subs, ConfiguredOf(s) PROVE FALSE
  BY <1>0, <1>6 DEF ConfiguredOf, Withdrawn
<1>7. CASE (\E r \in Rows : LapseOf(r)) \/ DueOf
  BY <1>7 DEF LapseOf, DueOf
<1>. QED BY <1>1, <1>2, <1>3, <1>4, <1>5, <1>6, <1>7, NextCases

LEMMA CompletedStep ==
  ASSUME CInv, [Next]_vars, Grows
  PROVE  CompletedReached'
<1>. SUFFICES ASSUME NEW e \in Events, NEW s \in Subs,
                     status'[Row(e)] = "completed", Waits(s)'
              PROVE  Reached(e, s)'
  BY DEF CompletedReached, Waits, Reached
<1>0. TInv /\ Waits(s)
  BY DEF CInv, Grows
<1>1. Reached(e, s)
  <2>1. CASE status[Row(e)] = "completed"
    BY <1>0, <2>1, CompletedReachedIs DEF CInv
  <2>2. CASE status[Row(e)] # "completed"
    <3>1. PICK p \in Processes : /\ pc[p] = "fan" /\ todo[p] = {}
                                 /\ outcome[p] = "completed" /\ row[p] = Row(e)
      BY <1>0, <2>2, CompletedBy
    <3>2. Covered(p) /\ Row(e)[1] = e
      BY RowKinds DEF CInv
    <3>. QED BY <1>0, <3>1, <3>2 DEF Covered
  <2>. QED BY <2>1, <2>2
<1>. QED BY <1>1 DEF Grows

LEMMA FansCovered ==
  ASSUME CInv, Grows, NEW p \in Processes, Fans(p)
  PROVE  Covered(p)'
<1>0. Covered(p) /\ TInv /\ Untouched /\ Place(p)
  BY DEF CInv, TInv
<1>1. CASE MatchOf(p)
  <2>1. \A s \in Subs : Waits(s)' => s \in matching
    BY <1>0 DEF Grows, Waits, Untouched
  <2>. QED BY <1>1, <2>1 DEF MatchOf, Covered
<1>2. CASE VisitSkipped(p)
  BY <1>2 DEF VisitSkipped, Covered
<1>3. CASE VisitStep(p)
  <2>1. PICK s \in Subs : VisitOf(p, s)
    BY <1>3 DEF VisitStep
  <2>0. pc[p] = "fan" /\ row[p][1] \in Events
    BY <1>0, <2>1, RowKinds DEF VisitOf, Place, AtEvent
  <2>. PICK e \in Events : e = row[p][1]
    BY <2>0
  <2>2. /\ row'[p] = row[p] /\ todo'[p] = todo[p] \ {s}
        /\ pc[p] = "fan" /\ UNCHANGED <<changes, bound, matching>>
    BY <1>3, <2>0, <2>1 DEF VisitOf, VisitStep, config
  <2>3. \A x \in Subs : Reached(e, x) => Reached(e, x)'
    BY <2>2 DEF Grows
  <2>4. CASE Outdone(p, s)
    <3>1. \A x \in Subs : Reached(e, x)
      BY <2>4 DEF Outdone, Reached
    <3>. QED BY <2>2, <2>3, <2>4, <3>1 DEF Outdone, Halted, Covered
  <2>5. CASE Passed(p, s)
    <3>1. ~Waits(s)
      BY <1>0, <2>5 DEF Passed, Waits, Untouched
    <3>2. pc'[p] = "fan" /\ outcome'[p] = outcome[p]
      BY <2>5 DEF Passed, Halted
    <3>. QED BY <1>0, <2>2, <2>3, <3>1, <3>2 DEF Covered, Grows
  <2>6. CASE Put(p, s)
    BY <2>6 DEF Put, Halted, Covered
  <2>7. CASE Refused(p, s)
    <3>1. ~Waits(s)
      BY <2>7 DEF Refused, Waits
    <3>2. pc'[p] = "fan" /\ outcome'[p] = outcome[p]
      BY <2>7 DEF Refused, Halted
    <3>. QED BY <1>0, <2>2, <2>3, <3>1, <3>2 DEF Covered, Grows
  <2>8. CASE Opened(p, s)
    <3>1. pc'[p] = "fanning" /\ cur'[p] = s /\ outcome'[p] = outcome[p]
          /\ (s \in bound => p \in usable')
      BY <2>8 DEF Opened
    <3>2. changes'[s] = 0 => p \in usable'
      BY <1>0, <3>1 DEF Grows, Untouched
    <3>. QED BY <1>0, <2>2, <2>3, <3>1, <3>2 DEF Covered, Grows
  <2>. QED BY <2>1, <2>4, <2>5, <2>6, <2>7, <2>8 DEF VisitOf
<1>4. CASE VisitClosed(p)
  <2>0. /\ pc[p] = "fanning" /\ pc'[p] = "fan" /\ row'[p] = row[p] /\ todo'[p] = todo[p]
        /\ row[p][1] \in Events /\ cur[p] \in Subs
    BY <1>0, <1>4, RowKinds DEF VisitClosed, Place, AtEvent
  <2>. PICK e \in Events, s \in Subs : e = row[p][1] /\ s = cur[p]
    BY <2>0
  <2>1. pc[p] = "fanning" /\ pc'[p] = "fan" /\ row'[p] = row[p] /\ todo'[p] = todo[p]
    BY <2>0
  <2>. SUFFICES ASSUME outcome'[p] = "completed", NEW x \in Subs, Waits(x)', x \notin todo[p]
                PROVE  Reached(e, x)'
    BY <2>1 DEF Covered
  <2>2. outcome[p] = "completed" /\ ReceiptOf(p)
    BY <1>4 DEF VisitClosed
  <2>3. Waits(x)
    BY DEF Grows
  <2>4. CASE x = s
    <3>1. p \in usable
      BY <1>0, <2>1, <2>3, <2>4 DEF Covered, Waits
    <3>. QED BY <2>2, <2>4, <3>1 DEF ReceiptOf, Reached
  <2>5. CASE x # s
    <3>1. Reached(e, x)
      BY <1>0, <2>1, <2>2, <2>3, <2>5 DEF Covered
    <3>. QED BY <2>1, <3>1 DEF Grows
  <2>. QED BY <2>4, <2>5
<1>. QED BY <1>1, <1>2, <1>3, <1>4 DEF Fans

LEMMA CoverStep == CInv /\ [Next]_vars => CInv'
<1>. SUFFICES ASSUME CInv, [Next]_vars PROVE CInv'
  OBVIOUS
<1>0. TInv /\ TInv' /\ Grows
  BY NextRows, NextGrows DEF CInv
<1>1. CompletedReached'
  BY <1>0, CompletedStep
<1>. SUFFICES Untouched' /\ \A q \in Processes : Covered(q)'
  BY <1>0, <1>1 DEF CInv
<1>2. ASSUME NEW p \in Processes, (\E r \in Rows : ClaimOf(p, r)) \/ LeavesOf(p) \/ Runs(p)
      PROVE  Untouched' /\ \A q \in Processes : Covered(q)'
  <2>1. OthersStay(p) /\ pc'[p] \notin {"fan", "fanning"}
    BY <1>2 DEF ClaimOf, LeavesOf, Leaves, Freed, Runs, FailSettleOf, PrepareOf, SendOf, Turns
  <2>2. \A q \in Processes : Covered(q)'
    BY <1>0, <2>1, CoveredStays DEF OthersStay
  <2>3. UNCHANGED <<changes, matching, bound>>
    BY <1>2 DEF ClaimOf, LeavesOf, Leaves, Runs, FailSettleOf, PrepareOf, SendOf, Turns, config
  <2>. QED BY <2>2, <2>3 DEF CInv, Untouched
<1>3. ASSUME NEW p \in Processes, Fans(p)
      PROVE  Untouched' /\ \A q \in Processes : Covered(q)'
  <2>1. OthersStay(p) /\ Covered(p)'
    BY <1>0, <1>3, FansCovered DEF Fans
  <2>2. \A q \in Processes : Covered(q)'
    BY <1>0, <2>1, CoveredStays DEF OthersStay
  <2>3. UNCHANGED <<changes, matching, bound>>
    BY <1>3 DEF Fans, MatchOf, VisitStep, VisitClosed, VisitSkipped, config
  <2>. QED BY <2>2, <2>3 DEF CInv, Untouched
<1>4. ASSUME UNCHANGED <<pc, claim>>
      PROVE  \A q \in Processes : Covered(q)'
  <2>1. \A q \in Processes : Stays(q)
    BY <1>4 DEF claim, Stays
  <2>. QED BY <1>0, <2>1, CoveredStays
<1>5. ASSUME NEW s \in Subs, ConfiguredOf(s)
      PROVE  Untouched' /\ \A q \in Processes : Covered(q)'
  <2>1. \A x \in Subs : x # s => /\ x \in matching' <=> x \in matching
                                 /\ x \in bound' <=> x \in bound
    BY <1>5 DEF ConfiguredOf
  <2>2. changes'[s] # 0
    BY <1>0, <1>5 DEF ConfiguredOf, TInv, ConfigTyped
  <2>3. UNCHANGED <<pc, claim>>
    BY <1>5 DEF ConfiguredOf
  <2>4. Untouched'
    BY <1>0, <2>1, <2>2 DEF CInv, Untouched, Grows
  <2>. QED BY <1>4, <2>3, <2>4
<1>6. CASE \/ \E e \in Events : StageOf(e)
           \/ \E r \in Rows : LapseOf(r)
           \/ DueOf
  <2>1. UNCHANGED <<pc, claim, changes, matching, bound>>
    BY <1>6 DEF StageOf, LapseOf, DueOf, config
  <2>. QED BY <1>4, <2>1 DEF CInv, Untouched
<1>. QED BY <1>0, <1>2, <1>3, <1>5, <1>6, NextCases

\* A completed event has reached each subscription that waited for it.
THEOREM CompletedReachedAlways == Spec => []CompletedReached
<1>1. CInv => CompletedReached
  BY DEF CInv
<1>. QED BY <1>1, CoverInit, CoverStep, PTL DEF Spec

-----------------------------------------------------------------------------
(* Messages that are sent twice *)

\* The processes that may still send the delivery d without a further claim.
Contenders(d) ==
  {p \in Processes : row[p] = d /\ \/ pc[p] = "send"
                                   \/ pc[p] = "prepare" /\ token[p] = tries[d]}

\* The owner of an attempt that will end its row, unless a fault gets in the way.
Finisher(p, d) ==
  /\ row[p] = d /\ token[p] = tries[d]
  /\ pc[p] \in {"prepare", "send"} \/ (pc[p] = "store" /\ outcome[p] # "retry")

\* The delivery d is not claimed again unless a fault gets in the way.
Spent(d) ==
  \/ status[d] \in Final
  \/ status[d] = "processing" /\ d \notin lapsed /\ \E p \in Processes : Finisher(p, d)

\* Every message that was or may be sent but one is paid for by a fault.
Chance(d) == IF Spent(d) THEN 0 ELSE 1
Paid(d) ==
  /\ IsFiniteSet(Contenders(d))
  /\ sends[d] + Cardinality(Contenders(d)) + Chance(d) <= 1 + faults

DInv == AInv /\ \A d \in Deliveries : Paid(d)

LEMMA Counting ==
  ASSUME NEW S, IsFiniteSet(S)
  PROVE  /\ Cardinality(S) \in Nat
         /\ \A T \in SUBSET S : /\ IsFiniteSet(T) /\ Cardinality(T) \in Nat
                                /\ Cardinality(T) <= Cardinality(S)
         /\ \A x \in S : \A T \in SUBSET (S \ {x}) :
              IsFiniteSet(T) /\ Cardinality(T) \in Nat /\ Cardinality(T) + 1 <= Cardinality(S)
         /\ \A x : \A T \in SUBSET (S \cup {x}) :
              IsFiniteSet(T) /\ Cardinality(T) \in Nat /\ Cardinality(T) <= Cardinality(S) + 1
<1>1. Cardinality(S) \in Nat
  BY FS_CardinalityType
<1>2. ASSUME NEW Q, IsFiniteSet(Q), NEW T \in SUBSET Q
      PROVE  IsFiniteSet(T) /\ Cardinality(T) \in Nat /\ Cardinality(T) <= Cardinality(Q)
  BY <1>2, FS_Subset, FS_CardinalityType
<1>3. ASSUME NEW x \in S, NEW T \in SUBSET (S \ {x})
      PROVE  IsFiniteSet(T) /\ Cardinality(T) \in Nat /\ Cardinality(T) + 1 <= Cardinality(S)
  <2>1. IsFiniteSet(S \ {x}) /\ Cardinality(S \ {x}) = Cardinality(S) - 1
    BY FS_RemoveElement
  <2>2. IsFiniteSet(T) /\ Cardinality(T) \in Nat /\ Cardinality(T) <= Cardinality(S \ {x})
    BY <1>2, <2>1
  <2>. QED BY <1>1, <2>1, <2>2
<1>4. ASSUME NEW x, NEW T \in SUBSET (S \cup {x})
      PROVE  IsFiniteSet(T) /\ Cardinality(T) \in Nat /\ Cardinality(T) <= Cardinality(S) + 1
  <2>1. IsFiniteSet(S \cup {x}) /\ Cardinality(S \cup {x}) <= Cardinality(S) + 1
    BY <1>1, FS_AddElement
  <2>2. IsFiniteSet(T) /\ Cardinality(T) \in Nat /\ Cardinality(T) <= Cardinality(S \cup {x})
    BY <1>2, <2>1
  <2>3. Cardinality(S \cup {x}) \in Nat
    BY <2>1, FS_CardinalityType
  <2>. QED BY <1>1, <2>1, <2>2, <2>3
<1>. QED BY <1>1, <1>2, <1>3, <1>4

LEMMA PaidInit == Init => DInv
<1>. SUFFICES ASSUME Init PROVE DInv
  OBVIOUS
<1>1. AInv
  BY AttemptsInit
<1>2. ASSUME NEW d \in Deliveries PROVE Paid(d)
  <2>1. Contenders(d) = {}
    BY DEF Init, Contenders
  <2>2. IsFiniteSet({}) /\ Cardinality({}) = 0
    BY FS_EmptySet
  <2>3. sends[d] = 0 /\ faults = 0
    BY <1>2 DEF Init
  <2>. HIDE DEF Contenders
  <2>4. Chance(d) \in {0, 1}
    BY DEF Chance
  <2>. QED BY <2>1, <2>2, <2>3, <2>4 DEF Paid
<1>. QED BY <1>1, <1>2 DEF DInv

\* The ways in which the account of a delivery goes on.
LEMMA PaidNumbers ==
  ASSUME DInv, TInv', NEW d \in Deliveries
  PROVE  /\ sends[d] \in Nat /\ sends'[d] \in Nat /\ faults \in Nat /\ faults' \in Nat
         /\ IsFiniteSet(Contenders(d)) /\ Cardinality(Contenders(d)) \in Nat
         /\ Chance(d) \in {0, 1} /\ Chance(d)' \in {0, 1}
         /\ sends[d] + Cardinality(Contenders(d)) + Chance(d) <= 1 + faults
<1>1. sends[d] \in Nat /\ sends'[d] \in Nat /\ faults \in Nat /\ faults' \in Nat
  BY ConstantsAssumption DEF DInv, AInv, TInv, CountsTyped
<1>2. /\ IsFiniteSet(Contenders(d))
      /\ sends[d] + Cardinality(Contenders(d)) + Chance(d) <= 1 + faults
  BY DEF DInv, Paid
<1>3. Chance(d) \in {0, 1} /\ Chance(d)' \in {0, 1}
  BY DEF Chance
<1>. QED BY <1>1, <1>2, <1>3, FS_CardinalityType

LEMMA PaidKept ==
  ASSUME DInv, TInv', NEW d \in Deliveries,
         Contenders(d)' \subseteq Contenders(d), sends'[d] = sends[d],
         \/ faults' = faults /\ (Spent(d) => Spent(d)')
         \/ faults' = faults + 1
  PROVE  Paid(d)'
<1>1. /\ sends[d] \in Nat /\ sends'[d] \in Nat /\ faults \in Nat /\ faults' \in Nat
      /\ IsFiniteSet(Contenders(d)) /\ Cardinality(Contenders(d)) \in Nat
      /\ Chance(d) \in {0, 1} /\ Chance(d)' \in {0, 1}
      /\ sends[d] + Cardinality(Contenders(d)) + Chance(d) <= 1 + faults
  BY PaidNumbers
<1>2. /\ IsFiniteSet(Contenders(d)') /\ Cardinality(Contenders(d)') \in Nat
      /\ Cardinality(Contenders(d)') <= Cardinality(Contenders(d))
  BY <1>1, Counting
<1>3. \/ faults' = faults /\ Chance(d)' <= Chance(d)
      \/ faults' = faults + 1
  BY DEF Chance
<1>4. sends'[d] + Cardinality(Contenders(d)') + Chance(d)' <= 1 + faults'
  BY ONLY sends'[d] = sends[d], <1>1, <1>2, <1>3
<1>. QED BY <1>2, <1>4 DEF Paid

LEMMA PaidSent ==
  ASSUME DInv, TInv', NEW d \in Deliveries, NEW p \in Contenders(d),
         Contenders(d)' \subseteq Contenders(d) \ {p},
         \/ faults' = faults /\ sends'[d] = sends[d] + 1 /\ (Spent(d) => Spent(d)')
         \/ faults' = faults /\ sends'[d] = sends[d]
         \/ faults' = faults + 1 /\ sends'[d] = sends[d] + 1
  PROVE  Paid(d)'
<1>1. /\ sends[d] \in Nat /\ sends'[d] \in Nat /\ faults \in Nat /\ faults' \in Nat
      /\ IsFiniteSet(Contenders(d)) /\ Cardinality(Contenders(d)) \in Nat
      /\ Chance(d) \in {0, 1} /\ Chance(d)' \in {0, 1}
      /\ sends[d] + Cardinality(Contenders(d)) + Chance(d) <= 1 + faults
  BY PaidNumbers
<1>2. /\ IsFiniteSet(Contenders(d)') /\ Cardinality(Contenders(d)') \in Nat
      /\ Cardinality(Contenders(d)') + 1 <= Cardinality(Contenders(d))
  BY <1>1, Counting
<1>3. \/ faults' = faults /\ sends'[d] = sends[d] + 1 /\ Chance(d)' <= Chance(d)
      \/ faults' = faults /\ sends'[d] = sends[d]
      \/ faults' = faults + 1 /\ sends'[d] = sends[d] + 1
  BY DEF Chance
<1>4. sends'[d] + Cardinality(Contenders(d)') + Chance(d)' <= 1 + faults'
  BY ONLY <1>1, <1>2, <1>3
<1>. QED BY <1>2, <1>4 DEF Paid

LEMMA PaidClaimed ==
  ASSUME DInv, TInv', NEW d \in Deliveries, NEW p,
         Contenders(d)' \subseteq Contenders(d) \cup {p},
         faults' = faults, sends'[d] = sends[d], ~Spent(d), Spent(d)'
  PROVE  Paid(d)'
<1>1. /\ sends[d] \in Nat /\ sends'[d] \in Nat /\ faults \in Nat /\ faults' \in Nat
      /\ IsFiniteSet(Contenders(d)) /\ Cardinality(Contenders(d)) \in Nat
      /\ sends[d] + Cardinality(Contenders(d)) + Chance(d) <= 1 + faults
  BY PaidNumbers
<1>2. /\ IsFiniteSet(Contenders(d)') /\ Cardinality(Contenders(d)') \in Nat
      /\ Cardinality(Contenders(d)') <= Cardinality(Contenders(d)) + 1
  BY <1>1, Counting
<1>3. Chance(d) = 1 /\ Chance(d)' = 0
  BY DEF Chance
<1>4. sends'[d] + Cardinality(Contenders(d)') + Chance(d)' <= 1 + faults'
  BY ONLY faults' = faults, sends'[d] = sends[d], <1>1, <1>2, <1>3
<1>. QED BY <1>2, <1>4 DEF Paid

\* Steps that are not about the delivery d.
QuietFor(d) ==
  /\ \A q \in Processes : Stays(q) \/ (row[q] # d /\ row'[q] # d)
  /\ tries'[d] = tries[d] /\ sends'[d] = sends[d]
  /\ \/ status'[d] = status[d]
     \/ status[d] \notin Final \cup {"processing"}
     \/ status'[d] \in Final
  /\ d \in lapsed' => d \in lapsed
  /\ FaultOrNot

LEMMA QuietPaid ==
  ASSUME DInv, TInv', NEW d \in Deliveries, QuietFor(d)
  PROVE  Paid(d)'
<1>1. Contenders(d)' \subseteq Contenders(d)
  BY DEF QuietFor, Contenders, Stays
<1>2. \A q \in Processes : Finisher(q, d) => Finisher(q, d)'
  BY DEF QuietFor, Finisher, Stays
<1>3. Spent(d) => Spent(d)'
  BY <1>2 DEF QuietFor, Spent
<1>. QED BY <1>1, <1>3, PaidKept DEF QuietFor, FaultOrNot

LEMMA ClaimPaid ==
  ASSUME DInv, TInv', NEW p \in Processes, NEW r \in Rows, ClaimOf(p, r),
         NEW d \in Deliveries
  PROVE  Paid(d)'
<1>0. TInv /\ Claims /\ d \in Rows /\ d \notin EventRows /\ row[p] = NoRow /\ NoRow # d
  BY RowKinds DEF DInv, AInv, ClaimOf, TInv, Place
<1>1. UNCHANGED <<sends, faults>> /\ \A q \in Processes : q # p => Stays(q)
  BY DEF ClaimOf, OthersStay
<1>2. CASE r # d
  <2>1. QuietFor(d)
    BY <1>0, <1>1, <1>2 DEF ClaimOf, QuietFor, FaultOrNot
  <2>. QED BY <2>1, QuietPaid
<1>3. CASE r = d
  <2>1. /\ row'[p] = d /\ token'[p] = tries'[d] /\ pc'[p] = "prepare"
        /\ status'[d] = "processing" /\ d \notin lapsed' /\ tries'[d] = tries[d] + 1
    BY <1>0, <1>3 DEF ClaimOf
  <2>2. Spent(d)'
    BY <2>1 DEF Spent, Finisher
  <2>3. ~Spent(d)
    <3>1. status[d] \in Waiting \/ (status[d] = "processing" /\ d \in lapsed)
      BY <1>3 DEF ClaimOf, Claimable
    <3>2. \A st \in Waiting : st \notin Final /\ st # "processing"
      BY DEF Waiting, Final
    <3>3. "processing" \notin Final
      BY DEF Final
    <3>. QED BY <3>1, <3>2, <3>3 DEF Spent
  <2>4. \A q \in Processes : q # p /\ row[q] = d => token[q] \in Nat /\ token[q] <= tries[d]
    BY <1>0 DEF Claims, TInv, ClaimTyped
  <2>5. tries[d] \in Nat
    BY <1>0 DEF TInv, RowsTyped
  <2>6. \A q \in Processes : q # p /\ row[q] = d => token[q] # tries'[d]
    BY <2>1, <2>4, <2>5
  <2>7. Contenders(d)' \subseteq Contenders(d) \cup {p}
    BY <1>1, <2>6 DEF Contenders, Stays
  <2>. QED BY <1>1, <2>2, <2>3, <2>7, PaidClaimed
<1>. QED BY <1>2, <1>3

LEMMA LeavePaid ==
  ASSUME DInv, TInv', NEW p \in Processes, LeavesOf(p), NEW d \in Deliveries
  PROVE  Paid(d)'
<1>0. TInv /\ Claims /\ d \in Rows /\ NoRow # d /\ row[p] \in Rows
  BY RowKinds DEF DInv, AInv, LeavesOf
<1>1. /\ \A q \in Processes : q # p => Stays(q)
      /\ UNCHANGED <<sends, tries>> /\ row'[p] = NoRow /\ pc'[p] = "idle" /\ FaultOrNot
  BY DEF LeavesOf, Leaves, Freed, OthersStay, WriteOf, rows, FaultOrNot
<1>2. CASE row[p] # d
  <2>1. status'[d] = status[d] /\ (d \in lapsed' => d \in lapsed)
    BY <1>0, <1>2 DEF LeavesOf, WriteOf, rows
  <2>2. QuietFor(d)
    BY <1>0, <1>1, <1>2, <2>1 DEF QuietFor
  <2>. QED BY <2>2, QuietPaid
<1>3. CASE row[p] = d
  <2>1. Contenders(d)' \subseteq Contenders(d)
    BY <1>1 DEF Contenders, Stays
  <2>2. \A q \in Processes : q # p /\ Finisher(q, d) => Finisher(q, d)'
    BY <1>1 DEF Finisher, Stays
  <2>3. CASE UNCHANGED rows /\ faults' = faults + 1
    BY <1>1, <2>1, <2>3, PaidKept
  <2>4. CASE ~Owns(p) /\ UNCHANGED <<rows, faults>>
    <3>1. status[d] = "processing" => ~Finisher(p, d)
      BY <1>3, <2>4 DEF Owns, Finisher
    <3>2. Spent(d) => Spent(d)'
      BY <2>2, <2>4, <3>1 DEF Spent, rows
    <3>. QED BY <1>1, <2>1, <2>4, <3>2, PaidKept
  <2>5. CASE /\ Owns(p) /\ status'[row[p]] \in Verdict(p) /\ UNCHANGED faults
             /\ outcome[p] \in {"completed", "deferred", "retry", "failed", "cancelled",
                                "success"}
             /\ pc[p] \in {"settle", "store"} \/ (pc[p] = "fan" /\ todo[p] = {})
    <3>1. SUFFICES ASSUME Spent(d) PROVE Spent(d)'
      BY <1>1, <2>1, <2>5, PaidKept
    <3>2. status[d] = "processing" /\ token[p] = tries[d] /\ "processing" \notin Final
      BY <1>3, <2>5 DEF Owns, Final
    <3>3. PICK q \in Processes : Finisher(q, d)
      BY <3>1, <3>2 DEF Spent
    <3>4. q = p
      BY <1>0, <1>3, <3>2, <3>3 DEF Finisher, Claims
    <3>5. pc[p] = "store" /\ outcome[p] # "retry" /\ Place(p)
      BY <1>0, <2>5, <3>3, <3>4 DEF Finisher, TInv
    <3>6. status'[d] \in {"failed", outcome[p]}
      BY <1>0, <1>3, <2>5, VerdictFacts
    <3>7. status'[d] \in Final
      BY <3>5, <3>6 DEF Place, Final
    <3>. QED BY <3>7 DEF Spent
  <2>. QED BY <2>3, <2>4, <2>5 DEF LeavesOf, WriteOf
<1>. QED BY <1>2, <1>3

LEMMA FansPaid ==
  ASSUME DInv, TInv', NEW p \in Processes, Fans(p), NEW d \in Deliveries
  PROVE  Paid(d)'
<1>0. TInv /\ d \in Rows /\ d \notin EventRows
  BY RowKinds DEF DInv, AInv, Rows
<1>1. /\ \A q \in Processes : q # p => Stays(q)
      /\ FaultOrNot /\ row'[p] = row[p] /\ UNCHANGED <<sends, tries>>
      /\ pc[p] \in {"match", "fan", "fanning"} /\ lapsed' \subseteq lapsed
  BY DEF Fans, OthersStay, MatchOf, VisitStep, VisitOf, VisitClosed, VisitSkipped, rows,
         Withdrawn
<1>2. row[p] # d
  BY <1>0, <1>1 DEF TInv, Place, AtEvent
<1>3. \/ status'[d] = status[d]
      \/ status[d] \notin Final \cup {"processing"}
      \/ status'[d] \in Final
  <2>1. CASE MatchOf(p) \/ VisitSkipped(p)
    BY <2>1 DEF MatchOf, VisitSkipped, rows
  <2>2. CASE VisitStep(p)
    BY <1>0, <2>2 DEF VisitStep, Withdrawn
  <2>3. CASE VisitClosed(p)
    BY <1>0, <2>3 DEF VisitClosed, ReceiptOf, Final
  <2>. QED BY <2>1, <2>2, <2>3 DEF Fans
<1>4. QuietFor(d)
  BY <1>1, <1>2, <1>3 DEF QuietFor
<1>. QED BY <1>4, QuietPaid

LEMMA RunsPaid ==
  ASSUME DInv, TInv', NEW p \in Processes, Runs(p), NEW d \in Deliveries
  PROVE  Paid(d)'
<1>0. TInv /\ d \in Rows /\ d \notin EventRows
  BY RowKinds DEF DInv, AInv, Rows
<1>1. Turns(p) /\ FaultOrNot
  BY DEF Runs, FailSettleOf, PrepareOf, SendOf, FaultOrNot
<1>2. /\ \A q \in Processes : q # p => Stays(q)
      /\ row'[p] = row[p] /\ token'[p] = token[p] /\ UNCHANGED <<status, tries, lapsed>>
  BY <1>1 DEF Turns, OthersStay, rows
<1>3. \A q \in Processes : q # p /\ Finisher(q, d) => Finisher(q, d)'
  BY <1>2 DEF Finisher, Stays
<1>4. ASSUME Finisher(p, d) => Finisher(p, d)'
      PROVE  Spent(d) => Spent(d)'
  BY <1>2, <1>3, <1>4 DEF Spent
<1>5. ASSUME row[p] # d, sends'[d] = sends[d] PROVE Paid(d)'
  <2>1. QuietFor(d)
    BY <1>1, <1>2, <1>5 DEF QuietFor
  <2>. QED BY <2>1, QuietPaid
<1>6. CASE FailSettleOf(p)
  <2>1. row[p] # d
    BY <1>0, <1>6 DEF FailSettleOf, TInv, Place, AtEvent
  <2>. QED BY <1>5, <1>6, <2>1 DEF FailSettleOf
<1>7. CASE PrepareOf(p)
  <2>1. sends'[d] = sends[d] /\ pc[p] = "prepare"
    BY <1>7 DEF PrepareOf
  <2>2. CASE row[p] = d
    <3>1. CASE pc'[p] = "send" /\ Owns(p) /\ UNCHANGED faults
      <4>1. Contenders(d)' \subseteq Contenders(d)
        BY <1>2, <2>1, <2>2, <3>1 DEF Contenders, Stays, Owns
      <4>2. Finisher(p, d) => Finisher(p, d)'
        BY <1>2, <3>1 DEF Finisher
      <4>. QED BY <1>4, <2>1, <3>1, <4>1, <4>2, PaidKept
    <3>2. CASE pc'[p] = "store"
      <4>1. Contenders(d)' \subseteq Contenders(d)
        BY <1>2, <3>2 DEF Contenders, Stays
      <4>2. CASE outcome'[p] \in {"failed", "cancelled"} /\ UNCHANGED faults
        <5>1. Finisher(p, d) => Finisher(p, d)'
          BY <1>2, <3>2, <4>2 DEF Finisher
        <5>. QED BY <1>4, <2>1, <4>1, <4>2, <5>1, PaidKept
      <4>3. CASE faults' = faults + 1
        BY <2>1, <4>1, <4>3, PaidKept
      <4>. QED BY <1>7, <3>2, <4>2, <4>3 DEF PrepareOf
    <3>. QED BY <1>7, <3>1, <3>2 DEF PrepareOf
  <2>. QED BY <1>5, <2>1, <2>2
<1>8. CASE SendOf(p) /\ row[p] \in Deliveries
  <2>1. sends \in [Deliveries -> Nat]
    BY <1>0 DEF TInv, CountsTyped
  <2>2. CASE row[p] # d
    <3>1. sends'[d] = sends[d]
      BY <1>8, <2>1, <2>2 DEF SendOf
    <3>. QED BY <1>5, <2>2, <3>1
  <2>3. CASE row[p] = d
    <3>1. pc[p] = "send" /\ pc'[p] = "store"
      BY <1>8 DEF SendOf
    <3>2. p \in Contenders(d)
      BY <2>3, <3>1 DEF Contenders
    <3>3. Contenders(d)' \subseteq Contenders(d) \ {p}
      BY <1>2, <3>1 DEF Contenders, Stays
    <3>4. outcome'[p] # "retry" => (Finisher(p, d) => Finisher(p, d)')
      BY <1>2, <3>1 DEF Finisher
    <3>5. outcome'[p] # "retry" => (Spent(d) => Spent(d)')
      BY <1>4, <3>4
    <3>6. \/ sends'[d] = sends[d] + 1 /\ outcome'[p] = "success" /\ faults' = faults
          \/ sends'[d] = sends[d] /\ faults' = faults
          \/ sends'[d] = sends[d] + 1 /\ faults' = faults + 1
      BY <1>8, <2>1, <2>3 DEF SendOf
    <3>7. CASE sends'[d] = sends[d] + 1 /\ outcome'[p] = "success" /\ faults' = faults
      BY <3>2, <3>3, <3>5, <3>7, PaidSent
    <3>8. CASE sends'[d] = sends[d] /\ faults' = faults
      BY <3>2, <3>3, <3>8, PaidSent
    <3>9. CASE sends'[d] = sends[d] + 1 /\ faults' = faults + 1
      BY <3>2, <3>3, <3>9, PaidSent
    <3>. QED BY <3>6, <3>7, <3>8, <3>9
  <2>. QED BY <2>2, <2>3
<1>. QED BY <1>6, <1>7, <1>8 DEF Runs

LEMMA LapsePaid ==
  ASSUME DInv, TInv', NEW r \in Rows, LapseOf(r), NEW d \in Deliveries
  PROVE  Paid(d)'
<1>1. /\ UNCHANGED <<status, tries, sends, pc, row, token, outcome>>
      /\ \A q \in Processes : Stays(q)
  BY DEF LapseOf, claim, Stays
<1>2. CASE r # d
  <2>1. QuietFor(d)
    BY <1>1, <1>2 DEF LapseOf, QuietFor, FaultOrNot
  <2>. QED BY <2>1, QuietPaid
<1>3. CASE r = d
  <2>1. Contenders(d)' \subseteq Contenders(d)
    BY <1>1 DEF Contenders
  <2>2. CASE Held(d)
    BY <1>1, <1>3, <2>1, <2>2, PaidKept DEF LapseOf
  <2>3. CASE ~Held(d)
    <3>1. ~Spent(d)
      BY <1>3, <2>3 DEF LapseOf, Spent, Finisher, Held, Final
    <3>. QED BY <1>1, <1>3, <2>1, <2>3, <3>1, PaidKept DEF LapseOf
  <2>. QED BY <2>2, <2>3
<1>. QED BY <1>2, <1>3

LEMMA OthersPaid ==
  ASSUME DInv, TInv', NEW d \in Deliveries,
         (\E e \in Events : StageOf(e)) \/ (\E s \in Subs : ConfiguredOf(s)) \/ DueOf
  PROVE  Paid(d)'
<1>1. \A q \in Processes : Stays(q)
  BY DEF StageOf, ConfiguredOf, DueOf, claim, Stays
<1>2. UNCHANGED <<tries, sends, faults>> /\ lapsed' \subseteq lapsed
  BY DEF StageOf, ConfiguredOf, DueOf, Withdrawn
<1>3. d \in Rows /\ \A e \in Events : d # Row(e)
  BY RowKinds
<1>4. status'[d] = status[d] \/ status'[d] \in Final
  BY <1>3 DEF StageOf, ConfiguredOf, DueOf, Withdrawn
<1>5. QuietFor(d)
  BY <1>1, <1>2, <1>4 DEF QuietFor, FaultOrNot
<1>. QED BY <1>5, QuietPaid

LEMMA PaidStep == DInv /\ [Next]_vars => DInv'
<1>. SUFFICES ASSUME DInv, [Next]_vars PROVE DInv'
  OBVIOUS
<1>0. AInv' /\ TInv /\ TInv'
  BY AttemptsStep DEF DInv, AInv
<1>. SUFFICES ASSUME NEW d \in Deliveries PROVE Paid(d)'
  BY <1>0 DEF DInv
<1>. QED BY <1>0, ClaimPaid, LeavePaid, FansPaid, RunsPaid, LapsePaid, OthersPaid, NextCases

\* Each message for a delivery beyond the first is paid for by a fault.
THEOREM DuplicatesPaidAlways == Spec => []DuplicatesPaid
<1>1. DInv => DuplicatesPaid
  <2>. SUFFICES ASSUME DInv, NEW d \in Deliveries PROVE sends[d] <= 1 + faults
    BY DEF DuplicatesPaid
  <2>1. /\ IsFiniteSet(Contenders(d)) /\ Chance(d) \in {0, 1}
        /\ sends[d] + Cardinality(Contenders(d)) + Chance(d) <= 1 + faults
    BY DEF DInv, Paid, Chance
  <2>2. Cardinality(Contenders(d)) \in Nat /\ sends[d] \in Nat /\ faults \in Nat
    BY <2>1, FS_CardinalityType, ConstantsAssumption DEF DInv, AInv, TInv, CountsTyped
  <2>. QED BY ONLY <2>1, <2>2
<1>. QED BY <1>1, PaidInit, PaidStep, PTL DEF Spec

-----------------------------------------------------------------------------
(* Attempts as LeasedWork has them *)

\* An attempt is numbered from one, and one that is going to write "success" has
\* sent its message.
Backed(p) ==
  /\ pc[p] # "idle" => token[p] \in Nat \ {0}
  /\ pc[p] = "store" /\ outcome[p] = "success" => sends[row[p]] > 0

LInv == AInv /\ \A p \in Processes : Backed(p)

\* Where a process is whose await, claim and outcome are not touched.
LEMMA BackedStays ==
  ASSUME TInv, TInv', NEW p \in Processes, Backed(p),
         pc'[p] = pc[p], row'[p] = row[p], token'[p] = token[p], outcome'[p] = outcome[p],
         \A d \in Deliveries : sends'[d] >= sends[d]
  PROVE  Backed(p)'
<1>1. pc[p] = "store" => row[p] \in Deliveries
  BY DEF TInv, Place, AtDelivery
<1>2. \A d \in Deliveries : sends[d] \in Nat /\ sends'[d] \in Nat
  BY DEF TInv, CountsTyped
<1>. QED BY <1>1, <1>2 DEF Backed

LEMMA SendsGrow ==
  ASSUME TInv, TInv', NEW p \in Processes, row[p] \in Deliveries,
         \/ UNCHANGED sends
         \/ sends' = [sends EXCEPT ![row[p]] = @ + 1]
  PROVE  \A d \in Deliveries : sends'[d] >= sends[d]
<1>1. \A d \in Deliveries : sends[d] \in Nat /\ sends'[d] \in Nat
  BY DEF TInv, CountsTyped
<1>2. \A d \in Deliveries : sends'[d] = sends[d] \/ sends'[d] = sends[d] + 1
  BY DEF TInv, CountsTyped
<1>. QED BY <1>1, <1>2

LEMMA RunsBacked ==
  ASSUME LInv, TInv', NEW p \in Processes, Runs(p)
  PROVE  \A q \in Processes : Backed(q)'
<1>1. Turns(p) /\ OthersStay(p) /\ row'[p] = row[p] /\ token'[p] = token[p]
  BY DEF Runs, FailSettleOf, PrepareOf, SendOf, Turns
<1>2. TInv /\ Backed(p)
  BY DEF LInv, AInv
<1>3. pc[p] # "idle" /\ token[p] \in Nat \ {0}
  BY <1>2 DEF Runs, FailSettleOf, PrepareOf, SendOf, Backed
<1>4. \A d \in Deliveries : sends'[d] >= sends[d]
  <2>1. CASE UNCHANGED sends
    BY <1>2, <2>1 DEF TInv, CountsTyped
  <2>2. CASE SendOf(p) /\ row[p] \in Deliveries
    BY <1>2, <2>2, SendsGrow DEF SendOf
  <2>. QED BY <2>1, <2>2 DEF Runs, FailSettleOf, PrepareOf
<1>5. ASSUME NEW q \in Processes, q # p PROVE Backed(q)'
  BY <1>1, <1>2, <1>4, <1>5, BackedStays DEF LInv, OthersStay, Stays
<1>6. Backed(p)'
  <2>1. CASE outcome'[p] # "success" \/ pc'[p] # "store"
    BY <1>1, <1>3, <2>1 DEF Backed
  <2>2. CASE outcome'[p] = "success" /\ pc'[p] = "store"
    <3>1. row[p] \in Deliveries /\ sends' = [sends EXCEPT ![row[p]] = @ + 1]
      BY <2>2 DEF Runs, FailSettleOf, PrepareOf, SendOf
    <3>2. sends[row[p]] \in Nat /\ sends'[row[p]] = sends[row[p]] + 1
      BY <1>2, <3>1 DEF TInv, CountsTyped
    <3>. QED BY <1>1, <1>3, <3>2 DEF Backed
  <2>. QED BY <2>1, <2>2
<1>. QED BY <1>5, <1>6

LEMMA LeasesStep == LInv /\ [Next]_vars => LInv'
<1>. SUFFICES ASSUME LInv, [Next]_vars PROVE LInv'
  OBVIOUS
<1>1. AInv /\ AInv' /\ TInv /\ TInv'
  BY AttemptsStep DEF LInv, AInv
<1>2. ASSUME UNCHANGED <<sends, pc, claim>> PROVE \A q \in Processes : Backed(q)'
  BY <1>2 DEF LInv, Backed, claim
<1>3. ASSUME NEW p \in Processes, OthersStay(p), UNCHANGED sends, Backed(p)'
      PROVE  \A q \in Processes : Backed(q)'
  <2>1. \A d \in Deliveries : sends'[d] >= sends[d]
    BY <1>1, <1>3 DEF TInv, CountsTyped
  <2>2. ASSUME NEW q \in Processes, q # p PROVE Backed(q)'
    BY <1>1, <1>3, <2>1, <2>2, BackedStays DEF LInv, OthersStay, Stays
  <2>. QED BY <1>3, <2>2
<1>4. ASSUME NEW p \in Processes, NEW r \in Rows, ClaimOf(p, r)
      PROVE  \A q \in Processes : Backed(q)'
  <2>1. OthersStay(p) /\ UNCHANGED sends /\ token'[p] = tries[r] + 1 /\ pc'[p] # "store"
    BY <1>4 DEF ClaimOf
  <2>2. tries[r] \in Nat
    BY <1>1 DEF TInv, RowsTyped
  <2>3. Backed(p)'
    BY <2>1, <2>2 DEF Backed
  <2>. QED BY <1>3, <2>1, <2>3
<1>5. ASSUME NEW p \in Processes, LeavesOf(p) PROVE \A q \in Processes : Backed(q)'
  <2>1. OthersStay(p) /\ UNCHANGED sends /\ pc'[p] = "idle"
    BY <1>5 DEF LeavesOf, Leaves, Freed
  <2>2. Backed(p)'
    BY <2>1 DEF Backed
  <2>. QED BY <1>3, <2>1, <2>2
<1>6. ASSUME NEW p \in Processes, Fans(p) PROVE \A q \in Processes : Backed(q)'
  <2>1. OthersStay(p) /\ UNCHANGED sends /\ token'[p] = token[p]
        /\ pc[p] # "idle" /\ pc'[p] # "store"
    BY <1>6 DEF Fans, MatchOf, VisitStep, VisitOf, VisitClosed, VisitSkipped, Outdone,
                Passed, Put, Refused, Opened, Halted
  <2>2. Backed(p)'
    BY <2>1 DEF Backed, LInv
  <2>. QED BY <1>3, <2>1, <2>2
<1>7. ASSUME NEW p \in Processes, Runs(p) PROVE \A q \in Processes : Backed(q)'
  BY <1>1, <1>7, RunsBacked
<1>8. ASSUME \/ \E e \in Events : StageOf(e)
             \/ \E s \in Subs : ConfiguredOf(s)
             \/ \E r \in Rows : LapseOf(r)
             \/ DueOf
      PROVE  UNCHANGED <<sends, pc, claim>>
  BY <1>8 DEF StageOf, ConfiguredOf, LapseOf, DueOf
<1>9. \A q \in Processes : Backed(q)'
  BY <1>1, <1>2, <1>4, <1>5, <1>6, <1>7, <1>8, NextCases
<1>. QED BY <1>1, <1>9 DEF LInv

LEMMA LeasesInit == Init => LInv
<1>. SUFFICES ASSUME Init PROVE LInv
  OBVIOUS
<1>1. \A p \in Processes : Backed(p)
  BY DEF Init, Backed
<1>. QED BY <1>1, AttemptsInit DEF LInv

\* What the steps of a process make of the sets of attempts.
LEMMA AttemptsSame ==
  ASSUME NEW S,
         \A q \in Processes : /\ row'[q] = row[q] /\ token'[q] = token[q]
                              /\ pc'[q] \in S <=> pc[q] \in S
  PROVE  AttemptsAt(S)' = AttemptsAt(S)
  BY DEF AttemptsAt

LEMMA AttemptOver ==
  ASSUME AInv, NEW p \in Processes, NEW S, OthersStay(p), pc'[p] \notin S, row[p] \in Rows
  PROVE  AttemptsAt(S)' = AttemptsAt(S) \ {<<row[p], token[p]>>}
<1>1. \A q \in Processes : q # p => /\ row'[q] = row[q] /\ token'[q] = token[q]
                                    /\ pc'[q] = pc[q]
  BY DEF OthersStay, Stays
<1>2. \A q \in Processes : q # p => row[q] # row[p] \/ token[q] # token[p]
  BY DEF AInv, Claims
<1>3. \A q \in Processes : q # p => <<row[q], token[q]>> # <<row[p], token[p]>>
  BY <1>2
<1>. QED BY <1>1, <1>3 DEF AttemptsAt

LEMMA AttemptAway ==
  ASSUME NEW p \in Processes, NEW S, OthersStay(p), pc'[p] \notin S, pc[p] \notin S
  PROVE  AttemptsAt(S)' = AttemptsAt(S)
<1>1. \A q \in Processes : q # p => /\ row'[q] = row[q] /\ token'[q] = token[q]
                                    /\ pc'[q] = pc[q]
  BY DEF OthersStay, Stays
<1>. QED BY <1>1 DEF AttemptsAt

LEMMA AttemptBegun ==
  ASSUME NEW p \in Processes, NEW S, OthersStay(p), pc'[p] \in S, pc[p] \notin S
  PROVE  AttemptsAt(S)' = AttemptsAt(S) \cup {<<row'[p], token'[p]>>}
<1>1. \A q \in Processes : q # p => /\ row'[q] = row[q] /\ token'[q] = token[q]
                                    /\ pc'[q] = pc[q]
  BY DEF OthersStay, Stays
<1>. QED BY <1>1 DEF AttemptsAt

LEMMA AttemptNotAt ==
  ASSUME AInv, NEW p \in Processes, NEW S, pc[p] \notin S, row[p] \in Rows
  PROVE  <<row[p], token[p]>> \notin AttemptsAt(S)
<1>1. \A q \in Processes : q # p => row[q] # row[p] \/ token[q] # token[p]
  BY DEF AInv, Claims
<1>2. \A q \in Processes : pc[q] \in S => <<row[q], token[q]>> # <<row[p], token[p]>>
  BY <1>1
<1>. QED BY <1>2 DEF AttemptsAt

LEMMA PhaseFacts ==
  ASSUME TInv, TInv'
  PROVE  /\ DOMAIN Phase = Rows /\ DOMAIN Phase' = Rows
         /\ \A r \in Rows : /\ status[r] \in Waiting => Phase[r] = "waiting"
                            /\ status[r] \notin Waiting => Phase[r] = status[r]
                            /\ status'[r] \in Waiting => Phase'[r] = "waiting"
                            /\ status'[r] \notin Waiting => Phase'[r] = status'[r]
         /\ \A r \in Rows : status'[r] = status[r] => Phase'[r] = Phase[r]
  BY DEF Phase

LEMMA PhaseMoved ==
  ASSUME TInv, TInv', NEW r \in Rows, NEW to,
         \A x \in Rows : x # r => status'[x] = status[x],
         \/ status'[r] = to /\ to \notin Waiting
         \/ status'[r] \in Waiting /\ to = "waiting"
  PROVE  Phase' = [Phase EXCEPT ![r] = to]
<1>1. \A x \in Rows : Phase'[x] = IF x = r THEN to ELSE Phase[x]
  BY PhaseFacts
<1>2. /\ Phase = [x \in Rows |-> Phase[x]]
      /\ Phase' = [x \in Rows |-> Phase'[x]]
  BY DEF Phase
<1>. QED BY <1>1, <1>2

LEMMA PhaseKept == UNCHANGED status => Phase' = Phase
  BY DEF Phase

LEMMA ClaimLeased ==
  ASSUME LInv, TInv', NEW p \in Processes, NEW r \in Rows, ClaimOf(p, r)
  PROVE  Leased!Claim(r)
<1>0. AInv /\ TInv
  BY DEF LInv, AInv
<1>1. Phase[r] \in {"waiting", "processing"}
  <2>1. status[r] \in Waiting \cup {"processing"}
    BY DEF ClaimOf, Claimable
  <2>. QED BY <1>0, <2>1, PhaseFacts
<1>2. Phase' = [Phase EXCEPT ![r] = "processing"]
  <2>1. status'[r] = "processing" /\ \A x \in Rows : x # r => status'[x] = status[x]
    BY DEF ClaimOf
  <2>2. "processing" \notin Waiting
    BY DEF Waiting
  <2>. QED BY <1>0, <2>1, <2>2, PhaseMoved
<1>3. tries' = [tries EXCEPT ![r] = @ + 1]
  BY <1>0 DEF ClaimOf, TInv, RowsTyped
<1>4. /\ OthersStay(p) /\ row'[p] = r /\ token'[p] = tries[r] + 1 /\ pc[p] = "idle"
      /\ pc'[p] = IF r \in EventRows THEN "match" ELSE "prepare"
      /\ UNCHANGED sends
  BY DEF ClaimOf
<1>5. AttemptsAt(Working)' = AttemptsAt(Working) \cup {<<r, tries[r] + 1>>}
  <2>1. pc[p] \notin Working /\ pc'[p] \in Working
    BY <1>4 DEF Working
  <2>. QED BY <1>4, <2>1, AttemptBegun
<1>6. AttemptsAt({"prepare"})' = IF r \in Deliveries
                                 THEN AttemptsAt({"prepare"}) \cup {<<r, tries[r] + 1>>}
                                 ELSE AttemptsAt({"prepare"})
  <2>1. CASE r \in Deliveries
    <3>1. pc'[p] \in {"prepare"} /\ pc[p] \notin {"prepare"}
      BY <1>4, <2>1, RowKinds
    <3>2. AttemptsAt({"prepare"})' = AttemptsAt({"prepare"}) \cup {<<row'[p], token'[p]>>}
      BY <1>4, <3>1, AttemptBegun
    <3>. QED BY <1>4, <2>1, <3>2
  <2>2. CASE r \notin Deliveries
    <3>1. pc'[p] \notin {"prepare"} /\ pc[p] \notin {"prepare"}
      BY <1>4, <2>2, RowKinds
    <3>. QED BY <1>4, <2>2, <3>1, AttemptAway
  <2>. QED BY <2>1, <2>2
<1>7. AttemptsAt({"send"})' = AttemptsAt({"send"})
  <2>1. pc'[p] \notin {"send"} /\ pc[p] \notin {"send"}
    BY <1>4
  <2>. QED BY <1>4, <2>1, AttemptAway
<1>. QED BY <1>1, <1>2, <1>3, <1>4, <1>5, <1>6, <1>7 DEF Leased!Claim

\* An attempt of a process at work is one of those that LeasedWork counts.
LEMMA Numbered ==
  ASSUME LInv, NEW p \in Processes, pc[p] # "idle"
  PROVE  /\ row[p] \in Rows /\ token[p] \in 1 .. tries[row[p]]
         /\ <<row[p], token[p]>> \in AttemptsAt(Working)
<1>1. pc[p] \in Working
  BY DEF LInv, AInv, TInv, PcTyped, Working
<1>2. row[p] \in Rows
  BY <1>1 DEF LInv, AInv, TInv, Place, AtEvent, AtDelivery, Working, Rows
<1>3. token[p] \in Nat \ {0} /\ token[p] <= tries[row[p]] /\ tries[row[p]] \in Nat
  BY <1>2 DEF LInv, Backed, AInv, Claims, TInv, RowsTyped
<1>. QED BY <1>1, <1>2, <1>3 DEF AttemptsAt

LEMMA LeaveOver ==
  ASSUME LInv, NEW p \in Processes, LeavesOf(p)
  PROVE  Leased!Over(row[p], token[p])
<1>0. AInv /\ OthersStay(p) /\ pc'[p] = "idle" /\ row[p] \in Rows /\ pc[p] # "idle"
  BY DEF LInv, LeavesOf, Leaves, Freed
<1>1. ASSUME NEW S, "idle" \notin S
      PROVE  AttemptsAt(S)' = AttemptsAt(S) \ {<<row[p], token[p]>>}
  <2>1. pc'[p] \notin S
    BY <1>0, <1>1
  <2>. QED BY <1>0, <2>1, AttemptOver
<1>2. /\ AttemptsAt(Working)' = AttemptsAt(Working) \ {<<row[p], token[p]>>}
      /\ AttemptsAt({"prepare"})' = AttemptsAt({"prepare"}) \ {<<row[p], token[p]>>}
      /\ AttemptsAt({"send"})' = AttemptsAt({"send"}) \ {<<row[p], token[p]>>}
  BY <1>1 DEF Working
<1>3. UNCHANGED <<tries, sends>>
  BY DEF LeavesOf, Leaves, WriteOf, rows
<1>4. <<row[p], token[p]>> \in AttemptsAt(Working)
  BY <1>0, Numbered
<1>. QED BY <1>2, <1>3, <1>4 DEF Leased!Over

LEMMA LeavesLeased ==
  ASSUME LInv, TInv', NEW p \in Processes, LeavesOf(p)
  PROVE  \/ Leased!Drop(row[p], token[p])
         \/ \E to \in {"waiting"} \cup Leased!Outcomes :
              Leased!Settle(row[p], token[p], to)
<1>0. AInv /\ TInv /\ row[p] \in Rows
  BY DEF LInv, AInv, LeavesOf
<1>1. Leased!Over(row[p], token[p])
  BY LeaveOver
<1>2. CASE UNCHANGED status
  BY <1>1, <1>2, PhaseKept DEF Leased!Drop
<1>3. CASE /\ Owns(p) /\ status'[row[p]] \in Verdict(p)
           /\ \A r \in Rows : r # row[p] => status'[r] = status[r]
           /\ outcome[p] \in {"completed", "deferred", "retry", "failed", "cancelled",
                              "success"}
           /\ pc[p] \in {"settle", "store"} \/ (pc[p] = "fan" /\ todo[p] = {})
  <2>. DEFINE st == status'[row[p]]
              to == IF st \in Waiting THEN "waiting" ELSE st
  <2>1. /\ Verdict(p) \subseteq Waiting \cup Final
        /\ \A x \in Verdict(p) : x \in {"failed", outcome[p]}
    BY <1>0, <1>3, VerdictFacts
  <2>2. to \in {"waiting"} \cup Leased!Outcomes
    BY <1>3, <2>1 DEF Leased!Outcomes, Waiting
  <2>3. Phase' = [Phase EXCEPT ![row[p]] = to]
    <3>1. \/ status'[row[p]] = to /\ to \notin Waiting
          \/ status'[row[p]] \in Waiting /\ to = "waiting"
      OBVIOUS
    <3>. QED BY <1>0, <1>3, <3>1, PhaseMoved
  <2>4. Leased!Latest(row[p], token[p])
    <3>1. status[row[p]] = "processing" /\ token[p] = tries[row[p]]
      BY <1>3 DEF Owns
    <3>2. "processing" \notin Waiting
      BY DEF Waiting
    <3>3. Phase[row[p]] = "processing"
      BY <1>0, <3>1, <3>2, PhaseFacts
    <3>. QED BY <3>1, <3>3 DEF Leased!Latest
  <2>5. <<row[p], token[p]>> \notin AttemptsAt({"prepare"}) \cup AttemptsAt({"send"})
    <3>1. pc[p] \notin {"prepare"} /\ pc[p] \notin {"send"}
      BY <1>3
    <3>. QED BY <1>0, <3>1, AttemptNotAt
  <2>6. to = "success" => row[p] \in Deliveries /\ sends[row[p]] > 0
    <3>. SUFFICES ASSUME to = "success"
                  PROVE  row[p] \in Deliveries /\ sends[row[p]] > 0
      OBVIOUS
    <3>1. outcome[p] = "success"
      BY <1>3, <2>1
    <3>2. pc[p] = "store" /\ row[p] \in Deliveries
      BY <1>0, <1>3, <3>1 DEF TInv, Place, AtDelivery
    <3>. QED BY <3>1, <3>2 DEF LInv, Backed
  <2>. HIDE DEF to
  <2>7. Leased!Settle(row[p], token[p], to)
    BY <1>1, <2>3, <2>4, <2>5, <2>6 DEF Leased!Settle
  <2>. QED BY <2>2, <2>7
<1>. QED BY <1>2, <1>3 DEF LeavesOf, WriteOf, rows

\* Rows that appear or are withdrawn, beside attempts that stay where they are.
Arranged ==
  /\ \A r \in Rows :
       \/ status'[r] = status[r]
       \/ status[r] \in Unsent \cup {"processing"} /\ status'[r] \in Gone
       \/ status[r] = "absent" /\ status'[r] \in {"accepted", "pending"}
  /\ UNCHANGED <<tries, sends>>

LEMMA ArrangedLeased ==
  ASSUME TInv, TInv', Arranged,
         AttemptsAt(Working)' = AttemptsAt(Working),
         AttemptsAt({"prepare"})' = AttemptsAt({"prepare"}),
         AttemptsAt({"send"})' = AttemptsAt({"send"})
  PROVE  Leased!Rearrange
<1>1. ASSUME NEW r \in Rows
      PROVE  \/ Phase'[r] = Phase[r]
             \/ Phase[r] = "absent" /\ Phase'[r] = "waiting"
             \/ /\ Phase[r] \in {"waiting", "processing"}
                /\ Phase'[r] \in Leased!Withdrawals
  <2>0. /\ status[r] \in Waiting => Phase[r] = "waiting"
        /\ status[r] \notin Waiting => Phase[r] = status[r]
        /\ status'[r] \in Waiting => Phase'[r] = "waiting"
        /\ status'[r] \notin Waiting => Phase'[r] = status'[r]
        /\ status'[r] = status[r] => Phase'[r] = Phase[r]
    BY PhaseFacts
  <2>1. CASE status'[r] = status[r]
    BY <2>0, <2>1
  <2>2. CASE status[r] \in Unsent \cup {"processing"} /\ status'[r] \in Gone
    BY <2>0, <2>2 DEF Unsent, Waiting, Gone, Leased!Withdrawals
  <2>3. CASE status[r] = "absent" /\ status'[r] \in {"accepted", "pending"}
    BY <2>0, <2>3 DEF Waiting
  <2>. QED BY <2>1, <2>2, <2>3 DEF Arranged
<1>2. DOMAIN Phase' = Rows
  BY PhaseFacts
<1>3. UNCHANGED <<tries, sends>>
  BY DEF Arranged
<1>. QED BY <1>1, <1>2, <1>3 DEF Leased!Rearrange, Leased!work

LEMMA FansLeased ==
  ASSUME LInv, TInv', NEW p \in Processes, Fans(p)
  PROVE  Leased!Rearrange
<1>0. TInv
  BY DEF LInv, AInv
<1>1. /\ OthersStay(p) /\ row'[p] = row[p] /\ token'[p] = token[p]
      /\ UNCHANGED <<tries, sends>>
  BY DEF Fans, MatchOf, VisitStep, VisitOf, VisitClosed, VisitSkipped, rows
<1>2. pc[p] \in {"match", "fan", "fanning"} /\ pc'[p] \in {"fan", "fanning", "settle"}
  BY DEF Fans, MatchOf, VisitStep, VisitOf, VisitClosed, VisitSkipped, Outdone,
         Passed, Put, Refused, Opened, Halted
<1>3. \A q \in Processes : row'[q] = row[q] /\ token'[q] = token[q]
  BY <1>1, KeptRows
<1>4. \A q \in Processes : q # p => pc'[q] = pc[q]
  BY <1>1 DEF OthersStay, Stays
<1>5. AttemptsAt(Working)' = AttemptsAt(Working)
  <2>1. \A q \in Processes : pc'[q] \in Working <=> pc[q] \in Working
    BY <1>2, <1>4 DEF Working
  <2>. QED BY <1>3, <2>1, AttemptsSame
<1>6. AttemptsAt({"prepare"})' = AttemptsAt({"prepare"})
  <2>1. \A q \in Processes : pc'[q] \in {"prepare"} <=> pc[q] \in {"prepare"}
    BY <1>2, <1>4
  <2>. QED BY <1>3, <2>1, AttemptsSame
<1>7. AttemptsAt({"send"})' = AttemptsAt({"send"})
  <2>1. \A q \in Processes : pc'[q] \in {"send"} <=> pc[q] \in {"send"}
    BY <1>2, <1>4
  <2>. QED BY <1>3, <2>1, AttemptsSame
<1>8. Arranged
  <2>1. CASE MatchOf(p) \/ VisitSkipped(p)
    BY <1>1, <2>1 DEF MatchOf, VisitSkipped, rows, Arranged
  <2>2. CASE VisitStep(p)
    <3>1. \A r \in Rows : \/ status'[r] = status[r]
                          \/ status[r] \in Unsent /\ status'[r] \in Gone
      BY <2>2 DEF VisitStep, Withdrawn
    <3>. QED BY <1>1, <3>1 DEF Arranged
  <2>3. CASE VisitClosed(p)
    BY <1>1, <2>3 DEF VisitClosed, ReceiptOf, Arranged, Gone
  <2>. QED BY <2>1, <2>2, <2>3 DEF Fans
<1>. QED BY <1>0, <1>5, <1>6, <1>7, <1>8, ArrangedLeased

\* The steps of nobody's attempt: staging, configuration and the clock.
LEMMA AsideLeased ==
  ASSUME LInv, TInv', Arranged, UNCHANGED <<pc, claim>>
  PROVE  Leased!Rearrange
<1>1. \A q \in Processes : row'[q] = row[q] /\ token'[q] = token[q] /\ pc'[q] = pc[q]
  BY DEF claim
<1>2. ASSUME NEW S PROVE AttemptsAt(S)' = AttemptsAt(S)
  BY <1>1, AttemptsSame
<1>3. /\ AttemptsAt(Working)' = AttemptsAt(Working)
      /\ AttemptsAt({"prepare"})' = AttemptsAt({"prepare"})
      /\ AttemptsAt({"send"})' = AttemptsAt({"send"})
  BY <1>2 DEF Working
<1>. QED BY <1>3, ArrangedLeased DEF LInv, AInv

LEMMA RunsLeased ==
  ASSUME LInv, TInv', NEW p \in Processes, Runs(p)
  PROVE  \/ Leased!Rearrange
         \/ Leased!Admit(row[p], token[p])
         \/ Leased!Forgo(row[p], token[p])
         \/ Leased!Call(row[p], token[p])
<1>0. AInv /\ TInv
  BY DEF LInv, AInv
<1>1. /\ Turns(p) /\ OthersStay(p) /\ row'[p] = row[p] /\ token'[p] = token[p]
      /\ UNCHANGED <<status, tries>>
  BY DEF Runs, FailSettleOf, PrepareOf, SendOf, Turns, rows
<1>2. \A q \in Processes : row'[q] = row[q] /\ token'[q] = token[q]
  BY <1>1, KeptRows
<1>3. \A q \in Processes : q # p => pc'[q] = pc[q]
  BY <1>1 DEF OthersStay, Stays
<1>4. pc[p] # "idle" /\ pc[p] \in Working /\ pc'[p] \in Working
  BY DEF Runs, FailSettleOf, PrepareOf, SendOf, Working
<1>5. AttemptsAt(Working)' = AttemptsAt(Working)
  <2>1. \A q \in Processes : pc'[q] \in Working <=> pc[q] \in Working
    BY <1>3, <1>4
  <2>. QED BY <1>2, <2>1, AttemptsSame
<1>6. Phase' = Phase
  BY <1>1, PhaseKept
<1>7. row[p] \in Rows
  BY <1>4, Numbered
<1>8. CASE FailSettleOf(p)
  <2>1. \A q \in Processes : pc'[q] \in {"prepare"} <=> pc[q] \in {"prepare"}
    BY <1>3, <1>8 DEF FailSettleOf
  <2>2. AttemptsAt({"prepare"})' = AttemptsAt({"prepare"})
    BY <1>2, <2>1, AttemptsSame
  <2>3. \A q \in Processes : pc'[q] \in {"send"} <=> pc[q] \in {"send"}
    BY <1>3, <1>8 DEF FailSettleOf
  <2>4. AttemptsAt({"send"})' = AttemptsAt({"send"})
    BY <1>2, <2>3, AttemptsSame
  <2>5. Arranged
    BY <1>1, <1>8 DEF FailSettleOf, Arranged
  <2>6. Leased!Rearrange
    BY <1>0, <1>5, <2>2, <2>4, <2>5, ArrangedLeased
  <2>. QED BY <2>6
<1>9. ASSUME pc'[p] = "store"
      PROVE  /\ AttemptsAt({"prepare"})' = AttemptsAt({"prepare"}) \ {<<row[p], token[p]>>}
             /\ AttemptsAt({"send"})' = AttemptsAt({"send"}) \ {<<row[p], token[p]>>}
  <2>1. pc'[p] \notin {"prepare"} /\ pc'[p] \notin {"send"}
    BY <1>9
  <2>2. ASSUME NEW S, pc'[p] \notin S
        PROVE  AttemptsAt(S)' = AttemptsAt(S) \ {<<row[p], token[p]>>}
    BY <1>0, <1>1, <1>7, <2>2, AttemptOver
  <2>. QED BY <2>1, <2>2
<1>10. CASE pc'[p] = "store" /\ UNCHANGED sends
  <2>1. Leased!Forgo(row[p], token[p])
    BY <1>1, <1>5, <1>6, <1>9, <1>10 DEF Leased!Forgo
  <2>. QED BY <2>1
<1>11. CASE PrepareOf(p) /\ pc'[p] = "send"
  <2>1. pc[p] = "prepare" /\ Owns(p) /\ UNCHANGED sends
    BY <1>11 DEF PrepareOf
  <2>2. Leased!Latest(row[p], token[p])
    <3>1. status[row[p]] = "processing" /\ token[p] = tries[row[p]]
      BY <2>1 DEF Owns
    <3>2. "processing" \notin Waiting
      BY DEF Waiting
    <3>3. Phase[row[p]] = "processing"
      BY <1>0, <1>7, <3>1, <3>2, PhaseFacts
    <3>. QED BY <3>1, <3>3 DEF Leased!Latest
  <2>3. <<row[p], token[p]>> \in AttemptsAt({"prepare"})
    BY <2>1 DEF AttemptsAt
  <2>4. AttemptsAt({"prepare"})' = AttemptsAt({"prepare"}) \ {<<row[p], token[p]>>}
    <3>1. pc'[p] \notin {"prepare"}
      BY <1>11
    <3>. QED BY <1>0, <1>1, <1>7, <3>1, AttemptOver
  <2>5. AttemptsAt({"send"})' = AttemptsAt({"send"}) \cup {<<row[p], token[p]>>}
    <3>1. pc'[p] \in {"send"} /\ pc[p] \notin {"send"}
      BY <1>11, <2>1
    <3>2. AttemptsAt({"send"})' = AttemptsAt({"send"}) \cup {<<row'[p], token'[p]>>}
      BY <1>1, <3>1, AttemptBegun
    <3>. QED BY <1>1, <3>2
  <2>6. Leased!Admit(row[p], token[p])
    BY <1>1, <1>5, <1>6, <2>1, <2>2, <2>3, <2>4, <2>5 DEF Leased!Admit
  <2>. QED BY <2>6
<1>12. CASE SendOf(p) /\ sends' = [sends EXCEPT ![row[p]] = @ + 1]
  <2>1. pc[p] = "send" /\ pc'[p] = "store"
    BY <1>12 DEF SendOf
  <2>2. <<row[p], token[p]>> \in AttemptsAt({"send"})
    BY <2>1 DEF AttemptsAt
  <2>3. AttemptsAt({"prepare"})' = AttemptsAt({"prepare"})
    <3>1. pc[p] \notin {"prepare"} /\ pc'[p] \notin {"prepare"}
      BY <2>1
    <3>. QED BY <1>1, <3>1, AttemptAway
  <2>4. AttemptsAt({"send"})' = AttemptsAt({"send"}) \ {<<row[p], token[p]>>}
    BY <1>9, <2>1
  <2>5. Leased!Call(row[p], token[p])
    BY <1>1, <1>5, <1>6, <1>12, <2>2, <2>3, <2>4 DEF Leased!Call
  <2>. QED BY <2>5
<1>. QED BY <1>8, <1>10, <1>11, <1>12 DEF Runs, PrepareOf, SendOf

LEMMA NextLeased ==
  ASSUME LInv, [Next]_vars
  PROVE  Leased!Next
<1>0. TInv /\ TInv'
  BY NextCases DEF LInv, AInv
<1>1. ASSUME NEW p \in Processes, NEW r \in Rows, ClaimOf(p, r) PROVE Leased!Next
  <2>1. Leased!Claim(r)
    BY <1>0, <1>1, ClaimLeased
  <2>. QED BY <2>1 DEF Leased!Next
<1>2. ASSUME NEW p \in Processes, LeavesOf(p) PROVE Leased!Next
  <2>1. row[p] \in Rows /\ token[p] \in 1 .. tries[row[p]]
    BY <1>2, Numbered DEF LeavesOf
  <2>2. \/ Leased!Drop(row[p], token[p])
        \/ \E to \in {"waiting"} \cup Leased!Outcomes :
             Leased!Settle(row[p], token[p], to)
    BY <1>0, <1>2, LeavesLeased
  <2>. QED BY <2>1, <2>2 DEF Leased!Next
<1>3. ASSUME NEW p \in Processes, Fans(p) PROVE Leased!Next
  BY <1>0, <1>3, FansLeased DEF Leased!Next
<1>4. ASSUME NEW p \in Processes, Runs(p) PROVE Leased!Next
  <2>1. row[p] \in Rows /\ token[p] \in 1 .. tries[row[p]]
    BY <1>4, Numbered DEF Runs, FailSettleOf, PrepareOf, SendOf
  <2>2. \/ Leased!Rearrange
        \/ Leased!Admit(row[p], token[p])
        \/ Leased!Forgo(row[p], token[p])
        \/ Leased!Call(row[p], token[p])
    BY <1>0, <1>4, RunsLeased
  <2>. QED BY <2>1, <2>2 DEF Leased!Next
<1>5. ASSUME NEW e \in Events, StageOf(e) PROVE Leased!Next
  <2>1. Arranged /\ UNCHANGED <<pc, claim>>
    BY <1>5 DEF StageOf, Arranged
  <2>. QED BY <1>0, <2>1, AsideLeased DEF Leased!Next
<1>6. ASSUME NEW s \in Subs, ConfiguredOf(s) PROVE Leased!Next
  <2>1. Arranged /\ UNCHANGED <<pc, claim>>
    BY <1>6 DEF ConfiguredOf, Withdrawn, Arranged
  <2>. QED BY <1>0, <2>1, AsideLeased DEF Leased!Next
<1>7. ASSUME DueOf \/ \E r \in Rows : LapseOf(r) PROVE Leased!Next
  <2>1. Arranged /\ UNCHANGED <<pc, claim>>
    BY <1>7 DEF DueOf, LapseOf, Arranged
  <2>. QED BY <1>0, <2>1, AsideLeased DEF Leased!Next
<1>. QED BY <1>0, <1>1, <1>2, <1>3, <1>4, <1>5, <1>6, <1>7, NextCases

LEMMA InitLeased == Init => Leased!Init
<1>. SUFFICES ASSUME Init PROVE Leased!Init
  OBVIOUS
<1>1. Phase = [r \in Rows |-> "absent"]
  BY DEF Init, Phase, Waiting
<1>2. AttemptsAt(Working) = {} /\ AttemptsAt({"prepare"}) = {} /\ AttemptsAt({"send"}) = {}
  BY DEF Init, AttemptsAt, Working
<1>. QED BY <1>1, <1>2 DEF Init, Leased!Init

\* The claims of events and deliveries implement LeasedWork: whatever lapses, is
\* taken over, withdrawn or lost, only the latest attempt of a row writes its
\* outcome, and over nothing that is final; an attempt sends at most once, after
\* its claim was compared again; and no delivery succeeds unsent.
THEOREM ClaimsAreLeases == Spec => ImplementsLeases
<1>1. Spec => []LInv
  BY LeasesInit, LeasesStep, PTL DEF Spec
<1>2. LInv /\ [Next]_vars => [Leased!Next]_(Leased!vars)
  BY NextLeased
<1>. QED BY <1>1, <1>2, InitLeased, PTL DEF Spec, ImplementsLeases, Leased!Spec

-----------------------------------------------------------------------------
(* How a claim comes to its end *)

\* The awaits of a claim that follow each other.
Follows(from, to) ==
  \/ from = "match" /\ to \in {"fan", "settle"}
  \/ from = "fan" /\ to = "settle"
  \/ from = "prepare" /\ to \in {"send", "store"}
  \/ from = "send" /\ to = "store"

\* One attempt of those that are left to a row is begun.
Starts(p) ==
  /\ pc[p] = "idle" /\ pc'[p] \in {"match", "prepare"}
  /\ \E r \in Rows : tries[r] < MaxTries + MaxFaults /\ tries'[r] = tries[r] + 1

\* One subscription of those that are left to a fan-out is begun, or ended.
Passes(p) ==
  \/ /\ pc[p] = "fan" /\ pc'[p] \in {"fan", "fanning"}
     /\ \E s \in todo[p] : todo'[p] = todo[p] \ {s}
  \/ pc[p] = "fanning" /\ pc'[p] = "fan" /\ todo'[p] = todo[p]

Nears(p) ==
  \/ Starts(p) \/ Passes(p) \/ Follows(pc[p], pc'[p])
  \/ pc[p] # "idle" /\ pc'[p] = "idle"

LEMMA ClaimNears ==
  ASSUME AInv, AInv', NEW p \in Processes, ClaimEvent(p) \/ ClaimDelivery(p)
  PROVE  Nears(p)
<1>1. PICK r \in Rows : ClaimOf(p, r)
  BY ClaimTypes, ClaimIs DEF AInv, ClaimEvent, ClaimDelivery
<1>2. tries[r] \in Nat /\ tries'[r] = tries[r] + 1
  BY <1>1 DEF ClaimOf, AInv, TInv, RowsTyped
<1>3. tries'[r] <= MaxTries + faults' /\ faults' \in 0 .. MaxFaults
  BY DEF AInv, Tried, TInv, CountsTyped
<1>4. tries[r] < MaxTries + MaxFaults
  BY <1>2, <1>3, ConstantsAssumption
<1>5. pc[p] = "idle" /\ pc'[p] \in {"match", "prepare"}
  BY <1>1 DEF ClaimOf
<1>. QED BY <1>2, <1>4, <1>5 DEF Nears, Starts

LEMMA FanNears ==
  ASSUME TInv, NEW p \in Processes, Visit(p) \/ Commit(p) \/ FailVisit(p)
  PROVE  Nears(p)
<1>. USE DEF TInv, PcTyped, ClaimTyped
<1>1. CASE Visit(p)
  <2>1. pc[p] = "fan" /\ \E s \in todo[p] : todo'[p] = todo[p] \ {s}
    BY <1>1 DEF Visit, At
  <2>2. pc' = pc \/ pc' = [pc EXCEPT ![p] = "fanning"]
    BY <1>1 DEF Visit, Goto
  <2>3. pc'[p] \in {"fan", "fanning"}
    BY <2>1, <2>2
  <2>. QED BY <2>1, <2>3 DEF Nears, Passes
<1>2. CASE Commit(p)
  BY <1>2 DEF Commit, CloseVisit, Goto, At, Nears, Passes
<1>3. CASE FailVisit(p)
  <2>1. CASE pc[p] = "fan"
    BY <1>3, <2>1 DEF FailVisit, At, Nears, Passes
  <2>2. CASE pc[p] = "fanning"
    BY <1>3, <2>2 DEF FailVisit, CloseVisit, Goto, At, Nears, Passes
  <2>. QED BY <1>3, <2>1, <2>2 DEF FailVisit, At
<1>. QED BY <1>1, <1>2, <1>3

LEMMA TurnNears ==
  ASSUME TInv, NEW p \in Processes,
         \/ Match(p) \/ FailSettle(p) \/ Prepare(p) \/ Send(p)
         \/ LeaveStale(p) \/ DropStale(p) \/ Crash(p) \/ SettleEvent(p) \/ Store(p)
  PROVE  Nears(p)
<1>. USE DEF TInv, PcTyped
<1>1. CASE Match(p)
  <2>1. pc[p] = "match" /\ \E to \in {"fan", "settle"} : pc' = [pc EXCEPT ![p] = to]
    BY <1>1 DEF Match, Plan, Goto, At
  <2>. QED BY <2>1 DEF Nears, Follows
<1>2. CASE FailSettle(p)
  BY <1>2 DEF FailSettle, Plan, Goto, At, Nears, Follows
<1>3. CASE Prepare(p)
  <2>1. pc[p] = "prepare" /\ \E to \in {"send", "store"} : pc' = [pc EXCEPT ![p] = to]
    BY <1>3 DEF Prepare, Plan, Goto, At
  <2>. QED BY <2>1 DEF Nears, Follows
<1>4. CASE Send(p)
  <2>1. pc[p] = "send" /\ pc' = [pc EXCEPT ![p] = "store"]
    BY <1>4 DEF Send, Plan, Goto, At
  <2>. QED BY <2>1 DEF Nears, Follows
<1>5. CASE LeaveStale(p) \/ DropStale(p) \/ Crash(p) \/ SettleEvent(p) \/ Store(p)
  <2>1. pc' = [pc EXCEPT ![p] = "idle"]
    BY <1>5 DEF LeaveStale, DropStale, Crash, SettleEvent, Store, Done, Goto
  <2>2. pc[p] # "idle"
    BY <1>5 DEF LeaveStale, DropStale, Crash, SettleEvent, Store, At
  <2>. QED BY <2>1, <2>2 DEF Nears
<1>. QED BY <1>1, <1>2, <1>3, <1>4, <1>5

\* Each step of a process, failures and crashes included, brings its claim nearer to
\* the end: to a later await, or to one more of the subscriptions it has read; and a
\* claim uses up one of the attempts of its row, of which there are finitely many. No
\* step of the others, and no change of the configuration, sends a process back. What
\* EventuallyFannedOut and EventuallySettled need besides is that steps are taken.
THEOREM ClaimsWindDown ==
  Spec => [][\A p \in Processes : \/ Stays(p) /\ ~Step(p) /\ ~Disturb(p)
                                  \/ Nears(p)]_vars
<1>1. ASSUME AInv, AInv', NEW p \in Processes, Step(p) \/ Disturb(p)
      PROVE  Nears(p) /\ OthersStay(p)
  <2>1. Nears(p)
    BY <1>1, ClaimNears, FanNears, TurnNears DEF AInv, Step, Disturb
  <2>2. (\E r \in Rows : ClaimOf(p, r)) \/ LeavesOf(p) \/ Fans(p) \/ Runs(p)
    BY <1>1, StepCases DEF AInv
  <2>3. OthersStay(p)
    BY <2>2 DEF ClaimOf, LeavesOf, Leaves, Fans, Runs, FailSettleOf, PrepareOf, SendOf, Turns
  <2>. QED BY <2>1, <2>3
<1>2. ASSUME AInv, AInv', Next, NEW p \in Processes
      PROVE  (Stays(p) /\ ~Step(p) /\ ~Disturb(p)) \/ Nears(p)
  <2>1. CASE Step(p) \/ Disturb(p)
    BY <1>1, <1>2, <2>1
  <2>2. CASE ~(Step(p) \/ Disturb(p)) /\ \E q \in Processes : Step(q) \/ Disturb(q)
    BY <1>1, <1>2, <2>2 DEF OthersStay
  <2>3. CASE ~(Step(p) \/ Disturb(p)) /\ ~\E q \in Processes : Step(q) \/ Disturb(q)
    <3>1. pc' = pc /\ UNCHANGED claim
      BY <1>2, <2>3 DEF Next, Stage, Configure, Disable, Enable, Retarget, Unbind, Rebind,
                        Change, BecomeDue, Lapse, WakeDeferred
    <3>2. Stays(p)
      BY <3>1 DEF Stays, claim
    <3>. QED BY <2>3, <3>2
  <2>. QED BY <2>1, <2>2, <2>3
<1>3. AInv /\ AInv' /\ [Next]_vars =>
        [\A p \in Processes : \/ Stays(p) /\ ~Step(p) /\ ~Disturb(p)
                              \/ Nears(p)]_vars
  BY <1>2
<1>. QED BY <1>3, Attempts, PTL DEF Spec
=============================================================================
