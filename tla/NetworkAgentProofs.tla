------------------------- MODULE NetworkAgentProofs -------------------------
(***************************************************************************)
(* Proofs about NetworkAgent: type correctness, its two safety invariants, *)
(* and that rows, messages and agent implement DesiredState.               *)
(*                                                                         *)
(* The inductive invariant orders all desired states that are under way -  *)
(* in the round, retained, followed, reported - by their revisions.        *)
(***************************************************************************)
EXTENDS NetworkAgent, TLAPS

-----------------------------------------------------------------------------
(* The inductive invariant *)

\* The round has read what it publishes.
InUse == pc \in {"clear", "send", "mark"}

\* The desired states that are under way somewhere.
Known ==
  (IF InUse THEN {pub.snap} ELSE {})
  \cup {retained[s] : s \in {t \in Schemas : retained[t] # Null}}
  \cup (IF held.schema # 0 THEN {held.snap} ELSE {})
  \cup {m.snap : m \in reports}

\* Each of them was desired once; one of the current revision is the current one.
KnownInv ==
  \A S \in Known :
    /\ S.rev \in 0 .. desired
    /\ S.present \subseteq Channels
    /\ S.rev = desired => S.present = Present /\ S.absent = Absent
    /\ \A c \in S.absent : c \in Channels /\ channel[c] \in {"absent", "deleted"}

\* A channel that was to be absent is never desired again.
OrderInv ==
  \A S \in Known, T \in Known :
    \A c \in S.absent : c \in T.present => T.rev < S.rev

\* Which topics may hold a message, by the schemas of the row and of the round.
OwnerInv ==
  /\ DOMAIN retained = Schemas
  /\ schema = 1 => retained[2] = Null
  /\ publishedSchema = 2 => retained[1] = Null
  /\ InUse => /\ pub.schema \in 1 .. schema
              /\ pub.schema = 1 => publishedSchema = 1 /\ retained[2] = Null
              /\ pub.schema = 2 /\ pc # "clear" => retained[1] = Null
  /\ pc = "clear" => pub.old = 1 /\ pub.schema = 2
  /\ retained[1] = Null \/ retained[2] = Null

\* The round publishes nothing older than what is retained, and the agent finds
\* nothing older than what it follows.
NewestInv ==
  /\ InUse => /\ \A s \in Schemas : retained[s] # Null => retained[s].rev <= pub.snap.rev
              /\ held.schema # 0 => held.snap.rev <= pub.snap.rev
  /\ held.schema = 1 /\ retained[2] # Null =>
       held.snap.rev <= retained[2].rev

\* A report is not newer than what the agent follows, and what it says closed is
\* closed.
ReportInv ==
  \A m \in reports :
    /\ held.schema # 0
    /\ m.snap.rev <= held.snap.rev
    /\ \A c \in m.snap.absent \ m.routes : c \notin routes

\* Nothing the agent may still follow opens a deleted channel.
GoneInv ==
  \A c \in Channels : channel[c] = "deleted" =>
    /\ held.schema # 0
    /\ c \notin routes
    /\ \A S \in Known : held.snap.rev <= S.rev => c \notin S.present

GroupInv ==
  /\ desired > 0 <=> \E c \in Channels : channel[c] # "none"
  /\ groupGone <=> desired > 0 /\ Existing = {}

Inv ==
  /\ KnownInv /\ OrderInv /\ OwnerInv /\ NewestInv /\ ReportInv /\ GoneInv /\ GroupInv

IInv == TypeOK /\ Inv

-----------------------------------------------------------------------------
(* Steps of the drain and of the wire *)

DrainType ==
  /\ requested \in BOOLEAN /\ forced \in BOOLEAN /\ taken \in BOOLEAN
  /\ pc \in {"idle", "read", "clear", "send", "mark", "done"}

\* What the steps of the process and of the broker do, the reading of a new
\* desired state excepted: the round goes on as it was, or ends.
WireStep ==
  /\ DrainType' /\ conn' \in {"down", "up"}
  /\ \/ retained' = retained
     \/ pc \in InFlight /\ retained' = Stored
     \/ retained' = [s \in Schemas |-> Null]
  /\ InUse' => /\ InUse /\ pub' = pub
               /\ \/ pc' = pc
                  \/ pc = "clear" /\ pc' = "send" /\ retained' = Stored
                  \/ pc = "send" /\ pc' = "mark"

\* The operators that move the drain end or continue the round.
LEMMA AskStep ==
  ASSUME DrainType, NEW force \in BOOLEAN, Ask(force)
  PROVE  DrainType' /\ (InUse' => InUse /\ pub' = pub /\ pc' = pc)
BY DEF DrainType, InUse, Ask, Round, Begin

LEMMA NextRoundStep ==
  ASSUME DrainType, NextRound
  PROVE  DrainType' /\ ~InUse'
BY DEF DrainType, InUse, NextRound, Round, Begin

LEMMA GiveUpStep ==
  ASSUME DrainType, GiveUp
  PROVE  DrainType' /\ ~InUse'
BY DEF DrainType, InUse, GiveUp

LEMMA RestartedStep ==
  ASSUME Restarted
  PROVE  DrainType' /\ ~InUse' /\ conn' = "down"
BY DEF DrainType, InUse, Restarted

\* A step on the wire makes no desired state known that was not.
LEMMA WireKnown ==
  ASSUME OwnerInv, WireStep, held' = held, reports' \subseteq reports
  PROVE  Known' \subseteq Known
<1>1. \A s \in Schemas : retained'[s] # Null => retained'[s] \in Known
  BY DEF OwnerInv, WireStep, Stored, InFlight, InUse, Known, Schemas
<1>2. InUse' => pub'.snap \in Known
  BY DEF WireStep, Known
<1> QED BY <1>1, <1>2 DEF Known, Schemas

LEMMA WireOwner ==
  ASSUME OwnerInv, WireStep, schema' = schema, publishedSchema' = publishedSchema,
         schema \in Schemas
  PROVE  OwnerInv'
<1>1. DOMAIN retained' = Schemas
  BY DEF OwnerInv, WireStep, Stored, Schemas
<1>2. CASE retained' = retained
  BY <1>2 DEF OwnerInv, WireStep, Stored, InFlight, InUse, Schemas
<1>3. CASE pc = "clear" /\ retained' = Stored
  BY <1>3 DEF OwnerInv, WireStep, Stored, InFlight, InUse, Schemas
<1>4. CASE pc = "send" /\ retained' = Stored
  BY <1>4 DEF OwnerInv, WireStep, Stored, InFlight, InUse, Schemas
<1>5. CASE retained' = [s \in Schemas |-> Null]
  BY <1>5 DEF OwnerInv, WireStep, Stored, InFlight, InUse, Schemas
<1> QED BY <1>2, <1>3, <1>4, <1>5 DEF WireStep, InFlight

LEMMA WireNewest ==
  ASSUME OwnerInv, NewestInv, KnownInv, WireStep, held' = held, schema \in Schemas, desired \in Nat
  PROVE  NewestInv'
<1>1. CASE retained' = retained
  BY <1>1 DEF NewestInv, WireStep, InUse
<1>2. CASE pc = "clear" /\ retained' = Stored
  BY <1>2 DEF NewestInv, OwnerInv, WireStep, Stored, InFlight, InUse, Schemas
<1>3. CASE pc = "send" /\ retained' = Stored
  <2>1. pub.snap.rev \in Nat
    BY <1>3 DEF KnownInv, Known, InUse
  <2> QED BY <1>3, <2>1 DEF NewestInv, OwnerInv, WireStep, Stored, InFlight, InUse, Schemas
<1>4. CASE retained' = [s \in Schemas |-> Null]
  BY <1>4 DEF NewestInv, WireStep, InUse, Schemas
<1> QED BY <1>1, <1>2, <1>3, <1>4 DEF WireStep, InFlight

\* The parts of the invariant that do not look at the published schema.
LEMMA WireInv ==
  ASSUME TypeOK, Inv, WireStep,
         desired' = desired, channel' = channel, groupGone' = groupGone,
         held' = held, routes' = routes, reports' \subseteq reports
  PROVE  KnownInv' /\ OrderInv' /\ NewestInv' /\ ReportInv' /\ GoneInv' /\ GroupInv'
<1>1. Known' \subseteq Known
  BY WireKnown DEF Inv
<1>2. KnownInv'
  BY <1>1 DEF Inv, KnownInv, Present, Absent
<1>3. OrderInv'
  BY <1>1 DEF Inv, OrderInv
<1>4. NewestInv'
  BY WireNewest DEF Inv, TypeOK
<1>5. ReportInv'
  BY DEF Inv, ReportInv
<1>6. GoneInv'
  BY <1>1 DEF Inv, GoneInv
<1>7. GroupInv'
  BY DEF Inv, GroupInv, Existing
<1> QED BY <1>2, <1>3, <1>4, <1>5, <1>6, <1>7

-----------------------------------------------------------------------------
(* Steps on the rows *)

\* An edit gives a new revision and leaves what is absent or deleted alone.
LEMMA EditInv ==
  ASSUME TypeOK, Inv, WireStep, retained' = retained,
         desired' = desired + 1, schema' = schema, publishedSchema' = publishedSchema,
         \A c \in Channels : channel[c] \in {"absent", "deleted"} =>
                               channel'[c] \in {"absent", "deleted"},
         \A c \in Channels : channel'[c] = "deleted" => channel[c] = "deleted",
         Existing' # {}, ~groupGone, groupGone' = groupGone,
         held' = held, routes' = routes, reports' = reports
  PROVE  Inv'
<1>1. Known' \subseteq Known
  BY WireKnown DEF Inv
<1>2. KnownInv'
  BY <1>1 DEF Inv, KnownInv, TypeOK
<1>3. OrderInv'
  BY <1>1 DEF Inv, OrderInv
<1>4. OwnerInv'
  BY WireOwner DEF Inv, TypeOK
<1>5. NewestInv'
  BY WireNewest DEF Inv, TypeOK
<1>6. ReportInv'
  BY DEF Inv, ReportInv
<1>7. GoneInv'
  BY <1>1 DEF Inv, GoneInv
<1>8. GroupInv'
  BY DEF GroupInv, Existing, TypeOK
<1> QED BY <1>2, <1>3, <1>4, <1>5, <1>6, <1>7, <1>8 DEF Inv

\* A report confirms that C is closed, and the rows of C are deleted.
Buries(m, C) ==
  /\ C \subseteq m.snap.absent \ m.routes
  /\ Present' = Present /\ Absent' = Absent \ C /\ Deleted' = Deleted \cup C
  /\ desired' = IF C = {} THEN desired ELSE desired + 1
  /\ groupGone' = (groupGone \/ (C # {} /\ Existing \subseteq C))

\* What the transaction of a report does to the rows.
LEMMA CommitFacts ==
  ASSUME TypeOK, Inv, NEW m \in reports, Commit(m)
  PROVE  /\ desired' \in {desired, desired + 1}
         /\ applied' \in 0 .. desired'
         /\ channel' \in [Channels -> {"none", "pending", "synced", "absent", "deleted"}]
         /\ groupGone' \in BOOLEAN
         /\ desired' = desired => Present' = Present /\ Absent' = Absent
         /\ \A c \in Channels : channel[c] \in {"absent", "deleted"} =>
                                  channel'[c] \in {"absent", "deleted"}
         /\ \A c \in Channels : channel'[c] = "deleted" /\ channel[c] # "deleted" =>
                                  c \in m.snap.absent \ m.routes
         /\ GroupInv'
         /\ \E C \in SUBSET Absent : Buries(m, C)
<1>1. m.snap \in Known
  BY DEF Known
<1>2. m.snap.rev \in 0 .. desired
  BY <1>1 DEF Inv, KnownInv
<1>3. CASE ~(Accepts1(m) \/ Accepts2(m))
  <2>1. UNCHANGED <<channel, groupGone, applied, desired>>
    BY <1>3 DEF Commit
  <2>2. Buries(m, {})
    BY <2>1 DEF Buries, Present, Absent, Deleted, TypeOK
  <2>3. {} \in SUBSET Absent
    OBVIOUS
  <2>4. Present' = Present /\ Absent' = Absent /\ GroupInv'
    BY <2>1 DEF Inv, GroupInv, Existing, Present, Absent
  <2> QED BY <2>1, <2>2, <2>3, <2>4 DEF TypeOK
<1>4. CASE Accepts1(m) \/ Accepts2(m)
  <2> DEFINE fin == {c \in Current(m) : channel[c] = "absent" /\ AbsenceConfirmed(m, c)}
  <2>1. /\ channel' = [c \in Channels |->
                CASE c \in fin -> "deleted"
                  [] c \in Current(m) /\ c \in Present ->
                       IF InSync(m, c) THEN "synced" ELSE "pending"
                  [] OTHER -> channel[c]]
        /\ groupGone' = (groupGone \/ (fin # {} /\ Existing \subseteq fin))
        /\ applied' = IF m.snap.rev > applied THEN m.snap.rev ELSE applied
        /\ desired' = IF fin # {} THEN desired + 1 ELSE desired
    BY <1>4 DEF Commit
  <2>2. \A c \in fin : c \in Channels /\ channel[c] = "absent" /\ c \in m.snap.absent \ m.routes
    BY DEF AbsenceConfirmed, Current, Existing
  <2> HIDE DEF fin
  <2>3. desired' \in {desired, desired + 1} /\ applied' \in 0 .. desired'
    BY <2>1, <1>2 DEF TypeOK
  <2>4. /\ channel' \in [Channels -> {"none", "pending", "synced", "absent", "deleted"}]
        /\ groupGone' \in BOOLEAN
    BY <2>1 DEF TypeOK
  <2>5. \A c \in Channels :
          /\ c \in fin => channel'[c] = "deleted"
          /\ c \in Present => channel'[c] \in {"pending", "synced"}
          /\ c \notin fin /\ c \notin Present => channel'[c] = channel[c]
    BY <2>1, <2>2 DEF Present, TypeOK
  <2>6. desired' = desired => fin = {}
    BY <2>1 DEF TypeOK
  <2>7. desired' = desired => Present' = Present /\ Absent' = Absent
    BY <2>5, <2>6 DEF Present, Absent
  <2>8. \A c \in Channels : channel[c] \in {"absent", "deleted"} =>
                              channel'[c] \in {"absent", "deleted"}
    BY <2>5 DEF Present
  <2>9. \A c \in Channels : channel'[c] = "deleted" /\ channel[c] # "deleted" =>
                              c \in m.snap.absent \ m.routes
    BY <2>2, <2>5
  <2>10. Existing' = Existing \ fin
    BY <2>2, <2>5 DEF Existing, Present
  <2>11. GroupInv'
    <3>1. \A c \in Channels : channel'[c] = "none" <=> channel[c] = "none"
      BY <2>2, <2>5 DEF Present
    <3>2. fin # {} => desired > 0
      BY <2>2 DEF Inv, GroupInv
    <3>3. desired' > 0 <=> desired > 0
      BY <2>1, <3>2 DEF TypeOK
    <3> QED BY <2>1, <2>10, <3>1, <3>2, <3>3 DEF Inv, GroupInv
  <2>12. fin \in SUBSET Absent /\ fin \subseteq m.snap.absent \ m.routes
    BY <2>2 DEF Absent
  <2>13. Present' = Present /\ Absent' = Absent \ fin /\ Deleted' = Deleted \cup fin
    BY <2>2, <2>5 DEF Present, Absent, Deleted
  <2>14. Buries(m, fin)
    BY <2>1, <2>12, <2>13 DEF Buries
  <2> QED BY <2>3, <2>4, <2>7, <2>8, <2>9, <2>11, <2>12, <2>14
<1> QED BY <1>3, <1>4

LEMMA CommitInv ==
  ASSUME TypeOK, Inv, NEW m \in reports, Commit(m), WireStep,
         schema' = schema, publishedSchema' = publishedSchema,
         held' = held, routes' = routes, reports' \subseteq reports
  PROVE  Inv'
<1>1. Known' \subseteq Known
  BY WireKnown DEF Inv
<1>2. KnownInv'
  BY <1>1, CommitFacts DEF Inv, KnownInv, TypeOK
<1>3. OrderInv'
  BY <1>1 DEF Inv, OrderInv
<1>4. OwnerInv'
  BY WireOwner DEF Inv, TypeOK
<1>5. NewestInv'
  BY WireNewest DEF Inv, TypeOK
<1>6. ReportInv'
  BY DEF Inv, ReportInv
<1>7. GoneInv'
  <2> SUFFICES ASSUME NEW c \in Channels, channel'[c] = "deleted"
               PROVE  /\ held.schema # 0
                      /\ c \notin routes
                      /\ \A S \in Known : held.snap.rev <= S.rev => c \notin S.present
    BY <1>1 DEF GoneInv
  <2>1. CASE channel[c] = "deleted"
    BY <2>1 DEF Inv, GoneInv
  <2>2. CASE channel[c] # "deleted"
    <3>1. c \in m.snap.absent \ m.routes
      BY <2>2, CommitFacts
    <3>2. held.schema # 0 /\ m.snap.rev <= held.snap.rev /\ c \notin routes
      BY <3>1 DEF Inv, ReportInv
    <3>3. m.snap \in Known /\ held.snap \in Known
      BY <3>2 DEF Known
    <3>4. \A S \in Known : c \in S.present => S.rev < m.snap.rev
      BY <3>1, <3>3 DEF Inv, OrderInv
    <3>5. \A S \in Known : S.rev \in Nat
      BY DEF Inv, KnownInv, TypeOK
    <3> QED BY <3>2, <3>3, <3>4, <3>5
  <2> QED BY <2>1, <2>2
<1>8. GroupInv'
  BY CommitFacts
<1> QED BY <1>2, <1>3, <1>4, <1>5, <1>6, <1>7, <1>8 DEF Inv

-----------------------------------------------------------------------------
(* Steps of the round *)

\* The transaction of the drain makes the current desired state known.
LEMMA ReadInv ==
  ASSUME TypeOK, Inv, Read, pc' \in InFlight
  PROVE  Inv'
<1>1. /\ pc = "read" /\ desired # 0
      /\ pub' = [schema |-> schema, old |-> publishedSchema, snap |-> Snapshot]
      /\ pc' = IF publishedSchema # schema THEN "clear" ELSE "send"
      /\ UNCHANGED <<agentRow, channelRows, wire, agent, reports>>
  BY DEF Read, NextRound, GiveUp, Round, Begin, InFlight
<1>2. UNCHANGED <<desired, schema, publishedSchema, channel, groupGone, retained, held,
                  routes, reports>>
  BY <1>1 DEF agentRow, channelRows, wire, agent
<1>3. InUse' /\ ~InUse
  BY <1>1 DEF InUse
<1>4. Known' = Known \cup {Snapshot}
  BY <1>1, <1>2, <1>3 DEF Known
<1>5. /\ Snapshot.rev = desired
      /\ Snapshot.present = Present /\ Snapshot.absent = Absent
  BY DEF Snapshot
<1>6. \A S \in Known : S.rev \in 0 .. desired
  BY DEF Inv, KnownInv
<1>7. KnownInv'
  BY <1>2, <1>4, <1>5 DEF Inv, KnownInv, Present, Absent, TypeOK
<1>8. OrderInv'
  <2> SUFFICES ASSUME NEW S \in Known', NEW T \in Known', NEW c \in S.absent, c \in T.present
               PROVE  T.rev < S.rev
    BY DEF OrderInv
  <2>1. CASE S \in Known /\ T \in Known
    BY <2>1 DEF Inv, OrderInv
  <2>2. CASE T = Snapshot
    BY <2>2, <1>2, <1>5, <1>7 DEF KnownInv, Present
  <2>3. CASE S = Snapshot /\ T \in Known
    <3>1. c \in Absent /\ c \notin Present
      BY <2>3, <1>5 DEF Absent, Present
    <3>2. T.rev # desired
      BY <2>3, <3>1 DEF Inv, KnownInv
    <3> QED BY <2>3, <3>2, <1>5, <1>6 DEF TypeOK
  <2> QED BY <1>4, <2>1, <2>2, <2>3
<1>9. OwnerInv'
  BY <1>1, <1>2, <1>3 DEF Inv, OwnerInv, TypeOK, Schemas
<1>10. NewestInv'
  <2>1. pub'.snap.rev = desired
    BY <1>1, <1>5
  <2>2. \A s \in Schemas : retained[s] # Null => retained[s].rev \in 0 .. desired
    BY <1>6 DEF Known
  <2>3. held.schema # 0 => held.snap.rev \in 0 .. desired
    BY <1>6 DEF Known
  <2> QED BY <1>2, <2>1, <2>2, <2>3 DEF Inv, NewestInv, TypeOK
<1>11. ReportInv'
  BY <1>2 DEF Inv, ReportInv
<1>12. GoneInv'
  BY <1>2, <1>4, <1>5 DEF Inv, GoneInv, Present
<1>13. GroupInv'
  BY <1>2 DEF Inv, GroupInv, Existing
<1> QED BY <1>7, <1>8, <1>9, <1>10, <1>11, <1>12, <1>13 DEF Inv

\* The record of the revision is confirmed only for the schema in force.
LEMMA MarkInv ==
  ASSUME TypeOK, Inv, Mark
  PROVE  Inv'
<1>1. DrainType' /\ ~InUse'
  BY NextRoundStep DEF Mark, TypeOK, DrainType
<1>2. UNCHANGED <<desired, schema, channel, groupGone, conn, retained, held, routes, reports>>
  BY DEF Mark, channelRows, wire, agent
<1>3. WireStep
  BY <1>1, <1>2 DEF WireStep, TypeOK
<1>4. OwnerInv'
  BY <1>1, <1>2 DEF Inv, OwnerInv, Mark, Confirms, InUse, TypeOK, Schemas
<1> QED BY <1>2, <1>3, <1>4, WireInv DEF Inv

-----------------------------------------------------------------------------
(* Steps of the agent *)

\* The agent never goes back to an older desired state.
LEMMA ReadsNewer ==
  ASSUME TypeOK, Inv, NEW s \in Schemas, AgentReads(s)
  PROVE  /\ retained[s] # Null /\ retained[s] \in Known
         /\ held.schema # 0 => held.snap.rev <= retained[s].rev
<1>1. retained[s] # Null /\ retained[s] \in Known
  BY DEF AgentReads, NewerThanHeld, Known
<1>2. \A S \in Known : S.rev \in Nat
  BY DEF Inv, KnownInv, TypeOK
<1>3. held.schema # 0 => held.snap.rev \in Nat
  BY <1>2 DEF Known
<1>4. CASE s = held.schema
  BY <1>1, <1>2, <1>3, <1>4 DEF AgentReads, NewerThanHeld, Schemas
<1>5. CASE held.schema = 1 /\ s = 2
  BY <1>1, <1>5 DEF Inv, NewestInv
<1>6. CASE held.schema = 0
  BY <1>1, <1>6
<1> QED BY <1>1, <1>4, <1>5, <1>6 DEF AgentReads, NewerThanHeld, Schemas, TypeOK

LEMMA AgentReadsInv ==
  ASSUME TypeOK, Inv, NEW s \in Schemas, AgentReads(s)
  PROVE  Inv'
<1>1. /\ held' = [schema |-> s, snap |-> retained[s]]
      /\ UNCHANGED <<desired, schema, publishedSchema, channel, groupGone, retained, pc,
                     pub, routes, reports>>
  BY DEF AgentReads, agentRow, channelRows, drain, wire
<1>2. retained[s] # Null /\ retained[s] \in Known
  BY DEF AgentReads, NewerThanHeld, Known
<1>3. \A S \in Known : S.rev \in Nat
  BY DEF Inv, KnownInv, TypeOK
<1>4. Known' \subseteq Known
  BY <1>1, <1>2 DEF Known, InUse
<1>5. held.schema # 0 => held.snap.rev \in Nat
  BY <1>3 DEF Known
<1>6. held.schema # 0 => held.snap.rev <= retained[s].rev
  BY ReadsNewer
<1>7. KnownInv'
  BY <1>1, <1>4 DEF Inv, KnownInv, Present, Absent
<1>8. OrderInv'
  BY <1>4 DEF Inv, OrderInv
<1>9. OwnerInv'
  BY <1>1 DEF Inv, OwnerInv, InUse
<1>10. NewestInv'
  BY <1>1, <1>2 DEF Inv, NewestInv, OwnerInv, InUse, Schemas
<1>11. ReportInv'
  <2>1. \A m \in reports : m.snap.rev \in Nat
    BY <1>3 DEF Known
  <2>2. \A m \in reports : m.snap.rev <= retained[s].rev
    BY <1>2, <1>3, <1>5, <1>6, <2>1 DEF Inv, ReportInv
  <2>3. held'.schema # 0
    BY <1>1 DEF Schemas
  <2> QED BY <1>1, <2>2, <2>3 DEF Inv, ReportInv
<1>12. GoneInv'
  <2> SUFFICES ASSUME NEW c \in Channels, channel[c] = "deleted"
               PROVE  /\ held'.schema # 0
                      /\ c \notin routes
                      /\ \A S \in Known : held'.snap.rev <= S.rev => c \notin S.present
    BY <1>1, <1>4 DEF GoneInv
  <2>1. held.schema # 0 /\ c \notin routes
    BY DEF Inv, GoneInv
  <2>2. held'.schema # 0 /\ held'.snap = retained[s]
    BY <1>1 DEF Schemas
  <2>3. ASSUME NEW S \in Known, held'.snap.rev <= S.rev
        PROVE  held.snap.rev <= S.rev
    BY <1>2, <1>3, <1>5, <1>6, <2>1, <2>2, <2>3
  <2> QED BY <2>1, <2>2, <2>3 DEF Inv, GoneInv
<1>13. GroupInv'
  BY <1>1 DEF Inv, GroupInv, Existing
<1> QED BY <1>7, <1>8, <1>9, <1>10, <1>11, <1>12, <1>13 DEF Inv

LEMMA AgentRoutesInv ==
  ASSUME TypeOK, Inv, NEW c \in Channels, AgentRoutes(c)
  PROVE  Inv' /\ routes' \subseteq Channels
<1>1. UNCHANGED <<desired, schema, publishedSchema, channel, groupGone, retained, pc, pub,
                  held, reports>>
  BY DEF AgentRoutes, agentRow, channelRows, drain, wire
<1>2. held.schema # 0 /\ held.snap \in Known
  BY DEF AgentRoutes, Known
<1>3. \A S \in Known : S.rev \in Nat
  BY DEF Inv, KnownInv, TypeOK
<1>4. Known' = Known
  BY <1>1 DEF Known, InUse
<1>5. \A d \in routes' \ routes : d \in held.snap.present
  BY DEF AgentRoutes
<1>6. KnownInv' /\ OrderInv' /\ OwnerInv' /\ NewestInv' /\ GroupInv'
  BY <1>1, <1>4 DEF Inv, KnownInv, OrderInv, OwnerInv, NewestInv, GroupInv, InUse, Present,
                    Absent, Existing
<1>7. ReportInv'
  <2> SUFFICES ASSUME NEW m \in reports, NEW d \in m.snap.absent \ m.routes
               PROVE  d \notin routes'
    BY <1>1 DEF Inv, ReportInv
  <2>1. d \notin routes /\ m.snap.rev <= held.snap.rev
    BY DEF Inv, ReportInv
  <2>2. m.snap \in Known
    BY DEF Known
  <2>3. d \notin held.snap.present
    BY <1>2, <1>3, <2>1, <2>2 DEF Inv, OrderInv
  <2> QED BY <1>5, <2>1, <2>3
<1>8. GoneInv'
  <2>1. held.snap.rev <= held.snap.rev
    BY <1>2, <1>3
  <2>2. \A d \in Channels : channel[d] = "deleted" => d \notin routes /\ d \notin held.snap.present
    BY <1>2, <2>1 DEF Inv, GoneInv
  <2> QED BY <1>1, <1>4, <1>5, <2>2 DEF Inv, GoneInv
<1>9. routes' \subseteq Channels
  BY DEF AgentRoutes, TypeOK
<1> QED BY <1>6, <1>7, <1>8, <1>9 DEF Inv

LEMMA AgentReportsInv ==
  ASSUME TypeOK, Inv, AgentReports
  PROVE  Inv'
<1>1. UNCHANGED <<desired, schema, publishedSchema, channel, groupGone, retained, pc, pub,
                  held, routes>>
  BY DEF AgentReports, agentRow, channelRows, drain, wire, agent
<1>2. held.schema # 0 /\ held.snap \in Known
  BY DEF AgentReports, Known
<1>3. \A m \in reports' \ reports : m.snap = held.snap /\ m.routes = routes
  BY DEF AgentReports
<1>4. Known' \subseteq Known
  BY <1>1, <1>2, <1>3 DEF Known, InUse
<1>5. KnownInv' /\ OrderInv' /\ OwnerInv' /\ NewestInv' /\ GroupInv' /\ GoneInv'
  BY <1>1, <1>4 DEF Inv, KnownInv, OrderInv, OwnerInv, NewestInv, GroupInv, GoneInv, InUse,
                    Present, Absent, Existing
<1>6. held.snap.rev \in Nat
  BY <1>2 DEF Inv, KnownInv, TypeOK
<1>7. ReportInv'
  BY <1>1, <1>2, <1>3, <1>6 DEF Inv, ReportInv
<1> QED BY <1>5, <1>7 DEF Inv

-----------------------------------------------------------------------------
(* The invariant is inductive *)

LEMMA InitInv == Init => IInv
<1> SUFFICES ASSUME Init PROVE IInv
  OBVIOUS
<1>1. TypeOK
  <2>1. /\ desired \in Nat /\ schema \in Schemas /\ published \in 0 .. desired
        /\ publishedSchema \in 1 .. schema /\ applied \in 0 .. desired
        /\ faults \in 0 .. MaxFaults
    BY ConstantsAssumption DEF Init, Schemas
  <2>2. revision \in [Channels -> 0 .. desired]
    BY DEF Init
  <2>3. held.schema \in {0} \cup Schemas
    BY DEF Init
  <2> QED BY <2>1, <2>2, <2>3 DEF Init, TypeOK
<1>2. Known = {}
  BY DEF Init, Known, InUse, Schemas
<1>3. KnownInv /\ OrderInv
  BY <1>2 DEF KnownInv, OrderInv
<1>4. OwnerInv /\ NewestInv /\ ReportInv /\ GoneInv
  BY <1>2 DEF Init, OwnerInv, NewestInv, ReportInv, GoneInv, InUse, Schemas
<1>5. GroupInv
  BY DEF Init, GroupInv
<1> QED BY <1>1, <1>3, <1>4, <1>5 DEF IInv, Inv

\* A step of the process or the broker that leaves the rows alone.
LEMMA WireOnly ==
  ASSUME IInv, WireStep, UNCHANGED <<agentRow, channelRows, agent, reports>>,
         faults' \in 0 .. MaxFaults
  PROVE  IInv'
<1>1. UNCHANGED <<desired, schema, published, publishedSchema, applied, channel, revision,
                  groupGone, held, routes, reports>>
  BY DEF agentRow, channelRows, agent
<1>2. TypeOK'
  BY <1>1 DEF IInv, TypeOK, WireStep, DrainType
<1>3. OwnerInv'
  BY <1>1, WireOwner DEF IInv, Inv, TypeOK
<1> QED BY <1>1, <1>2, <1>3, WireInv DEF IInv, Inv

LEMMA FaultStep == ASSUME IInv, Fault PROVE faults' \in 0 .. MaxFaults
BY ConstantsAssumption DEF IInv, TypeOK, Fault

LEMMA DrainWire ==
  ASSUME IInv, Drain, ~(Read /\ pc' \in InFlight)
  PROVE  /\ WireStep
         /\ UNCHANGED <<desired, schema, applied, channelRows, agent, reports, faults>>
         /\ ~Mark => UNCHANGED <<published, publishedSchema>>
<1>0. DrainType /\ conn \in {"down", "up"}
  BY DEF IInv, TypeOK, DrainType
<1>1. CASE Finish
  BY <1>0, <1>1 DEF Finish, Round, Begin, WireStep, DrainType, InUse, wire, agentRow
<1>2. CASE Read
  <2>1. UNCHANGED <<agentRow, channelRows, wire, agent, reports, faults>>
    BY <1>2 DEF Read
  <2>2. DrainType' /\ ~InUse'
    BY <1>0, <1>2, NextRoundStep, GiveUpStep DEF Read, InFlight
  <2> QED BY <1>0, <2>1, <2>2 DEF WireStep, wire, agentRow
<1>3. CASE Publish
  BY <1>0, <1>3 DEF Publish, WireStep, DrainType, InUse, InFlight, agentRow
<1>4. CASE Mark
  <2>1. DrainType' /\ ~InUse'
    BY <1>0, <1>4, NextRoundStep DEF Mark
  <2> QED BY <1>0, <1>4, <2>1 DEF Mark, WireStep, wire
<1> QED BY <1>1, <1>2, <1>3, <1>4 DEF Drain

LEMMA DrainSteps ==
  ASSUME IInv, Drain
  PROVE  IInv'
<1> USE DEF IInv
<1>1. CASE Read /\ pc' \in InFlight
  <2>1. UNCHANGED <<agentRow, channelRows, wire, agent, reports, faults>>
    BY <1>1 DEF Read
  <2>2. requested' = requested /\ forced' = forced /\ taken' = taken
    BY <1>1 DEF Read, NextRound, GiveUp, Round, Begin, InFlight
  <2>3. TypeOK'
    BY <1>1, <2>1, <2>2 DEF TypeOK, InFlight, agentRow, channelRows, wire, agent
  <2> QED BY <1>1, <2>3, ReadInv
<1>2. CASE ~(Read /\ pc' \in InFlight) /\ ~Mark
  <2>1. WireStep /\ UNCHANGED <<agentRow, channelRows, agent, reports, faults>>
    BY <1>2, DrainWire DEF agentRow
  <2> QED BY <2>1, WireOnly DEF TypeOK
<1>3. CASE Mark
  <2>1. WireStep
        /\ UNCHANGED <<desired, schema, applied, channelRows, agent, reports, faults>>
    BY <1>3, DrainWire DEF Mark, Read
  <2>2. published' \in 0 .. desired /\ publishedSchema' \in 1 .. schema
    <3>1. pub.snap.rev \in 0 .. desired
      BY <1>3 DEF Mark, InUse, Known, Inv, KnownInv
    <3> QED BY <1>3, <3>1 DEF Mark, Confirms, TypeOK, Schemas
  <2>3. TypeOK'
    BY <2>1, <2>2 DEF TypeOK, WireStep, DrainType, channelRows, agent
  <2> QED BY <1>3, <2>3, MarkInv
<1> QED BY <1>1, <1>2, <1>3

\* The timer, the connection and what fails.
ProcessStep == Tick \/ Connect \/ Disconnect \/ Recover \/ QueryFails \/ Crash \/ BrokerLoses

LEMMA ProcessWire ==
  ASSUME IInv, ProcessStep
  PROVE  /\ WireStep /\ faults' \in 0 .. MaxFaults
         /\ UNCHANGED <<agentRow, channelRows, agent, reports>>
<1>0. DrainType /\ conn \in {"down", "up"} /\ faults \in 0 .. MaxFaults
  BY DEF IInv, TypeOK, DrainType
<1>1. CASE Tick
  BY <1>0, <1>1, AskStep DEF Tick, WireStep, wire
<1>2. CASE Connect
  <2>1. CASE pc = "idle"
    BY <1>0, <1>2, <2>1 DEF Connect, Begin, WireStep, DrainType, InUse
  <2>2. CASE pc # "idle"
    BY <1>0, <1>2, <2>2, AskStep DEF Connect, WireStep
  <2> QED BY <2>1, <2>2
<1>3. CASE Disconnect
  BY <1>0, <1>3, FaultStep DEF Disconnect, MayBeStored, WireStep, DrainType, InUse, drain
<1>4. CASE Recover
  BY <1>0, <1>4, FaultStep
     DEF Recover, GiveUp, MayBeStored, WireStep, DrainType, InUse, drain
<1>5. CASE QueryFails
  BY <1>0, <1>5, FaultStep, GiveUpStep DEF QueryFails, WireStep, wire
<1>6. CASE Crash
  BY <1>6, FaultStep, RestartedStep DEF Crash, MayBeStored, WireStep
<1>7. CASE BrokerLoses
  BY <1>0, <1>7, FaultStep DEF BrokerLoses, WireStep, DrainType, InUse, drain
<1> QED BY <1>1, <1>2, <1>3, <1>4, <1>5, <1>6, <1>7 DEF ProcessStep

LEMMA ProcessSteps ==
  ASSUME IInv, ProcessStep
  PROVE  IInv'
BY ProcessWire, WireOnly

\* What an edit makes of the channels.
Edited ==
  /\ channel' \in [Channels -> {"none", "pending", "synced", "absent", "deleted"}]
  /\ \A c \in Channels :
       /\ channel[c] = "none" => channel'[c] \in {"none", "pending"}
       /\ channel[c] \in {"pending", "synced"} =>
            channel'[c] \in {"pending", "synced", "absent"}
       /\ channel[c] \in {"absent", "deleted"} => channel'[c] = channel[c]
  /\ Existing' # {} /\ ~groupGone

LEMMA EditAdvances ==
  ASSUME IInv, Edit
  PROVE  Edited /\ \E touched \in SUBSET Channels : Advance(touched)
<1> USE DEF IInv
<1>1. groupGone => Existing = {} /\ \E c \in Channels : channel[c] # "none"
  BY DEF Inv, GroupInv
<1> DEFINE Goal == Edited /\ \E touched \in SUBSET Channels : Advance(touched)
<1>2. ASSUME NEW S \in SUBSET Channels, Create(S) PROVE Goal
  <2>1. channel' = [c \in Channels |-> IF c \in S THEN "pending" ELSE "none"]
        /\ Advance(S) /\ S # {} /\ \A c \in Channels : channel[c] = "none"
    BY <1>2 DEF Create
  <2>2. ~groupGone /\ Existing' # {}
    BY <1>1, <2>1 DEF Existing
  <2> QED BY <2>1, <2>2 DEF Edited
<1>3. ASSUME NEW S \in SUBSET Channels, Reshape(S) PROVE Goal
  <2> DEFINE T == (S \ Existing) \cup (Existing \ S)
  <2>1. /\ Existing # {} /\ \A c \in Existing : channel[c] = "synced"
        /\ \A c \in S \ Existing : channel[c] = "none"
        /\ channel' = [c \in Channels |->
                         CASE c \in S \ Existing -> "pending"
                           [] c \in Existing \ S -> "absent"
                           [] OTHER -> channel[c]]
        /\ Advance(T)
    BY <1>3 DEF Reshape
  <2>2. channel' \in [Channels -> {"none", "pending", "synced", "absent", "deleted"}]
    BY <2>1 DEF TypeOK
  <2>3. \A c \in Channels : /\ c \in S \ Existing => channel'[c] = "pending"
                            /\ c \in Existing \ S => channel'[c] = "absent"
                            /\ c \notin T => channel'[c] = channel[c]
    BY <2>1
  <2>4. ~groupGone /\ Existing' # {}
    <3>1. \A c \in Existing : channel'[c] \notin {"none", "deleted"}
      BY <2>3 DEF Existing
    <3> QED BY <1>1, <2>1, <3>1 DEF Existing
  <2>5. \A c \in Channels :
          /\ channel[c] = "none" => channel'[c] \in {"none", "pending"}
          /\ channel[c] \in {"pending", "synced"} =>
               channel'[c] \in {"pending", "synced", "absent"}
          /\ channel[c] \in {"absent", "deleted"} => channel'[c] = channel[c]
    BY <2>1, <2>3 DEF Existing
  <2>6. T \in SUBSET Channels
    BY DEF Existing
  <2> QED BY <2>1, <2>2, <2>4, <2>5, <2>6 DEF Edited
<1>4. ASSUME NEW S \in SUBSET Channels, Rename(S) PROVE Goal
  <2>1. Present # {} /\ channel' = channel /\ Advance(S)
    BY <1>4 DEF Rename
  <2>2. ~groupGone /\ Existing' # {}
    BY <1>1, <2>1 DEF Existing, Present
  <2> QED BY <2>1, <2>2 DEF Edited, TypeOK
<1>5. CASE Remove
  <2>1. /\ Existing # {}
        /\ channel' = [c \in Channels |-> IF c \in Existing THEN "absent" ELSE channel[c]]
        /\ Advance(Existing)
    BY <1>5 DEF Remove
  <2>2. channel' \in [Channels -> {"none", "pending", "synced", "absent", "deleted"}]
    BY <2>1 DEF TypeOK
  <2>3. ~groupGone /\ Existing' # {}
    BY <1>1, <2>1 DEF Existing
  <2>4. Existing \in SUBSET Channels
    BY DEF Existing
  <2>5. \A c \in Channels :
          /\ channel[c] = "none" => channel'[c] \in {"none", "pending"}
          /\ channel[c] \in {"pending", "synced"} =>
               channel'[c] \in {"pending", "synced", "absent"}
          /\ channel[c] \in {"absent", "deleted"} => channel'[c] = channel[c]
    BY <2>1 DEF Existing
  <2> QED BY <2>1, <2>2, <2>3, <2>4, <2>5 DEF Edited
<1>6. ASSUME NEW d \in Channels, Mutate(d) PROVE Goal
  <2>1. /\ d \in Present
        /\ channel' = [channel EXCEPT ![d] = "pending"]
        /\ Advance({d})
    BY <1>6 DEF Mutate
  <2>2. channel' \in [Channels -> {"none", "pending", "synced", "absent", "deleted"}]
    BY <2>1 DEF TypeOK
  <2>3. ~groupGone /\ Existing' # {}
    BY <1>1, <2>1 DEF Existing, Present, TypeOK
  <2>4. \A c \in Channels : channel'[c] = IF c = d THEN "pending" ELSE channel[c]
    BY <2>1 DEF TypeOK
  <2> QED BY <2>1, <2>2, <2>3, <2>4 DEF Edited, Present
<1> QED BY <1>2, <1>3, <1>4, <1>5, <1>6, ConstantsAssumption DEF Edit

LEMMA AdvanceStep ==
  ASSUME IInv, Edited, NEW touched, Advance(touched)
  PROVE  /\ WireStep /\ desired' = desired + 1
         /\ revision' \in [Channels -> 0 .. desired']
         /\ UNCHANGED <<schema, published, publishedSchema, applied, groupGone, retained,
                        held, routes, reports, faults>>
<1>1. /\ desired' = desired + 1
      /\ revision' = [c \in Channels |-> IF c \in touched THEN desired + 1 ELSE revision[c]]
      /\ UNCHANGED <<schema, published, publishedSchema, applied, groupGone, conn, retained,
                     held, routes, reports, faults>>
  BY DEF Advance, wire, agent
<1>2. WireStep
  BY <1>1, AskStep DEF Advance, WireStep, DrainType, IInv, TypeOK
<1>3. revision' \in [Channels -> 0 .. desired']
  BY <1>1 DEF IInv, TypeOK
<1> QED BY <1>1, <1>2, <1>3

LEMMA EditSteps ==
  ASSUME IInv, Edit
  PROVE  IInv'
<1>1. Edited
  BY EditAdvances
<1>2. PICK touched \in SUBSET Channels : Advance(touched)
  BY EditAdvances
<1>3. /\ WireStep /\ desired' = desired + 1
      /\ revision' \in [Channels -> 0 .. desired']
      /\ UNCHANGED <<schema, published, publishedSchema, applied, groupGone, retained,
                     held, routes, reports, faults>>
  BY <1>1, <1>2, AdvanceStep
<1>4. \A c \in Channels :
        /\ channel[c] \in {"absent", "deleted"} => channel'[c] \in {"absent", "deleted"}
        /\ channel'[c] = "deleted" => channel[c] = "deleted"
  BY <1>1 DEF Edited, IInv, TypeOK
<1>5. Inv'
  BY <1>1, <1>3, <1>4, EditInv DEF IInv, Edited
<1>6. published' \in 0 .. desired' /\ applied' \in 0 .. desired' /\ desired' \in Nat
  BY <1>3 DEF IInv, TypeOK
<1>7. TypeOK'
  BY <1>1, <1>3, <1>6 DEF IInv, TypeOK, WireStep, DrainType, Edited
<1> QED BY <1>5, <1>7 DEF IInv

LEMMA ReportWire ==
  ASSUME IInv, NEW m \in reports, Deliver(m) \/ DeliverAndDie(m)
  PROVE  /\ Commit(m) /\ WireStep /\ faults' \in 0 .. MaxFaults /\ reports' \subseteq reports
         /\ UNCHANGED <<schema, published, publishedSchema, revision, held, routes>>
<1>1. /\ Commit(m) /\ reports' \subseteq reports
      /\ UNCHANGED <<schema, published, publishedSchema, revision, held, routes>>
  BY DEF Deliver, DeliverAndDie, agent
<1>2. DrainType /\ conn \in {"down", "up"} /\ faults \in 0 .. MaxFaults
  BY DEF IInv, TypeOK, DrainType
<1>3. CASE Deliver(m)
  <2>1. DrainType' /\ (InUse' => InUse /\ pub' = pub /\ pc' = pc)
    BY <1>2, <1>3, AskStep DEF Deliver, drain, DrainType, InUse
  <2> QED BY <1>1, <1>2, <1>3, <2>1 DEF Deliver, WireStep, wire
<1>4. CASE DeliverAndDie(m)
  BY <1>1, <1>4, RestartedStep, FaultStep DEF DeliverAndDie, MayBeStored, WireStep
<1> QED BY <1>3, <1>4

LEMMA ReportSteps ==
  ASSUME IInv, NEW m \in reports, Deliver(m) \/ DeliverAndDie(m)
  PROVE  IInv'
<1> USE DEF IInv
<1>1. /\ Commit(m) /\ WireStep /\ faults' \in 0 .. MaxFaults /\ reports' \subseteq reports
      /\ UNCHANGED <<schema, published, publishedSchema, revision, held, routes>>
  BY ReportWire
<1>2. Inv'
  BY <1>1, CommitInv
<1>3. TypeOK'
  <2>1. /\ desired' \in {desired, desired + 1} /\ applied' \in 0 .. desired'
        /\ channel' \in [Channels -> {"none", "pending", "synced", "absent", "deleted"}]
        /\ groupGone' \in BOOLEAN
    BY <1>1, CommitFacts
  <2>2. desired' \in Nat /\ published' \in 0 .. desired'
        /\ revision' \in [Channels -> 0 .. desired']
    BY <1>1, <2>1 DEF TypeOK
  <2> QED BY <1>1, <2>1, <2>2 DEF TypeOK, WireStep, DrainType
<1> QED BY <1>2, <1>3

LEMMA ActivateStep ==
  ASSUME IInv, Activate
  PROVE  IInv'
<1> USE DEF IInv
<1>1. /\ schema = 1 /\ schema' = 2
      /\ UNCHANGED <<desired, published, publishedSchema, applied, channel, revision,
                     groupGone, conn, retained, held, routes, reports, faults>>
  BY DEF Activate, channelRows, wire, agent
<1>2. WireStep /\ (InUse' => InUse /\ pub' = pub /\ pc' = pc)
  BY <1>1, AskStep DEF Activate, WireStep, DrainType, TypeOK
<1>3. OwnerInv'
  BY <1>1, <1>2 DEF Inv, OwnerInv, InUse, WireStep, DrainType
<1>4. TypeOK'
  BY <1>1, <1>2 DEF TypeOK, WireStep, DrainType, Schemas
<1> QED BY <1>1, <1>2, <1>3, <1>4, WireInv DEF Inv

LEMMA AgentSteps ==
  ASSUME IInv,
         \/ \E s \in Schemas : AgentReads(s)
         \/ \E c \in Channels : AgentRoutes(c)
         \/ AgentReports
  PROVE  IInv'
<1> USE DEF IInv
<1>1. ASSUME NEW s \in Schemas, AgentReads(s) PROVE IInv'
  <2>1. held'.schema \in Schemas
    BY <1>1 DEF AgentReads
  <2>2. TypeOK'
    BY <1>1, <2>1 DEF AgentReads, TypeOK, agentRow, channelRows, drain, wire
  <2> QED BY <1>1, <2>2, AgentReadsInv
<1>2. ASSUME NEW c \in Channels, AgentRoutes(c) PROVE IInv'
  <2>1. TypeOK'
    BY <1>2, AgentRoutesInv DEF AgentRoutes, TypeOK, agentRow, channelRows, drain, wire
  <2> QED BY <1>2, <2>1, AgentRoutesInv
<1>3. CASE AgentReports
  <2>1. TypeOK'
    BY <1>3 DEF AgentReports, TypeOK, agentRow, channelRows, drain, wire, agent
  <2> QED BY <1>3, <2>1, AgentReportsInv
<1> QED BY <1>1, <1>2, <1>3

LEMMA StutterStep ==
  ASSUME IInv, UNCHANGED vars
  PROVE  IInv'
<1>1. WireStep /\ faults' \in 0 .. MaxFaults
  BY DEF IInv, TypeOK, vars, drain, wire, WireStep, DrainType, InUse
<1> QED BY <1>1, WireOnly DEF vars

LEMMA InductiveInv == Spec => []IInv
<1>1. IInv /\ [Next]_vars => IInv'
  <2> SUFFICES ASSUME IInv, [Next]_vars PROVE IInv'
    OBVIOUS
  <2> QED BY DrainSteps, ProcessSteps, EditSteps, ReportSteps, ActivateStep, AgentSteps,
             StutterStep DEF Next, Failure, ProcessStep
<1> QED BY <1>1, InitInv, PTL DEF Spec

-----------------------------------------------------------------------------
(* The rows as DesiredState has them *)

LEMMA SentKnown == Sent \cup Followed \subseteq Known
BY DEF Sent, Followed, Known, InUse, InFlight

\* A step on the wire sends no version that was not sent.
LEMMA SentShrinks ==
  ASSUME OwnerInv, WireStep
  PROVE  Sent' \subseteq Sent
<1>1. \A s \in Schemas : retained'[s] # Null => retained'[s] \in Sent
  BY DEF OwnerInv, WireStep, Stored, InFlight, InUse, Sent, Schemas
<1>2. InUse' => pub'.snap \in Sent
  BY DEF WireStep, InUse, InFlight, Sent
<1> QED BY <1>1, <1>2 DEF Sent, InUse, InFlight, Schemas

\* It may lose one.
LEMMA WireLoses ==
  ASSUME IInv, WireStep, UNCHANGED <<desired, channel, groupGone, held, routes>>
  PROVE  Versions!Next
<1>1. Sent' \subseteq Sent
  BY SentShrinks DEF IInv, Inv
<1>2. Present' = Present /\ Absent' = Absent /\ Deleted' = Deleted /\ Followed' = Followed
  BY DEF Present, Absent, Deleted, Followed
<1>3. Versions!Lose
  BY <1>1, <1>2 DEF Versions!Lose, Versions!SomeLost, Versions!rows
<1> QED BY <1>3 DEF Versions!Next

LEMMA ReadSends ==
  ASSUME IInv, Read, pc' \in InFlight
  PROVE  Versions!Next
<1>1. /\ pc = "read" /\ desired # 0
      /\ pub' = [schema |-> schema, old |-> publishedSchema, snap |-> Snapshot]
      /\ UNCHANGED <<agentRow, channelRows, wire, agent>>
  BY DEF Read, NextRound, GiveUp, Round, Begin, InFlight
<1>2. UNCHANGED <<desired, channel, groupGone, retained, held, routes>>
  BY <1>1 DEF agentRow, channelRows, wire, agent
<1>3. Sent' = Sent \cup {Snapshot}
  BY <1>1, <1>2 DEF Sent, InFlight
<1>4. Present' = Present /\ Absent' = Absent /\ Deleted' = Deleted /\ Followed' = Followed
  BY <1>2 DEF Present, Absent, Deleted, Followed
<1>5. Snapshot.rev = desired /\ Snapshot.present = Present /\ Snapshot.absent = Absent
  BY DEF Snapshot
<1>6. desired > 0
  BY <1>1 DEF IInv, TypeOK
<1>7. Versions!Send
  BY <1>2, <1>3, <1>4, <1>5, <1>6 DEF Versions!Send, Versions!rows
<1> QED BY <1>7 DEF Versions!Next

LEMMA EditIsVersion ==
  ASSUME IInv, Edit
  PROVE  Versions!Next
<1>1. Edited
  BY EditAdvances
<1>2. PICK touched \in SUBSET Channels : Advance(touched)
  BY EditAdvances
<1>3. WireStep /\ desired' = desired + 1 /\ UNCHANGED <<groupGone, held, routes>>
  BY <1>1, <1>2, AdvanceStep
<1>4. Sent' \subseteq Sent
  BY <1>3, SentShrinks DEF IInv, Inv
<1>5. Deleted' = Deleted /\ Followed' = Followed
  BY <1>1, <1>3 DEF Edited, Deleted, Followed, IInv, TypeOK
<1>6. /\ Present' \cap (Absent \cup Deleted) = {}
      /\ Absent \subseteq Absent' /\ Absent' \subseteq Absent \cup Present
      /\ Present \subseteq Present' \cup Absent' /\ Present' \cap Absent' = {}
  BY <1>1 DEF Edited, Present, Absent, Deleted, IInv, TypeOK
<1>7. Present' \cup Absent' # {}
  BY <1>1 DEF Edited, Present, Absent, Existing
<1>8. Versions!Edit
  BY <1>1, <1>3, <1>4, <1>5, <1>6, <1>7
     DEF Edited, Versions!Edit, Versions!SomeLost
<1> QED BY <1>8 DEF Versions!Next

\* No version that the agent may come to follow has a channel that a report
\* confirms closed.
LEMMA ConfirmedIsUnwanted ==
  ASSUME IInv, NEW m \in reports, NEW S \in Sent \cup Followed, Versions!MayFollow(S)
  PROVE  m.snap.absent \cap S.present = {}
<1>1. S \in Known /\ m.snap \in Known
  BY SentKnown DEF Known
<1>2. held.schema # 0 /\ m.snap.rev <= held.snap.rev
  BY DEF IInv, Inv, ReportInv
<1>3. held.snap \in Known /\ held.snap.rev <= S.rev
  BY <1>2 DEF Versions!MayFollow, Followed, Known
<1>4. S.rev \in Nat /\ m.snap.rev \in Nat /\ held.snap.rev \in Nat
  BY <1>1, <1>3 DEF IInv, Inv, KnownInv, TypeOK
<1>5. ~(S.rev < m.snap.rev)
  BY <1>2, <1>3, <1>4
<1> QED BY <1>1, <1>5 DEF IInv, Inv, OrderInv

LEMMA ReportBuries ==
  ASSUME IInv, NEW m \in reports, Deliver(m) \/ DeliverAndDie(m)
  PROVE  Versions!Next
<1>1. Commit(m) /\ WireStep /\ UNCHANGED <<held, routes>>
  BY ReportWire
<1>2. PICK C \in SUBSET Absent : Buries(m, C)
  BY <1>1, CommitFacts DEF IInv
<1>3. Sent' \subseteq Sent
  BY <1>1, SentShrinks DEF IInv, Inv
<1>4. Followed' = Followed
  BY <1>1 DEF Followed
<1>5. CASE C = {}
  <2>1. Present' = Present /\ Absent' = Absent /\ Deleted' = Deleted /\ desired' = desired
    BY <1>2, <1>5 DEF Buries
  <2>2. groupGone' = groupGone
    BY <1>2, <1>5 DEF Buries, IInv, TypeOK
  <2>3. Versions!Lose
    BY <1>1, <1>3, <1>4, <2>1, <2>2 DEF Versions!Lose, Versions!SomeLost, Versions!rows
  <2> QED BY <2>3 DEF Versions!Next
<1>6. CASE C # {}
  <2>1. /\ C \subseteq m.snap.absent \ m.routes
        /\ Present' = Present /\ Absent' = Absent \ C /\ Deleted' = Deleted \cup C
        /\ desired' = desired + 1
        /\ groupGone' = (groupGone \/ Existing \subseteq C)
    BY <1>2, <1>6 DEF Buries
  <2>2. C \cap routes = {} /\ Followed # {}
    BY <2>1 DEF IInv, Inv, ReportInv, Followed
  <2>3. ASSUME NEW S \in Sent \cup Followed, Versions!MayFollow(S)
        PROVE  C \cap S.present = {}
    BY <2>1, <2>3, ConfirmedIsUnwanted
  <2>4. groupGone' = (Present \cup Absent' = {})
    <3>1. Existing = Present \cup Absent
      BY DEF Existing, Present, Absent, IInv, TypeOK
    <3>2. ~groupGone
      BY <1>6, <3>1 DEF IInv, Inv, GroupInv
    <3>3. Existing \subseteq C <=> Present \cup Absent' = {}
      BY <2>1, <3>1 DEF Present, Absent
    <3> QED BY <2>1, <3>2, <3>3
  <2>5. Versions!Bury(C)
    BY <1>1, <1>3, <1>4, <1>6, <2>1, <2>2, <2>3, <2>4 DEF Versions!Bury, Versions!SomeLost
  <2>6. C \in SUBSET Channels
    BY DEF Absent
  <2> QED BY <2>5, <2>6 DEF Versions!Next
<1> QED BY <1>5, <1>6

LEMMA ReadsFollow ==
  ASSUME IInv, NEW s \in Schemas, AgentReads(s)
  PROVE  Versions!Next
<1>1. /\ held' = [schema |-> s, snap |-> retained[s]]
      /\ UNCHANGED <<desired, channel, groupGone, retained, pc, pub, routes>>
  BY DEF AgentReads, agentRow, channelRows, drain, wire
<1>2. /\ retained[s] # Null
      /\ held.schema # 0 => held.snap.rev <= retained[s].rev
  BY ReadsNewer DEF IInv
<1>3. retained[s] \in Sent
  BY <1>2 DEF Sent
<1>4. Versions!MayFollow(retained[s])
  BY <1>2, <1>3 DEF Versions!MayFollow, Followed
<1>5. Followed' = {retained[s]}
  BY <1>1 DEF Followed, Schemas
<1>6. Present' = Present /\ Absent' = Absent /\ Deleted' = Deleted /\ Sent' = Sent
  BY <1>1 DEF Present, Absent, Deleted, Sent
<1>7. Versions!Follow(retained[s])
  BY <1>1, <1>4, <1>5, <1>6 DEF Versions!Follow, Versions!rows
<1> QED BY <1>3, <1>7 DEF Versions!Next

LEMMA RoutesOpen ==
  ASSUME IInv, NEW c \in Channels, AgentRoutes(c)
  PROVE  Versions!Next
<1>1. UNCHANGED <<desired, channel, groupGone, retained, pc, pub, held>>
  BY DEF AgentRoutes, agentRow, channelRows, drain, wire
<1>2. /\ Present' = Present /\ Absent' = Absent /\ Deleted' = Deleted
      /\ Sent' = Sent /\ Followed' = Followed
  BY <1>1 DEF Present, Absent, Deleted, Sent, Followed
<1>3. held.snap \in Followed
  BY DEF AgentRoutes, Followed
<1>4. Versions!OpenOne(c) \/ Versions!CloseOne(c)
  BY <1>1, <1>2, <1>3 DEF AgentRoutes, Versions!OpenOne, Versions!CloseOne, Versions!rows
<1> QED BY <1>4 DEF Versions!Next

\* The steps that change neither rows nor agent.
LEMMA OtherLoses ==
  ASSUME IInv, \/ Drain /\ ~(Read /\ pc' \in InFlight)
               \/ ProcessStep \/ Activate \/ AgentReports
  PROVE  Versions!Next
<1>1. CASE Drain /\ ~(Read /\ pc' \in InFlight)
  <2>1. WireStep /\ UNCHANGED <<desired, channelRows, agent>>
    BY <1>1, DrainWire
  <2>2. UNCHANGED <<desired, channel, groupGone, held, routes>>
    BY <2>1 DEF channelRows, agent
  <2> QED BY <2>1, <2>2, WireLoses
<1>2. CASE ProcessStep
  <2>1. WireStep /\ UNCHANGED <<agentRow, channelRows, agent>>
    BY <1>2, ProcessWire
  <2>2. UNCHANGED <<desired, channel, groupGone, held, routes>>
    BY <2>1 DEF agentRow, channelRows, agent
  <2> QED BY <2>1, <2>2, WireLoses
<1>3. CASE Activate
  <2>1. UNCHANGED <<desired, channel, groupGone, conn, retained, held, routes>>
    BY <1>3 DEF Activate, channelRows, wire, agent
  <2>2. WireStep
    BY <1>3, <2>1, AskStep DEF Activate, WireStep, DrainType, IInv, TypeOK
  <2> QED BY <2>1, <2>2, WireLoses
<1>4. CASE AgentReports
  <2>1. UNCHANGED <<desired, channel, groupGone, conn, retained, drain, held, routes>>
    BY <1>4 DEF AgentReports, agentRow, channelRows, wire, agent
  <2>2. WireStep
    BY <2>1 DEF drain, WireStep, DrainType, InUse, IInv, TypeOK
  <2> QED BY <2>1, <2>2, WireLoses
<1> QED BY <1>1, <1>2, <1>3, <1>4

LEMMA InitVersions == Init => Versions!Init
<1> SUFFICES ASSUME Init PROVE Versions!Init
  OBVIOUS
<1>1. Present = {} /\ Absent = {} /\ Deleted = {}
  BY DEF Init, Present, Absent, Deleted
<1>2. Sent = {} /\ Followed = {}
  BY DEF Init, Sent, Followed, InFlight, Schemas
<1> QED BY <1>1, <1>2 DEF Init, Versions!Init

LEMMA NextVersions == IInv /\ [Next]_vars => [Versions!Next]_(Versions!vars)
<1> SUFFICES ASSUME IInv, [Next]_vars PROVE [Versions!Next]_(Versions!vars)
  OBVIOUS
<1>1. CASE Next
  <2>1. CASE Read /\ pc' \in InFlight
    BY <2>1, ReadSends
  <2>2. CASE ~(Read /\ pc' \in InFlight)
    <3>1. Versions!Next
      BY <1>1, <2>2, OtherLoses, EditIsVersion, ReportBuries, ReadsFollow, RoutesOpen
         DEF Next, Failure, ProcessStep
    <3> QED BY <3>1
  <2> QED BY <2>1, <2>2
<1>2. CASE UNCHANGED vars
  <2>1. UNCHANGED <<desired, channel, groupGone, retained, pc, pub, held, routes>>
    BY <1>2 DEF vars, agentRow, channelRows, drain, wire, agent
  <2>2. /\ Present' = Present /\ Absent' = Absent /\ Deleted' = Deleted
        /\ Sent' = Sent /\ Followed' = Followed
    BY <2>1 DEF Present, Absent, Deleted, Sent, Followed
  <2> QED BY <2>1, <2>2 DEF Versions!vars, Versions!rows
<1> QED BY <1>1, <1>2

-----------------------------------------------------------------------------
(* Theorems *)

\* Every variable keeps its type, and no revision is published or applied that
\* was not desired, whatever fails.
THEOREM TypeCorrect == Spec => []TypeOK
BY InductiveInv, PTL DEF IInv

\* The agent never finds a desired state on both topics.
THEOREM OneOwnerAlways == Spec => []OneOwner
<1>1. IInv => OneOwner
  BY DEF IInv, Inv, OwnerInv, OneOwner, Schemas
<1> QED BY <1>1, InductiveInv, PTL

\* A channel is deleted only when the agent has closed it, and the group with
\* the last of its channels, however late or often reports come.
THEOREM DeletedIsClosedAlways == Spec => []DeletedIsClosed
<1>1. IInv => DeletedIsClosed
  BY DEF IInv, Inv, GoneInv, GroupInv, DeletedIsClosed
<1> QED BY <1>1, InductiveInv, PTL

\* The rows, the messages and the agent implement DesiredState: whatever is lost,
\* late or repeated, a channel that was dropped is not wanted again, the agent never
\* goes back, and a row is deleted only when its channel is closed and no version
\* the agent may still come to follow would open it.
THEOREM RowsAreVersions == Spec => ImplementsVersions
BY InductiveInv, InitVersions, NextVersions, PTL DEF Spec, ImplementsVersions, Versions!Spec
=============================================================================
