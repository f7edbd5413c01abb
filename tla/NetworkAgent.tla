---------------------------- MODULE NetworkAgent ----------------------------
(***************************************************************************)
(* The desired state of the network agent: how the port forwardings of a   *)
(* group are edited, published, applied and deleted                        *)
(* (src/src/modules/admin/platform-config/network-management/              *)
(*  infrastructure/integration/network-agent-mqtt.service.ts,              *)
(*  application/network-port-forward-group.service.ts).                    *)
(*                                                                         *)
(* Each edit is a transaction under the row lock of the agent that gives   *)
(* the desired state the next revision, and a request to publish. One      *)
(* drain per process reads the tables without the lock, replaces the       *)
(* retained message of the topic, waits for the PUBACK and records the     *)
(* revision. Once the agent knows schema 2, the topic of schema 1 is       *)
(* cleared first. The agent applies the newest message it finds and        *)
(* reports; a channel that is to be absent is deleted when a report        *)
(* confirms it, which is a new revision.                                   *)
(*                                                                         *)
(* Left out: endpoints and their history, keeper and NATMap states, the    *)
(* conflicts of a report, and failures the agent reports. A protocol of    *)
(* the group that was deleted is not added again. The agent and the broker *)
(* are external.                                                           *)
(***************************************************************************)
EXTENDS Naturals, FiniteSets

CONSTANTS
  Channels,     \* the protocol channels of the one group
  Created, Reshaped,  \* bound: the sets of protocols of a creation and an update
  MaxRevision,  \* bound: edits stop at this revision, deletions go on
  MaxReports,   \* bound: reports on their way
  MaxFaults,    \* bound: lost connections, rejected queries, crashes, broker losses
  Null

ASSUME ConstantsAssumption ==
  /\ IsFiniteSet(Channels) /\ Created \cup Reshaped \subseteq SUBSET Channels
  /\ MaxRevision \in Nat /\ MaxReports \in Nat /\ MaxFaults \in Nat

VARIABLES
  desired, schema,             \* desiredRevision, desiredSchemaVersion
  published, publishedSchema,  \* publishedRevision, publishedSchemaVersion
  applied,                     \* appliedRevision
  channel,    \* desiredPresence, syncStatus and isDeleted of the channel's row
  revision,   \* desiredRevision of the channel's row
  groupGone,  \* isDeleted of the group
  conn,       \* the MQTT client: connected and subscribed, or down
  requested, forced,  \* publishRequested, forcePublishRequested
  pc,         \* the await of the drain; "idle" when publishPromise is null
  taken,      \* the force flag of this round
  pub,        \* what this round publishes
  retained,   \* the retained message of each schema's topic
  held,       \* the message the agent follows, and its schema, 0 for none
  routes,     \* the channels the agent has opened
  reports,    \* reports on their way
  faults

agentRow == <<desired, schema, published, publishedSchema, applied>>
channelRows == <<channel, revision, groupGone>>
drain == <<requested, forced, pc, taken, pub>>
wire == <<conn, retained>>
agent == <<held, routes>>
vars == <<agentRow, channelRows, drain, wire, agent, reports, faults>>

Schemas == {1, 2}
InFlight == {"clear", "send"}

\* Rows a query with isDeleted = FALSE finds, and those to be present.
Existing == {c \in Channels : channel[c] \notin {"none", "deleted"}}
Present == {c \in Channels : channel[c] \in {"pending", "synced"}}
Absent == {c \in Channels : channel[c] = "absent"}
Deleted == {c \in Channels : channel[c] = "deleted"}

\* buildDesiredSnapshot(), buildDesiredSnapshotV2().
Snapshot ==
  [rev     |-> desired,
   present |-> Present,
   absent  |-> Absent,
   chanRev |-> [c \in Channels |-> IF c \in Existing THEN revision[c] ELSE 0]]

Init ==
  /\ desired = 0 /\ schema = 1
  /\ published = 0 /\ publishedSchema = 1 /\ applied = 0
  /\ channel = [c \in Channels |-> "none"]
  /\ revision = [c \in Channels |-> 0]
  /\ groupGone = FALSE
  /\ conn = "down"
  /\ requested = FALSE /\ forced = FALSE
  /\ pc = "idle" /\ taken = FALSE /\ pub = Null
  /\ retained = [s \in Schemas |-> Null]
  /\ held = [schema |-> 0, snap |-> Null] /\ routes = {} /\ reports = {}
  /\ faults = 0

-----------------------------------------------------------------------------
(* The publish drain *)

\* The head of the loop takes the flags.
Begin(next, force) ==
  /\ requested' = FALSE /\ forced' = FALSE /\ pub' = Null
  /\ pc' = next /\ taken' = force

\* Without a connection the round is over, and its force flag is not kept: a new
\* connection forces a publication.
Round(force) ==
  IF conn = "up" THEN Begin("read", force) ELSE Begin("done", FALSE)

\* requestDesiredPublish(), after forcePublishRequested = TRUE if force.
Ask(force) ==
  IF pc = "idle"
  THEN Round(forced \/ force)
  ELSE /\ requested' = TRUE /\ forced' = (forced \/ force)
       /\ UNCHANGED <<pc, taken, pub>>

\* publishLatestDesired() returned.
NextRound ==
  IF requested
  THEN Round(forced)
  ELSE /\ pc' = "done" /\ taken' = FALSE /\ pub' = Null
       /\ UNCHANGED <<requested, forced>>

\* Mutation: the force flag of the failed round is forgotten.
GiveUpForce ==
  /\ requested' = FALSE /\ forced' = forced
  /\ pc' = "done" /\ taken' = FALSE /\ pub' = Null

\* It rejected: what was asked meanwhile is left to the timer.
GiveUp ==
  /\ requested' = FALSE /\ forced' = (forced \/ taken)
  /\ pc' = "done" /\ taken' = FALSE /\ pub' = Null

\* The finally of startPublishDrain().
Finish ==
  /\ pc = "done"
  /\ IF requested
     THEN Round(forced)
     ELSE pc' = "idle" /\ UNCHANGED <<requested, forced, taken, pub>>
  /\ UNCHANGED <<agentRow, channelRows, wire, agent, reports, faults>>

Outdated == published < desired \/ publishedSchema # schema

\* Mutation: the topic of the old schema is not cleared.
ReadUncleared ==
  /\ pc = "read"
  /\ IF desired = 0 \/ (~taken /\ ~Outdated) THEN NextRound
     ELSE IF conn = "down" THEN GiveUp
     ELSE /\ pub' = [schema |-> schema, old |-> publishedSchema, snap |-> Snapshot]
          /\ pc' = "send"
          /\ UNCHANGED <<requested, forced, taken>>
  /\ UNCHANGED <<agentRow, channelRows, wire, agent, reports, faults>>

\* The transaction of publishLatestDesired(), and the check of
\* publishWithPuback() that follows it.
Read ==
  /\ pc = "read"
  /\ IF desired = 0 \/ (~taken /\ ~Outdated) THEN NextRound
     ELSE IF conn = "down" THEN GiveUp
     ELSE /\ pub' = [schema |-> schema, old |-> publishedSchema, snap |-> Snapshot]
          /\ pc' = IF publishedSchema # schema THEN "clear" ELSE "send"
          /\ UNCHANGED <<requested, forced, taken>>
  /\ UNCHANGED <<agentRow, channelRows, wire, agent, reports, faults>>

\* The retained messages once the broker has the packet in flight; an empty one
\* removes the message of its topic.
Stored ==
  IF pc = "clear"
  THEN [retained EXCEPT ![pub.old] = Null]
  ELSE [retained EXCEPT ![pub.schema] = pub.snap]

\* publishWithPuback() succeeds.
Publish ==
  /\ pc \in InFlight /\ conn = "up"
  /\ retained' = Stored
  /\ pc' = IF pc = "clear" THEN "send" ELSE "mark"
  /\ UNCHANGED <<agentRow, channelRows, requested, forced, taken, pub, conn, agent,
                 reports, faults>>

\* What markRevisionPublished() demands of the row it has locked.
Confirms ==
  /\ pub.snap.rev <= desired
  /\ pub.schema = schema
  /\ pub.snap.rev > published \/ publishedSchema # pub.schema

Mark ==
  /\ pc = "mark"
  /\ IF Confirms
     THEN published' = pub.snap.rev /\ publishedSchema' = pub.schema
     ELSE UNCHANGED <<published, publishedSchema>>
  /\ NextRound
  /\ UNCHANGED <<desired, schema, applied, channelRows, wire, agent, reports, faults>>

\* The interval timer of onModuleInit().
Tick ==
  /\ Ask(FALSE)
  /\ UNCHANGED <<agentRow, channelRows, wire, agent, reports, faults>>

-----------------------------------------------------------------------------
(* The connection *)

\* The client connects; the SUBACK of handleConnect() is part of the step.
Connect ==
  /\ conn = "down"
  /\ conn' = "up"
  /\ IF pc = "idle"
     THEN Begin("read", TRUE)
     ELSE Ask(TRUE)
  /\ UNCHANGED <<agentRow, channelRows, retained, agent, reports, faults>>

Fault == faults < MaxFaults /\ faults' = faults + 1

\* A packet in flight when it fails may have reached the broker, or not.
MayBeStored == retained' \in {retained} \cup (IF pc \in InFlight THEN {Stored} ELSE {})

\* The connection breaks: the client keeps the packet and sends it again.
Disconnect ==
  /\ Fault
  /\ conn = "up"
  /\ conn' = "down"
  /\ MayBeStored
  /\ UNCHANGED <<agentRow, channelRows, drain, agent, reports>>

\* recoverClient(), after a client error, a rejected SUBACK or a message whose
\* transaction failed: end(true) rejects the packet in flight.
Recover ==
  /\ Fault
  /\ conn = "up"
  /\ conn' = "down"
  /\ MayBeStored
  /\ IF pc \in InFlight THEN GiveUp ELSE UNCHANGED drain
  /\ UNCHANGED <<agentRow, channelRows, agent, reports>>

\* A transaction of the drain is rejected.
QueryFails ==
  /\ Fault
  /\ pc \in {"read", "mark"}
  /\ GiveUp
  /\ UNCHANGED <<agentRow, channelRows, wire, agent, reports>>

\* The process is gone and another one starts.
Restarted ==
  /\ conn' = "down"
  /\ requested' = FALSE /\ forced' = FALSE
  /\ pc' = "idle" /\ taken' = FALSE /\ pub' = Null

Crash ==
  /\ Fault
  /\ Restarted
  /\ MayBeStored
  /\ UNCHANGED <<agentRow, channelRows, agent, reports>>

\* The broker comes back without its retained messages.
BrokerLoses ==
  /\ Fault
  /\ conn' = "down"
  /\ retained' = [s \in Schemas |-> Null]
  /\ UNCHANGED <<agentRow, channelRows, drain, agent, reports>>

-----------------------------------------------------------------------------
(* Edits of the group *)

\* advanceGlobalRevision() and assignRevision(), then notifyDesiredChanged().
Advance(touched) ==
  /\ desired < MaxRevision
  /\ desired' = desired + 1
  /\ revision' = [c \in Channels |-> IF c \in touched THEN desired + 1 ELSE revision[c]]
  /\ Ask(FALSE)
  /\ UNCHANGED <<schema, published, publishedSchema, applied, groupGone, wire, agent,
                 reports, faults>>

Create(S) ==
  /\ \A c \in Channels : channel[c] = "none"
  /\ S # {}
  /\ channel' = [c \in Channels |-> IF c \in S THEN "pending" ELSE "none"]
  /\ Advance(S)

\* update() that changes the protocols: refused unless all channels are synced.
Reshape(S) ==
  /\ Existing # {} /\ S # {} /\ S # Existing
  /\ \A c \in Existing : channel[c] = "synced"
  /\ \A c \in S \ Existing : channel[c] = "none"
  /\ channel' = [c \in Channels |->
                   CASE c \in S \ Existing -> "pending"
                     [] c \in Existing \ S -> "absent"
                     [] OTHER -> channel[c]]
  /\ Advance((S \ Existing) \cup (Existing \ S))

\* update() that changes the name, or nothing the agent is told.
Rename(touched) ==
  /\ Present # {}
  /\ touched \in {{}, Existing}
  /\ channel' = channel
  /\ Advance(touched)

\* remove().
Remove ==
  /\ Existing # {} /\ Absent = {}
  /\ channel' = [c \in Channels |-> IF c \in Existing THEN "absent" ELSE channel[c]]
  /\ Advance(Existing)

\* mutateChannel(): a retry, or another mechanism.
Mutate(c) ==
  /\ c \in Present
  /\ channel' = [channel EXCEPT ![c] = "pending"]
  /\ Advance({c})

-----------------------------------------------------------------------------
(* Messages of the agent *)

\* Mutation: the route is not looked at.
AbsenceClaimed(m, c) == c \in m.snap.absent

\* isV2AbsenceConfirmed(), and its four parts in applyReported().
AbsenceConfirmed(m, c) == c \in m.snap.absent /\ c \notin m.routes

\* The syncStatus an item reports.
InSync(m, c) == IF c \in m.snap.present THEN c \in m.routes ELSE c \notin m.routes

Items(m) == m.snap.present \cup m.snap.absent

\* Mutation: a second report of a revision is ignored.
Accepts1Once(m) ==
  /\ m.schema = 1 /\ schema = 1
  /\ m.snap.rev > applied
  /\ m.snap.rev = desired => m.snap = Snapshot
  /\ \A c \in Items(m) \ Existing : AbsenceConfirmed(m, c)

\* The reports of schema 1 that applyReported() neither ignores nor rejects.
Accepts1(m) ==
  /\ m.schema = 1 /\ schema = 1
  /\ m.snap.rev >= applied
  /\ m.snap.rev = desired => m.snap = Snapshot
  /\ \A c \in Items(m) \ Existing : AbsenceConfirmed(m, c)

\* Those of schema 2 that applyReportedV2() neither ignores nor rejects.
Accepts2(m) ==
  /\ m.schema = 2 /\ schema = 2
  /\ m.snap.rev = desired /\ m.snap.rev >= applied
  /\ m.snap = Snapshot

\* The items that are newer than, or as new as, the row. Of two reports of one applied
\* revision the code also leaves the items of the older one; here they may be applied.
Current(m) == {c \in Items(m) \cap Existing : m.snap.chanRev[c] >= revision[c]}

\* The transaction; a report of another kind changes nothing.
Commit(m) ==
  LET finalized == {c \in Current(m) : channel[c] = "absent" /\ AbsenceConfirmed(m, c)}
  IN IF Accepts1(m) \/ Accepts2(m)
     THEN /\ channel' = [c \in Channels |->
                CASE c \in finalized -> "deleted"
                  [] c \in Current(m) /\ c \in Present ->
                       IF InSync(m, c) THEN "synced" ELSE "pending"
                  [] OTHER -> channel[c]]
          /\ groupGone' = (\/ groupGone
                           \/ /\ finalized # {}
                              /\ Existing \subseteq finalized)
          /\ applied' = IF m.snap.rev > applied THEN m.snap.rev ELSE applied
          /\ desired' = IF finalized # {} THEN desired + 1 ELSE desired
     ELSE UNCHANGED <<channel, groupGone, applied, desired>>

\* The report is committed and acknowledged.
Deliver(m) ==
  /\ m \in reports /\ conn = "up"
  /\ Commit(m)
  /\ IF desired' # desired THEN Ask(FALSE) ELSE UNCHANGED drain
  /\ reports' = reports \ {m}
  /\ UNCHANGED <<schema, published, publishedSchema, revision, wire, agent, faults>>

\* The process dies between the two, and the broker delivers it again.
DeliverAndDie(m) ==
  /\ Fault
  /\ m \in reports /\ conn = "up"
  /\ Commit(m)
  /\ Restarted
  /\ MayBeStored
  /\ UNCHANGED <<schema, published, publishedSchema, revision, agent, reports>>

\* applyV2Status() of an agent that knows schema 2.
Activate ==
  /\ schema = 1 /\ conn = "up"
  /\ schema' = 2
  /\ Ask(FALSE)
  /\ UNCHANGED <<desired, published, publishedSchema, applied, channelRows, wire, agent,
                 reports, faults>>

-----------------------------------------------------------------------------
(* The agent *)

NewerThanHeld(s) ==
  /\ retained[s] # Null
  /\ s = held.schema => retained[s].rev > held.snap.rev
  /\ s >= held.schema

\* It takes a retained message, and never goes back to an older one.
AgentReads(s) ==
  /\ NewerThanHeld(s)
  /\ held' = [schema |-> s, snap |-> retained[s]]
  /\ UNCHANGED <<agentRow, channelRows, drain, wire, routes, reports, faults>>

\* It opens or closes a channel.
AgentRoutes(c) ==
  /\ held.schema # 0
  /\ \/ c \in held.snap.present \ routes /\ routes' = routes \cup {c}
     \/ c \in held.snap.absent \cap routes /\ routes' = routes \ {c}
  /\ UNCHANGED <<agentRow, channelRows, drain, wire, held, reports, faults>>

AgentReports ==
  /\ held.schema # 0
  /\ Cardinality(reports) < MaxReports
  /\ reports' = reports \cup
       {[schema |-> held.schema, snap |-> held.snap, routes |-> routes]}
  /\ UNCHANGED <<agentRow, channelRows, drain, wire, agent, faults>>

-----------------------------------------------------------------------------
Drain == Finish \/ Read \/ Publish \/ Mark
Edit ==
  \/ \E S \in Created : Create(S)
  \/ \E S \in Reshaped : Reshape(S)
  \/ \E S \in SUBSET Channels : Rename(S)
  \/ Remove
  \/ \E c \in Channels : Mutate(c)
Failure ==
  \/ Disconnect \/ Recover \/ QueryFails \/ Crash \/ BrokerLoses
  \/ \E m \in reports : DeliverAndDie(m)

Next ==
  \/ Drain \/ Tick \/ Connect \/ Edit \/ Failure \/ Activate
  \/ \E m \in reports : Deliver(m)
  \/ \E s \in Schemas : AgentReads(s)
  \/ \E c \in Channels : AgentRoutes(c)
  \/ AgentReports

Spec == Init /\ [][Next]_vars

\* The drain and the client go on, the timer ticks, the broker delivers, and the
\* agent reads, acts and reports.
Fairness ==
  /\ WF_vars(Drain) /\ WF_vars(Tick)
  /\ WF_vars(Connect)
  /\ WF_vars(\E m \in reports : Deliver(m))
  /\ \A s \in Schemas : WF_vars(AgentReads(s))
  /\ \A c \in Channels : WF_vars(AgentRoutes(c))
  /\ WF_vars(AgentReports)

FairSpec == Spec /\ Fairness

-----------------------------------------------------------------------------
(* Properties *)

\* Every variable keeps its type; nothing is published, applied or followed
\* that was not desired.
TypeOK ==
  /\ desired \in Nat /\ schema \in Schemas
  /\ published \in 0 .. desired /\ publishedSchema \in 1 .. schema
  /\ applied \in 0 .. desired
  /\ channel \in [Channels -> {"none", "pending", "synced", "absent", "deleted"}]
  /\ revision \in [Channels -> 0 .. desired] /\ groupGone \in BOOLEAN
  /\ conn \in {"down", "up"}
  /\ requested \in BOOLEAN /\ forced \in BOOLEAN /\ taken \in BOOLEAN
  /\ pc \in {"idle", "read", "clear", "send", "mark", "done"}
  /\ held.schema \in {0} \cup Schemas /\ routes \subseteq Channels
  /\ faults \in 0 .. MaxFaults

\* At no time do both topics hold a desired state, so that the agent has one
\* owner ("clears the old retained owner before v2 publication").
OneOwner == \E s \in Schemas : retained[s] = Null

\* A channel is deleted only after the agent has closed it, and the group only
\* after all its channels, whichever reports are late or come twice ("stays a
\* tombstone until the direct reply route is absent").
DeletedIsClosed ==
  /\ \A c \in Channels : channel[c] = "deleted" => c \notin routes
  /\ groupGone <=> desired > 0 /\ Existing = {}

\* The versions on their way to the agent, and the one it follows.
Sent ==
  (IF pc \in InFlight \cup {"mark"} THEN {pub.snap} ELSE {})
  \cup {retained[s] : s \in {t \in Schemas : retained[t] # Null}}
Followed == IF held.schema = 0 THEN {} ELSE {held.snap}

Versions ==
  INSTANCE DesiredState WITH
    version <- desired,
    wanted <- Present,
    dropping <- Absent,
    gone <- Deleted,
    closed <- groupGone,
    sent <- Sent,
    followed <- Followed,
    open <- routes

\* Rows, messages and agent follow the versions of the desired state: whatever is
\* lost, late or repeated, a channel that was dropped is not wanted again, and its
\* row is deleted only when it is closed and no version that the agent may still
\* come to follow would open it.
ImplementsVersions == Versions!Spec

\* In the end the latest desired state is retained on the topic in force and the
\* other topic is empty, though requests were dropped, the connection broke and
\* the broker forgot ("the periodic publisher will retry independently").
DesiredRetained ==
  <>[](desired > 0 =>
         /\ retained[schema] # Null /\ retained[schema].rev = desired
         /\ retained[3 - schema] = Null
         /\ published = desired)

\* A channel that is to be removed is deleted in the end.
DeletionCompletes ==
  \A c \in Channels : channel[c] = "absent" ~> channel[c] = "deleted"
=============================================================================
