---------------------------- MODULE DesiredState ----------------------------
(***************************************************************************)
(* What the desired state of the network agent promises, without           *)
(* connections, topics, schemas and reports. Each edit and each deletion   *)
(* is a new version. Versions are sent, may be lost, and are followed by   *)
(* an agent that never goes back to an older one; it opens the channels    *)
(* that are wanted in what it follows and closes those that are dropped.   *)
(* A dropped channel is not wanted again, and its row goes only when it is *)
(* closed and nothing that the agent may come to follow would open it.     *)
(*                                                                         *)
(* NetworkAgent implements this specification.                             *)
(***************************************************************************)
EXTENDS Naturals

CONSTANT Channels

VARIABLES
  version,
  wanted, dropping, gone,  \* the channels of the version; those deleted so far
  closed,                  \* the group is deleted
  sent,                    \* versions on their way: rev, present and absent
  followed,                \* the one the agent follows, if any
  open                     \* the channels that are open

rows == <<version, wanted, dropping, gone, closed>>
vars == <<rows, sent, followed, open>>

Init ==
  /\ version = 0
  /\ wanted = {} /\ dropping = {} /\ gone = {}
  /\ closed = FALSE
  /\ sent = {} /\ followed = {} /\ open = {}

\* Messages are lost at any time, also when their sender dies in another step.
SomeLost == sent' \subseteq sent

Edit ==
  /\ ~closed
  /\ version' = version + 1
  /\ wanted' \cap (dropping \cup gone) = {}
  /\ dropping \subseteq dropping' /\ dropping' \subseteq dropping \cup wanted
  /\ wanted \subseteq wanted' \cup dropping' /\ wanted' \cap dropping' = {}
  /\ wanted' \cup dropping' # {}
  /\ SomeLost
  /\ UNCHANGED <<gone, closed, followed, open>>

\* What the agent follows now or may follow later.
MayFollow(S) ==
  /\ S \in sent \cup followed
  /\ \A F \in followed : F.rev <= S.rev

Bury(C) ==
  /\ C # {} /\ C \subseteq dropping
  /\ C \cap open = {}
  /\ followed # {}
  /\ \A S \in sent \cup followed : MayFollow(S) => C \cap S.present = {}
  /\ version' = version + 1
  /\ dropping' = dropping \ C
  /\ gone' = gone \cup C
  /\ closed' = (wanted \cup dropping' = {})
  /\ SomeLost
  /\ UNCHANGED <<wanted, followed, open>>

\* A message of the present version.
Send ==
  /\ version > 0
  /\ \E S \in sent' :
       /\ S.rev = version /\ S.present = wanted /\ S.absent = dropping
       /\ sent' = sent \cup {S}
  /\ UNCHANGED <<rows, followed, open>>

Lose == SomeLost /\ UNCHANGED <<rows, followed, open>>

Follow(S) ==
  /\ MayFollow(S)
  /\ followed' = {S}
  /\ UNCHANGED <<rows, sent, open>>

OpenOne(c) ==
  /\ \E S \in followed : c \in S.present
  /\ open' = open \cup {c}
  /\ UNCHANGED <<rows, sent, followed>>

CloseOne(c) ==
  /\ \E S \in followed : c \in S.absent
  /\ open' = open \ {c}
  /\ UNCHANGED <<rows, sent, followed>>

Next ==
  \/ Edit \/ Send \/ Lose
  \/ \E C \in SUBSET Channels : Bury(C)
  \/ \E S \in sent : Follow(S)
  \/ \E c \in Channels : OpenOne(c) \/ CloseOne(c)

Spec == Init /\ [][Next]_vars
=============================================================================
