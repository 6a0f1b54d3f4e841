------------------------------ MODULE Election ------------------------------
(***************************************************************************)
(* The master election of the ubse daemon (src/src/framework/ha).          *)
(*                                                                         *)
(* Every node runs one role object at a time (RoleMgr::currentRole_):      *)
(* INITIALIZER, MASTER, STANDBY or AGENT.  A timer thread calls ProcTimer  *)
(* on it, communication threads call RecvPkt on it, and either may replace *)
(* it (RoleMgr::SwitchRole).  SELECT packets ask for consent to become     *)
(* master: they are sent one after the other, outside the role's lock,     *)
(* and a packet that gets no answer within one heartbeat interval counts   *)
(* as accepted.  HEART packets are sent by a master, asynchronously.       *)
(*                                                                         *)
(* Time is counted in heartbeat intervals: Tick advances the boot clock of *)
(* every node by one interval.                                             *)
(***************************************************************************)
EXTENDS Integers, FiniteSets, Sequences

CONSTANTS
    Nodes,       \* node ids; the code compares ids with <, here integers
    Candidates,  \* the nodes of election.candidateNodes
    HbLost,      \* election heartbeat lost threshold (GetHbLostTimes)
    ElectionWait,\* election.wait: larger ids wait for smaller ones at start
    ColdStart,   \* TRUE: boot; FALSE: all nodes restored and connected
    FaultKinds,  \* the kinds of fault that may happen
    MaxFaults,   \* bound on the number of faults
    MaxTurn      \* bound on turnId

INVALID_NODE_ID == 0

ASSUME NodesAssumption ==
    /\ Nodes \subseteq Nat \ {INVALID_NODE_ID}
    /\ IsFiniteSet(Nodes)
ASSUME CandidatesAssumption == Candidates \subseteq Nodes
ASSUME HbLostAssumption == HbLost \in 3 .. 20
ASSUME BoundsAssumption == MaxFaults \in Nat /\ MaxTurn \in Nat
ASSUME SwitchesAssumption == ElectionWait \in BOOLEAN /\ ColdStart \in BOOLEAN

VARIABLES
    cur,      \* cur[n]: the current role object of n
    elec,     \* elec[n]: the election run by n's timer thread, if any
    ready,    \* ready[n]: the local node state is READY (not RESTORE)
    down,     \* down[n]: the process of n is not running
    conn,     \* conn[n]: connectSuccessNodes_, the nodes n has connected to
    net,      \* net[s][d]: the HEART packet under way from s to d, if any
    told,     \* history: told[n][d], the events of n's Master object about d
    part,     \* one side of the network partition, {} if there is none
    faults    \* number of faults so far

vars == <<cur, elec, ready, down, conn, net, told, part, faults>>

-----------------------------------------------------------------------------
(* Thresholds, in heartbeat intervals.                                     *)
AcceptMasterAfterLoss == HbLost - 1
StandbyLostHbSwitch   == HbLost
AgentLostHbSwitch     == HbLost + 2

\* Ages beyond every threshold are not told apart.
MaxAge == HbLost + 4

Roles == {"INITIALIZER", "MASTER", "STANDBY", "AGENT"}
NodesOrNone == Nodes \cup {INVALID_NODE_ID}

RoleObject ==
    [role : Roles, masterId : NodesOrNone, standbyId : NodesOrNone,
     turnId : Nat,
     age : 0 .. MaxAge,          \* intervals since the last heartbeat (or start)
     due : BOOLEAN,              \* one interval has passed since the last beat
     loss : [Nodes -> 0 .. HbLost + 1],  \* broadcast_[d].heartBeatLossCnt
     active : SUBSET Nodes,      \* nodes whose activeStatus is ACTIVE
     preNodes : SUBSET Nodes]

\* The HEART packet; live: the Master object that sent it still exists, so
\* that the callback AsyncDealReply has something to update.
HeartPkt == [standbyId : NodesOrNone, turnId : Nat, agentIds : SUBSET Nodes,
             live : BOOLEAN]
NoPkt == [standbyId |-> INVALID_NODE_ID, turnId |-> 0, agentIds |-> {},
          live |-> FALSE]

Idle == [on |-> FALSE, fresh |-> FALSE, kind |-> "INITIALIZER", todo |-> {},
         accept |-> FALSE]
ElectionRun == [on : BOOLEAN, fresh : BOOLEAN, kind : {"INITIALIZER", "AGENT"},
                todo : SUBSET Nodes, accept : BOOLEAN]

Smallest(S) == IF S = {} THEN INVALID_NODE_ID
               ELSE CHOOSE x \in S : \A y \in S : x <= y

-----------------------------------------------------------------------------
(* Constructors of the role objects.                                       *)
NoLoss == [d \in Nodes |-> 0]

\* RoleChangeNotifyAsync about the other nodes.
EventTypes == {"NODE_UP", "NODE_DOWN"}
NothingTold == [d \in Nodes |-> <<>>]

Initializer ==
    [role |-> "INITIALIZER", masterId |-> INVALID_NODE_ID,
     standbyId |-> INVALID_NODE_ID, turnId |-> 0, age |-> 0, due |-> TRUE,
     loss |-> NoLoss, active |-> {}, preNodes |-> {}]

\* Every neighbour starts as LOST; lastTimeMs_ is 0, so the first beat is due.
Master(n, turn) ==
    [Initializer EXCEPT !.role = "MASTER", !.masterId = n, !.turnId = turn + 1]

Standby(n, m, turn) ==
    [Initializer EXCEPT !.role = "STANDBY", !.masterId = m, !.standbyId = n,
                        !.turnId = turn]

\* The Agent constructor does not take over ctx.turnId.
Agent(m, s) ==
    [Initializer EXCEPT !.role = "AGENT", !.masterId = m, !.standbyId = s]

Init ==
    /\ cur = [n \in Nodes |-> Initializer]
    /\ elec = [n \in Nodes |-> Idle]
    /\ ready = [n \in Nodes |-> ~ColdStart]
    /\ down = [n \in Nodes |-> FALSE]
    /\ conn = [n \in Nodes |-> IF ColdStart THEN {} ELSE Nodes \ {n}]
    /\ net = [s \in Nodes |-> [d \in Nodes |-> NoPkt]]
    /\ told = [n \in Nodes |-> NothingTold]
    /\ part = {}
    /\ faults = 0

-----------------------------------------------------------------------------
(* The environment: packets pass between nodes on the same side of a       *)
(* partition; every misbehaviour of the environment uses up one fault.     *)
CanTalk(a, b) == (a \in part) <=> (b \in part)

OneFault(kind) == /\ kind \in FaultKinds /\ faults < MaxFaults
                  /\ faults' = faults + 1
NoFault == UNCHANGED faults

(* RoleMgr::SwitchRole: the object is replaced; an election that the old   *)
(* object started is no longer IsCurrentRole, the callbacks of an old      *)
(* Master are skipped (stopping_), and the new object has announced no     *)
(* node.                                                                   *)
Detached(links) ==
    [d \in Nodes |-> IF links[d].live THEN [links[d] EXCEPT !.live = FALSE]
                     ELSE links[d]]

SwitchRole(n, object) ==
    /\ object.turnId <= MaxTurn
    /\ cur' = [cur EXCEPT ![n] = object]
    /\ elec' = [elec EXCEPT ![n].fresh = FALSE]
    /\ told' = [told EXCEPT ![n] = NothingTold]

IsHeartBeatTimeout(n, threshold) == cur[n].age > threshold

-----------------------------------------------------------------------------
(* SELECT packets.                                                         *)

\* What d answers to a SELECT of n: TRUE for ACCEPT.  None of the handlers
\* changes state on a SELECT.
SelectAccepted(d, n) ==
    /\ n \in Candidates
    /\ CASE cur[d].role = "INITIALIZER" ->
              ~ready[d] \/ d \notin Candidates \/ n < d
         [] cur[d].role = "AGENT" -> IsHeartBeatTimeout(d, AcceptMasterAfterLoss)
         [] cur[d].role = "STANDBY" -> FALSE
         [] cur[d].role = "MASTER" -> FALSE

\* The phases of a waiting Initializer: first the smallest id, then the second
\* smallest, then anyone.
IsSmallestNode(n) == n = Smallest(Nodes)
IsSecondSmallestNode(n) ==
    \/ Cardinality(Nodes) < 2
    \/ n = Smallest(Nodes \ {Smallest(Nodes)})

\* Mutant of CheckAndSwitchMaster: the first phase never ends.
CheckAndSwitchMasterSmallest(n) == ~ElectionWait \/ IsSmallestNode(n)

CheckAndSwitchMaster(n) ==
    \/ ~ElectionWait
    \/ cur[n].age <= 2 /\ IsSmallestNode(n)
    \/ cur[n].age > 2 /\ cur[n].age <= 4 /\ IsSecondSmallestNode(n)
    \/ cur[n].age > 4

\* Initializer::ProcTimer up to the first SELECT.
InitializerProcTimer(n) ==
    /\ cur[n].role = "INITIALIZER" /\ ~down[n] /\ ~elec[n].on
    /\ ready[n] /\ cur[n].due
    /\ cur' = [cur EXCEPT ![n].due = FALSE]
    /\ elec' = IF n \in Candidates /\ CheckAndSwitchMaster(n)
               THEN [elec EXCEPT ![n] =
                        [on |-> TRUE, fresh |-> TRUE, kind |-> "INITIALIZER",
                         todo |-> conn[n], accept |-> TRUE]]
               ELSE elec
    /\ UNCHANGED <<ready, down, conn, net, told, part, faults>>

\* ForceElection: a node with a smaller connected id does not even ask.
ForceElection(n) == conn[n] = {} \/ Smallest(conn[n]) >= n

\* Agent::ProcTimer up to the first SELECT; a non-candidate gives up at once.
AgentProcTimer(n) ==
    /\ cur[n].role = "AGENT" /\ ~down[n] /\ ~elec[n].on
    /\ IsHeartBeatTimeout(n, AgentLostHbSwitch)
    /\ LET ask == n \in Candidates /\ ForceElection(n)
       IN  elec' = [elec EXCEPT ![n] =
                       [on |-> TRUE, fresh |-> TRUE, kind |-> "AGENT",
                        todo |-> IF ask THEN conn[n] ELSE {}, accept |-> ask]]
    /\ UNCHANGED <<cur, ready, down, conn, net, told, part, faults>>

\* One turn of the loop of SendElectionPkt: d answers, or the bounded wait
\* ends without an answer, which counts as ACCEPT.
SendElectionPkt(n, d) ==
    /\ elec[n].on /\ ~down[n] /\ d \in elec[n].todo
    /\ \/ /\ ~down[d] /\ CanTalk(n, d) /\ NoFault
          /\ elec' = IF SelectAccepted(d, n)
                     THEN [elec EXCEPT ![n].todo = @ \ {d}]
                     ELSE [elec EXCEPT ![n].todo = {}, ![n].accept = FALSE]
       \/ /\ IF down[d] \/ ~CanTalk(n, d) THEN NoFault
             ELSE OneFault("timeout")
          /\ elec' = [elec EXCEPT ![n].todo = @ \ {d}]
    /\ UNCHANGED <<cur, ready, down, conn, net, told, part>>

\* Mutant of ElectionResult: the role object is not checked again.
ElectionResultUnchecked(n) ==
    /\ elec[n].on /\ ~down[n] /\ elec[n].todo = {}
    /\ elec[n].accept => cur[n].turnId < MaxTurn
    /\ cur' = IF elec[n].accept THEN [cur EXCEPT ![n] = Master(n, cur[n].turnId)]
              ELSE cur
    /\ told' = IF elec[n].accept THEN [told EXCEPT ![n] = NothingTold] ELSE told
    /\ elec' = [elec EXCEPT ![n] = Idle]
    /\ UNCHANGED <<ready, down, conn, net, part, faults>>

\* After the loop: TrySwitchToMaster, or the locked tail of Agent::ProcTimer.
\* Both act only if their role object is still the current one.
ElectionResult(n) ==
    /\ elec[n].on /\ ~down[n] /\ elec[n].todo = {}
    /\ LET switch == elec[n].fresh /\ (elec[n].accept \/ elec[n].kind = "AGENT")
           object == IF elec[n].accept THEN Master(n, cur[n].turnId)
                     ELSE Initializer
       IN  /\ switch => object.turnId <= MaxTurn
           /\ cur' = IF switch THEN [cur EXCEPT ![n] = object] ELSE cur
           /\ told' = IF switch THEN [told EXCEPT ![n] = NothingTold] ELSE told
    /\ elec' = [elec EXCEPT ![n] = Idle]
    /\ UNCHANGED <<ready, down, conn, net, part, faults>>

-----------------------------------------------------------------------------
\* Mutant of StandbyProcTimer: the candidate list is not consulted.
StandbyProcTimerAnyone(n) ==
    /\ cur[n].role = "STANDBY" /\ ~down[n] /\ ~elec[n].on
    /\ IsHeartBeatTimeout(n, StandbyLostHbSwitch)
    /\ SwitchRole(n, Master(n, cur[n].turnId + 1))
    /\ UNCHANGED <<ready, down, conn, net, part, faults>>

(* Standby::ProcTimer.                                                     *)
StandbyProcTimer(n) ==
    /\ cur[n].role = "STANDBY" /\ ~down[n] /\ ~elec[n].on
    /\ IsHeartBeatTimeout(n, StandbyLostHbSwitch)
    /\ SwitchRole(n, IF n \in Candidates THEN Master(n, cur[n].turnId + 1)
                     ELSE Initializer)
    /\ UNCHANGED <<ready, down, conn, net, part, faults>>

-----------------------------------------------------------------------------
(* Master::ProcTimer: appoint or replace the standby, send a HEART to every *)
(* connected node, count the beat as lost until the answer comes, announce *)
(* the nodes that came and went.                                           *)

\* Mutant of GetAllAgentIDs: the standby is listed too, even if there is none.
GetAllAgentIDsAndStandby(n, standby) == (cur[n].active \cup {standby}) \ {n}

GetAllAgentIDs(n, standby) == cur[n].active \ {n, standby}

AppointStandby(n) ==
    IF cur[n].standbyId = INVALID_NODE_ID
    THEN Smallest(cur[n].active \ {n}) ELSE cur[n].standbyId

ReplaceStandbyNode(n, standby) ==
    IF standby # INVALID_NODE_ID /\ cur[n].loss[standby] >= HbLost
    THEN Smallest(cur[n].active \ {n, standby}) ELSE standby

\* PrepareElectionPkt runs between the two: agentIds still counts a node that
\* ReplaceStandbyNode makes the standby.
PrepareElectionPkt(n) ==
    LET s == AppointStandby(n)
    IN  [standbyId |-> ReplaceStandbyNode(n, s), turnId |-> cur[n].turnId,
         agentIds |-> GetAllAgentIDs(n, s), live |-> TRUE]

\* The counter counts on in the code; counts beyond the threshold are not told
\* apart, so it stops at HbLost + 1 here.
DealHbCnt(n) ==
    [d \in Nodes |-> IF d \in conn[n] /\ cur[n].loss[d] <= HbLost
                     THEN cur[n].loss[d] + 1 ELSE cur[n].loss[d]]

\* The nodes that came and those that went since the last beat.
DealNodeUpdate(events, preNodes, currentNodes) ==
    [d \in Nodes |->
        IF d \in currentNodes \ preNodes THEN Append(events[d], "NODE_UP")
        ELSE IF d \in preNodes \ currentNodes THEN Append(events[d], "NODE_DOWN")
        ELSE events[d]]

MasterProcTimer(n) ==
    /\ cur[n].role = "MASTER" /\ ~down[n] /\ ~elec[n].on
    /\ cur[n].due
    /\ LET pkt == PrepareElectionPkt(n)
           loss == DealHbCnt(n)
           lost == {d \in conn[n] : loss[d] > HbLost}
           active == cur[n].active \ lost
       IN  /\ net' = [net EXCEPT ![n] =
                        [d \in Nodes |-> IF d \in conn[n] THEN pkt ELSE net[n][d]]]
           /\ cur' = [cur EXCEPT ![n] =
                        [@ EXCEPT !.due = FALSE, !.standbyId = pkt.standbyId,
                                  !.loss = loss, !.active = active,
                                  !.preNodes = active]]
           /\ told' = [told EXCEPT ![n] =
                          DealNodeUpdate(@, cur[n].preNodes, active)]
    /\ UNCHANGED <<elec, ready, down, conn, part, faults>>

-----------------------------------------------------------------------------
(* HEART packets.  A handler answers at once; the answer updates the view  *)
(* of the sending Master object (AsyncDealReply, UpdateBroadcastStatus) or *)
(* gets lost.                                                              *)

\* The packet is taken from the link; s learns the answer if it arrives.
Received(s, d) == [net EXCEPT ![s][d] = NoPkt]

\* count is 0, or 1 if the answer came before DealHbCnt counted its beat:
\* ProcTimer releases the lock of the counters while it sends.
Heard(s, d, count) ==
    [cur[s] EXCEPT !.loss[d] = count, !.active = @ \cup {d}]

\* d keeps or replaces its role object (the new one is object); s is updated
\* when d accepts.  Every role first rejects a sender that is no candidate.
Answer(s, d, object, switch, accept) ==
    /\ net[s][d] # NoPkt /\ ~down[d] /\ CanTalk(s, d)
    /\ LET allowed  == s \in Candidates
           next     == IF allowed THEN object ELSE cur[d]
           replaced == allowed /\ switch
           heard    == allowed /\ accept /\ net[s][d].live
       IN  /\ \/ /\ NoFault
                 /\ cur' = [cur EXCEPT ![d] = next,
                                       ![s] = IF heard THEN Heard(s, d, 0) ELSE @]
              \/ /\ heard /\ OneFault("early")
                 /\ cur' = [cur EXCEPT ![d] = next, ![s] = Heard(s, d, 1)]
              \/ /\ heard /\ OneFault("timeout")      \* the answer is lost
                 /\ cur' = [cur EXCEPT ![d] = next]
           /\ elec' = IF replaced THEN [elec EXCEPT ![d].fresh = FALSE] ELSE elec
           /\ told' = IF replaced THEN [told EXCEPT ![d] = NothingTold] ELSE told
           /\ net' = IF replaced THEN [Received(s, d) EXCEPT ![d] = Detached(@)]
                     ELSE Received(s, d)
    /\ UNCHANGED <<ready, down, part>>

\* A node follows the sender of a HEART as standby or as agent.
Follow(d, m, pkt) == IF pkt.standbyId = d THEN Standby(d, m, pkt.turnId)
                     ELSE Agent(m, pkt.standbyId)

\* Initializer::RecvPkt
InitializerRecvHeart(s, d) ==
    /\ cur[d].role = "INITIALIZER"
    /\ LET adopt == ready[d]
       IN  Answer(s, d, IF adopt THEN Follow(d, s, net[s][d]) ELSE cur[d],
                  adopt, adopt)
    /\ UNCHANGED conn

\* Agent::RecvPktForHeart, from its own master.
AgentRecvHeart(s, d) ==
    /\ cur[d].role = "AGENT" /\ cur[d].masterId = s
    /\ LET pkt == net[s][d]
           toStandby == pkt.standbyId = d
           refreshed == [cur[d] EXCEPT !.age = 0, !.standbyId = pkt.standbyId,
                             !.turnId = IF @ < pkt.turnId THEN pkt.turnId ELSE @]
           \* DisconnectAgents
           cut == IF toStandby \/ pkt.standbyId = INVALID_NODE_ID
                       \/ Cardinality(pkt.agentIds) <= 1 \/ s \notin Candidates
                  THEN {}
                  ELSE (pkt.agentIds \ {d})
                       \cup (Nodes \ (pkt.agentIds \cup {s, pkt.standbyId, d}))
       IN  /\ Answer(s, d, IF toStandby THEN Standby(d, s, pkt.turnId)
                           ELSE refreshed, toStandby, TRUE)
           /\ conn' = [conn EXCEPT ![d] = @ \ cut]

\* Agent::HandleMasterChange: another master is accepted in place, without a
\* new role object.
AgentHandleMasterChange(s, d) ==
    /\ cur[d].role = "AGENT" /\ cur[d].masterId # s
    /\ LET accept == IsHeartBeatTimeout(d, AcceptMasterAfterLoss)
           pkt == net[s][d]
       IN  Answer(s, d, IF accept
                        THEN [cur[d] EXCEPT !.masterId = s, !.age = 0,
                                 !.standbyId = pkt.standbyId,
                                 !.turnId = pkt.turnId]
                        ELSE cur[d], FALSE, accept)
    /\ UNCHANGED conn

\* Standby::RecvPktForHeart
StandbyRecvHeart(s, d) ==
    /\ cur[d].role = "STANDBY"
    /\ LET pkt == net[s][d]
           mine == cur[d].masterId = s
           accept == mine \/ IsHeartBeatTimeout(d, AcceptMasterAfterLoss)
           stay == mine /\ pkt.standbyId = d
       IN  Answer(s, d, IF ~accept THEN cur[d]
                        ELSE IF stay THEN [cur[d] EXCEPT !.age = 0,
                                              !.turnId = pkt.turnId]
                        ELSE Agent(s, pkt.standbyId),
                  accept /\ ~stay, accept)
    /\ UNCHANGED conn

\* The two counts RecvPktHeart compares: the master's own followers and those
\* of the sender of the packet.
OwnCount(d) ==
    Cardinality(GetAllAgentIDs(d, cur[d].standbyId))
        + (IF cur[d].standbyId = INVALID_NODE_ID THEN 0 ELSE 1)
PktCount(pkt) ==
    Cardinality(pkt.agentIds)
        + (IF pkt.standbyId = INVALID_NODE_ID THEN 0 ELSE 1)

\* Mutant of Yields: half of the cluster counts as a majority.
YieldsMinority(me, own, t, other, count, turn, size) ==
    /\ own + 1 < size \div 2
    /\ \/ own < count
       \/ own = count /\ (turn > t \/ (turn = t /\ other < me))

\* Split-brain merge: whether master me, with count own and turn t, yields to
\* master other, in a cluster of size nodes.
Yields(me, own, t, other, count, turn, size) ==
    /\ own + 1 <= size \div 2
    /\ \/ own < count
       \/ own = count /\ turn > t
       \/ own = count /\ turn = t /\ other < me

\* Master::RecvPktHeart; a merge by id always makes an agent of the loser.
MasterRecvHeart(s, d) ==
    /\ cur[d].role = "MASTER"
    /\ LET pkt == net[s][d]
           yields == Yields(d, OwnCount(d), cur[d].turnId,
                            s, PktCount(pkt), pkt.turnId, Cardinality(Nodes))
           byId == OwnCount(d) = PktCount(pkt) /\ pkt.turnId = cur[d].turnId
       IN  Answer(s, d, IF ~yields THEN cur[d]
                        ELSE IF byId THEN Agent(s, pkt.standbyId)
                        ELSE IF pkt.standbyId = d THEN Standby(d, s, pkt.turnId)
                        ELSE Agent(s, INVALID_NODE_ID),
                  yields, yields)
    /\ UNCHANGED conn

-----------------------------------------------------------------------------
(* Connections and faults.                                                 *)

\* TimerTaskCom: every role but AGENT keeps connecting to all nodes.
Connect(n, d) ==
    /\ ~down[n] /\ ~down[d] /\ CanTalk(n, d) /\ n # d /\ d \notin conn[n]
    /\ cur[n].role # "AGENT"
    /\ conn' = [conn EXCEPT ![n] = @ \cup {d}]
    /\ UNCHANGED <<cur, elec, ready, down, net, told, part, faults>>

\* Mutant of SetNodeDownStatus: the event is sent, preNodes_ is not updated.
SetNodeDownStatusOnly(n, d) ==
    /\ cur' = [cur EXCEPT ![n].active = @ \ {d},
                          ![n].standbyId = IF @ = d THEN INVALID_NODE_ID ELSE @]
    /\ told' = IF d \in cur[n].active
               THEN [told EXCEPT ![n][d] = Append(@, "NODE_DOWN")] ELSE told

\* Mutant of SetNodeDownStatus: the event is sent whatever the node's state.
SetNodeDownStatusAnyState(n, d) ==
    /\ cur' = [cur EXCEPT ![n].active = @ \ {d},
                          ![n].standbyId = IF @ = d THEN INVALID_NODE_ID ELSE @,
                          ![n].preNodes = @ \ {d}]
    /\ told' = [told EXCEPT ![n][d] = Append(@, "NODE_DOWN")]

\* ElectionResponseHandler: the link to d broke; a master takes d for down at
\* once (SetNodeDownStatus).
SetNodeDownStatus(n, d) ==
    /\ cur' = [cur EXCEPT ![n].active = @ \ {d},
                          ![n].standbyId = IF @ = d THEN INVALID_NODE_ID ELSE @,
                          ![n].preNodes = IF d \in cur[n].active THEN @ \ {d}
                                          ELSE @]
    /\ told' = IF d \in cur[n].active
               THEN [told EXCEPT ![n][d] = Append(@, "NODE_DOWN")] ELSE told

LinkDown(n, d) ==
    /\ ~down[n] /\ d \in conn[n] /\ "link" \in FaultKinds
    /\ IF down[d] \/ ~CanTalk(n, d) THEN NoFault ELSE OneFault("link")
    /\ conn' = [conn EXCEPT ![n] = @ \ {d}]
    /\ IF cur[n].role = "MASTER" THEN SetNodeDownStatus(n, d)
       ELSE UNCHANGED <<cur, told>>
    /\ UNCHANGED <<elec, ready, down, net, part>>

Crash(n) ==
    /\ ~down[n] /\ OneFault("crash")
    /\ down' = [down EXCEPT ![n] = TRUE]
    /\ ready' = [ready EXCEPT ![n] = FALSE]
    /\ cur' = [cur EXCEPT ![n] = Initializer]
    /\ elec' = [elec EXCEPT ![n] = Idle]
    /\ conn' = [conn EXCEPT ![n] = {}]
    /\ net' = [net EXCEPT ![n] = Detached(@)]
    /\ told' = [told EXCEPT ![n] = NothingTold]
    /\ UNCHANGED part

Restart(n) ==
    /\ down[n]
    /\ down' = [down EXCEPT ![n] = FALSE]
    /\ UNCHANGED <<cur, elec, ready, conn, net, told, part, faults>>

\* The side without the smallest id names the partition.
Partition ==
    /\ part = {} /\ OneFault("partition")
    /\ part' \in SUBSET (Nodes \ {Smallest(Nodes)}) \ {{}}
    /\ UNCHANGED <<cur, elec, ready, down, conn, net, told>>

Heal ==
    /\ part # {}
    /\ part' = {}
    /\ UNCHANGED <<cur, elec, ready, down, conn, net, told, faults>>

\* The node controller ends the local restore.
BecomeReady(n) ==
    /\ ~down[n] /\ ~ready[n]
    /\ ready' = [ready EXCEPT ![n] = TRUE]
    /\ UNCHANGED <<cur, elec, down, conn, net, told, part, faults>>

\* The RAS module hands the mastership over by hand.
SwitchMasterFromStandby(n) ==
    /\ cur[n].role = "STANDBY" /\ ~down[n] /\ n \in Candidates
    /\ OneFault("switch")
    /\ SwitchRole(n, Master(n, cur[n].turnId + 1))
    /\ UNCHANGED <<ready, down, conn, net, part>>

\* Mutant of SwitchAgentFromMaster: the new agent keeps its master id.
SwitchAgentFromMasterSame(n) ==
    /\ cur[n].role = "MASTER" /\ ~down[n]
    /\ OneFault("switch")
    /\ SwitchRole(n, Agent(cur[n].masterId, INVALID_NODE_ID))
    /\ net' = [net EXCEPT ![n] = Detached(@)]
    /\ UNCHANGED <<ready, down, conn, part>>

SwitchAgentFromMaster(n) ==
    /\ cur[n].role = "MASTER" /\ ~down[n]
    /\ OneFault("switch")
    /\ SwitchRole(n, Agent(cur[n].standbyId, INVALID_NODE_ID))
    /\ net' = [net EXCEPT ![n] = Detached(@)]
    /\ UNCHANGED <<ready, down, conn, part>>

-----------------------------------------------------------------------------
(* Time.  Normally an interval is long enough for every packet that can be *)
(* delivered to be handled and for every timer to run; an interval that is *)
(* too short for that is a fault.                                          *)
Pending(n) ==
    /\ ~down[n]
    /\ \/ elec[n].on
       \/ \E s \in Nodes : net[s][n] # NoPkt /\ CanTalk(s, n)
       \/ cur[n].role = "MASTER" /\ cur[n].due
       \/ cur[n].role = "INITIALIZER" /\ cur[n].due /\ ready[n]
       \/ cur[n].role = "STANDBY" /\ IsHeartBeatTimeout(n, StandbyLostHbSwitch)
       \/ cur[n].role = "AGENT" /\ IsHeartBeatTimeout(n, AgentLostHbSwitch)
       \/ /\ cur[n].role # "AGENT"
          /\ \E d \in Nodes \ {n} : ~down[d] /\ CanTalk(n, d) /\ d \notin conn[n]

Older(o, isReady) ==
    [o EXCEPT !.age = IF o.role = "MASTER" \/ ~isReady \/ @ = MaxAge
                      THEN @ ELSE @ + 1,
              !.due = o.role \in {"MASTER", "INITIALIZER"} \/ @]

Tick ==
    /\ IF \E n \in Nodes : Pending(n) THEN OneFault("slow") ELSE NoFault
    /\ cur' = [n \in Nodes |-> Older(cur[n], ready[n])]
    /\ UNCHANGED <<elec, ready, down, conn, net, told, part>>

-----------------------------------------------------------------------------
ProcTimer(n) ==
    \/ InitializerProcTimer(n) \/ AgentProcTimer(n)
    \/ StandbyProcTimer(n) \/ MasterProcTimer(n)
    \/ ElectionResult(n)
    \/ \E d \in Nodes : SendElectionPkt(n, d)

RecvHeart(s, d) ==
    \/ InitializerRecvHeart(s, d) \/ AgentRecvHeart(s, d)
    \/ AgentHandleMasterChange(s, d) \/ StandbyRecvHeart(s, d)
    \/ MasterRecvHeart(s, d)

Fault ==
    \E n \in Nodes :
        \/ Crash(n) \/ Restart(n)
        \/ SwitchMasterFromStandby(n) \/ SwitchAgentFromMaster(n)
        \/ \E d \in Nodes : LinkDown(n, d)

Next ==
    \/ \E n \in Nodes : ProcTimer(n) \/ BecomeReady(n)
    \/ \E n, d \in Nodes : RecvHeart(n, d) \/ Connect(n, d)
    \/ Fault
    \/ Partition
    \/ Heal
    \/ Tick

Spec == Init /\ [][Next]_vars

-----------------------------------------------------------------------------
(* Fairness: the timers and the communication threads of a running node    *)
(* keep running, restore ends, clocks advance, and partitions heal.        *)
Fairness ==
    /\ WF_vars(Tick) /\ WF_vars(Heal)
    /\ \A n \in Nodes : WF_vars(ProcTimer(n)) /\ WF_vars(BecomeReady(n))
    /\ \A n, d \in Nodes : WF_vars(RecvHeart(n, d)) /\ WF_vars(Connect(n, d))

FairSpec == Spec /\ Fairness

-----------------------------------------------------------------------------
(* Properties.                                                             *)

\* The type of the state: role objects, election runs and packets are well
\* formed; in particular every id a Master, Standby or Agent keeps or sends is
\* that of a node or INVALID_NODE_ID.
TypeOK ==
    /\ cur \in [Nodes -> RoleObject]
    /\ elec \in [Nodes -> ElectionRun]
    /\ ready \in [Nodes -> BOOLEAN]
    /\ down \in [Nodes -> BOOLEAN]
    /\ conn \in [Nodes -> SUBSET Nodes]
    /\ net \in [Nodes -> [Nodes -> HeartPkt]]
    /\ told \in [Nodes -> [Nodes -> Seq(EventTypes)]]
    /\ part \in SUBSET Nodes
    /\ faults \in 0 .. MaxFaults

\* Only the nodes of election.candidateNodes ever become master, by whichever
\* of the four ways into the Master role (initial election, agent election,
\* standby timeout, RAS switch), although any node may be appointed standby.
OnlyCandidatesLead == \A n \in Nodes : cur[n].role = "MASTER" => n \in Candidates

\* UbseElectionModule::IsLeader compares masterId with the own id, the role
\* objects dispatch on the role: the two never disagree, so no follower takes
\* itself for the leader and no master denies it, across every adoption, merge
\* and hand-over.
IsLeader(n) == cur[n].masterId = n
LeaderIffMaster == \A n \in Nodes : IsLeader(n) <=> cur[n].role = "MASTER"

\* The last event is a NODE_UP, and between two NODE_UPs there is a NODE_DOWN.
EndsUp(events) == events # <<>> /\ events[Len(events)] = "NODE_UP"
UpsApart(events) ==
    \A i \in 2 .. Len(events) :
        events[i] = "NODE_UP" => events[i - 1] = "NODE_DOWN"

\* NODE_UP and NODE_DOWN come from two places: DealNodeUpdate compares the
\* active nodes with preNodes_ at every beat, SetNodeDownStatus reports a
\* broken link at once.  A master's subscribers were last told NODE_UP of
\* exactly the nodes that preNodes_ records, and never twice in a row: no
\* NODE_UP is repeated and no NODE_DOWN is missed.
EventsMatchPreNodes ==
    \A n, d \in Nodes : /\ EndsUp(told[n][d]) <=> d \in cur[n].preNodes
                        /\ UpsApart(told[n][d])

\* A NODE_DOWN ends what a NODE_UP announced, with one exception: the link
\* breaks to a node that has answered a heartbeat since the last beat, ACTIVE
\* and not in preNodes_ yet, and SetNodeDownStatus reports a node down that
\* nobody was told is up.
Downs ==
    \A n, d \in Nodes : told'[n][d] = Append(told[n][d], "NODE_DOWN") =>
        \/ EndsUp(told[n][d])
        \/ d \in cur[n].active \ cur[n].preNodes /\ conn'[n] = conn[n] \ {d}
DownsPaired == [][Downs]_vars

Promotion(n) == cur[n].role # "MASTER" /\ cur'[n].role = "MASTER"

\* A promotion to master rests on what the node is when it happens, not on
\* what it was when its timer thread started to ask: a standby takes over only
\* when its master has been silent for the threshold, or by the RAS switch, and
\* an agent only through an election of its own (an Initializer's election that
\* ends after the node was adopted comes to nothing).
PromotionJustified ==
    [][\A n \in Nodes : Promotion(n) =>
          /\ cur[n].role = "STANDBY" =>
                IsHeartBeatTimeout(n, StandbyLostHbSwitch) \/ faults' # faults
          /\ cur[n].role = "AGENT" => elec[n].kind = "AGENT"
          /\ ready[n] /\ ~down[n]]_vars

\* One running node is master and every other running node follows it.
Settled ==
    \E m \in Nodes :
        /\ ~down[m] /\ cur[m].role = "MASTER"
        /\ \A n \in Nodes \ {m} : ~down[n] =>
              cur[n].role \in {"AGENT", "STANDBY"} /\ cur[n].masterId = m

\* Whatever faults happened before, once they are over the cluster settles on
\* one master that everybody follows, and stays so: split brains merge, dead
\* masters are replaced, orphans find the new master.
Converges == <>[]((\E n \in Candidates : ~down[n]) => Settled)
=============================================================================
