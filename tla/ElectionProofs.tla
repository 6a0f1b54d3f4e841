--------------------------- MODULE ElectionProofs ---------------------------
(***************************************************************************)
(* Theorems about Election, for every set of nodes, every candidate list,  *)
(* every heartbeat threshold of the configurable range and any number of   *)
(* faults of any kind.                                                     *)
(***************************************************************************)
EXTENDS Election, WellFoundedInduction, FiniteSetTheorems, TLAPS

-----------------------------------------------------------------------------
(* Lemmas about the operators.                                             *)

\* Every nonempty set of natural numbers has a least element.
LEMMA LeastElement ==
    ASSUME NEW S, S \subseteq Nat, S # {}
    PROVE  \E x \in S : \A y \in S : x <= y
<1> DEFINE Less == {p \in Nat \X Nat : p[1] < p[2]}
<1>1. IsWellFoundedOn(Less, Nat)
  BY NatLessThanWellFounded DEF OpToRel
<1>2. \E x \in S : \A y \in S : <<y, x>> \notin Less
  <2> HIDE DEF Less
  <2>1. QED  BY <1>1, WFMin
<1>3. \A x, y \in Nat : <<y, x>> \notin Less => x <= y
  OBVIOUS
<1>4. QED  BY <1>2, <1>3

\* FindSmallestId returns a member of the set it searches, or INVALID_NODE_ID.
LEMMA SmallestMember ==
    ASSUME NEW S, S \subseteq Nodes
    PROVE  /\ S # {} => Smallest(S) \in S
           /\ S = {} => Smallest(S) = INVALID_NODE_ID
<1>1. CASE S = {}  BY <1>1 DEF Smallest
<1>2. CASE S # {}
  <2>1. \E x \in S : \A y \in S : x <= y
    BY <1>2, NodesAssumption, LeastElement
  <2>2. QED  BY <1>2, <2>1 DEF Smallest
<1>3. QED  BY <1>1, <1>2

\* Split-brain merge: two masters with distinct ids and disjoint followers, who
\* know each other's true follower count and turn, never both keep the
\* mastership and never both give it up: exactly one of them yields.
THEOREM MergeDecides ==
    ASSUME NEW a \in Nat, NEW b \in Nat, a # b,
           NEW ca \in Nat, NEW cb \in Nat, NEW ta \in Nat, NEW tb \in Nat,
           NEW size \in Nat, ca + 1 + cb + 1 <= size
    PROVE  Yields(a, ca, ta, b, cb, tb, size)
             <=> ~Yields(b, cb, tb, a, ca, ta, size)
<1>1. size \div 2 \in Nat /\ 2 * (size \div 2) <= size /\ size <= 2 * (size \div 2) + 1
  OBVIOUS
<1>2. CASE ca + 1 > size \div 2
  <2>1. cb < ca /\ cb + 1 <= size \div 2  BY <1>1, <1>2
  <2>2. QED  BY <1>1, <1>2, <2>1 DEF Yields
<1>3. CASE cb + 1 > size \div 2
  <2>1. ca < cb /\ ca + 1 <= size \div 2  BY <1>1, <1>3
  <2>2. QED  BY <1>1, <1>3, <2>1 DEF Yields
<1>4. CASE ca + 1 <= size \div 2 /\ cb + 1 <= size \div 2
  BY <1>4 DEF Yields
<1>5. QED  BY <1>1, <1>2, <1>3, <1>4

-----------------------------------------------------------------------------
(* The inductive invariant.  LeaderIffMaster, OnlyCandidatesLead and       *)
(* EventsMatchPreNodes do not survive a step by themselves: a master that  *)
(* is switched to agent follows its standby, which must not be itself, and *)
(* an election ends in a promotion long after the candidate list and the   *)
(* role were looked at.                                                    *)

\* What holds of the role object o of node n, whoever created or changed it.
ObjectInv(n, o) ==
    /\ o.role = "MASTER" <=> o.masterId = n
    /\ o.role = "MASTER" => n \in Candidates /\ o.standbyId # n
    /\ o.role # "MASTER" => o.preNodes = {}
    /\ n \notin o.active

\* What the subscribers were told of every node agrees with preNodes_.
EventLog == [Nodes -> Seq(EventTypes)]
Tells(log, preNodes) ==
    \A d \in Nodes : (EndsUp(log[d]) <=> d \in preNodes) /\ UpsApart(log[d])

\* A running election belongs to a running, restored node; a successful one to
\* a candidate; a fresh one to the role that started it.
ElectionInv(n) ==
    elec[n].on =>
        /\ ready[n] /\ ~down[n]
        /\ elec[n].accept => n \in Candidates
        /\ elec[n].fresh => cur[n].role = elec[n].kind

NodeInv(n) ==
    /\ ObjectInv(n, cur[n])
    /\ Tells(told[n], cur[n].preNodes)
    /\ n \notin conn[n]
    /\ net[n][n] = NoPkt
    /\ ElectionInv(n)
    /\ cur[n].role # "INITIALIZER" => ready[n] /\ ~down[n]

IInv == TypeOK /\ \A n \in Nodes : NodeInv(n)

\* The action of PromotionJustified.
Justified ==
    \A n \in Nodes : Promotion(n) =>
        /\ cur[n].role = "STANDBY" =>
              IsHeartBeatTimeout(n, StandbyLostHbSwitch) \/ faults' # faults
        /\ cur[n].role = "AGENT" => elec[n].kind = "AGENT"
        /\ ready[n] /\ ~down[n]

-----------------------------------------------------------------------------
(* The constructors.                                                       *)

\* The constants are numbers.
LEMMA Numbers ==
    /\ HbLost \in Nat /\ HbLost >= 3
    /\ MaxAge \in Nat /\ MaxAge = HbLost + 4
    /\ Nodes \subseteq Nat /\ INVALID_NODE_ID = 0 /\ INVALID_NODE_ID \notin Nodes
    /\ MaxFaults \in Nat /\ MaxTurn \in Nat
BY NodesAssumption, HbLostAssumption, BoundsAssumption
   DEF MaxAge, INVALID_NODE_ID

\* A new Initializer has no master.
LEMMA InitializerObject ==
    /\ Initializer \in RoleObject
    /\ \A n \in Nodes : ObjectInv(n, Initializer)
    /\ Initializer.role = "INITIALIZER" /\ Initializer.preNodes = {}
    /\ Initializer.turnId = 0
<1>1. NoLoss \in [Nodes -> 0 .. HbLost + 1]
  BY Numbers DEF NoLoss
<1>2. QED
  BY <1>1, Numbers
     DEF Initializer, RoleObject, NodesOrNone, Roles, ObjectInv

\* A new Master follows itself and has no standby.
LEMMA MasterObject ==
    ASSUME NEW n \in Nodes, NEW t \in Nat
    PROVE  /\ Master(n, t) \in RoleObject
           /\ n \in Candidates => ObjectInv(n, Master(n, t))
           /\ Master(n, t).role = "MASTER" /\ Master(n, t).preNodes = {}
           /\ Master(n, t).turnId = t + 1
<1> DEFINE o == Master(n, t)
<1>1. /\ o.role = "MASTER" /\ o.masterId = n /\ o.standbyId = INVALID_NODE_ID
      /\ o.turnId = t + 1 /\ o.active = {} /\ o.preNodes = {}
  BY DEF Master, Initializer
<1>2. o \in RoleObject
  <2> DEFINE u == t + 1
  <2>1. u \in Nat  OBVIOUS
  <2>2. o = [Initializer EXCEPT !.role = "MASTER", !.masterId = n, !.turnId = u]
    BY DEF Master
  <2> HIDE DEF u, o
  <2>3. QED
    BY <2>1, <2>2, InitializerObject DEF RoleObject, NodesOrNone, Roles
<1>3. n \in Candidates => ObjectInv(n, o)
  BY <1>1, Numbers DEF ObjectInv
<1>4. QED  BY <1>1, <1>2, <1>3

\* A new Standby follows another node.
LEMMA StandbyObject ==
    ASSUME NEW n \in Nodes, NEW m \in Nodes, NEW t \in Nat, n # m
    PROVE  /\ Standby(n, m, t) \in RoleObject
           /\ ObjectInv(n, Standby(n, m, t))
           /\ Standby(n, m, t).role = "STANDBY"
           /\ Standby(n, m, t).preNodes = {}
BY InitializerObject, Numbers
   DEF Standby, Initializer, RoleObject, NodesOrNone, Roles, ObjectInv

\* A new Agent follows another node, or none.
LEMMA AgentObject ==
    ASSUME NEW n \in Nodes, NEW m \in NodesOrNone, NEW s \in NodesOrNone, n # m
    PROVE  /\ Agent(m, s) \in RoleObject
           /\ ObjectInv(n, Agent(m, s))
           /\ Agent(m, s).role = "AGENT"
           /\ Agent(m, s).preNodes = {}
           /\ Agent(m, s).turnId = 0
BY InitializerObject, Numbers
   DEF Agent, Initializer, RoleObject, NodesOrNone, Roles, ObjectInv

\* Packets of an object that is replaced stay packets, and none appears.
LEMMA DetachedLinks ==
    ASSUME NEW links \in [Nodes -> HeartPkt]
    PROVE  /\ Detached(links) \in [Nodes -> HeartPkt]
           /\ \A d \in Nodes : links[d] = NoPkt => Detached(links)[d] = NoPkt
<1>1. ASSUME NEW p \in HeartPkt
      PROVE  [p EXCEPT !.live = FALSE] \in HeartPkt
  BY DEF HeartPkt
<1>2. ~NoPkt.live
  BY DEF NoPkt
<1>3. QED  BY <1>1, <1>2 DEF Detached

\* A NODE_UP after no event or a NODE_DOWN, and a NODE_DOWN after anything.
LEMMA OneMoreEvent ==
    ASSUME NEW events \in Seq(EventTypes), UpsApart(events)
    PROVE  /\ Append(events, "NODE_DOWN") \in Seq(EventTypes)
           /\ ~EndsUp(Append(events, "NODE_DOWN"))
           /\ UpsApart(Append(events, "NODE_DOWN"))
           /\ ~EndsUp(events) => /\ Append(events, "NODE_UP") \in Seq(EventTypes)
                                /\ EndsUp(Append(events, "NODE_UP"))
                                /\ UpsApart(Append(events, "NODE_UP"))
<1>1. "NODE_UP" \in EventTypes /\ "NODE_DOWN" \in EventTypes
  BY DEF EventTypes
<1>2. ASSUME NEW e \in EventTypes
      PROVE  /\ Append(events, e) \in Seq(EventTypes)
             /\ Len(Append(events, e)) = Len(events) + 1
             /\ Append(events, e)[Len(events) + 1] = e
             /\ Append(events, e) # <<>>
             /\ \A i \in 1 .. Len(events) : Append(events, e)[i] = events[i]
  OBVIOUS
<1>3. Len(events) \in Nat /\ (Len(events) = 0 <=> events = <<>>)
  OBVIOUS
<1>4. ~EndsUp(Append(events, "NODE_DOWN")) /\ EndsUp(Append(events, "NODE_UP"))
  BY <1>1, <1>2, <1>3 DEF EndsUp
<1>5. ASSUME NEW e \in EventTypes, e = "NODE_DOWN" \/ ~EndsUp(events)
      PROVE  UpsApart(Append(events, e))
  <2> SUFFICES ASSUME NEW i \in 2 .. Len(events) + 1, Append(events, e)[i] = "NODE_UP"
               PROVE  Append(events, e)[i - 1] = "NODE_DOWN"
    BY <1>2 DEF UpsApart
  <2>1. /\ i - 1 \in 1 .. Len(events)
        /\ Append(events, e)[i - 1] = events[i - 1]
    BY <1>2, <1>3
  <2>2. CASE i <= Len(events)
    <3>1. i \in 2 .. Len(events) /\ i \in 1 .. Len(events)  BY <1>3, <2>2
    <3>2. events[i] = "NODE_UP"  BY <1>2, <3>1
    <3>3. QED  BY <2>1, <3>1, <3>2 DEF UpsApart
  <2>3. CASE i = Len(events) + 1
    <3>1. e = "NODE_UP"  BY <1>2, <2>3
    <3>2. events # <<>> /\ i - 1 = Len(events)  BY <1>3, <2>3
    <3>3. events[i - 1] # "NODE_UP"  BY <1>5, <3>1, <3>2 DEF EndsUp
    <3>4. events[i - 1] \in EventTypes  BY <2>1
    <3>5. QED  BY <2>1, <3>3, <3>4 DEF EventTypes
  <2>4. QED  BY <1>3, <2>2, <2>3
<1>6. QED  BY <1>1, <1>2, <1>4, <1>5

\* A new Master object has told nothing.
LEMMA NothingIsTold == NothingTold \in EventLog /\ Tells(NothingTold, {})
<1>1. <<>> \in Seq(EventTypes) /\ ~EndsUp(<<>>) /\ UpsApart(<<>>)
  BY DEF EndsUp, UpsApart
<1>2. QED  BY <1>1 DEF NothingTold, EventLog, Tells

\* DealNodeUpdate brings the subscribers from the old preNodes_ to the new one.
LEMMA NodeUpdateTells ==
    ASSUME NEW log \in EventLog, NEW pre, NEW now, Tells(log, pre)
    PROVE  /\ DealNodeUpdate(log, pre, now) \in EventLog
           /\ Tells(DealNodeUpdate(log, pre, now), now)
<1> DEFINE new == DealNodeUpdate(log, pre, now)
<1>1. ASSUME NEW d \in Nodes
      PROVE  /\ new[d] \in Seq(EventTypes) /\ UpsApart(new[d])
             /\ EndsUp(new[d]) <=> d \in now
  <2>1. /\ log[d] \in Seq(EventTypes) /\ UpsApart(log[d])
        /\ EndsUp(log[d]) <=> d \in pre
    BY DEF EventLog, Tells
  <2>2. new[d] = IF d \in now \ pre THEN Append(log[d], "NODE_UP")
                 ELSE IF d \in pre \ now THEN Append(log[d], "NODE_DOWN")
                 ELSE log[d]
    BY DEF DealNodeUpdate
  <2> HIDE DEF new
  <2>3. CASE d \in now \ pre  BY <2>1, <2>2, <2>3, OneMoreEvent
  <2>4. CASE d \in pre \ now  BY <2>1, <2>2, <2>4, OneMoreEvent
  <2>5. CASE d \notin now \ pre /\ d \notin pre \ now
    BY <2>1, <2>2, <2>5
  <2>6. QED  BY <2>3, <2>4, <2>5
<1>2. new = [d \in Nodes |-> new[d]]  BY DEF DealNodeUpdate
<1> HIDE DEF new
<1>3. new \in EventLog  BY <1>1, <1>2 DEF EventLog
<1>4. Tells(new, now)  BY <1>1 DEF Tells
<1>5. QED  BY <1>3, <1>4 DEF new

\* SetNodeDownStatus takes a node out of what was told and out of preNodes_.
LEMMA NodeDownTells ==
    ASSUME NEW log \in EventLog, NEW pre, NEW d \in Nodes, Tells(log, pre)
    PROVE  /\ [log EXCEPT ![d] = Append(@, "NODE_DOWN")] \in EventLog
           /\ Tells([log EXCEPT ![d] = Append(@, "NODE_DOWN")], pre \ {d})
<1> DEFINE more == Append(log[d], "NODE_DOWN")
           new == [log EXCEPT ![d] = more]
<1>1. log[d] \in Seq(EventTypes) /\ UpsApart(log[d])
  BY DEF EventLog, Tells
<1>2. more \in Seq(EventTypes) /\ ~EndsUp(more) /\ UpsApart(more)
  BY <1>1, OneMoreEvent
<1> HIDE DEF more
<1>3. new \in EventLog  BY <1>2 DEF EventLog
<1>4. new[d] = more /\ \A m \in Nodes \ {d} : new[m] = log[m]
  BY DEF EventLog
<1> HIDE DEF new
<1>5. Tells(new, pre \ {d})  BY <1>2, <1>4 DEF Tells
<1>6. QED  BY <1>3, <1>5 DEF new, more

-----------------------------------------------------------------------------
(* Initial states.                                                         *)

\* The initial states satisfy the invariant.
LEMMA InitInv == Init => IInv
<1> SUFFICES ASSUME Init PROVE IInv  OBVIOUS
<1>1. Idle \in ElectionRun /\ ~Idle.on  BY DEF Idle, ElectionRun
<1>2. NoPkt \in HeartPkt
  BY Numbers DEF NoPkt, HeartPkt, NodesOrNone
<1>3. TypeOK
  BY <1>1, <1>2, InitializerObject, NothingIsTold, Numbers, SwitchesAssumption
     DEF Init, TypeOK, EventLog
<1>4. ASSUME NEW n \in Nodes PROVE NodeInv(n)
  BY <1>1, InitializerObject, NothingIsTold DEF Init, NodeInv, ElectionInv
<1>5. QED  BY <1>3, <1>4 DEF IInv

-----------------------------------------------------------------------------
(* Steps: every action preserves the invariant and promotes only whom it   *)
(* may.                                                                    *)

\* A fault counts up to the bound.
LEMMA FaultCount ==
    ASSUME TypeOK, NEW kind, OneFault(kind)
    PROVE  faults' \in 0 .. MaxFaults /\ faults' # faults
BY Numbers DEF TypeOK, OneFault

\* Links of n detached: the diagonal stays empty.
LEMMA DetachedNet ==
    ASSUME IInv, NEW n \in Nodes, net' = [net EXCEPT ![n] = Detached(@)]
    PROVE  /\ net' \in [Nodes -> [Nodes -> HeartPkt]]
           /\ \A m \in Nodes : net'[m][m] = NoPkt
<1>1. net \in [Nodes -> [Nodes -> HeartPkt]] /\ \A m \in Nodes : net[m][m] = NoPkt
  BY DEF IInv, TypeOK, NodeInv
<1>2. /\ Detached(net[n]) \in [Nodes -> HeartPkt]
      /\ Detached(net[n])[n] = NoPkt
  BY <1>1, DetachedLinks
<1>3. QED  BY <1>1, <1>2

\* An election whose role object was replaced goes on, but is not fresh.
LEMMA StaleElection ==
    ASSUME TypeOK, NEW n \in Nodes, elec' = [elec EXCEPT ![n].fresh = FALSE]
    PROVE  /\ elec' \in [Nodes -> ElectionRun]
           /\ ~elec'[n].fresh /\ elec'[n].on = elec[n].on
           /\ elec'[n].accept = elec[n].accept
           /\ \A m \in Nodes \ {n} : elec'[m] = elec[m]
<1>1. ASSUME NEW r \in ElectionRun
      PROVE  [r EXCEPT !.fresh = FALSE] \in ElectionRun
  BY DEF ElectionRun
<1>2. elec[n] \in ElectionRun  BY DEF TypeOK
<1>3. elec'[n] = [elec[n] EXCEPT !.fresh = FALSE]  BY DEF TypeOK
<1>4. elec' = [elec EXCEPT ![n] = [elec[n] EXCEPT !.fresh = FALSE]]  OBVIOUS
<1>5. elec' \in [Nodes -> ElectionRun]
  BY <1>1, <1>2, <1>4 DEF TypeOK
<1>6. /\ ~elec'[n].fresh /\ elec'[n].on = elec[n].on
      /\ elec'[n].accept = elec[n].accept
  BY <1>2, <1>3 DEF ElectionRun
<1>7. QED  BY <1>5, <1>6 DEF TypeOK

\* RoleMgr::SwitchRole with a well-formed new object keeps the invariant.
LEMMA SwitchRoleStep ==
    ASSUME IInv, NEW n \in Nodes, NEW o \in RoleObject, ObjectInv(n, o),
           o.preNodes = {}, ready[n], ~down[n], SwitchRole(n, o),
           UNCHANGED <<ready, down, conn, part>>, faults' \in 0 .. MaxFaults,
           net' \in [Nodes -> [Nodes -> HeartPkt]],
           \A m \in Nodes : net'[m][m] = NoPkt
    PROVE  IInv'
<1> USE DEF SwitchRole
<1>1. TypeOK'
  <2>1. elec' \in [Nodes -> ElectionRun]
    BY StaleElection DEF IInv
  <2>2. /\ cur' \in [Nodes -> RoleObject]
        /\ told' \in [Nodes -> [Nodes -> Seq(EventTypes)]]
    BY NothingIsTold DEF IInv, TypeOK, EventLog
  <2>3. QED  BY <2>1, <2>2 DEF IInv, TypeOK
<1>2. ASSUME NEW m \in Nodes PROVE NodeInv(m)'
  <2>1. CASE m = n
    <3>1. cur'[n] = o /\ told'[n] = NothingTold  BY DEF IInv, TypeOK
    <3>2. Tells(told'[n], o.preNodes)  BY <3>1, NothingIsTold
    <3>3. QED
      BY <2>1, <3>1, <3>2, StaleElection DEF IInv, TypeOK, NodeInv, ElectionInv
  <2>2. CASE m # n
    BY <2>2, StaleElection DEF IInv, TypeOK, NodeInv, ElectionInv
  <2>3. QED  BY <2>1, <2>2
<1>3. QED  BY <1>1, <1>2 DEF IInv

\* A step that keeps the role objects and what the invariant says of them.
LEMMA QuietStep ==
    ASSUME IInv, TypeOK', UNCHANGED <<cur, told, net, elec>>,
           \A n \in Nodes : n \notin conn'[n],
           \A n \in Nodes : ready[n] => ready'[n],
           \A n \in Nodes : down'[n] => down[n]
    PROVE  IInv' /\ Justified
BY DEF IInv, NodeInv, ElectionInv, Justified, Promotion, TypeOK

\* The invariant, seen from the object and the election of one node that a
\* step changes, while the rest of the state stays.
LEMMA LocalStep ==
    ASSUME IInv, NEW n \in Nodes, NEW o \in RoleObject, NEW e \in ElectionRun,
           cur' = [cur EXCEPT ![n] = o], elec' = [elec EXCEPT ![n] = e],
           NEW t \in EventLog, told' = [told EXCEPT ![n] = t],
           ObjectInv(n, o), Tells(t, o.preNodes),
           o.role # "INITIALIZER" \/ e.on => ready[n] /\ ~down[n],
           e.on /\ e.accept => n \in Candidates,
           e.on /\ e.fresh => o.role = e.kind,
           faults' \in 0 .. MaxFaults, UNCHANGED <<ready, down, conn, net, part>>
    PROVE  IInv'
<1>1. TypeOK'
  BY DEF IInv, TypeOK, EventLog
<1>2. ASSUME NEW m \in Nodes PROVE NodeInv(m)'
  BY DEF IInv, TypeOK, NodeInv, ElectionInv
<1>3. QED  BY <1>1, <1>2 DEF IInv

\* Initializer::ProcTimer
LEMMA InitializerProcTimerStep ==
    ASSUME IInv, NEW n \in Nodes, InitializerProcTimer(n)
    PROVE  IInv' /\ Justified
<1> DEFINE o == [cur[n] EXCEPT !.due = FALSE]
           e == [on |-> TRUE, fresh |-> TRUE, kind |-> "INITIALIZER",
                 todo |-> conn[n], accept |-> TRUE]
<1>1. /\ cur[n] \in RoleObject /\ elec[n] \in ElectionRun
      /\ conn[n] \in SUBSET Nodes /\ NodeInv(n)
  BY DEF IInv, TypeOK
<1>2. /\ o \in RoleObject /\ o.role = cur[n].role /\ o.masterId = cur[n].masterId
      /\ o.standbyId = cur[n].standbyId /\ o.active = cur[n].active
      /\ o.preNodes = cur[n].preNodes
  BY <1>1 DEF RoleObject
<1>3. e \in ElectionRun /\ e.accept /\ e.on /\ e.fresh /\ e.kind = "INITIALIZER"
  BY <1>1 DEF ElectionRun
<1>4. cur' = [cur EXCEPT ![n] = o]  BY DEF InitializerProcTimer
<1>5. /\ told[n] \in EventLog /\ told' = [told EXCEPT ![n] = told[n]]
      /\ Tells(told[n], o.preNodes)
  BY <1>1, <1>2 DEF InitializerProcTimer, NodeInv, IInv, TypeOK, EventLog
<1>6. ObjectInv(n, o)  BY <1>1, <1>2 DEF NodeInv, ObjectInv
<1>7. Justified
  BY <1>2, <1>4 DEF Justified, Promotion, IInv, TypeOK, InitializerProcTimer
<1>8. CASE elec' = [elec EXCEPT ![n] = e] /\ n \in Candidates
  <2>1. /\ ready[n] /\ ~down[n] /\ o.role = e.kind
        /\ faults' \in 0 .. MaxFaults /\ UNCHANGED <<ready, down, conn, net, part>>
    BY <1>2, <1>3 DEF InitializerProcTimer, IInv, TypeOK
  <2> HIDE DEF o, e
  <2>2. IInv'
    BY <1>2, <1>3, <1>4, <1>5, <1>6, <1>8, <2>1, LocalStep
  <2>3. QED  BY <2>2, <1>7
<1>9. CASE elec' = elec
  <2>1. elec' = [elec EXCEPT ![n] = elec[n]]
    BY <1>9 DEF IInv, TypeOK
  <2> HIDE DEF o, e
  <2>2. IInv'
    BY <1>1, <1>2, <1>4, <1>5, <1>6, <2>1, LocalStep
       DEF InitializerProcTimer, IInv, TypeOK
  <2>3. QED  BY <2>2, <1>7
<1>10. QED  BY <1>8, <1>9 DEF InitializerProcTimer

\* Agent::ProcTimer
LEMMA AgentProcTimerStep ==
    ASSUME IInv, NEW n \in Nodes, AgentProcTimer(n)
    PROVE  IInv' /\ Justified
<1> DEFINE ask == n \in Candidates /\ ForceElection(n)
           e == [on |-> TRUE, fresh |-> TRUE, kind |-> "AGENT",
                 todo |-> IF ask THEN conn[n] ELSE {}, accept |-> ask]
<1>1. /\ cur[n] \in RoleObject /\ conn[n] \in SUBSET Nodes /\ NodeInv(n)
  BY DEF IInv, TypeOK
<1>2. /\ e \in ElectionRun /\ e.accept = ask /\ e.on /\ e.fresh
      /\ e.kind = "AGENT"
  BY <1>1 DEF ElectionRun
<1>3. elec' = [elec EXCEPT ![n] = e]  BY DEF AgentProcTimer
<1>4. cur' = [cur EXCEPT ![n] = cur[n]]
  BY DEF AgentProcTimer, IInv, TypeOK
<1>5. /\ told[n] \in EventLog /\ told' = [told EXCEPT ![n] = told[n]]
      /\ Tells(told[n], cur[n].preNodes)
  BY <1>1 DEF AgentProcTimer, NodeInv, IInv, TypeOK, EventLog
<1>6. Justified
  BY DEF Justified, Promotion, AgentProcTimer
<1>7. /\ ready[n] /\ ~down[n] /\ cur[n].role = e.kind /\ ObjectInv(n, cur[n])
      /\ faults' \in 0 .. MaxFaults /\ UNCHANGED <<ready, down, conn, net, part>>
  BY <1>1, <1>2 DEF AgentProcTimer, NodeInv, IInv, TypeOK
<1> HIDE DEF e
<1>8. IInv'
  BY <1>1, <1>2, <1>3, <1>4, <1>5, <1>7, LocalStep
<1>9. QED  BY <1>6, <1>8

\* SendElectionPkt
LEMMA SendElectionPktStep ==
    ASSUME IInv, NEW n \in Nodes, NEW d \in Nodes, SendElectionPkt(n, d)
    PROVE  IInv' /\ Justified
<1>1. /\ cur[n] \in RoleObject /\ elec[n] \in ElectionRun /\ NodeInv(n)
  BY DEF IInv, TypeOK
<1>2. faults' \in 0 .. MaxFaults
  BY FaultCount DEF SendElectionPkt, NoFault, IInv, TypeOK
<1>3. cur' = [cur EXCEPT ![n] = cur[n]]
  BY DEF SendElectionPkt, IInv, TypeOK
<1>4. /\ told[n] \in EventLog /\ told' = [told EXCEPT ![n] = told[n]]
      /\ Tells(told[n], cur[n].preNodes)
  BY <1>1 DEF SendElectionPkt, NodeInv, IInv, TypeOK, EventLog
<1>5. PICK e \in ElectionRun :
          /\ elec' = [elec EXCEPT ![n] = e]
          /\ e.on = elec[n].on /\ e.fresh = elec[n].fresh /\ e.kind = elec[n].kind
          /\ e.accept => elec[n].accept
  <2> DEFINE e1 == [elec[n] EXCEPT !.todo = elec[n].todo \ {d}]
             e2 == [elec[n] EXCEPT !.todo = {}, !.accept = FALSE]
  <2>1. e1 \in ElectionRun /\ e2 \in ElectionRun
    BY <1>1 DEF ElectionRun
  <2>2. /\ e1.on = elec[n].on /\ e1.fresh = elec[n].fresh
        /\ e1.kind = elec[n].kind /\ e1.accept = elec[n].accept
    BY <1>1 DEF ElectionRun
  <2>3. /\ e2.on = elec[n].on /\ e2.fresh = elec[n].fresh
        /\ e2.kind = elec[n].kind /\ ~e2.accept
    BY <1>1 DEF ElectionRun
  <2>4. elec' = [elec EXCEPT ![n] = e1] \/ elec' = [elec EXCEPT ![n] = e2]
    BY DEF SendElectionPkt, IInv, TypeOK
  <2>5. QED  BY <2>1, <2>2, <2>3, <2>4
<1>6. Justified
  BY DEF Justified, Promotion, SendElectionPkt
<1>7. IInv'
  BY <1>1, <1>2, <1>3, <1>4, <1>5, LocalStep
     DEF SendElectionPkt, IInv, TypeOK, NodeInv, ElectionInv
<1>8. QED  BY <1>6, <1>7

\* TrySwitchToMaster and the locked tail of Agent::ProcTimer: a promotion
\* needs a fresh election, whose kind is the role of the object.
LEMMA ElectionResultStep ==
    ASSUME IInv, NEW n \in Nodes, ElectionResult(n)
    PROVE  IInv' /\ Justified
<1> DEFINE switch == elec[n].fresh /\ (elec[n].accept \/ elec[n].kind = "AGENT")
           object == IF elec[n].accept THEN Master(n, cur[n].turnId)
                     ELSE Initializer
           o == IF switch THEN object ELSE cur[n]
           t == IF switch THEN NothingTold ELSE told[n]
<1>1. /\ cur[n] \in RoleObject /\ elec[n] \in ElectionRun /\ NodeInv(n)
      /\ ready[n] /\ ~down[n]
  BY DEF IInv, TypeOK, NodeInv, ElectionInv, ElectionResult
<1>2. cur[n].turnId \in Nat  BY <1>1 DEF RoleObject
<1>3. /\ object \in RoleObject /\ ObjectInv(n, object) /\ object.preNodes = {}
  BY <1>1, <1>2, MasterObject, InitializerObject
     DEF NodeInv, ElectionInv, ElectionResult
<1>4. /\ o \in RoleObject /\ ObjectInv(n, o)
  BY <1>1, <1>3 DEF NodeInv
<1>5. /\ cur' = [cur EXCEPT ![n] = o] /\ told' = [told EXCEPT ![n] = t]
      /\ t \in EventLog /\ Tells(t, o.preNodes)
  BY <1>1, <1>3, NothingIsTold DEF ElectionResult, NodeInv, IInv, TypeOK, EventLog
<1>6. /\ Idle \in ElectionRun /\ ~Idle.on /\ elec' = [elec EXCEPT ![n] = Idle]
      /\ faults' \in 0 .. MaxFaults /\ UNCHANGED <<ready, down, conn, net, part>>
  BY DEF ElectionResult, Idle, ElectionRun, IInv, TypeOK
<1>7. Justified
  <2>1. ASSUME NEW m \in Nodes, Promotion(m)
        PROVE  m = n /\ switch
    BY <2>1, <1>5 DEF Promotion, IInv, TypeOK
  <2>2. switch => cur[n].role = elec[n].kind
    BY <1>1 DEF NodeInv, ElectionInv, ElectionResult
  <2>3. elec[n].kind \in {"INITIALIZER", "AGENT"}  BY <1>1 DEF ElectionRun
  <2> HIDE DEF switch
  <2>4. QED  BY <1>1, <2>1, <2>2, <2>3 DEF Justified
<1> HIDE DEF o, t
<1>8. IInv'  BY <1>1, <1>4, <1>5, <1>6, LocalStep
<1>9. QED  BY <1>7, <1>8

\* Standby::ProcTimer
LEMMA StandbyProcTimerStep ==
    ASSUME IInv, NEW n \in Nodes, StandbyProcTimer(n)
    PROVE  IInv' /\ Justified
<1> DEFINE o == IF n \in Candidates THEN Master(n, cur[n].turnId + 1)
                ELSE Initializer
<1>1. cur[n] \in RoleObject /\ NodeInv(n) /\ cur[n].role = "STANDBY"
  BY DEF IInv, TypeOK, StandbyProcTimer
<1>2. cur[n].turnId + 1 \in Nat  BY <1>1 DEF RoleObject
<1>3. o \in RoleObject /\ ObjectInv(n, o) /\ o.preNodes = {}
  BY <1>2, MasterObject, InitializerObject
<1>4. /\ SwitchRole(n, o) /\ ready[n] /\ ~down[n]
      /\ UNCHANGED <<ready, down, conn, part>> /\ faults' \in 0 .. MaxFaults
      /\ net' \in [Nodes -> [Nodes -> HeartPkt]]
      /\ \A m \in Nodes : net'[m][m] = NoPkt
  BY <1>1 DEF StandbyProcTimer, IInv, TypeOK, NodeInv
<1> HIDE DEF o
<1>5. IInv'  BY <1>3, <1>4, SwitchRoleStep
<1>6. Justified
  BY <1>1, <1>4
     DEF Justified, Promotion, SwitchRole, StandbyProcTimer, IInv, TypeOK
<1>7. QED  BY <1>5, <1>6

\* RAS: the standby takes over.
LEMMA SwitchMasterFromStandbyStep ==
    ASSUME IInv, NEW n \in Nodes, SwitchMasterFromStandby(n)
    PROVE  IInv' /\ Justified
<1> DEFINE o == Master(n, cur[n].turnId + 1)
<1>1. cur[n] \in RoleObject /\ NodeInv(n) /\ cur[n].role = "STANDBY"
  BY DEF IInv, TypeOK, SwitchMasterFromStandby
<1>2. cur[n].turnId + 1 \in Nat  BY <1>1 DEF RoleObject
<1>3. o \in RoleObject /\ ObjectInv(n, o) /\ o.preNodes = {}
  BY <1>2, MasterObject DEF SwitchMasterFromStandby
<1>4. faults' \in 0 .. MaxFaults /\ faults' # faults
  BY FaultCount DEF SwitchMasterFromStandby, IInv
<1>5. /\ SwitchRole(n, o) /\ ready[n] /\ ~down[n]
      /\ UNCHANGED <<ready, down, conn, part>>
      /\ net' \in [Nodes -> [Nodes -> HeartPkt]]
      /\ \A m \in Nodes : net'[m][m] = NoPkt
  BY <1>1 DEF SwitchMasterFromStandby, IInv, TypeOK, NodeInv
<1> HIDE DEF o
<1>6. IInv'  BY <1>3, <1>4, <1>5, SwitchRoleStep
<1>7. Justified
  BY <1>1, <1>4, <1>5 DEF Justified, Promotion, SwitchRole, IInv, TypeOK
<1>8. QED  BY <1>6, <1>7

\* RAS: the master becomes an agent of its standby, which is another node.
LEMMA SwitchAgentFromMasterStep ==
    ASSUME IInv, NEW n \in Nodes, SwitchAgentFromMaster(n)
    PROVE  IInv' /\ Justified
<1> DEFINE o == Agent(cur[n].standbyId, INVALID_NODE_ID)
<1>1. cur[n] \in RoleObject /\ NodeInv(n) /\ cur[n].role = "MASTER"
  BY DEF IInv, TypeOK, SwitchAgentFromMaster
<1>2. cur[n].standbyId \in NodesOrNone /\ cur[n].standbyId # n
  BY <1>1 DEF RoleObject, NodeInv, ObjectInv
<1>3. /\ o \in RoleObject /\ ObjectInv(n, o) /\ o.preNodes = {}
      /\ o.role = "AGENT"
  BY <1>2, AgentObject DEF NodesOrNone
<1>4. faults' \in 0 .. MaxFaults
  BY FaultCount DEF SwitchAgentFromMaster, IInv
<1>5. /\ SwitchRole(n, o) /\ ready[n] /\ ~down[n]
      /\ UNCHANGED <<ready, down, conn, part>>
      /\ net' = [net EXCEPT ![n] = Detached(@)]
  BY <1>1 DEF SwitchAgentFromMaster, NodeInv
<1>6. /\ net' \in [Nodes -> [Nodes -> HeartPkt]]
      /\ \A m \in Nodes : net'[m][m] = NoPkt
  BY <1>5, DetachedNet
<1> HIDE DEF o
<1>7. IInv'  BY <1>3, <1>4, <1>5, <1>6, SwitchRoleStep
<1>8. Justified
  BY <1>3, <1>5 DEF Justified, Promotion, SwitchRole, IInv, TypeOK
<1>9. QED  BY <1>7, <1>8

\* Master::ProcTimer: the standby it appoints is another node, and the events
\* it sends bring the subscribers from the old preNodes_ to the new one.
LEMMA MasterProcTimerStep ==
    ASSUME IInv, NEW n \in Nodes, MasterProcTimer(n)
    PROVE  IInv' /\ Justified
<1> DEFINE a == AppointStandby(n)
           r == ReplaceStandbyNode(n, a)
           pkt == PrepareElectionPkt(n)
           loss == DealHbCnt(n)
           lost == {d \in conn[n] : loss[d] > HbLost}
           active == cur[n].active \ lost
           o == [cur[n] EXCEPT !.due = FALSE, !.standbyId = pkt.standbyId,
                               !.loss = loss, !.active = active,
                               !.preNodes = active]
           links == [d \in Nodes |-> IF d \in conn[n] THEN pkt ELSE net[n][d]]
           t == DealNodeUpdate(told[n], cur[n].preNodes, active)
<1>1. /\ cur[n] \in RoleObject /\ NodeInv(n) /\ cur[n].role = "MASTER"
      /\ n \notin conn[n] /\ net[n] \in [Nodes -> HeartPkt]
  BY DEF IInv, TypeOK, NodeInv, MasterProcTimer
<1>2. /\ cur[n].standbyId \in NodesOrNone /\ cur[n].standbyId # n
      /\ cur[n].active \in SUBSET Nodes /\ cur[n].preNodes \in SUBSET Nodes
      /\ cur[n].turnId \in Nat /\ cur[n].loss \in [Nodes -> 0 .. HbLost + 1]
      /\ n \notin cur[n].active /\ n \in Candidates /\ cur[n].masterId = n
  BY <1>1 DEF RoleObject, NodeInv, ObjectInv
<1>3. a \in NodesOrNone /\ a # n
  <2>1. cur[n].active \ {n} \subseteq Nodes  BY <1>2
  <2>2. \/ Smallest(cur[n].active \ {n}) \in cur[n].active \ {n}
        \/ Smallest(cur[n].active \ {n}) = INVALID_NODE_ID
    BY <2>1, SmallestMember
  <2>3. QED  BY <1>2, <2>1, <2>2, Numbers DEF AppointStandby, NodesOrNone
<1>4. r \in NodesOrNone /\ r # n
  <2>1. cur[n].active \ {n, a} \subseteq Nodes  BY <1>2
  <2>2. \/ Smallest(cur[n].active \ {n, a}) \in cur[n].active \ {n, a}
        \/ Smallest(cur[n].active \ {n, a}) = INVALID_NODE_ID
    BY <2>1, SmallestMember
  <2> HIDE DEF a
  <2>3. QED  BY <1>3, <2>1, <2>2, Numbers DEF ReplaceStandbyNode, NodesOrNone
<1>5. pkt \in HeartPkt /\ pkt.standbyId = r
  <2>1. GetAllAgentIDs(n, a) \in SUBSET Nodes  BY <1>2 DEF GetAllAgentIDs
  <2>2. pkt = [standbyId |-> r, turnId |-> cur[n].turnId,
               agentIds |-> GetAllAgentIDs(n, a), live |-> TRUE]
    BY DEF PrepareElectionPkt
  <2> HIDE DEF r, a, pkt
  <2>3. QED  BY <1>2, <1>4, <2>1, <2>2 DEF HeartPkt
<1>6. loss \in [Nodes -> 0 .. HbLost + 1]
  <2>1. ASSUME NEW d \in Nodes
        PROVE  cur[n].loss[d] <= HbLost => cur[n].loss[d] + 1 \in 0 .. HbLost + 1
    BY <1>2, Numbers
  <2>2. QED  BY <1>2, <2>1 DEF DealHbCnt
<1>7. active \in SUBSET Nodes /\ n \notin active  BY <1>2
<1>8. /\ o \in RoleObject /\ o.role = "MASTER" /\ o.masterId = n
      /\ o.standbyId = r /\ o.active = active /\ o.preNodes = active
  <2> HIDE DEF r, a, pkt, loss, active
  <2>1. QED  BY <1>1, <1>2, <1>4, <1>5, <1>6, <1>7 DEF RoleObject
<1>9. ObjectInv(n, o)
  <2> HIDE DEF o, r, active
  <2>1. QED  BY <1>2, <1>4, <1>7, <1>8 DEF ObjectInv
<1>10. links \in [Nodes -> HeartPkt] /\ links[n] = net[n][n]
  <2> HIDE DEF pkt
  <2>1. QED  BY <1>1, <1>5
<1>11. /\ net' = [net EXCEPT ![n] = links] /\ cur' = [cur EXCEPT ![n] = o]
       /\ UNCHANGED <<elec, ready, down, conn, part, faults>>
  BY DEF MasterProcTimer
<1>12. /\ told' = [told EXCEPT ![n] = t]
       /\ t \in EventLog /\ Tells(t, o.preNodes)
  <2>1. told[n] \in EventLog /\ Tells(told[n], cur[n].preNodes)
    BY <1>1 DEF NodeInv, IInv, TypeOK, EventLog
  <2>2. told' = [told EXCEPT ![n] = t]  BY DEF MasterProcTimer
  <2> HIDE DEF active, o
  <2>3. QED  BY <1>8, <2>1, <2>2, NodeUpdateTells
<1> HIDE DEF o, t, links, r, a, pkt, loss, active
<1>13. /\ net' \in [Nodes -> [Nodes -> HeartPkt]]
       /\ \A m \in Nodes : net'[m][m] = NoPkt
  BY <1>10, <1>11 DEF IInv, TypeOK, NodeInv
<1>14. TypeOK'
  BY <1>8, <1>11, <1>12, <1>13 DEF IInv, TypeOK, EventLog
<1>15. ASSUME NEW m \in Nodes PROVE NodeInv(m)'
  BY <1>1, <1>8, <1>9, <1>11, <1>12, <1>13
     DEF IInv, TypeOK, NodeInv, ElectionInv
<1>16. Justified
  BY <1>1, <1>11 DEF Justified, Promotion, IInv, TypeOK
<1>17. QED  BY <1>14, <1>15, <1>16 DEF IInv

\* The answer to a HEART: the receiver's new object and the sender's view.
LEMMA AnswerStep ==
    ASSUME IInv, NEW s \in Nodes, NEW d \in Nodes, NEW object \in RoleObject,
           NEW switch \in BOOLEAN, NEW accept \in BOOLEAN,
           Answer(s, d, object, switch, accept), ObjectInv(d, object),
           switch => object.preNodes = {} /\ ready[d],
           ~switch => /\ object.role = cur[d].role
                      /\ object.preNodes = cur[d].preNodes,
           cur[d].role # "MASTER" => object.role # "MASTER",
           conn' \in [Nodes -> SUBSET Nodes], \A n \in Nodes : n \notin conn'[n]
    PROVE  IInv' /\ Justified
<1> DEFINE allowed  == s \in Candidates
           o        == IF allowed THEN object ELSE cur[d]
           replaced == allowed /\ switch
           heard    == allowed /\ accept /\ net[s][d].live
<1>1. /\ net[s][d] # NoPkt /\ ~down[d] /\ UNCHANGED <<ready, down, part>>
      /\ elec' = IF replaced THEN [elec EXCEPT ![d].fresh = FALSE] ELSE elec
      /\ told' = IF replaced THEN [told EXCEPT ![d] = NothingTold] ELSE told
      /\ net' = IF replaced THEN [Received(s, d) EXCEPT ![d] = Detached(@)]
                ELSE Received(s, d)
  BY DEF Answer
<1>2. s # d /\ cur[s] \in RoleObject /\ cur[d] \in RoleObject
  BY <1>1 DEF IInv, TypeOK, NodeInv
<1>3. PICK p \in RoleObject :
          /\ cur' = [cur EXCEPT ![d] = o, ![s] = p]
          /\ p.role = cur[s].role /\ p.masterId = cur[s].masterId
          /\ p.standbyId = cur[s].standbyId /\ p.preNodes = cur[s].preNodes
          /\ p.active \subseteq cur[s].active \cup {d}
  <2>1. ASSUME NEW c \in {0, 1}
        PROVE  /\ Heard(s, d, c) \in RoleObject
               /\ Heard(s, d, c).role = cur[s].role
               /\ Heard(s, d, c).masterId = cur[s].masterId
               /\ Heard(s, d, c).standbyId = cur[s].standbyId
               /\ Heard(s, d, c).preNodes = cur[s].preNodes
               /\ Heard(s, d, c).active = cur[s].active \cup {d}
    <3> DEFINE l == [cur[s].loss EXCEPT ![d] = c]
               v == cur[s].active \cup {d}
    <3>1. l \in [Nodes -> 0 .. HbLost + 1] /\ v \in SUBSET Nodes
      BY <1>2, Numbers DEF RoleObject
    <3>2. Heard(s, d, c) = [cur[s] EXCEPT !.loss = l, !.active = v]
      BY DEF Heard
    <3> HIDE DEF l
    <3>3. QED  BY <1>2, <3>1, <3>2 DEF RoleObject
  <2>2. \/ cur' = [cur EXCEPT ![d] = o, ![s] = IF heard THEN Heard(s, d, 0) ELSE @]
        \/ cur' = [cur EXCEPT ![d] = o, ![s] = Heard(s, d, 1)]
        \/ cur' = [cur EXCEPT ![d] = o]
    BY DEF Answer
  <2> HIDE DEF o, heard
  <2>3. \/ \E c \in {0, 1} : cur' = [cur EXCEPT ![d] = o, ![s] = Heard(s, d, c)]
        \/ cur' = [cur EXCEPT ![d] = o, ![s] = cur[s]]
    BY <1>2, <2>2 DEF IInv, TypeOK
  <2>4. QED  BY <1>2, <2>1, <2>3
<1>4. /\ o \in RoleObject /\ ObjectInv(d, o)
      /\ replaced => o.preNodes = {} /\ ready[d]
      /\ ~replaced => o.role = cur[d].role /\ o.preNodes = cur[d].preNodes
      /\ cur[d].role # "MASTER" => o.role # "MASTER"
  BY <1>2 DEF IInv, NodeInv
<1> HIDE DEF o, replaced, heard
<1>5. faults' \in 0 .. MaxFaults
  BY FaultCount DEF Answer, NoFault, IInv, TypeOK
<1>6. /\ Received(s, d) \in [Nodes -> [Nodes -> HeartPkt]]
      /\ \A m \in Nodes : Received(s, d)[m][m] = NoPkt
  <2>1. NoPkt \in HeartPkt
    BY Numbers DEF NoPkt, HeartPkt, NodesOrNone
  <2>2. QED  BY <1>2, <2>1 DEF Received, IInv, TypeOK, NodeInv
<1>7. /\ net' \in [Nodes -> [Nodes -> HeartPkt]]
      /\ \A m \in Nodes : net'[m][m] = NoPkt
  <2> DEFINE R == Received(s, d)
  <2>1. /\ Detached(R[d]) \in [Nodes -> HeartPkt] /\ Detached(R[d])[d] = NoPkt
    BY <1>6, DetachedLinks
  <2>2. net' = [R EXCEPT ![d] = Detached(R[d])] \/ net' = R
    BY <1>1
  <2> HIDE DEF R
  <2>3. R \in [Nodes -> [Nodes -> HeartPkt]] /\ \A m \in Nodes : R[m][m] = NoPkt
    BY <1>6 DEF R
  <2>4. QED  BY <2>1, <2>2, <2>3
<1>8. /\ elec' \in [Nodes -> ElectionRun]
      /\ replaced => ~elec'[d].fresh
      /\ elec'[d].on = elec[d].on /\ elec'[d].accept = elec[d].accept
      /\ ~replaced => elec' = elec
      /\ \A m \in Nodes \ {d} : elec'[m] = elec[m]
  BY <1>1, StaleElection DEF IInv, TypeOK
<1>9. TypeOK'
  <2>1. told' \in [Nodes -> [Nodes -> Seq(EventTypes)]]
    BY <1>1, NothingIsTold DEF IInv, TypeOK, EventLog
  <2>2. QED
    BY <1>1, <1>2, <1>3, <1>4, <1>5, <1>7, <1>8, <2>1 DEF IInv, TypeOK
<1>10. ASSUME NEW m \in Nodes PROVE NodeInv(m)'
  <2>1. NodeInv(m)  BY DEF IInv
  <2>2. CASE m = d
    <3>1. cur'[d] = o  BY <1>2, <1>3 DEF IInv, TypeOK
    <3>2. Tells(told'[d], o.preNodes)
      BY <1>1, <1>4, <2>1, <2>2, NothingIsTold DEF IInv, TypeOK, NodeInv
    <3>3. ElectionInv(d)'
      BY <1>1, <1>4, <1>8, <2>1, <2>2, <3>1 DEF NodeInv, ElectionInv
    <3>4. QED
      BY <1>1, <1>4, <1>7, <2>1, <2>2, <3>1, <3>2, <3>3 DEF NodeInv
  <2>3. CASE m = s
    <3>1. cur'[s] = p  BY <1>2, <1>3 DEF IInv, TypeOK
    <3>2. ObjectInv(s, p)
      BY <1>2, <1>3, <2>1, <2>3 DEF NodeInv, ObjectInv
    <3>3. told'[s] = told[s] /\ elec'[s] = elec[s]
      BY <1>1, <1>2, <1>8 DEF IInv, TypeOK
    <3>4. QED
      BY <1>1, <1>3, <1>7, <2>1, <2>3, <3>1, <3>2, <3>3
         DEF NodeInv, ElectionInv
  <2>4. CASE m # d /\ m # s
    <3>1. cur'[m] = cur[m] /\ told'[m] = told[m] /\ elec'[m] = elec[m]
      BY <1>1, <1>3, <1>8, <2>4 DEF IInv, TypeOK
    <3>2. QED  BY <1>1, <1>7, <2>1, <3>1 DEF NodeInv, ElectionInv
  <2>5. QED  BY <2>2, <2>3, <2>4
<1>11. Justified
  BY <1>2, <1>3, <1>4 DEF Justified, Promotion, IInv, TypeOK
<1>12. QED  BY <1>9, <1>10, <1>11 DEF IInv

\* What every HEART handler starts from.
LEMMA PacketFacts ==
    ASSUME IInv, NEW s \in Nodes, NEW d \in Nodes, net[s][d] # NoPkt
    PROVE  /\ s # d /\ cur[d] \in RoleObject /\ NodeInv(d)
           /\ net[s][d].standbyId \in NodesOrNone /\ net[s][d].turnId \in Nat
           /\ conn \in [Nodes -> SUBSET Nodes]
           /\ \A n \in Nodes : n \notin conn[n]
<1>1. net[s][d] \in HeartPkt  BY DEF IInv, TypeOK
<1>2. QED  BY <1>1 DEF IInv, TypeOK, NodeInv, HeartPkt

\* Initializer::RecvPkt
LEMMA InitializerRecvHeartStep ==
    ASSUME IInv, NEW s \in Nodes, NEW d \in Nodes, InitializerRecvHeart(s, d)
    PROVE  IInv' /\ Justified
<1> DEFINE adopt == ready[d]
           o == IF adopt THEN Follow(d, s, net[s][d]) ELSE cur[d]
<1>1. /\ net[s][d] # NoPkt /\ Answer(s, d, o, adopt, adopt)
      /\ cur[d].role = "INITIALIZER" /\ conn' = conn
  BY DEF InitializerRecvHeart, Answer
<1>2. adopt \in BOOLEAN  BY DEF IInv, TypeOK
<1>3. /\ o \in RoleObject /\ ObjectInv(d, o) /\ o.role # "MASTER"
      /\ adopt => o.preNodes = {}
      /\ ~adopt => o = cur[d]
  BY <1>1, PacketFacts, StandbyObject, AgentObject
     DEF Follow, NodeInv, NodesOrNone
<1> HIDE DEF o, adopt
<1>4. adopt => ready[d]  BY DEF adopt
<1>5. QED  BY <1>1, <1>2, <1>3, <1>4, PacketFacts, AnswerStep

\* Agent::RecvPktForHeart from the own master
LEMMA AgentRecvHeartStep ==
    ASSUME IInv, NEW s \in Nodes, NEW d \in Nodes, AgentRecvHeart(s, d)
    PROVE  IInv' /\ Justified
<1> DEFINE pkt == net[s][d]
           toStandby == pkt.standbyId = d
           turn == IF cur[d].turnId < pkt.turnId THEN pkt.turnId ELSE cur[d].turnId
           refreshed == [cur[d] EXCEPT !.age = 0, !.standbyId = pkt.standbyId,
                             !.turnId = IF @ < pkt.turnId THEN pkt.turnId ELSE @]
           o == IF toStandby THEN Standby(d, s, pkt.turnId) ELSE refreshed
<1>1. /\ net[s][d] # NoPkt /\ Answer(s, d, o, toStandby, TRUE)
      /\ cur[d].role = "AGENT"
      /\ \E cut : conn' = [conn EXCEPT ![d] = conn[d] \ cut]
  BY DEF AgentRecvHeart, Answer
<1>2. /\ s # d /\ cur[d] \in RoleObject /\ NodeInv(d)
      /\ pkt.standbyId \in NodesOrNone /\ pkt.turnId \in Nat
      /\ ready[d] /\ 0 \in 0 .. MaxAge
  BY <1>1, PacketFacts, Numbers DEF NodeInv
<1>3. turn \in Nat  BY <1>2 DEF RoleObject
<1>4. refreshed = [cur[d] EXCEPT !.age = 0, !.standbyId = pkt.standbyId,
                                 !.turnId = turn]
  BY <1>2 DEF RoleObject
<1>5. /\ refreshed \in RoleObject /\ refreshed.role = cur[d].role
      /\ refreshed.masterId = cur[d].masterId
      /\ refreshed.active = cur[d].active
      /\ refreshed.preNodes = cur[d].preNodes
  <2> HIDE DEF turn, pkt, refreshed
  <2>1. QED  BY <1>2, <1>3, <1>4 DEF RoleObject
<1>6. ObjectInv(d, refreshed)
  <2> HIDE DEF refreshed
  <2>1. QED  BY <1>1, <1>2, <1>5 DEF NodeInv, ObjectInv
<1>7. /\ conn' \in [Nodes -> SUBSET Nodes] /\ \A n \in Nodes : n \notin conn'[n]
  BY <1>1, PacketFacts
<1> HIDE DEF refreshed, pkt, turn
<1>8. /\ o \in RoleObject /\ ObjectInv(d, o) /\ o.role # "MASTER"
      /\ toStandby => o.preNodes = {}
      /\ ~toStandby => o.role = cur[d].role /\ o.preNodes = cur[d].preNodes
  BY <1>1, <1>2, <1>5, <1>6, StandbyObject
<1> HIDE DEF o
<1>9. toStandby \in BOOLEAN  OBVIOUS
<1> HIDE DEF toStandby
<1>10. QED  BY <1>1, <1>2, <1>7, <1>8, <1>9, AnswerStep

\* Agent::HandleMasterChange
LEMMA AgentHandleMasterChangeStep ==
    ASSUME IInv, NEW s \in Nodes, NEW d \in Nodes, AgentHandleMasterChange(s, d)
    PROVE  IInv' /\ Justified
<1> DEFINE accept == IsHeartBeatTimeout(d, AcceptMasterAfterLoss)
           pkt == net[s][d]
           changed == [cur[d] EXCEPT !.masterId = s, !.age = 0,
                                     !.standbyId = pkt.standbyId,
                                     !.turnId = pkt.turnId]
           o == IF accept THEN changed ELSE cur[d]
<1>1. /\ net[s][d] # NoPkt /\ Answer(s, d, o, FALSE, accept)
      /\ cur[d].role = "AGENT" /\ conn' = conn
  BY DEF AgentHandleMasterChange, Answer
<1>2. /\ s # d /\ cur[d] \in RoleObject /\ NodeInv(d)
      /\ pkt.standbyId \in NodesOrNone /\ pkt.turnId \in Nat
      /\ 0 \in 0 .. MaxAge
  BY <1>1, PacketFacts, Numbers
<1>3. /\ changed \in RoleObject /\ changed.role = cur[d].role
      /\ changed.masterId = s /\ changed.active = cur[d].active
      /\ changed.preNodes = cur[d].preNodes
  <2> HIDE DEF pkt
  <2>1. s \in NodesOrNone  BY DEF NodesOrNone
  <2>2. QED  BY <1>2, <2>1 DEF RoleObject
<1> HIDE DEF changed
<1>4. /\ o \in RoleObject /\ ObjectInv(d, o) /\ o.role = cur[d].role
      /\ o.preNodes = cur[d].preNodes
  BY <1>1, <1>2, <1>3 DEF NodeInv, ObjectInv
<1>5. accept \in BOOLEAN  BY DEF IsHeartBeatTimeout
<1> HIDE DEF o, accept
<1>6. QED  BY <1>1, <1>2, <1>4, <1>5, PacketFacts, AnswerStep

\* Standby::RecvPktForHeart
LEMMA StandbyRecvHeartStep ==
    ASSUME IInv, NEW s \in Nodes, NEW d \in Nodes, StandbyRecvHeart(s, d)
    PROVE  IInv' /\ Justified
<1> DEFINE pkt == net[s][d]
           mine == cur[d].masterId = s
           accept == mine \/ IsHeartBeatTimeout(d, AcceptMasterAfterLoss)
           stay == mine /\ pkt.standbyId = d
           kept == [cur[d] EXCEPT !.age = 0, !.turnId = pkt.turnId]
           o == IF ~accept THEN cur[d] ELSE IF stay THEN kept
                ELSE Agent(s, pkt.standbyId)
           switch == accept /\ ~stay
<1>1. /\ net[s][d] # NoPkt /\ Answer(s, d, o, switch, accept)
      /\ cur[d].role = "STANDBY" /\ conn' = conn
  BY DEF StandbyRecvHeart, Answer
<1>2. /\ s # d /\ cur[d] \in RoleObject /\ NodeInv(d)
      /\ pkt.standbyId \in NodesOrNone /\ pkt.turnId \in Nat
      /\ 0 \in 0 .. MaxAge /\ ready[d]
  BY <1>1, PacketFacts, Numbers DEF NodeInv
<1>3. /\ kept \in RoleObject /\ kept.role = cur[d].role
      /\ kept.masterId = cur[d].masterId /\ kept.active = cur[d].active
      /\ kept.preNodes = cur[d].preNodes
  <2> HIDE DEF pkt
  <2>1. QED  BY <1>2 DEF RoleObject
<1> HIDE DEF kept
<1>4. ObjectInv(d, kept)  BY <1>1, <1>2, <1>3 DEF NodeInv, ObjectInv
<1>5. /\ o \in RoleObject /\ ObjectInv(d, o) /\ o.role # "MASTER"
      /\ switch => o.preNodes = {}
      /\ ~switch => o.role = cur[d].role /\ o.preNodes = cur[d].preNodes
  BY <1>1, <1>2, <1>3, <1>4, AgentObject DEF NodeInv, NodesOrNone
<1>6. accept \in BOOLEAN /\ switch \in BOOLEAN  BY DEF IsHeartBeatTimeout
<1> HIDE DEF o, accept, switch
<1>7. QED  BY <1>1, <1>2, <1>5, <1>6, PacketFacts, AnswerStep

\* Master::RecvPktHeart
LEMMA MasterRecvHeartStep ==
    ASSUME IInv, NEW s \in Nodes, NEW d \in Nodes, MasterRecvHeart(s, d)
    PROVE  IInv' /\ Justified
<1> DEFINE pkt == net[s][d]
           yields == Yields(d, OwnCount(d), cur[d].turnId,
                            s, PktCount(pkt), pkt.turnId, Cardinality(Nodes))
           byId == OwnCount(d) = PktCount(pkt) /\ pkt.turnId = cur[d].turnId
           o == IF ~yields THEN cur[d]
                ELSE IF byId THEN Agent(s, pkt.standbyId)
                ELSE IF pkt.standbyId = d THEN Standby(d, s, pkt.turnId)
                ELSE Agent(s, INVALID_NODE_ID)
<1>1. /\ net[s][d] # NoPkt /\ Answer(s, d, o, yields, yields)
      /\ cur[d].role = "MASTER" /\ conn' = conn
  BY DEF MasterRecvHeart, Answer
<1>2. /\ s # d /\ cur[d] \in RoleObject /\ NodeInv(d)
      /\ pkt.standbyId \in NodesOrNone /\ pkt.turnId \in Nat /\ ready[d]
  BY <1>1, PacketFacts DEF NodeInv
<1>3. yields \in BOOLEAN  BY DEF Yields
<1> HIDE DEF yields, byId, pkt
<1>4. /\ o \in RoleObject /\ ObjectInv(d, o)
      /\ yields => o.preNodes = {}
      /\ ~yields => o = cur[d]
  BY <1>2, AgentObject, StandbyObject DEF NodeInv, NodesOrNone
<1> HIDE DEF o
<1>5. QED  BY <1>1, <1>2, <1>3, <1>4, PacketFacts, AnswerStep

\* A broken link: SetNodeDownStatus and its NODE_DOWN event agree.
LEMMA LinkDownStep ==
    ASSUME IInv, NEW n \in Nodes, NEW d \in Nodes, LinkDown(n, d)
    PROVE  IInv' /\ Justified
<1> DEFINE b == IF cur[n].standbyId = d THEN INVALID_NODE_ID ELSE cur[n].standbyId
           q == IF d \in cur[n].active THEN cur[n].preNodes \ {d}
                ELSE cur[n].preNodes
           o == [cur[n] EXCEPT !.active = cur[n].active \ {d}, !.standbyId = b,
                               !.preNodes = q]
           t == IF d \in cur[n].active
                THEN [told[n] EXCEPT ![d] = Append(@, "NODE_DOWN")] ELSE told[n]
<1>1. cur[n] \in RoleObject /\ NodeInv(n)  BY DEF IInv, TypeOK
<1>2. faults' \in 0 .. MaxFaults
  BY FaultCount DEF LinkDown, NoFault, IInv, TypeOK
<1>3. /\ conn' \in [Nodes -> SUBSET Nodes] /\ \A m \in Nodes : m \notin conn'[m]
      /\ UNCHANGED <<elec, ready, down, net, part>>
  BY DEF LinkDown, IInv, TypeOK, NodeInv
<1>4. CASE cur[n].role = "MASTER"
  <2>1. /\ cur[n].standbyId \in NodesOrNone /\ cur[n].standbyId # n
        /\ cur[n].active \in SUBSET Nodes /\ cur[n].preNodes \in SUBSET Nodes
        /\ n \notin cur[n].active /\ n \in Candidates /\ cur[n].masterId = n
    BY <1>1, <1>4 DEF RoleObject, NodeInv, ObjectInv
  <2>2. b \in NodesOrNone /\ b # n /\ q \in SUBSET Nodes
    BY <2>1, Numbers DEF NodesOrNone
  <2>3. /\ cur' = [cur EXCEPT ![n] = o]
        /\ told' = [told EXCEPT ![n] = t]
    <3>1. told = [told EXCEPT ![n] = told[n]]  BY DEF IInv, TypeOK
    <3>2. told' = IF d \in cur[n].active
                  THEN [told EXCEPT ![n] = [told[n] EXCEPT ![d] = Append(@, "NODE_DOWN")]]
                  ELSE told
      BY <1>4 DEF LinkDown, SetNodeDownStatus
    <3>3. QED  BY <1>4, <3>1, <3>2 DEF LinkDown, SetNodeDownStatus
  <2>4. /\ o \in RoleObject /\ o.role = "MASTER" /\ o.masterId = n
        /\ o.standbyId = b /\ o.active = cur[n].active \ {d} /\ o.preNodes = q
    <3> HIDE DEF b, q
    <3>1. QED  BY <1>1, <1>4, <2>1, <2>2 DEF RoleObject
  <2>5. t \in EventLog /\ Tells(t, o.preNodes)
    <3>1. told[n] \in EventLog /\ Tells(told[n], cur[n].preNodes)
      BY <1>1 DEF NodeInv, IInv, TypeOK, EventLog
    <3>2. CASE d \in cur[n].active
      <4>1. t = [told[n] EXCEPT ![d] = Append(@, "NODE_DOWN")] /\ o.preNodes = cur[n].preNodes \ {d}
        BY <2>4, <3>2
      <4>2. t = [told[n] EXCEPT ![d] = Append(told[n][d], "NODE_DOWN")]
        BY <3>1, <4>1 DEF EventLog
      <4>3. /\ [told[n] EXCEPT ![d] = Append(told[n][d], "NODE_DOWN")] \in EventLog
            /\ Tells([told[n] EXCEPT ![d] = Append(told[n][d], "NODE_DOWN")],
                     cur[n].preNodes \ {d})
        BY <3>1, NodeDownTells
      <4> HIDE DEF t, o
      <4>4. QED  BY <4>1, <4>2, <4>3
    <3>3. CASE d \notin cur[n].active
      <4>1. t = told[n] /\ o.preNodes = cur[n].preNodes  BY <2>4, <3>3
      <4>2. QED  BY <3>1, <4>1
    <3>4. QED  BY <3>2, <3>3
  <2> HIDE DEF b, q, o, t
  <2>6. ObjectInv(n, o)  BY <2>1, <2>2, <2>4 DEF ObjectInv
  <2>7. TypeOK'
    BY <1>2, <1>3, <2>2, <2>3, <2>4, <2>5 DEF IInv, TypeOK, EventLog
  <2>8. ASSUME NEW m \in Nodes PROVE NodeInv(m)'
    <3>1. NodeInv(m)  BY DEF IInv
    <3>2. CASE m = n
      <4>1. cur'[n] = o /\ told'[n] = t
        BY <2>3, <2>5 DEF IInv, TypeOK
      <4>2. QED
        BY <1>3, <1>4, <2>4, <2>5, <2>6, <3>1, <3>2, <4>1 DEF NodeInv, ElectionInv
    <3>3. CASE m # n
      <4>1. cur'[m] = cur[m] /\ told'[m] = told[m]
        BY <2>3, <2>5, <3>3 DEF IInv, TypeOK
      <4>2. QED  BY <1>3, <3>1, <4>1 DEF NodeInv, ElectionInv
    <3>4. QED  BY <3>2, <3>3
  <2>9. Justified
    BY <1>4, <2>3 DEF Justified, Promotion, IInv, TypeOK
  <2>10. QED  BY <2>7, <2>8, <2>9 DEF IInv
<1>5. CASE cur[n].role # "MASTER"
  <2>1. UNCHANGED <<cur, told>>  BY <1>5 DEF LinkDown
  <2>2. TypeOK'  BY <1>2, <1>3, <2>1 DEF IInv, TypeOK
  <2>3. QED  BY <1>3, <2>1, <2>2, QuietStep
<1>6. QED  BY <1>4, <1>5

\* A crash leaves a fresh Initializer behind.
LEMMA CrashStep ==
    ASSUME IInv, NEW n \in Nodes, Crash(n)
    PROVE  IInv' /\ Justified
<1>1. faults' \in 0 .. MaxFaults  BY FaultCount DEF Crash, IInv
<1>2. /\ net' \in [Nodes -> [Nodes -> HeartPkt]]
      /\ \A m \in Nodes : net'[m][m] = NoPkt
  BY DetachedNet DEF Crash
<1>3. Idle \in ElectionRun /\ ~Idle.on  BY DEF Idle, ElectionRun
<1>4. TypeOK'
  BY <1>1, <1>2, <1>3, InitializerObject, NothingIsTold
     DEF Crash, IInv, TypeOK, EventLog
<1>5. ASSUME NEW m \in Nodes PROVE NodeInv(m)'
  BY <1>2, <1>3, InitializerObject, NothingIsTold
     DEF Crash, IInv, TypeOK, NodeInv, ElectionInv
<1>6. Justified
  BY InitializerObject DEF Crash, Justified, Promotion, IInv, TypeOK
<1>7. QED  BY <1>4, <1>5, <1>6 DEF IInv

\* Time passes.
LEMMA TickStep ==
    ASSUME IInv, Tick
    PROVE  IInv' /\ Justified
<1>1. faults' \in 0 .. MaxFaults
  BY FaultCount DEF Tick, NoFault, IInv, TypeOK
<1>2. ASSUME NEW n \in Nodes
      PROVE  /\ cur'[n] \in RoleObject /\ cur'[n].role = cur[n].role
             /\ cur'[n].masterId = cur[n].masterId
             /\ cur'[n].standbyId = cur[n].standbyId
             /\ cur'[n].active = cur[n].active
             /\ cur'[n].preNodes = cur[n].preNodes
  <2> DEFINE a == IF cur[n].role = "MASTER" \/ ~ready[n] \/ cur[n].age = MaxAge
                  THEN cur[n].age ELSE cur[n].age + 1
             u == cur[n].role \in {"MASTER", "INITIALIZER"} \/ cur[n].due
  <2>1. cur[n] \in RoleObject  BY DEF IInv, TypeOK
  <2>2. a \in 0 .. MaxAge  BY <2>1, Numbers DEF RoleObject
  <2>3. u \in BOOLEAN  OBVIOUS
  <2>4. cur'[n] = [cur[n] EXCEPT !.age = a, !.due = u]
    BY DEF Tick, Older
  <2> HIDE DEF a, u
  <2>5. QED  BY <2>1, <2>2, <2>3, <2>4 DEF RoleObject
<1>3. TypeOK'  BY <1>1, <1>2 DEF Tick, IInv, TypeOK
<1>4. ASSUME NEW n \in Nodes PROVE NodeInv(n)'
  BY <1>2 DEF Tick, IInv, NodeInv, ObjectInv, ElectionInv
<1>5. Justified  BY <1>2 DEF Justified, Promotion
<1>6. QED  BY <1>3, <1>4, <1>5 DEF IInv

\* Connections, restores, restarts and partitions change no role object.
LEMMA EnvironmentStep ==
    ASSUME IInv,
           \/ \E n, d \in Nodes : Connect(n, d)
           \/ \E n \in Nodes : BecomeReady(n) \/ Restart(n)
           \/ Partition \/ Heal
    PROVE  IInv' /\ Justified
<1>1. CASE \E n, d \in Nodes : Connect(n, d)
  <2>1. PICK n \in Nodes, d \in Nodes : Connect(n, d)  BY <1>1
  <2>2. TypeOK' /\ \A m \in Nodes : m \notin conn'[m]
    BY <2>1 DEF Connect, IInv, TypeOK, NodeInv
  <2>3. QED  BY <2>1, <2>2, QuietStep DEF Connect, IInv, TypeOK
<1>2. CASE \E n \in Nodes : BecomeReady(n)
  <2>1. PICK n \in Nodes : BecomeReady(n)  BY <1>2
  <2>2. TypeOK'  BY <2>1 DEF BecomeReady, IInv, TypeOK
  <2>3. /\ \A m \in Nodes : m \notin conn'[m]
        /\ \A m \in Nodes : ready[m] => ready'[m]
    BY <2>1 DEF BecomeReady, IInv, TypeOK, NodeInv
  <2>4. QED  BY <2>1, <2>2, <2>3, QuietStep DEF BecomeReady
<1>3. CASE \E n \in Nodes : Restart(n)
  <2>1. PICK n \in Nodes : Restart(n)  BY <1>3
  <2>2. TypeOK'  BY <2>1 DEF Restart, IInv, TypeOK
  <2>3. /\ \A m \in Nodes : m \notin conn'[m]
        /\ \A m \in Nodes : down'[m] => down[m]
    BY <2>1 DEF Restart, IInv, TypeOK, NodeInv
  <2>4. QED  BY <2>1, <2>2, <2>3, QuietStep DEF Restart
<1>4. CASE Partition
  <2>1. faults' \in 0 .. MaxFaults  BY <1>4, FaultCount DEF Partition, IInv
  <2>2. TypeOK' /\ \A m \in Nodes : m \notin conn'[m]
    BY <1>4, <2>1 DEF Partition, IInv, TypeOK, NodeInv
  <2>3. QED  BY <1>4, <2>2, QuietStep DEF Partition
<1>5. CASE Heal
  <2>1. TypeOK' /\ \A m \in Nodes : m \notin conn'[m]
    BY <1>5 DEF Heal, IInv, TypeOK, NodeInv
  <2>2. QED  BY <1>5, <2>1, QuietStep DEF Heal
<1>6. QED  BY <1>1, <1>2, <1>3, <1>4, <1>5

\* Every step preserves the invariant, and every promotion is justified.
LEMMA NextInv == IInv /\ [Next]_vars => IInv' /\ [Justified]_vars
<1> SUFFICES ASSUME IInv, [Next]_vars PROVE IInv' /\ [Justified]_vars
  OBVIOUS
<1>1. ASSUME NEW n \in Nodes, ProcTimer(n) PROVE IInv' /\ Justified
  BY <1>1, InitializerProcTimerStep, AgentProcTimerStep, StandbyProcTimerStep,
     MasterProcTimerStep, ElectionResultStep, SendElectionPktStep
     DEF ProcTimer
<1>2. ASSUME NEW s \in Nodes, NEW d \in Nodes, RecvHeart(s, d)
      PROVE  IInv' /\ Justified
  BY <1>2, InitializerRecvHeartStep, AgentRecvHeartStep,
     AgentHandleMasterChangeStep, StandbyRecvHeartStep, MasterRecvHeartStep
     DEF RecvHeart
<1>3. ASSUME Fault PROVE IInv' /\ Justified
  BY <1>3, CrashStep, LinkDownStep, EnvironmentStep,
     SwitchMasterFromStandbyStep, SwitchAgentFromMasterStep
     DEF Fault
<1>4. CASE UNCHANGED vars
  BY <1>4 DEF vars, IInv, TypeOK, NodeInv, ElectionInv
<1>5. CASE Next
  BY <1>1, <1>2, <1>3, <1>5, TickStep, EnvironmentStep DEF Next
<1>6. QED  BY <1>4, <1>5

-----------------------------------------------------------------------------
(* The events: only a beat and a broken link tell anything.                *)

\* A step that tells nothing, or gives nodes new objects that told nothing.
LEMMA SilentStep ==
    ASSUME IInv,
           \/ told' = told
           \/ \E n \in Nodes : told' = [told EXCEPT ![n] = NothingTold]
    PROVE  Downs
<1>1. ASSUME NEW s \in Seq(EventTypes), s = Append(s, "NODE_DOWN")
      PROVE  FALSE
  <2>1. "NODE_DOWN" \in EventTypes  BY DEF EventTypes
  <2>2. Len(Append(s, "NODE_DOWN")) = Len(s) + 1 /\ Len(s) \in Nat  BY <2>1
  <2>3. QED  BY <1>1, <2>2
<1>2. ASSUME NEW s \in Seq(EventTypes), <<>> = Append(s, "NODE_DOWN")
      PROVE  FALSE
  <2>1. "NODE_DOWN" \in EventTypes  BY DEF EventTypes
  <2>2. Append(s, "NODE_DOWN") # <<>>  BY <2>1
  <2>3. QED  BY <1>2, <2>2
<1>3. ASSUME NEW n \in Nodes, NEW d \in Nodes
      PROVE  /\ told[n][d] \in Seq(EventTypes)
             /\ told'[n][d] = told[n][d] \/ told'[n][d] = <<>>
  <2>1. told \in [Nodes -> [Nodes -> Seq(EventTypes)]]  BY DEF IInv, TypeOK
  <2>2. NothingTold[d] = <<>>  BY DEF NothingTold
  <2>3. CASE told' = told  BY <2>1, <2>3
  <2>4. CASE \E m \in Nodes : told' = [told EXCEPT ![m] = NothingTold]
    <3>1. PICK m \in Nodes : told' = [told EXCEPT ![m] = NothingTold]  BY <2>4
    <3>2. told'[n] = told[n] \/ told'[n] = NothingTold  BY <2>1, <3>1
    <3>3. QED  BY <2>1, <2>2, <3>2
  <2>5. QED  BY <2>3, <2>4
<1>4. QED  BY <1>1, <1>2, <1>3 DEF Downs

\* At a beat a node is reported down that was announced.
LEMMA BeatDowns ==
    ASSUME IInv, NEW n \in Nodes, MasterProcTimer(n)
    PROVE  Downs
<1> SUFFICES ASSUME NEW m \in Nodes, NEW d \in Nodes,
                    told'[m][d] = Append(told[m][d], "NODE_DOWN")
             PROVE  EndsUp(told[m][d])
  BY DEF Downs
<1>1. told[m][d] \in Seq(EventTypes) /\ "NODE_DOWN" \in EventTypes
  BY DEF IInv, TypeOK, EventTypes
<1>2. Append(told[m][d], "NODE_DOWN") # told[m][d]
  <2>1. /\ Len(Append(told[m][d], "NODE_DOWN")) = Len(told[m][d]) + 1
        /\ Len(told[m][d]) \in Nat
    BY <1>1
  <2>2. QED  BY <2>1
<1>3. PICK now : told' = [told EXCEPT ![n] = DealNodeUpdate(@, cur[n].preNodes, now)]
  BY DEF MasterProcTimer
<1>4. m = n  BY <1>2, <1>3 DEF IInv, TypeOK
<1>5. told'[n][d] = IF d \in now \ cur[n].preNodes THEN Append(told[n][d], "NODE_UP")
                    ELSE IF d \in cur[n].preNodes \ now
                    THEN Append(told[n][d], "NODE_DOWN") ELSE told[n][d]
  BY <1>3 DEF DealNodeUpdate, IInv, TypeOK
<1>6. Append(told[n][d], "NODE_UP") # Append(told[n][d], "NODE_DOWN")
  <2>1. told[n][d] \in Seq(EventTypes)  BY <1>1, <1>4
  <2>2. /\ Append(told[n][d], "NODE_UP")[Len(told[n][d]) + 1] = "NODE_UP"
        /\ Append(told[n][d], "NODE_DOWN")[Len(told[n][d]) + 1] = "NODE_DOWN"
    BY <2>1 DEF EventTypes
  <2>3. QED  BY <2>2
<1>7. d \in cur[n].preNodes  BY <1>2, <1>4, <1>5, <1>6
<1>8. QED  BY <1>4, <1>7 DEF IInv, NodeInv, Tells

\* A broken link reports an ACTIVE node down: one that was announced, or one
\* that answered since the last beat.
LEMMA LinkDowns ==
    ASSUME IInv, NEW n \in Nodes, NEW d \in Nodes, LinkDown(n, d)
    PROVE  Downs
<1>1. CASE cur[n].role = "MASTER" /\ d \in cur[n].active
  <2> SUFFICES ASSUME NEW m \in Nodes, NEW c \in Nodes,
                      told'[m][c] = Append(told[m][c], "NODE_DOWN"),
                      ~EndsUp(told[m][c])
               PROVE  c \in cur[m].active \ cur[m].preNodes
                      /\ conn'[m] = conn[m] \ {c}
    BY DEF Downs
  <2>1. told[m][c] \in Seq(EventTypes) /\ "NODE_DOWN" \in EventTypes
    BY DEF IInv, TypeOK, EventTypes
  <2>2. Append(told[m][c], "NODE_DOWN") # told[m][c]
    <3>1. /\ Len(Append(told[m][c], "NODE_DOWN")) = Len(told[m][c]) + 1
          /\ Len(told[m][c]) \in Nat
      BY <2>1
    <3>2. QED  BY <3>1
  <2>3. told' = [told EXCEPT ![n][d] = Append(@, "NODE_DOWN")]
    BY <1>1 DEF LinkDown, SetNodeDownStatus
  <2>4. m = n /\ c = d  BY <2>2, <2>3 DEF IInv, TypeOK
  <2>5. conn' = [conn EXCEPT ![n] = @ \ {d}]  BY DEF LinkDown
  <2>6. d \notin cur[n].preNodes  BY <2>4 DEF IInv, NodeInv, Tells
  <2>7. QED  BY <1>1, <2>4, <2>5, <2>6 DEF IInv, TypeOK
<1>2. CASE ~(cur[n].role = "MASTER" /\ d \in cur[n].active)
  <2>1. told' = told  BY <1>2 DEF LinkDown, SetNodeDownStatus
  <2>2. QED  BY <2>1, SilentStep
<1>3. QED  BY <1>1, <1>2

\* Every step tells only what it may.
LEMMA NextDowns == IInv /\ [Next]_vars => [Downs]_vars
<1> SUFFICES ASSUME IInv, Next PROVE Downs
  OBVIOUS
<1>1. ASSUME NEW n \in Nodes, ProcTimer(n) PROVE Downs
  <2>1. CASE MasterProcTimer(n)  BY <2>1, BeatDowns
  <2>2. CASE StandbyProcTimer(n)
    BY <2>2, SilentStep DEF StandbyProcTimer, SwitchRole
  <2>3. CASE ElectionResult(n)
    BY <2>3, SilentStep DEF ElectionResult
  <2>4. CASE \/ InitializerProcTimer(n) \/ AgentProcTimer(n)
             \/ \E d \in Nodes : SendElectionPkt(n, d)
    BY <2>4, SilentStep
       DEF InitializerProcTimer, AgentProcTimer, SendElectionPkt
  <2>5. QED  BY <1>1, <2>1, <2>2, <2>3, <2>4 DEF ProcTimer
<1>2. ASSUME NEW s \in Nodes, NEW d \in Nodes, RecvHeart(s, d) PROVE Downs
  <2>1. told' = told \/ told' = [told EXCEPT ![d] = NothingTold]
    <3>1. CASE InitializerRecvHeart(s, d)
      BY <3>1 DEF InitializerRecvHeart, Answer
    <3>2. CASE AgentRecvHeart(s, d)  BY <3>2 DEF AgentRecvHeart, Answer
    <3>3. CASE AgentHandleMasterChange(s, d)
      BY <3>3 DEF AgentHandleMasterChange, Answer
    <3>4. CASE StandbyRecvHeart(s, d)  BY <3>4 DEF StandbyRecvHeart, Answer
    <3>5. CASE MasterRecvHeart(s, d)  BY <3>5 DEF MasterRecvHeart, Answer
    <3>6. QED  BY <1>2, <3>1, <3>2, <3>3, <3>4, <3>5 DEF RecvHeart
  <2>2. QED  BY <2>1, SilentStep
<1>3. ASSUME Fault PROVE Downs
  <2>1. CASE \E n, d \in Nodes : LinkDown(n, d)  BY <2>1, LinkDowns
  <2>2. CASE \E n \in Nodes : Crash(n) \/ Restart(n)
    BY <2>2, SilentStep DEF Crash, Restart
  <2>3. CASE \E n \in Nodes : SwitchMasterFromStandby(n) \/ SwitchAgentFromMaster(n)
    BY <2>3, SilentStep DEF SwitchMasterFromStandby, SwitchAgentFromMaster, SwitchRole
  <2>4. QED  BY <1>3, <2>1, <2>2, <2>3 DEF Fault
<1>4. CASE \/ \E n \in Nodes : BecomeReady(n) \/ \E d \in Nodes : Connect(n, d)
           \/ Partition \/ Heal \/ Tick
  BY <1>4, SilentStep DEF BecomeReady, Connect, Partition, Heal, Tick
<1>5. QED  BY <1>1, <1>2, <1>3, <1>4 DEF Next

-----------------------------------------------------------------------------
(* The theorems.                                                           *)

\* Type correctness and the safety properties hold in every reachable
\* state of every cluster.
THEOREM InvariantHolds == Spec => []IInv
BY InitInv, NextInv, PTL DEF Spec

\* Role objects, election runs and packets are always well formed.
THEOREM TypeCorrect == Spec => []TypeOK
<1>1. IInv => TypeOK  BY DEF IInv
<1>2. QED  BY <1>1, InvariantHolds, PTL

\* Only candidate nodes become master.
THEOREM CandidatesCorrect == Spec => []OnlyCandidatesLead
<1>1. IInv => OnlyCandidatesLead
  BY DEF IInv, NodeInv, ObjectInv, OnlyCandidatesLead
<1>2. QED  BY <1>1, InvariantHolds, PTL

\* IsLeader answers true exactly on the nodes whose role is MASTER.
THEOREM LeaderCorrect == Spec => []LeaderIffMaster
<1>1. IInv => LeaderIffMaster
  BY DEF IInv, NodeInv, ObjectInv, LeaderIffMaster, IsLeader
<1>2. QED  BY <1>1, InvariantHolds, PTL

\* The subscribers of a master were last told NODE_UP of exactly the nodes in
\* preNodes_, and a NODE_UP is never repeated without a NODE_DOWN between.
THEOREM EventsCorrect == Spec => []EventsMatchPreNodes
<1>1. IInv => EventsMatchPreNodes
  BY DEF IInv, NodeInv, Tells, EventsMatchPreNodes
<1>2. QED  BY <1>1, InvariantHolds, PTL

\* A NODE_DOWN ends what a NODE_UP announced, or its node answered since the
\* last beat and its link broke.
THEOREM DownsCorrect == Spec => DownsPaired
<1>1. IInv /\ [Next]_vars => [Downs]_vars  BY NextDowns
<1>2. QED  BY <1>1, InvariantHolds, PTL DEF Spec, DownsPaired

\* No node is promoted on stale grounds.
THEOREM PromotionCorrect == Spec => PromotionJustified
<1>1. Spec => [][Justified]_vars
  BY InitInv, NextInv, PTL DEF Spec
<1>2. QED  BY <1>1 DEF PromotionJustified, Justified

=============================================================================
