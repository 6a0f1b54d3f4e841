--------------------------- MODULE NodeController ---------------------------
(***************************************************************************)
(* The cluster state the node controller keeps of one managed node         *)
(* (src/src/controllers/node/ubse_node_controller.cpp and                  *)
(* ubse_node_controller_master.cpp), on a process that election promotes   *)
(* to master and demotes.                                                  *)
(*                                                                         *)
(* A node is reconciled by setting it SMOOTHING, whose state handlers      *)
(* compare the ledgers; if they succeed it is set WORKING.  Reconciliations *)
(* are tasks of an executor and hold the lock of the node throughout.      *)
(* NODE_DOWN and the RAS fault handlers take no such lock: they change the *)
(* state between any two steps of a task.  A node in FAULT comes back only *)
(* after a protection window and by the count of its own reports; the      *)
(* other lost nodes come back by NODE_UP alone.                            *)
(***************************************************************************)
EXTENDS Naturals, Sequences, FiniteSets

CONSTANTS
    FaultKinds,  \* the kinds of disturbance that may happen
    MaxFaults,   \* bound on the number of disturbances
    Threshold,   \* FAULT_REPORT_THRESHOLD, the reports that end a fault
    Races        \* the orders that only a slow thread brings about

(***************************************************************************)
(* Disturbances                                                            *)
(*   down     the heartbeat of the node is lost                            *)
(*   panic    the node panics or reboots                                   *)
(*   bmc      the BMC is about to power the node off                       *)
(*   collect  the node does not answer the topology collection             *)
(*   ledger   a reconciliation fails                                       *)
(*   demote   another node becomes master                                  *)
(* Races                                                                   *)
(*   overtaking     the threads of NODE_UP and NODE_DOWN overtake each      *)
(*                  other and those of the role changes                    *)
(*   slowRetry      a retry takes longer than the retry interval           *)
(*   faultAtSwitch  a fault is handled after the clean-up of a demotion or *)
(*                  before the mirror of a promotion is consumed           *)
(***************************************************************************)
ASSUME NodeAssumption ==
    /\ FaultKinds \subseteq {"down", "panic", "bmc", "collect", "ledger", "demote"}
    /\ MaxFaults \in Nat
    /\ Threshold \in Nat \ {0}
    /\ Races \subseteq {"overtaking", "slowRetry", "faultAtSwitch"}

VARIABLES
    state,       \* nodeInfos[node].clusterState, Absent without an entry
    window,      \* faultUpdateTimes[node] is younger than the window
    counter,     \* faultReportCounters_[node], Threshold when there is none
    retryTimer,  \* UbseNodeLedgerRetry_<node> is registered
    executor,    \* taskExecutor_: "none", "started", "stopped"
    queued,      \* the tasks of the executor that do not hold the lock
    holder,      \* the task that holds the lock of the node, or NoTask
    role,        \* "master" or "other", as election sees this process
    up,          \* the node is in the active set of the master
    events,      \* the threads of RoleChangeNotifyAsync that have not run
    mirror,      \* the node in the mirror a promotion is about to consume
    ras,         \* the fault handlings of RAS in progress
    reconciled,  \* a reconciliation succeeded since WORKING was last left
    faults       \* the number of disturbances so far

node == <<state, window, reconciled>>
tasks == <<queued, holder>>
cluster == <<role, up, events, mirror>>
vars == <<state, window, counter, retryTimer, executor, queued, holder, role,
          up, events, mirror, ras, reconciled, faults>>

-----------------------------------------------------------------------------
ClusterStates == {"INIT", "SMOOTHING", "WORKING", "UNKNOWN", "FAULT", "PRE_BMC"}
Absent == "ABSENT"
Broken == {"FAULT", "PRE_BMC", "UNKNOWN"}

\* The tasks.  "up" collects the topology without the lock and becomes
\* "upLedger".  At most one task of a kind is outstanding (a bound).
Kinds == {"up", "upLedger", "cycle", "retry", "smooth", "prefail"}
NoTask == [kind |-> "none"]
Task(kind, pc, ok) == [kind |-> kind, pc |-> pc, ok |-> ok]
Tasks == [kind : Kinds, pc : {"start", "handlers", "check", "commit"}, ok : BOOLEAN]

\* What a standby may have mirrored of the node, with its remaining window.
Mirrors == [state : ClusterStates \cup {Absent}, window : BOOLEAN]
NoMirror == [state |-> "CONSUMED", window |-> FALSE]

Init ==
    /\ state = Absent
    /\ window = FALSE
    /\ counter = Threshold
    /\ retryTimer = FALSE
    /\ executor = "none"
    /\ queued = {}
    /\ holder = NoTask
    /\ role = "other"
    /\ up = FALSE
    /\ events = <<>>
    /\ mirror = NoMirror
    /\ ras = {}
    /\ reconciled = FALSE
    /\ faults = 0

Suffer(f) ==
    /\ f \in FaultKinds
    /\ faults < MaxFaults
    /\ faults' = faults + 1

-----------------------------------------------------------------------------
(* The state and the operations that change it, under rwMutex.             *)

\* The states the node may be set to.
CanUpdateNodeClusterState ==
    [s \in ClusterStates |->
        CASE s = "INIT"      -> {"SMOOTHING", "UNKNOWN", "FAULT"}
          [] s = "SMOOTHING" -> {"WORKING", "UNKNOWN", "FAULT", "PRE_BMC", "SMOOTHING"}
          [] s = "WORKING"   -> {"SMOOTHING", "UNKNOWN", "FAULT", "PRE_BMC"}
          [] s = "UNKNOWN"   -> {"SMOOTHING", "FAULT", "UNKNOWN"}
          [] s = "FAULT"     -> {"SMOOTHING", "FAULT"}
          [] s = "PRE_BMC"   -> {"FAULT", "WORKING", "SMOOTHING"}]

InFaultProtectPeriod(s) == state = "FAULT" /\ s # "FAULT" /\ window

\* UpdateNodeInfoClusterState changes the state.  A fault of a node that is
\* not known makes an entry for it.
Updates(s) ==
    IF state = Absent THEN s = "FAULT"
    ELSE ~InFaultProtectPeriod(s) /\ s \in CanUpdateNodeClusterState[state]

\* The window starts when the node becomes FAULT and ends when it leaves.
UpdateNodeInfoClusterState(s) ==
    IF Updates(s)
    THEN /\ state' = s
         /\ window' = (s = "FAULT" /\ (state = "FAULT" => window))
         /\ reconciled' = (s = "WORKING" /\ reconciled)
    ELSE UNCHANGED node

\* UpdateNodeInfo keeps the state of a node that is known.
UpdateNodeInfo ==
    /\ state' = IF state = Absent THEN "INIT" ELSE state
    /\ UNCHANGED <<window, reconciled>>

\* Execute of an executor that is not running drops the task.
Execute(kinds) ==
    queued' = IF executor = "started" THEN queued \cup kinds ELSE queued

FaultProtectExpires ==
    /\ window
    /\ window' = FALSE
    /\ UNCHANGED <<state, reconciled, counter, retryTimer, executor, tasks,
                   cluster, ras, faults>>

-----------------------------------------------------------------------------
(* Reconciliation: the tasks, each under the lock of the node.             *)

\* The task takes the lock and goes on if its precondition holds.
Begin(kind, goesOn) ==
    /\ kind \in queued
    /\ holder = NoTask
    /\ queued' = queued \ {kind}
    /\ holder' = IF goesOn THEN Task(kind, "start", FALSE) ELSE NoTask
    /\ UNCHANGED <<node, counter, executor, cluster, ras, faults>>

\* The ledger is reconciled even when the collection failed.
UbseNodeUpHandlerExec ==
    /\ "up" \in queued
    /\ queued' = (queued \ {"up"}) \cup {"upLedger"}
    /\ \/ up /\ UpdateNodeInfo /\ UNCHANGED faults
       \/ ~up /\ UNCHANGED <<node, faults>>
       \/ up /\ Suffer("collect") /\ UNCHANGED node
    /\ UNCHANGED <<counter, retryTimer, executor, holder, cluster, ras>>

UbseNodeUpLedger == Begin("upLedger", state # Absent) /\ UNCHANGED retryTimer
UbseNodeCycleLedger == Begin("cycle", state = "WORKING") /\ UNCHANGED retryTimer
ExecuteNodeSmoothing == Begin("smooth", state = "FAULT") /\ UNCHANGED retryTimer
PreFaultFailLedger == Begin("prefail", TRUE) /\ UNCHANGED retryTimer
UbseNodeRetryLedger ==
    /\ Begin("retry", state \notin Broken \cup {Absent})
    /\ retryTimer' = (retryTimer /\ state \notin Broken \cup {Absent})

\* The task sets the node SMOOTHING.
LedgerStart ==
    /\ holder # NoTask /\ holder.pc = "start"
    /\ UpdateNodeInfoClusterState("SMOOTHING")
    /\ holder' = Task(holder.kind, IF Updates("SMOOTHING") THEN "handlers" ELSE "check",
                      state # Absent)
    /\ UNCHANGED <<counter, retryTimer, executor, queued, cluster, ras, faults>>

\* ExecClusterStateHandler: a process that is not the leader skips the
\* handlers and reports success.
ExecClusterStateHandler ==
    /\ holder # NoTask /\ holder.pc = "handlers"
    /\ \E ok \in BOOLEAN :
        /\ holder' = Task(holder.kind, "check", ok)
        /\ reconciled' = (ok /\ role = "master" /\ state = "SMOOTHING")
        /\ IF role # "master" THEN ok /\ UNCHANGED faults
           ELSE IF ok THEN up /\ UNCHANGED faults
           ELSE IF up THEN Suffer("ledger") ELSE UNCHANGED faults
    /\ UNCHANGED <<state, window, counter, retryTimer, executor, queued,
                   cluster, ras>>

\* Mutant of LedgerChecks: the result of the handlers is not looked at.
LedgerChecksBlindly ==
    /\ holder' = IF state = "SMOOTHING" THEN Task(holder.kind, "commit", TRUE)
                 ELSE NoTask
    /\ UNCHANGED retryTimer

\* UbseNodeLedger, after the handlers: the state is read again, a failure
\* registers the retry timer.
LedgerChecks ==
    IF state # "SMOOTHING" THEN holder' = NoTask /\ UNCHANGED retryTimer
    ELSE IF ~holder.ok THEN holder' = NoTask /\ retryTimer' = TRUE
    ELSE holder' = Task(holder.kind, "commit", TRUE) /\ UNCHANGED retryTimer

\* Mutant of RetryLedgerChecks: the timer is cancelled after any attempt.
RetryLedgerChecksOnce ==
    /\ holder' = IF holder.ok /\ state = "SMOOTHING"
                 THEN Task(holder.kind, "commit", TRUE) ELSE NoTask
    /\ retryTimer' = FALSE

\* UbseNodeRetryLedger, after the handlers.
RetryLedgerChecks ==
    LET success == holder.ok /\ state = "SMOOTHING" IN
    /\ holder' = IF success THEN Task(holder.kind, "commit", TRUE) ELSE NoTask
    /\ retryTimer' = (retryTimer /\ ~success /\ state \notin Broken)

LedgerCheck ==
    /\ holder # NoTask /\ holder.pc = "check"
    /\ IF holder.kind = "retry" THEN RetryLedgerChecks ELSE LedgerChecks
    /\ UNCHANGED <<node, counter, executor, queued, cluster, ras, faults>>

\* The task sets the node WORKING, whatever became of it since the check.
LedgerCommit ==
    /\ holder # NoTask /\ holder.pc = "commit"
    /\ UpdateNodeInfoClusterState("WORKING")
    /\ holder' = NoTask
    /\ UNCHANGED <<counter, retryTimer, executor, queued, cluster, ras, faults>>

\* The timers.
UbseNodeLedgerTimerHandler ==
    /\ role = "master" /\ up /\ executor = "started"
    /\ Execute({"cycle"})
    /\ UNCHANGED <<node, counter, retryTimer, executor, holder, cluster, ras, faults>>
RetryTimerFires ==
    /\ retryTimer
    /\ "slowRetry" \in Races \/ "retry" \notin queued \cup {holder.kind}
    /\ Execute({"retry"})
    /\ retryTimer' = (executor = "started")
    /\ UNCHANGED <<node, counter, executor, holder, cluster, ras, faults>>

-----------------------------------------------------------------------------
(* Reports of the node and events of its fabric.                           *)

\* The full counter is removed.
ProcessFaultCounter == counter < Threshold /\ counter' = counter + 1

\* Threshold reports take five minutes, the protection window one: the last
\* of them comes after the window, after the pending master-online event,
\* and to the master, whom the node follows within seconds.
LastReportIsLate ==
    counter + 1 = Threshold =>
        ~window /\ role = "master" /\ "ONLINE" \notin {events[i] : i \in DOMAIN events}

UbseNodeReportHandler ==
    /\ up
    /\ UpdateNodeInfo
    /\ IF state = "FAULT" /\ counter < Threshold
       THEN /\ LastReportIsLate
            /\ ProcessFaultCounter
            /\ Execute(IF counter + 1 = Threshold THEN {"smooth"} ELSE {})
       ELSE UNCHANGED <<counter, queued>>
    /\ UNCHANGED <<retryTimer, executor, holder, cluster, ras, faults>>

UbseLcneTopologyChangeHandler(linkUp) ==
    /\ up
    /\ UpdateNodeInfo
    /\ Execute(IF linkUp THEN {"cycle"} ELSE {})
    /\ UNCHANGED <<counter, retryTimer, executor, holder, cluster, ras, faults>>

-----------------------------------------------------------------------------
(* RAS: faults of the node, handled without the lock of the node.          *)

\* Mutant of UbseNodeRasFaultHandler: the fault itself is counted.
UbseNodeRasFaultHandlerCounts ==
    /\ UpdateNodeInfoClusterState("FAULT")
    /\ counter' = counter + 1

\* Mutant of UbseNodeRasFaultHandler: the reports before the fault count.
UbseNodeRasFaultHandlerNoReset ==
    /\ UpdateNodeInfoClusterState("FAULT")
    /\ UNCHANGED counter

\* UbseNodeRasFaultHandler, and UbseNodeRasAfterFaultClearHandler behind it.
UbseNodeRasFaultHandler ==
    /\ counter' = 0
    /\ UpdateNodeInfoClusterState("FAULT")

FaultMayCome == mirror = NoMirror \/ "faultAtSwitch" \in Races

\* A panic or a reboot: the node is FAULT, the fault is handled, and, as
\* NODE_UP may have recovered the node meanwhile, FAULT again.
HandlePanicAndRebootFault ==
    /\ role = "master" /\ "panic" \notin ras /\ FaultMayCome
    /\ Suffer("panic")
    /\ UbseNodeRasFaultHandler
    /\ ras' = ras \cup {"panic"}
    /\ UNCHANGED <<retryTimer, executor, tasks, cluster>>
PanicHandled(ok) ==
    /\ "panic" \in ras
    /\ ras' = ras \ {"panic"}
    /\ IF ok THEN UbseNodeRasFaultHandler /\ Execute({"cycle"})
       ELSE UNCHANGED <<node, counter, queued>>
    /\ UNCHANGED <<retryTimer, executor, holder, cluster, faults>>

\* UbseNodeRasPreFaultFailHandler.
PreFaultFails(now) ==
    Execute(IF now = "PRE_BMC" THEN {"prefail"} ELSE {})

\* The BMC announces a power-off (UbseRasComHandler::Handle): PRE_BMC, then
\* the fault handlers.  A refused transition, or a repeated announcement,
\* counts as a failed power-off.
HandleBmcFault ==
    /\ role = "master" /\ state \notin {Absent, "FAULT"} /\ FaultMayCome
    /\ Suffer("bmc")
    /\ UpdateNodeInfoClusterState("PRE_BMC")
    /\ IF Updates("PRE_BMC") THEN ras' = ras \cup {"bmc"} /\ UNCHANGED queued
       ELSE PreFaultFails(state) /\ UNCHANGED ras
    /\ UNCHANGED <<counter, retryTimer, executor, holder, cluster>>
BmcHandled(ok) ==
    /\ "bmc" \in ras
    /\ ras' = ras \ {"bmc"}
    /\ IF ok THEN UbseNodeRasFaultHandler /\ Execute({"cycle"})
       ELSE PreFaultFails(state) /\ UNCHANGED <<node, counter>>
    /\ UNCHANGED <<retryTimer, executor, holder, cluster, faults>>

-----------------------------------------------------------------------------
(* Election: promotion, demotion, NODE_UP and NODE_DOWN.                   *)

Promote ==
    /\ role = "other" /\ events = <<>> /\ mirror = NoMirror
    /\ "faultAtSwitch" \in Races \/ (ras = {} /\ state # "FAULT")
    /\ role' = "master"
    /\ up' = FALSE
    /\ mirror' \in {m \in Mirrors : m.window => m.state = "FAULT"}
    /\ events' = <<"ONLINE">>
    /\ UNCHANGED <<node, counter, retryTimer, executor, tasks, ras, faults>>

Demote ==
    /\ role = "master"
    /\ Suffer("demote")
    /\ role' = "other"
    /\ events' = Append(events, "CLEAN")
    /\ UNCHANGED <<node, counter, retryTimer, executor, tasks, up, mirror, ras>>

NodeJoins ==
    /\ role = "master" /\ ~up
    /\ up' = TRUE
    /\ events' = Append(events, "UP")
    /\ UNCHANGED <<node, counter, retryTimer, executor, tasks, role, mirror, ras, faults>>

NodeLeaves ==
    /\ role = "master" /\ up
    /\ Suffer("down")
    /\ up' = FALSE
    /\ events' = Append(events, "DOWN")
    /\ UNCHANGED <<node, counter, retryTimer, executor, tasks, role, mirror, ras>>

\* The i-th of the detached threads may run.  Role changes are seconds apart:
\* their threads keep their order.
MayRun(i) ==
    \/ i = 1
    \/ /\ "overtaking" \in Races
       /\ events[i] \in {"ONLINE", "CLEAN"} =>
              \A j \in 1 .. i - 1 : events[j] \in {"UP", "DOWN"}

Delivered(i, event) ==
    /\ i \in DOMAIN events /\ events[i] = event
    /\ MayRun(i)
    /\ events' = [j \in 1 .. Len(events) - 1 |-> events[IF j < i THEN j ELSE j + 1]]
    /\ UNCHANGED <<role, up, ras, faults>>

\* UbseNodeUpHandler waits for the first executor; a stopped one drops it.
UbseNodeUpHandler(i) ==
    /\ Delivered(i, "UP")
    /\ executor # "none"
    /\ queued \cap {"up", "upLedger"} = {}
    /\ Execute({"up"})
    /\ UNCHANGED <<node, counter, retryTimer, executor, holder, mirror>>

UbseNodeDownHandler(i) ==
    /\ Delivered(i, "DOWN")
    /\ UpdateNodeInfoClusterState("UNKNOWN")
    /\ UNCHANGED <<counter, retryTimer, executor, tasks, mirror>>

\* UbseMasterOnlineHandler on the master, up to ConsumeMirrorOnPromote.
UbseMasterOnlineHandler(i) ==
    /\ Delivered(i, "ONLINE")
    /\ executor' = "started"
    /\ UNCHANGED <<node, counter, retryTimer, tasks, mirror>>

\* Mutant of TakenOver: a node that works already is taken over too.
TakenOverAnyway == FALSE

\* NODE_UP came before the mirror was consumed: the node has been taken over.
TakenOver == state \in {"SMOOTHING", "WORKING"}

\* The mirror of a node that is taken over already is ignored.  The ledger of
\* a restored node is not trusted.
ConsumeMirrorNode ==
    /\ mirror # NoMirror
    /\ "ONLINE" \notin {events[i] : i \in DOMAIN events}
    /\ holder = NoTask
    /\ mirror' = NoMirror
    /\ IF mirror.state = Absent \/ TakenOver
       THEN UNCHANGED <<node, counter>>
       ELSE /\ state' = IF mirror.state \in {"WORKING", "SMOOTHING"} THEN "INIT"
                        ELSE mirror.state
            /\ window' = IF mirror.state = "FAULT" THEN mirror.window ELSE window
            /\ counter' = IF mirror.state = "FAULT" THEN 0 ELSE counter
            /\ reconciled' = FALSE
    /\ UNCHANGED <<retryTimer, executor, tasks, role, up, events, ras, faults>>

\* UbseNodeCleanAfterSwitchStandby, by the same handler, whose mutex it waits
\* for: Stop drops the queued tasks and joins the running ones.
UbseNodeCleanAfterSwitchStandby(i) ==
    /\ Delivered(i, "CLEAN")
    /\ mirror = NoMirror
    /\ holder = NoTask
    /\ executor' = IF executor = "none" THEN "none" ELSE "stopped"
    /\ queued' = {}
    /\ retryTimer' = FALSE
    /\ state' = Absent
    /\ reconciled' = FALSE
    /\ UNCHANGED <<window, counter, holder, mirror>>

-----------------------------------------------------------------------------
TaskStep ==
    \/ UbseNodeUpHandlerExec \/ UbseNodeUpLedger \/ UbseNodeCycleLedger
    \/ UbseNodeRetryLedger \/ ExecuteNodeSmoothing \/ PreFaultFailLedger
    \/ LedgerStart \/ ExecClusterStateHandler \/ LedgerCheck \/ LedgerCommit

Deliver ==
    \E i \in DOMAIN events :
        \/ UbseNodeUpHandler(i) \/ UbseNodeDownHandler(i)
        \/ UbseMasterOnlineHandler(i) \/ UbseNodeCleanAfterSwitchStandby(i)

RasStep == \E ok \in BOOLEAN : PanicHandled(ok) \/ BmcHandled(ok)

Next ==
    \/ TaskStep \/ Deliver \/ ConsumeMirrorNode
    \/ FaultProtectExpires \/ UbseNodeLedgerTimerHandler \/ RetryTimerFires
    \/ UbseNodeReportHandler
    \/ \E linkUp \in BOOLEAN : UbseLcneTopologyChangeHandler(linkUp)
    \/ HandlePanicAndRebootFault \/ HandleBmcFault \/ RasStep
    \/ Promote \/ Demote \/ NodeJoins \/ NodeLeaves

Spec == Init /\ [][Next]_vars

\* Threads and timers run; a node that left comes back.  The executor takes
\* its tasks in order, so a queued task gets the lock though the cycle timer
\* keeps queueing others.
FairSpec ==
    /\ Spec
    /\ WF_vars(UbseNodeUpHandlerExec)
    /\ WF_vars(LedgerStart) /\ WF_vars(ExecClusterStateHandler)
    /\ WF_vars(LedgerCheck) /\ WF_vars(LedgerCommit)
    /\ SF_vars(UbseNodeUpLedger) /\ SF_vars(UbseNodeRetryLedger)
    /\ SF_vars(ExecuteNodeSmoothing) /\ SF_vars(PreFaultFailLedger)
    /\ SF_vars(ConsumeMirrorNode)
    /\ SF_vars(Deliver) /\ WF_vars(RasStep)
    /\ WF_vars(FaultProtectExpires) /\ WF_vars(RetryTimerFires)
    /\ WF_vars(UbseNodeReportHandler)
    /\ WF_vars(Promote) /\ WF_vars(NodeJoins)

-----------------------------------------------------------------------------
TypeOK ==
    /\ state \in ClusterStates \cup {Absent}
    /\ window \in BOOLEAN
    /\ counter \in 0 .. Threshold
    /\ retryTimer \in BOOLEAN
    /\ executor \in {"none", "started", "stopped"}
    /\ queued \subseteq Kinds
    /\ holder \in Tasks \cup {NoTask}
    /\ role \in {"master", "other"}
    /\ up \in BOOLEAN
    /\ events \in Seq({"UP", "DOWN", "ONLINE", "CLEAN"})
    /\ mirror \in Mirrors \cup {NoMirror}
    /\ ras \subseteq {"panic", "bmc"}
    /\ reconciled \in BOOLEAN
    /\ faults \in 0 .. MaxFaults

\* Whatever NODE_DOWN, panics and mirrors do between the steps of a task, a
\* master that holds a node for WORKING has reconciled it since the node was
\* last set to anything else.
WorkingIsReconciled == role = "master" /\ state = "WORKING" => reconciled

\* A node is not left SMOOTHING: a task is at work on it, or the retry timer
\* (or the task it queued) will take it up.
SmoothingIsDriven ==
    state = "SMOOTHING" => holder # NoTask \/ retryTimer \/ "retry" \in queued

\* A fault is not for ever: the reports of the node are counted, or the task
\* that ends the fault is under way.
FaultIsCounted ==
    role = "master" /\ state = "FAULT" =>
        \/ counter < Threshold \/ "smooth" \in queued
        \/ holder # NoTask /\ holder.kind = "smooth" /\ holder.pc = "start"

\* A node that stays connected to a master that stays master works again
\* and again ("a reachable member is bound to be driven from SMOOTHING to
\* WORKING", ubse_node_controller_master.cpp:296).
ReachableNodeWorks == <>[](role = "master" /\ up) => []<>(state = "WORKING")
=============================================================================
