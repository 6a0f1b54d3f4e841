------------------------ MODULE NodeControllerProofs ------------------------
(***************************************************************************)
(* Theorems about NodeController, for every report threshold, any number   *)
(* of disturbances and every order of the event threads.                   *)
(***************************************************************************)
EXTENDS NodeController, TLAPS

-----------------------------------------------------------------------------
(* The inductive invariant.  None of the three properties survives a step  *)
(* by itself: each depends on what a promotion or a demotion leaves behind *)
(* and on what a task may still do with a state it read earlier.           *)

\* The events whose threads have not run.
Pending == {events[i] : i \in DOMAIN events}

\* A master has no clean-up before it, and an executor unless the start of it
\* is still pending.  A clean-up comes after the start it undoes.
SwitchInv ==
    /\ role = "master" =>
          "CLEAN" \notin Pending /\ ("ONLINE" \in Pending \/ executor = "started")
    /\ \A j, k \in DOMAIN events :
          events[j] = "ONLINE" /\ events[k] = "CLEAN" => j < k

\* Without an executor there are no tasks, and after a clean-up no executor
\* and no node that is taken for reconciled.
IdleInv ==
    /\ executor # "started" => queued = {} /\ holder = NoTask /\ ~retryTimer
    /\ role = "other" /\ "CLEAN" \notin Pending =>
          /\ "ONLINE" \notin Pending /\ executor # "started"
          /\ state \notin {"WORKING", "SMOOTHING"}

\* A counter that is full was filled after the window; FaultIsCounted holds of
\* every process that is not about to clean up, master or not.
FaultInv ==
    /\ state = "FAULT" /\ counter = Threshold => ~window
    /\ "CLEAN" \notin Pending /\ state = "FAULT" =>
          \/ counter < Threshold \/ "smooth" \in queued
          \/ holder # NoTask /\ holder.kind = "smooth" /\ holder.pc = "start"

\* The timer stays while a retry is queued or at work, unless it succeeded.
RetryInv ==
    /\ "retry" \in queued => retryTimer
    /\ holder # NoTask /\ holder.kind = "retry" =>
          "retry" \notin queued /\ (holder.pc # "commit" => retryTimer)

\* From its second step on only the task itself can set the node WORKING, and
\* what it believes to have reconciled has been.
TaskInv ==
    /\ holder # NoTask /\ holder.pc # "start" => state \notin {"PRE_BMC", "WORKING"}
    /\ /\ holder # NoTask /\ role = "master" /\ state = "SMOOTHING"
       /\ holder.pc = "commit" \/ (holder.pc = "check" /\ holder.ok)
       => reconciled

IInv ==
    /\ TypeOK
    /\ SwitchInv
    /\ IdleInv
    /\ FaultInv
    /\ "slowRetry" \notin Races => RetryInv /\ SmoothingIsDriven
    /\ "bmc" \notin FaultKinds => TaskInv /\ WorkingIsReconciled

-----------------------------------------------------------------------------
(* Lemmas about the operators.                                             *)

\* A task under way is not NoTask and has the fields it was made with.
LEMMA TaskFields ==
    ASSUME NEW kind \in Kinds, NEW ok \in BOOLEAN,
           NEW pc \in {"start", "handlers", "check", "commit"}
    PROVE  /\ Task(kind, pc, ok) \in Tasks /\ Task(kind, pc, ok) # NoTask
           /\ Task(kind, pc, ok).kind = kind /\ Task(kind, pc, ok).pc = pc
           /\ Task(kind, pc, ok).ok = ok
BY DEF Task, Tasks, Kinds, NoTask

\* The fields of the task that holds the node.
LEMMA HolderFields ==
    ASSUME TypeOK, holder # NoTask
    PROVE  /\ holder.kind \in Kinds /\ holder.ok \in BOOLEAN
           /\ holder.pc \in {"start", "handlers", "check", "commit"}
BY DEF TypeOK, Tasks

\* Which settings CanUpdateNodeClusterState and the protection window admit.
LEMMA Transitions ==
    ASSUME TypeOK
    PROVE  /\ Updates("SMOOTHING") <=> state # Absent /\ ~(state = "FAULT" /\ window)
           /\ Updates("WORKING") <=> state \in {"SMOOTHING", "PRE_BMC"}
           /\ Updates("PRE_BMC") => state \in {"SMOOTHING", "WORKING"}
           /\ Updates("FAULT")
BY DEF TypeOK, Updates, InFaultProtectPeriod, CanUpdateNodeClusterState,
       ClusterStates, Absent

\* What UpdateNodeInfoClusterState does to the entry of the node.
LEMMA UpdateFacts ==
    ASSUME TypeOK, NEW s \in ClusterStates, UpdateNodeInfoClusterState(s)
    PROVE  /\ state' \in ClusterStates \cup {Absent}
           /\ window' \in BOOLEAN /\ reconciled' \in BOOLEAN
           /\ ~Updates(s) => UNCHANGED <<state, window, reconciled>>
           /\ Updates(s) =>
                 /\ state' = s
                 /\ s # "WORKING" => ~reconciled'
                 /\ s = "WORKING" => reconciled' = reconciled
<1>1. CASE Updates(s)
  <2>1. /\ state' = s
        /\ window' = (s = "FAULT" /\ (state = "FAULT" => window))
        /\ reconciled' = (s = "WORKING" /\ reconciled)
    BY <1>1 DEF UpdateNodeInfoClusterState
  <2>2. window' \in BOOLEAN /\ reconciled' \in BOOLEAN
    BY <2>1, Zenon
  <2>3. QED  BY <1>1, <2>1, <2>2 DEF TypeOK
<1>2. CASE ~Updates(s)
  BY <1>2 DEF UpdateNodeInfoClusterState, node, TypeOK
<1>3. QED  BY <1>1, <1>2

\* A task that takes the lock is at its start.
LEMMA BeginFacts ==
    ASSUME NEW kind \in Kinds, NEW goesOn \in BOOLEAN, Begin(kind, goesOn)
    PROVE  /\ kind \in queued /\ queued' = queued \ {kind} /\ holder = NoTask
           /\ goesOn => /\ holder' \in Tasks /\ holder' # NoTask
                        /\ holder'.kind = kind /\ holder'.pc = "start"
           /\ ~goesOn => holder' = NoTask
           /\ UNCHANGED <<state, window, reconciled, counter, executor, role, up,
                          events, mirror, ras, faults>>
BY TaskFields DEF Begin, node, cluster

\* The thread of an event runs: the others stay pending, in their order.
LEMMA DeliveredFacts ==
    ASSUME TypeOK, NEW i, NEW event, Delivered(i, event)
    PROVE  /\ events' \in Seq({"UP", "DOWN", "ONLINE", "CLEAN"})
           /\ event \in Pending /\ Pending' \subseteq Pending
           /\ \A x \in Pending : x # event => x \in Pending'
           /\ (\A j, k \in DOMAIN events :
                  events[j] = "ONLINE" /\ events[k] = "CLEAN" => j < k)
              => (\A j, k \in DOMAIN events' :
                    events'[j] = "ONLINE" /\ events'[k] = "CLEAN" => j < k)
           /\ UNCHANGED <<role, up, ras, faults>>
<1> DEFINE Src(j) == IF j < i THEN j ELSE j + 1
<1>1. /\ events \in Seq({"UP", "DOWN", "ONLINE", "CLEAN"})
      /\ Len(events) \in Nat /\ DOMAIN events = 1 .. Len(events)
      /\ i \in 1 .. Len(events) /\ events[i] = event
      /\ events' = [j \in 1 .. Len(events) - 1 |-> events[Src(j)]]
      /\ UNCHANGED <<role, up, ras, faults>>
  BY DEF Delivered, TypeOK
<1>2. \A j \in 1 .. Len(events) - 1 : Src(j) \in 1 .. Len(events)
  BY <1>1
<1>3. \A j \in 1 .. Len(events) - 1 : events[Src(j)] \in {"UP", "DOWN", "ONLINE", "CLEAN"}
  BY <1>1, <1>2
<1>4. /\ events' \in Seq({"UP", "DOWN", "ONLINE", "CLEAN"})
      /\ DOMAIN events' = 1 .. Len(events) - 1
      /\ \A j \in DOMAIN events' : events'[j] = events[Src(j)]
  <2>1. DOMAIN events' = 1 .. Len(events) - 1
        /\ \A j \in DOMAIN events' : events'[j] = events[Src(j)]
    BY <1>1
  <2>2. events' \in [1 .. Len(events) - 1 -> {"UP", "DOWN", "ONLINE", "CLEAN"}]
    BY <1>1, <1>3
  <2>3. Len(events) - 1 \in Nat  BY <1>1
  <2>4. QED  BY <2>1, <2>2, <2>3
<1>5. Pending' \subseteq Pending
  BY <1>1, <1>2, <1>4 DEF Pending
<1>6. \A k \in DOMAIN events : k # i =>
          \E j \in DOMAIN events' : events'[j] = events[k]
  <2> TAKE k \in DOMAIN events
  <2> HAVE k # i
  <2>1. CASE k < i
    <3>1. k \in DOMAIN events' /\ Src(k) = k  BY <1>1, <1>4, <2>1
    <3>2. QED  BY <1>4, <3>1
  <2>2. CASE k > i
    <3>1. k - 1 \in DOMAIN events' /\ Src(k - 1) = k  BY <1>1, <1>4, <2>2
    <3>2. QED  BY <1>4, <3>1
  <2>3. QED  BY <1>1, <2>1, <2>2
<1>7. event \in Pending /\ \A x \in Pending : x # event => x \in Pending'
  BY <1>1, <1>6 DEF Pending
<1>8. \A j, k \in DOMAIN events' : Src(j) < Src(k) => j < k
  BY <1>1, <1>4
<1>9. QED  BY <1>1, <1>2, <1>4, <1>5, <1>7, <1>8

\* An event is appended behind the others.
LEMMA AppendFacts ==
    ASSUME TypeOK, NEW event \in {"UP", "DOWN", "CLEAN"},
           events' = Append(events, event)
    PROVE  /\ events' \in Seq({"UP", "DOWN", "ONLINE", "CLEAN"})
           /\ Pending' = Pending \cup {event}
           /\ (\A j, k \in DOMAIN events :
                  events[j] = "ONLINE" /\ events[k] = "CLEAN" => j < k)
              => (\A j, k \in DOMAIN events' :
                    events'[j] = "ONLINE" /\ events'[k] = "CLEAN" => j < k)
<1>1. /\ events \in Seq({"UP", "DOWN", "ONLINE", "CLEAN"}) /\ Len(events) \in Nat
      /\ DOMAIN events = 1 .. Len(events)
  BY DEF TypeOK
<1>2. /\ events' \in Seq({"UP", "DOWN", "ONLINE", "CLEAN"})
      /\ DOMAIN events' = 1 .. Len(events) + 1
      /\ events'[Len(events) + 1] = event
      /\ \A j \in DOMAIN events : events'[j] = events[j]
  BY <1>1
<1>3. Pending' = Pending \cup {event}
  BY <1>1, <1>2 DEF Pending
<1>4. QED  BY <1>1, <1>2, <1>3

-----------------------------------------------------------------------------
(* The steps.                                                              *)

\* Initially there is no entry and no task.
LEMMA InitIInv == Init => IInv
<1> SUFFICES ASSUME Init PROVE IInv
  OBVIOUS
<1>1. events = <<>> /\ Pending = {} /\ DOMAIN events = {}
  BY DEF Init, Pending
<1>2. events \in Seq({"UP", "DOWN", "ONLINE", "CLEAN"})
      /\ 0 \in 0 .. MaxFaults /\ Threshold \in 0 .. Threshold
  BY <1>1, NodeAssumption
<1>3. TypeOK
  BY <1>2 DEF Init, TypeOK
<1>4. QED
  BY <1>1, <1>3 DEF Init, IInv, SwitchInv, IdleInv, FaultInv, RetryInv, TaskInv,
     SmoothingIsDriven, WorkingIsReconciled, Absent

\* The protection window ends.
LEMMA ExpiryStep ==
    ASSUME IInv, FaultProtectExpires
    PROVE  IInv'
<1> USE DEF IInv, FaultProtectExpires, tasks, cluster
<1>1. TypeOK'
  BY NodeAssumption DEF TypeOK, Kinds, ClusterStates
<1>2. SwitchInv'
  BY DEF SwitchInv, Pending
<1>3. IdleInv'
  BY DEF IdleInv, SwitchInv, Pending
<1>4. FaultInv'
  BY NodeAssumption DEF FaultInv, SwitchInv, IdleInv, Pending, TypeOK
<1>5. "slowRetry" \notin Races => (RetryInv /\ SmoothingIsDriven)'
  BY DEF RetryInv, SmoothingIsDriven, IdleInv
<1>6. "bmc" \notin FaultKinds => (TaskInv /\ WorkingIsReconciled)'
  BY DEF TaskInv, WorkingIsReconciled, IdleInv, SwitchInv, Pending
<1>7. QED  BY <1>1, <1>2, <1>3, <1>4, <1>5, <1>6

\* The topology of a node that came up is collected.
LEMMA UpExecStep ==
    ASSUME IInv, UbseNodeUpHandlerExec
    PROVE  IInv'
<1> USE DEF IInv, UbseNodeUpHandlerExec, UpdateNodeInfo, node, Suffer, cluster,
           Absent
<1>1. TypeOK'
  BY NodeAssumption DEF TypeOK, Kinds, ClusterStates
<1>2. SwitchInv'
  BY DEF SwitchInv, Pending
<1>3. IdleInv'
  BY DEF IdleInv, SwitchInv, Pending
<1>4. FaultInv'
  BY NodeAssumption DEF FaultInv, SwitchInv, IdleInv, Pending, TypeOK
<1>5. "slowRetry" \notin Races => (RetryInv /\ SmoothingIsDriven)'
  BY DEF RetryInv, SmoothingIsDriven, IdleInv
<1>6. "bmc" \notin FaultKinds => (TaskInv /\ WorkingIsReconciled)'
  BY DEF TaskInv, WorkingIsReconciled, IdleInv, SwitchInv, Pending
<1>7. QED  BY <1>1, <1>2, <1>3, <1>4, <1>5, <1>6

\* A task takes the lock.
LEMMA BeginStep ==
    ASSUME IInv, NEW kind \in Kinds \ {"up"}, NEW goesOn \in BOOLEAN, Begin(kind, goesOn),
           retryTimer' \in BOOLEAN,
           IF kind = "retry" THEN goesOn = (state \notin Broken \cup {Absent})
                                  /\ retryTimer' = (retryTimer /\ goesOn)
                             ELSE UNCHANGED retryTimer,
           kind = "smooth" => goesOn = (state = "FAULT")
    PROVE  IInv'
<1> USE DEF IInv
<1>0. /\ kind \in queued /\ queued' = queued \ {kind} /\ holder = NoTask
      /\ goesOn => /\ holder' \in Tasks /\ holder' # NoTask
                   /\ holder'.kind = kind /\ holder'.pc = "start"
      /\ ~goesOn => holder' = NoTask
      /\ UNCHANGED <<state, window, reconciled, counter, executor, role, up,
                     events, mirror, ras, faults>>
  BY BeginFacts
<1>1. TypeOK'
  BY <1>0 DEF TypeOK
<1>2. SwitchInv'
  BY <1>0 DEF SwitchInv, Pending
<1>3. IdleInv'
  BY <1>0 DEF IdleInv, SwitchInv, Pending
<1>4. FaultInv'
  BY <1>0 DEF FaultInv, Pending
<1>5. "slowRetry" \notin Races => (RetryInv /\ SmoothingIsDriven)'
  BY <1>0 DEF RetryInv, SmoothingIsDriven, Broken, Absent
<1>6. "bmc" \notin FaultKinds => (TaskInv /\ WorkingIsReconciled)'
  BY <1>0 DEF TaskInv, WorkingIsReconciled
<1>7. QED  BY <1>1, <1>2, <1>3, <1>4, <1>5, <1>6

\* The task sets the node SMOOTHING.
LEMMA StartStep ==
    ASSUME IInv, LedgerStart
    PROVE  IInv'
<1> USE DEF IInv, LedgerStart, Absent, cluster
<1>0. TypeOK /\ UpdateNodeInfoClusterState("SMOOTHING") /\ "SMOOTHING" \in ClusterStates
  BY DEF ClusterStates
<1>a. /\ state' \in ClusterStates \cup {Absent} /\ window' \in BOOLEAN /\ reconciled' \in BOOLEAN
      /\ ~Updates("SMOOTHING") => UNCHANGED <<state, window, reconciled>>
      /\ Updates("SMOOTHING") => state' = "SMOOTHING" /\ ~reconciled'
  BY <1>0, UpdateFacts
<1>b. /\ holder' \in Tasks /\ holder' # NoTask /\ holder'.kind = holder.kind
      /\ holder'.pc = IF Updates("SMOOTHING") THEN "handlers" ELSE "check"
  <2>1. \E ok \in BOOLEAN, pc \in {"handlers", "check"} :
            /\ holder' = Task(holder.kind, pc, ok)
            /\ pc = IF Updates("SMOOTHING") THEN "handlers" ELSE "check"
    OBVIOUS
  <2>2. QED  BY <2>1, <1>0, HolderFields, TaskFields
<1>1. TypeOK'
  BY <1>0, <1>a, <1>b, HolderFields, Transitions, NodeAssumption DEF TypeOK, Kinds, ClusterStates
<1>2. SwitchInv'
  BY <1>0, <1>a, <1>b, HolderFields, Transitions DEF SwitchInv, Pending
<1>3. IdleInv'
  BY <1>0, <1>a, <1>b, HolderFields, Transitions DEF IdleInv, SwitchInv, Pending
<1>4. FaultInv'
  BY <1>0, <1>a, <1>b, HolderFields, Transitions, NodeAssumption DEF FaultInv, SwitchInv, IdleInv, Pending, TypeOK
<1>5. "slowRetry" \notin Races => (RetryInv /\ SmoothingIsDriven)'
  BY <1>0, <1>a, <1>b, HolderFields, Transitions DEF RetryInv, SmoothingIsDriven, IdleInv
<1>6. "bmc" \notin FaultKinds => (TaskInv /\ WorkingIsReconciled)'
  BY <1>0, <1>a, <1>b, HolderFields, Transitions DEF TaskInv, WorkingIsReconciled, IdleInv, SwitchInv, Pending
<1>7. QED  BY <1>1, <1>2, <1>3, <1>4, <1>5, <1>6

\* The state handlers run.
LEMMA HandlersStep ==
    ASSUME IInv, ExecClusterStateHandler
    PROVE  IInv'
<1> USE DEF IInv, ExecClusterStateHandler, Suffer, cluster
<1>1. TypeOK'
  BY HolderFields, TaskFields, NodeAssumption DEF TypeOK, Kinds, ClusterStates
<1>2. SwitchInv'
  BY HolderFields, TaskFields DEF SwitchInv, Pending
<1>3. IdleInv'
  BY HolderFields, TaskFields DEF IdleInv, SwitchInv, Pending
<1>4. FaultInv'
  BY HolderFields, TaskFields, NodeAssumption DEF FaultInv, SwitchInv, IdleInv, Pending, TypeOK
<1>5. "slowRetry" \notin Races => (RetryInv /\ SmoothingIsDriven)'
  BY HolderFields, TaskFields DEF RetryInv, SmoothingIsDriven, IdleInv
<1>6. "bmc" \notin FaultKinds => (TaskInv /\ WorkingIsReconciled)'
  BY HolderFields, TaskFields DEF TaskInv, WorkingIsReconciled, IdleInv, SwitchInv, Pending
<1>7. QED  BY <1>1, <1>2, <1>3, <1>4, <1>5, <1>6

\* The task looks at the state and at its result.
LEMMA CheckStep ==
    ASSUME IInv, LedgerCheck
    PROVE  IInv'
<1> USE DEF IInv, LedgerCheck, RetryLedgerChecks, LedgerChecks, node, cluster,
           Broken
<1>0. retryTimer' \in BOOLEAN /\ UNCHANGED <<state, window, reconciled, counter, executor,
         queued, role, up, events, mirror, ras, faults>>
  BY Zenon DEF TypeOK
<1>a. /\ holder' = NoTask \/ /\ holder' \in Tasks /\ holder' # NoTask /\ holder'.kind = holder.kind
                              /\ holder'.pc = "commit" /\ holder.ok /\ state = "SMOOTHING"
      /\ holder.kind = "retry" /\ holder' = NoTask /\ state \notin Broken =>
            retryTimer' = retryTimer
      /\ holder.kind # "retry" /\ state = "SMOOTHING" /\ holder' = NoTask => retryTimer'
      /\ holder.kind # "retry" /\ retryTimer => retryTimer'
  <2> DEFINE next == Task(holder.kind, "commit", TRUE)
             done == holder.ok /\ state = "SMOOTHING"
  <2>1. next \in Tasks /\ next # NoTask /\ next.kind = holder.kind /\ next.pc = "commit"
    BY HolderFields, TaskFields
  <2>2. CASE holder.kind = "retry"
    <3>1. /\ done => holder' = next
          /\ ~done => holder' = NoTask
          /\ retryTimer' = (retryTimer /\ ~done /\ state \notin Broken)
      BY <2>2, Zenon
    <3> HIDE DEF next
    <3>2. ~done /\ state \notin Broken => retryTimer' = retryTimer
      BY <3>1 DEF TypeOK
    <3>3. QED  BY <2>1, <2>2, <3>1, <3>2
  <2>3. CASE holder.kind # "retry"
    BY <2>1, <2>3 DEF TypeOK
  <2>4. QED  BY <2>2, <2>3
<1>1. TypeOK'
  BY <1>0, <1>a, HolderFields, NodeAssumption DEF TypeOK, Kinds, ClusterStates
<1>2. SwitchInv'
  BY <1>0, <1>a, HolderFields DEF SwitchInv, Pending
<1>3. IdleInv'
  BY <1>0, <1>a, HolderFields DEF IdleInv, SwitchInv, Pending
<1>4. FaultInv'
  BY <1>0, <1>a, HolderFields, NodeAssumption DEF FaultInv, SwitchInv, IdleInv, Pending, TypeOK
<1>5. "slowRetry" \notin Races => (RetryInv /\ SmoothingIsDriven)'
  BY <1>0, <1>a, HolderFields DEF RetryInv, SmoothingIsDriven, IdleInv
<1>6. "bmc" \notin FaultKinds => (TaskInv /\ WorkingIsReconciled)'
  BY <1>0, <1>a, HolderFields DEF TaskInv, WorkingIsReconciled, IdleInv, SwitchInv, Pending
<1>7. QED  BY <1>1, <1>2, <1>3, <1>4, <1>5, <1>6

\* The task sets the node WORKING.
LEMMA CommitStep ==
    ASSUME IInv, LedgerCommit
    PROVE  IInv'
<1> USE DEF IInv, LedgerCommit, cluster
<1>0. TypeOK /\ UpdateNodeInfoClusterState("WORKING") /\ "WORKING" \in ClusterStates
  BY DEF ClusterStates
<1>a. /\ state' \in ClusterStates \cup {Absent} /\ window' \in BOOLEAN /\ reconciled' \in BOOLEAN
      /\ ~Updates("WORKING") => UNCHANGED <<state, window, reconciled>>
      /\ Updates("WORKING") => state' = "WORKING" /\ reconciled' = reconciled
  BY <1>0, UpdateFacts
<1>1. TypeOK'
  BY <1>0, <1>a, HolderFields, TaskFields, Transitions, NodeAssumption DEF TypeOK, Kinds, ClusterStates
<1>2. SwitchInv'
  BY <1>0, <1>a, HolderFields, TaskFields, Transitions DEF SwitchInv, Pending
<1>3. IdleInv'
  BY <1>0, <1>a, HolderFields, TaskFields, Transitions DEF IdleInv, SwitchInv, Pending
<1>4. FaultInv'
  BY <1>0, <1>a, HolderFields, TaskFields, Transitions, NodeAssumption DEF FaultInv, SwitchInv, IdleInv, Pending, TypeOK
<1>5. "slowRetry" \notin Races => (RetryInv /\ SmoothingIsDriven)'
  BY <1>0, <1>a, HolderFields, TaskFields, Transitions DEF RetryInv, SmoothingIsDriven, IdleInv
<1>6. "bmc" \notin FaultKinds => (TaskInv /\ WorkingIsReconciled)'
  BY <1>0, <1>a, HolderFields, TaskFields, Transitions DEF TaskInv, WorkingIsReconciled, IdleInv, SwitchInv, Pending
<1>7. QED  BY <1>1, <1>2, <1>3, <1>4, <1>5, <1>6

\* The periodic reconciliation is queued.
LEMMA CycleTimerStep ==
    ASSUME IInv, UbseNodeLedgerTimerHandler
    PROVE  IInv'
<1> USE DEF IInv, UbseNodeLedgerTimerHandler, Execute, node, cluster
<1>1. TypeOK'
  BY NodeAssumption DEF TypeOK, Kinds, ClusterStates
<1>2. SwitchInv'
  BY DEF SwitchInv, Pending
<1>3. IdleInv'
  BY DEF IdleInv, SwitchInv, Pending
<1>4. FaultInv'
  BY NodeAssumption DEF FaultInv, SwitchInv, IdleInv, Pending, TypeOK
<1>5. "slowRetry" \notin Races => (RetryInv /\ SmoothingIsDriven)'
  BY DEF RetryInv, SmoothingIsDriven, IdleInv
<1>6. "bmc" \notin FaultKinds => (TaskInv /\ WorkingIsReconciled)'
  BY DEF TaskInv, WorkingIsReconciled, IdleInv, SwitchInv, Pending
<1>7. QED  BY <1>1, <1>2, <1>3, <1>4, <1>5, <1>6

\* The retry timer fires.
LEMMA RetryTimerStep ==
    ASSUME IInv, RetryTimerFires
    PROVE  IInv'
<1> USE DEF IInv, RetryTimerFires, Execute, node, cluster
<1>1. TypeOK'
  BY HolderFields, NodeAssumption DEF TypeOK, Kinds, ClusterStates
<1>2. SwitchInv'
  BY HolderFields DEF SwitchInv, Pending
<1>3. IdleInv'
  BY HolderFields DEF IdleInv, SwitchInv, Pending
<1>4. FaultInv'
  BY HolderFields, NodeAssumption DEF FaultInv, SwitchInv, IdleInv, Pending, TypeOK
<1>5. "slowRetry" \notin Races => (RetryInv /\ SmoothingIsDriven)'
  BY HolderFields DEF RetryInv, SmoothingIsDriven, IdleInv
<1>6. "bmc" \notin FaultKinds => (TaskInv /\ WorkingIsReconciled)'
  BY HolderFields DEF TaskInv, WorkingIsReconciled, IdleInv, SwitchInv, Pending
<1>7. QED  BY <1>1, <1>2, <1>3, <1>4, <1>5, <1>6

\* The node reports.
LEMMA ReportStep ==
    ASSUME IInv, UbseNodeReportHandler
    PROVE  IInv'
<1> USE DEF IInv, UbseNodeReportHandler, UpdateNodeInfo, LastReportIsLate,
           ProcessFaultCounter, Execute, cluster, Absent
<1>0. /\ counter' \in 0 .. Threshold /\ UNCHANGED <<window, reconciled>>
      /\ counter' = counter \/ counter' = counter + 1
  BY NodeAssumption DEF TypeOK
<1>1. TypeOK'
  BY <1>0, NodeAssumption DEF TypeOK, Kinds, ClusterStates
<1>2. SwitchInv'
  BY <1>0 DEF SwitchInv, Pending
<1>3. IdleInv'
  BY <1>0 DEF IdleInv, SwitchInv, Pending
<1>4. FaultInv'
  BY <1>0, NodeAssumption DEF FaultInv, SwitchInv, IdleInv, Pending, TypeOK
<1>5. "slowRetry" \notin Races => (RetryInv /\ SmoothingIsDriven)'
  BY <1>0 DEF RetryInv, SmoothingIsDriven, IdleInv
<1>6. "bmc" \notin FaultKinds => (TaskInv /\ WorkingIsReconciled)'
  BY <1>0 DEF TaskInv, WorkingIsReconciled, IdleInv, SwitchInv, Pending
<1>7. QED  BY <1>1, <1>2, <1>3, <1>4, <1>5, <1>6

\* A link of the node changes.
LEMMA LinkStep ==
    ASSUME IInv, NEW linkUp \in BOOLEAN, UbseLcneTopologyChangeHandler(linkUp)
    PROVE  IInv'
<1> USE DEF IInv, UbseLcneTopologyChangeHandler, UpdateNodeInfo, Execute, cluster,
           Absent
<1>1. TypeOK'
  BY NodeAssumption DEF TypeOK, Kinds, ClusterStates
<1>2. SwitchInv'
  BY DEF SwitchInv, Pending
<1>3. IdleInv'
  BY DEF IdleInv, SwitchInv, Pending
<1>4. FaultInv'
  BY NodeAssumption DEF FaultInv, SwitchInv, IdleInv, Pending, TypeOK
<1>5. "slowRetry" \notin Races => (RetryInv /\ SmoothingIsDriven)'
  BY DEF RetryInv, SmoothingIsDriven, IdleInv
<1>6. "bmc" \notin FaultKinds => (TaskInv /\ WorkingIsReconciled)'
  BY DEF TaskInv, WorkingIsReconciled, IdleInv, SwitchInv, Pending
<1>7. QED  BY <1>1, <1>2, <1>3, <1>4, <1>5, <1>6

\* A panic or a reboot is announced.
LEMMA PanicStep ==
    ASSUME IInv, HandlePanicAndRebootFault
    PROVE  IInv'
<1> USE DEF IInv, HandlePanicAndRebootFault, FaultMayCome, Suffer,
           UbseNodeRasFaultHandler, tasks, cluster
<1>0. TypeOK /\ UpdateNodeInfoClusterState("FAULT") /\ "FAULT" \in ClusterStates
  BY DEF ClusterStates
<1>a. /\ state' = "FAULT" /\ window' \in BOOLEAN /\ reconciled' \in BOOLEAN /\ ~reconciled'
  BY <1>0, UpdateFacts, Transitions
<1>1. TypeOK'
  BY <1>a, NodeAssumption DEF TypeOK, Kinds, ClusterStates
<1>2. SwitchInv'
  BY <1>a DEF SwitchInv, Pending
<1>3. IdleInv'
  BY <1>a DEF IdleInv, SwitchInv, Pending
<1>4. FaultInv'
  BY <1>a, NodeAssumption DEF FaultInv, SwitchInv, IdleInv, Pending, TypeOK
<1>5. "slowRetry" \notin Races => (RetryInv /\ SmoothingIsDriven)'
  BY <1>a DEF RetryInv, SmoothingIsDriven, IdleInv
<1>6. "bmc" \notin FaultKinds => (TaskInv /\ WorkingIsReconciled)'
  BY <1>a DEF TaskInv, WorkingIsReconciled, IdleInv, SwitchInv, Pending
<1>7. QED  BY <1>1, <1>2, <1>3, <1>4, <1>5, <1>6

\* The panic has been handled, or could not be.
LEMMA PanicHandledStep ==
    ASSUME IInv, NEW ok \in BOOLEAN, PanicHandled(ok)
    PROVE  IInv'
<1> USE DEF IInv, PanicHandled, UbseNodeRasFaultHandler, Execute, node, cluster
<1>a. \/ ok /\ state' = "FAULT" /\ counter' = 0 /\ window' \in BOOLEAN /\ reconciled' \in BOOLEAN
         /\ ~reconciled'
      \/ ~ok /\ UNCHANGED <<state, window, reconciled, counter, queued>>
  <2>1. CASE ok
    <3>1. TypeOK /\ UpdateNodeInfoClusterState("FAULT") /\ "FAULT" \in ClusterStates
      BY <2>1 DEF ClusterStates
    <3>2. counter' = 0  BY <2>1
    <3>3. QED  BY <2>1, <3>1, <3>2, UpdateFacts, Transitions
  <2>2. QED  BY <2>1
<1>b. queued' \subseteq Kinds /\ ras' \subseteq {"panic", "bmc"} /\ counter' \in 0 .. Threshold
  <2>1. \E new \in {{}, {"cycle"}, {"prefail"}} : queued' = queued \cup new
    <3>1. CASE ok  BY <3>1
    <3>2. CASE ~ok  BY <3>2
    <3>3. QED  BY <3>1, <3>2
  <2>2. queued' \subseteq Kinds  BY <2>1 DEF TypeOK, Kinds
  <2>3. counter' \in 0 .. Threshold  BY <1>a, NodeAssumption DEF TypeOK
  <2>4. QED  BY <2>2, <2>3 DEF TypeOK
<1>1. TypeOK'
  BY <1>a, <1>b, NodeAssumption DEF TypeOK, Kinds, ClusterStates
<1>2. SwitchInv'
  BY <1>a, <1>b DEF SwitchInv, Pending
<1>3. IdleInv'
  BY <1>a, <1>b DEF IdleInv, SwitchInv, Pending
<1>4. FaultInv'
  BY <1>a, <1>b, NodeAssumption DEF FaultInv, SwitchInv, IdleInv, Pending, TypeOK
<1>5. "slowRetry" \notin Races => (RetryInv /\ SmoothingIsDriven)'
  BY <1>a, <1>b DEF RetryInv, SmoothingIsDriven, IdleInv
<1>6. "bmc" \notin FaultKinds => (TaskInv /\ WorkingIsReconciled)'
  BY <1>a, <1>b DEF TaskInv, WorkingIsReconciled, IdleInv, SwitchInv, Pending
<1>7. QED  BY <1>1, <1>2, <1>3, <1>4, <1>5, <1>6

\* The BMC announces a power-off.
LEMMA BmcStep ==
    ASSUME IInv, HandleBmcFault
    PROVE  IInv'
<1> USE DEF IInv, HandleBmcFault, Absent, FaultMayCome, Suffer, PreFaultFails,
           cluster, Execute
<1>0. TypeOK /\ UpdateNodeInfoClusterState("PRE_BMC") /\ "PRE_BMC" \in ClusterStates
  BY DEF ClusterStates
<1>a. /\ state' \in ClusterStates \cup {Absent} /\ window' \in BOOLEAN /\ reconciled' \in BOOLEAN
      /\ ~Updates("PRE_BMC") => UNCHANGED <<state, window, reconciled>>
      /\ Updates("PRE_BMC") => state' = "PRE_BMC" /\ ~reconciled'
      /\ "bmc" \in FaultKinds
  BY <1>0, UpdateFacts
<1>b. queued' \subseteq Kinds /\ ras' \subseteq {"panic", "bmc"} /\ faults' \in 0 .. MaxFaults
  <2>1. \E new \in {{}, {"prefail"}} : queued' = queued \cup new
    <3>1. CASE Updates("PRE_BMC")  BY <3>1
    <3>2. CASE ~Updates("PRE_BMC")  BY <3>2
    <3>3. QED  BY <3>1, <3>2
  <2>2. queued' \subseteq Kinds  BY <2>1 DEF TypeOK, Kinds
  <2>3. faults' \in 0 .. MaxFaults  BY NodeAssumption DEF TypeOK
  <2>4. ras' \subseteq {"panic", "bmc"}  BY DEF TypeOK
  <2>5. QED  BY <2>2, <2>3, <2>4
<1>1. TypeOK'
  BY <1>0, <1>a, <1>b, Transitions, NodeAssumption DEF TypeOK, Kinds, ClusterStates
<1>2. SwitchInv'
  BY <1>0, <1>a, <1>b, Transitions DEF SwitchInv, Pending
<1>3. IdleInv'
  BY <1>0, <1>a, <1>b, Transitions DEF IdleInv, SwitchInv, Pending
<1>4. FaultInv'
  BY <1>0, <1>a, <1>b, Transitions, NodeAssumption DEF FaultInv, SwitchInv, IdleInv, Pending, TypeOK
<1>5. "slowRetry" \notin Races => (RetryInv /\ SmoothingIsDriven)'
  BY <1>0, <1>a, <1>b, Transitions DEF RetryInv, SmoothingIsDriven, IdleInv
<1>6. "bmc" \notin FaultKinds => (TaskInv /\ WorkingIsReconciled)'
  BY <1>0, <1>a, <1>b, Transitions DEF TaskInv, WorkingIsReconciled, IdleInv, SwitchInv, Pending
<1>7. QED  BY <1>1, <1>2, <1>3, <1>4, <1>5, <1>6

\* The power-off has been handled, or could not be.
LEMMA BmcHandledStep ==
    ASSUME IInv, NEW ok \in BOOLEAN, BmcHandled(ok)
    PROVE  IInv'
<1> USE DEF IInv, BmcHandled, UbseNodeRasFaultHandler, Execute, PreFaultFails, node,
           cluster
<1>a. \/ ok /\ state' = "FAULT" /\ counter' = 0 /\ window' \in BOOLEAN /\ reconciled' \in BOOLEAN
         /\ ~reconciled'
      \/ ~ok /\ UNCHANGED <<state, window, reconciled, counter>>
  <2>1. CASE ok
    <3>1. TypeOK /\ UpdateNodeInfoClusterState("FAULT") /\ "FAULT" \in ClusterStates
      BY <2>1 DEF ClusterStates
    <3>2. counter' = 0  BY <2>1
    <3>3. QED  BY <2>1, <3>1, <3>2, UpdateFacts, Transitions
  <2>2. QED  BY <2>1
<1>b. queued' \subseteq Kinds /\ ras' \subseteq {"panic", "bmc"} /\ counter' \in 0 .. Threshold
  <2>1. \E new \in {{}, {"cycle"}, {"prefail"}} : queued' = queued \cup new
    <3>1. CASE ok  BY <3>1
    <3>2. CASE ~ok  BY <3>2
    <3>3. QED  BY <3>1, <3>2
  <2>2. queued' \subseteq Kinds  BY <2>1 DEF TypeOK, Kinds
  <2>3. counter' \in 0 .. Threshold  BY <1>a, NodeAssumption DEF TypeOK
  <2>4. QED  BY <2>2, <2>3 DEF TypeOK
<1>1. TypeOK'
  BY <1>a, <1>b, NodeAssumption DEF TypeOK, Kinds, ClusterStates
<1>2. SwitchInv'
  BY <1>a, <1>b DEF SwitchInv, Pending
<1>3. IdleInv'
  BY <1>a, <1>b DEF IdleInv, SwitchInv, Pending
<1>4. FaultInv'
  BY <1>a, <1>b, NodeAssumption DEF FaultInv, SwitchInv, IdleInv, Pending, TypeOK
<1>5. "slowRetry" \notin Races => (RetryInv /\ SmoothingIsDriven)'
  BY <1>a, <1>b DEF RetryInv, SmoothingIsDriven, IdleInv
<1>6. "bmc" \notin FaultKinds => (TaskInv /\ WorkingIsReconciled)'
  BY <1>a, <1>b DEF TaskInv, WorkingIsReconciled, IdleInv, SwitchInv, Pending
<1>7. QED  BY <1>1, <1>2, <1>3, <1>4, <1>5, <1>6

\* The process becomes master.
LEMMA PromoteStep ==
    ASSUME IInv, Promote
    PROVE  IInv'
<1> USE DEF IInv, Promote, node, tasks
<1>a. /\ Pending = {} /\ Pending' = {"ONLINE"} /\ DOMAIN events' = {1} /\ events'[1] = "ONLINE"
      /\ events' \in Seq({"UP", "DOWN", "ONLINE", "CLEAN"}) /\ mirror' \in Mirrors
  BY DEF Pending
<1>1. TypeOK'
  BY <1>a, NodeAssumption DEF TypeOK, Kinds, ClusterStates
<1>2. SwitchInv'
  BY <1>a DEF SwitchInv, Pending
<1>3. IdleInv'
  BY <1>a DEF IdleInv, SwitchInv, Pending
<1>4. FaultInv'
  BY <1>a, NodeAssumption DEF FaultInv, SwitchInv, IdleInv, Pending, TypeOK
<1>5. "slowRetry" \notin Races => (RetryInv /\ SmoothingIsDriven)'
  BY <1>a DEF RetryInv, SmoothingIsDriven, IdleInv
<1>6. "bmc" \notin FaultKinds => (TaskInv /\ WorkingIsReconciled)'
  BY <1>a DEF TaskInv, WorkingIsReconciled, IdleInv, SwitchInv, Pending
<1>7. QED  BY <1>1, <1>2, <1>3, <1>4, <1>5, <1>6

\* Another node becomes master.
LEMMA DemoteStep ==
    ASSUME IInv, Demote
    PROVE  IInv'
<1> USE DEF IInv, Demote, Suffer, node, tasks
<1>0. TypeOK /\ events' = Append(events, "CLEAN")
  OBVIOUS
<1>a. /\ events' \in Seq({"UP", "DOWN", "ONLINE", "CLEAN"})
      /\ Pending' = Pending \cup {"CLEAN"}
      /\ (\A j, k \in DOMAIN events : events[j] = "ONLINE" /\ events[k] = "CLEAN" => j < k)
         => (\A j, k \in DOMAIN events' :
               events'[j] = "ONLINE" /\ events'[k] = "CLEAN" => j < k)
  BY <1>0, AppendFacts
<1>1. TypeOK'
  BY <1>a, NodeAssumption DEF TypeOK, Kinds, ClusterStates
<1>2. SwitchInv'
  BY <1>a DEF SwitchInv, Pending
<1>3. IdleInv'
  BY <1>a DEF IdleInv, SwitchInv, Pending
<1>4. FaultInv'
  BY <1>a, NodeAssumption DEF FaultInv, SwitchInv, IdleInv, Pending, TypeOK
<1>5. "slowRetry" \notin Races => (RetryInv /\ SmoothingIsDriven)'
  BY <1>a DEF RetryInv, SmoothingIsDriven, IdleInv
<1>6. "bmc" \notin FaultKinds => (TaskInv /\ WorkingIsReconciled)'
  BY <1>a DEF TaskInv, WorkingIsReconciled, IdleInv, SwitchInv, Pending
<1>7. QED  BY <1>1, <1>2, <1>3, <1>4, <1>5, <1>6

\* The node joins.
LEMMA JoinStep ==
    ASSUME IInv, NodeJoins
    PROVE  IInv'
<1> USE DEF IInv, NodeJoins, node, tasks
<1>0. TypeOK /\ events' = Append(events, "UP")
  OBVIOUS
<1>a. /\ events' \in Seq({"UP", "DOWN", "ONLINE", "CLEAN"})
      /\ Pending' = Pending \cup {"UP"}
      /\ (\A j, k \in DOMAIN events : events[j] = "ONLINE" /\ events[k] = "CLEAN" => j < k)
         => (\A j, k \in DOMAIN events' :
               events'[j] = "ONLINE" /\ events'[k] = "CLEAN" => j < k)
  BY <1>0, AppendFacts
<1>1. TypeOK'
  BY <1>a, NodeAssumption DEF TypeOK, Kinds, ClusterStates
<1>2. SwitchInv'
  BY <1>a DEF SwitchInv, Pending
<1>3. IdleInv'
  BY <1>a DEF IdleInv, SwitchInv, Pending
<1>4. FaultInv'
  BY <1>a, NodeAssumption DEF FaultInv, SwitchInv, IdleInv, Pending, TypeOK
<1>5. "slowRetry" \notin Races => (RetryInv /\ SmoothingIsDriven)'
  BY <1>a DEF RetryInv, SmoothingIsDriven, IdleInv
<1>6. "bmc" \notin FaultKinds => (TaskInv /\ WorkingIsReconciled)'
  BY <1>a DEF TaskInv, WorkingIsReconciled, IdleInv, SwitchInv, Pending
<1>7. QED  BY <1>1, <1>2, <1>3, <1>4, <1>5, <1>6

\* The node leaves.
LEMMA LeaveStep ==
    ASSUME IInv, NodeLeaves
    PROVE  IInv'
<1> USE DEF IInv, NodeLeaves, Suffer, node, tasks
<1>0. TypeOK /\ events' = Append(events, "DOWN")
  OBVIOUS
<1>a. /\ events' \in Seq({"UP", "DOWN", "ONLINE", "CLEAN"})
      /\ Pending' = Pending \cup {"DOWN"}
      /\ (\A j, k \in DOMAIN events : events[j] = "ONLINE" /\ events[k] = "CLEAN" => j < k)
         => (\A j, k \in DOMAIN events' :
               events'[j] = "ONLINE" /\ events'[k] = "CLEAN" => j < k)
  BY <1>0, AppendFacts
<1>b. faults' \in 0 .. MaxFaults
  BY NodeAssumption DEF TypeOK
<1>1. TypeOK'
  BY <1>a, <1>b, NodeAssumption DEF TypeOK, Kinds, ClusterStates
<1>2. SwitchInv'
  BY <1>a, <1>b DEF SwitchInv, Pending
<1>3. IdleInv'
  BY <1>a, <1>b DEF IdleInv, SwitchInv, Pending
<1>4. FaultInv'
  BY <1>a, <1>b, NodeAssumption DEF FaultInv, SwitchInv, IdleInv, Pending, TypeOK
<1>5. "slowRetry" \notin Races => (RetryInv /\ SmoothingIsDriven)'
  BY <1>a, <1>b DEF RetryInv, SmoothingIsDriven, IdleInv
<1>6. "bmc" \notin FaultKinds => (TaskInv /\ WorkingIsReconciled)'
  BY <1>a, <1>b DEF TaskInv, WorkingIsReconciled, IdleInv, SwitchInv, Pending
<1>7. QED  BY <1>1, <1>2, <1>3, <1>4, <1>5, <1>6

\* NODE_UP is handled.
LEMMA UpStep ==
    ASSUME IInv, NEW i, UbseNodeUpHandler(i)
    PROVE  IInv'
<1> USE DEF IInv, UbseNodeUpHandler, Execute, node
<1>0. TypeOK /\ Delivered(i, "UP")
  OBVIOUS
<1>a. /\ events' \in Seq({"UP", "DOWN", "ONLINE", "CLEAN"})
      /\ "UP" \in Pending /\ Pending' \subseteq Pending
      /\ \A x \in Pending : x # "UP" => x \in Pending'
      /\ (\A j, k \in DOMAIN events : events[j] = "ONLINE" /\ events[k] = "CLEAN" => j < k)
         => (\A j, k \in DOMAIN events' :
               events'[j] = "ONLINE" /\ events'[k] = "CLEAN" => j < k)
      /\ UNCHANGED <<role, up, ras, faults>>
  BY <1>0, DeliveredFacts
<1>1. TypeOK'
  BY <1>a, NodeAssumption DEF TypeOK, Kinds, ClusterStates
<1>2. SwitchInv'
  BY <1>a DEF SwitchInv, Pending
<1>3. IdleInv'
  BY <1>a DEF IdleInv, SwitchInv, Pending
<1>4. FaultInv'
  BY <1>a, NodeAssumption DEF FaultInv, SwitchInv, IdleInv, Pending, TypeOK
<1>5. "slowRetry" \notin Races => (RetryInv /\ SmoothingIsDriven)'
  BY <1>a DEF RetryInv, SmoothingIsDriven, IdleInv
<1>6. "bmc" \notin FaultKinds => (TaskInv /\ WorkingIsReconciled)'
  BY <1>a DEF TaskInv, WorkingIsReconciled, IdleInv, SwitchInv, Pending
<1>7. QED  BY <1>1, <1>2, <1>3, <1>4, <1>5, <1>6

\* NODE_DOWN is handled.
LEMMA DownStep ==
    ASSUME IInv, NEW i, UbseNodeDownHandler(i)
    PROVE  IInv'
<1> USE DEF IInv, UbseNodeDownHandler, tasks
<1>0. TypeOK /\ Delivered(i, "DOWN")
  OBVIOUS
<1>a. /\ events' \in Seq({"UP", "DOWN", "ONLINE", "CLEAN"})
      /\ "DOWN" \in Pending /\ Pending' \subseteq Pending
      /\ \A x \in Pending : x # "DOWN" => x \in Pending'
      /\ (\A j, k \in DOMAIN events : events[j] = "ONLINE" /\ events[k] = "CLEAN" => j < k)
         => (\A j, k \in DOMAIN events' :
               events'[j] = "ONLINE" /\ events'[k] = "CLEAN" => j < k)
      /\ UNCHANGED <<role, up, ras, faults>>
  BY <1>0, DeliveredFacts
<1>b. /\ state' \in ClusterStates \cup {Absent} /\ window' \in BOOLEAN /\ reconciled' \in BOOLEAN
      /\ \/ UNCHANGED <<state, window, reconciled>>
         \/ state' = "UNKNOWN" /\ ~reconciled'
  <2>1. TypeOK /\ UpdateNodeInfoClusterState("UNKNOWN") /\ "UNKNOWN" \in ClusterStates
    BY DEF ClusterStates
  <2>2. QED  BY <2>1, UpdateFacts
<1>1. TypeOK'
  BY <1>a, <1>b, NodeAssumption DEF TypeOK, Kinds, ClusterStates
<1>2. SwitchInv'
  BY <1>a, <1>b DEF SwitchInv, Pending
<1>3. IdleInv'
  BY <1>a, <1>b DEF IdleInv, SwitchInv, Pending
<1>4. FaultInv'
  BY <1>a, <1>b, NodeAssumption DEF FaultInv, SwitchInv, IdleInv, Pending, TypeOK
<1>5. "slowRetry" \notin Races => (RetryInv /\ SmoothingIsDriven)'
  BY <1>a, <1>b DEF RetryInv, SmoothingIsDriven, IdleInv
<1>6. "bmc" \notin FaultKinds => (TaskInv /\ WorkingIsReconciled)'
  BY <1>a, <1>b DEF TaskInv, WorkingIsReconciled, IdleInv, SwitchInv, Pending
<1>7. QED  BY <1>1, <1>2, <1>3, <1>4, <1>5, <1>6

\* The new master starts its executor.
LEMMA OnlineStep ==
    ASSUME IInv, NEW i, UbseMasterOnlineHandler(i)
    PROVE  IInv'
<1> USE DEF IInv, UbseMasterOnlineHandler, node, tasks
<1>0. TypeOK /\ Delivered(i, "ONLINE")
  OBVIOUS
<1>a. /\ events' \in Seq({"UP", "DOWN", "ONLINE", "CLEAN"})
      /\ "ONLINE" \in Pending /\ Pending' \subseteq Pending
      /\ \A x \in Pending : x # "ONLINE" => x \in Pending'
      /\ (\A j, k \in DOMAIN events : events[j] = "ONLINE" /\ events[k] = "CLEAN" => j < k)
         => (\A j, k \in DOMAIN events' :
               events'[j] = "ONLINE" /\ events'[k] = "CLEAN" => j < k)
      /\ UNCHANGED <<role, up, ras, faults>>
  BY <1>0, DeliveredFacts
<1>1. TypeOK'
  BY <1>a, NodeAssumption DEF TypeOK, Kinds, ClusterStates
<1>2. SwitchInv'
  BY <1>a DEF SwitchInv, Pending
<1>3. IdleInv'
  BY <1>a DEF IdleInv, SwitchInv, Pending
<1>4. FaultInv'
  BY <1>a, NodeAssumption DEF FaultInv, SwitchInv, IdleInv, Pending, TypeOK
<1>5. "slowRetry" \notin Races => (RetryInv /\ SmoothingIsDriven)'
  BY <1>a DEF RetryInv, SmoothingIsDriven, IdleInv
<1>6. "bmc" \notin FaultKinds => (TaskInv /\ WorkingIsReconciled)'
  BY <1>a DEF TaskInv, WorkingIsReconciled, IdleInv, SwitchInv, Pending
<1>7. QED  BY <1>1, <1>2, <1>3, <1>4, <1>5, <1>6

\* The former master cleans up; the start of its executor is not pending any more.
LEMMA CleanStep ==
    ASSUME IInv, NEW i, UbseNodeCleanAfterSwitchStandby(i)
    PROVE  IInv'
<1> USE DEF IInv, UbseNodeCleanAfterSwitchStandby, Absent
<1>0. TypeOK /\ Delivered(i, "CLEAN")
  OBVIOUS
<1>a. /\ events' \in Seq({"UP", "DOWN", "ONLINE", "CLEAN"})
      /\ "CLEAN" \in Pending /\ Pending' \subseteq Pending
      /\ \A x \in Pending : x # "CLEAN" => x \in Pending'
      /\ (\A j, k \in DOMAIN events : events[j] = "ONLINE" /\ events[k] = "CLEAN" => j < k)
         => (\A j, k \in DOMAIN events' :
               events'[j] = "ONLINE" /\ events'[k] = "CLEAN" => j < k)
      /\ UNCHANGED <<role, up, ras, faults>>
  BY <1>0, DeliveredFacts
<1>b. "ONLINE" \notin Pending
  <2>1. /\ DOMAIN events = 1 .. Len(events) /\ Len(events) \in Nat
        /\ i \in DOMAIN events /\ events[i] = "CLEAN"
        /\ i = 1 \/ \A j \in 1 .. i - 1 : events[j] \in {"UP", "DOWN"}
    BY <1>0 DEF Delivered, MayRun, TypeOK
  <2>2. \A j \in DOMAIN events : events[j] = "ONLINE" => j < i
    BY <2>1 DEF SwitchInv
  <2>3. QED  BY <2>1, <2>2 DEF Pending
<1>1. TypeOK'
  BY <1>a, <1>b, NodeAssumption DEF TypeOK, Kinds, ClusterStates
<1>2. SwitchInv'
  BY <1>a, <1>b DEF SwitchInv, Pending
<1>3. IdleInv'
  BY <1>a, <1>b DEF IdleInv, SwitchInv, Pending
<1>4. FaultInv'
  BY <1>a, <1>b, NodeAssumption DEF FaultInv, SwitchInv, IdleInv, Pending, TypeOK
<1>5. "slowRetry" \notin Races => (RetryInv /\ SmoothingIsDriven)'
  BY <1>a, <1>b DEF RetryInv, SmoothingIsDriven, IdleInv
<1>6. "bmc" \notin FaultKinds => (TaskInv /\ WorkingIsReconciled)'
  BY <1>a, <1>b DEF TaskInv, WorkingIsReconciled, IdleInv, SwitchInv, Pending
<1>7. QED  BY <1>1, <1>2, <1>3, <1>4, <1>5, <1>6

\* The mirror of a promotion is consumed.
LEMMA MirrorStep ==
    ASSUME IInv, ConsumeMirrorNode
    PROVE  IInv'
<1> USE DEF IInv, ConsumeMirrorNode, Absent, TakenOver, node, tasks
<1>a. /\ state' \in ClusterStates \cup {Absent} /\ window' \in BOOLEAN /\ reconciled' \in BOOLEAN
      /\ \/ UNCHANGED <<state, window, reconciled, counter>>
         \/ /\ state' \notin {"WORKING", "SMOOTHING"} /\ ~reconciled'
            /\ counter' = IF state' = "FAULT" THEN 0 ELSE counter
  <2>1. mirror \in Mirrors  BY DEF TypeOK
  <2>2. mirror.state \in ClusterStates \cup {Absent} /\ mirror.window \in BOOLEAN
    BY <2>1 DEF Mirrors
  <2>3. QED  BY <2>2 DEF ClusterStates, TypeOK
<1>1. TypeOK'
  BY <1>a, NodeAssumption DEF TypeOK, Kinds, ClusterStates
<1>2. SwitchInv'
  BY <1>a DEF SwitchInv, Pending
<1>3. IdleInv'
  BY <1>a DEF IdleInv, SwitchInv, Pending
<1>4. FaultInv'
  BY <1>a, NodeAssumption DEF FaultInv, SwitchInv, IdleInv, Pending, TypeOK
<1>5. "slowRetry" \notin Races => (RetryInv /\ SmoothingIsDriven)'
  BY <1>a DEF RetryInv, SmoothingIsDriven, IdleInv
<1>6. "bmc" \notin FaultKinds => (TaskInv /\ WorkingIsReconciled)'
  BY <1>a DEF TaskInv, WorkingIsReconciled, IdleInv, SwitchInv, Pending
<1>7. QED  BY <1>1, <1>2, <1>3, <1>4, <1>5, <1>6

-----------------------------------------------------------------------------
(* The theorems.                                                           *)

\* Every step keeps the inductive invariant.
LEMMA NextIInv == IInv /\ [Next]_vars => IInv'
<1> SUFFICES ASSUME IInv, [Next]_vars PROVE IInv'
  OBVIOUS
<1>1. CASE TaskStep
  <2>1. CASE UbseNodeUpLedger
    <3> DEFINE goesOn == state # Absent
    <3>1. "upLedger" \in Kinds \ {"up"} /\ goesOn \in BOOLEAN /\ Begin("upLedger", goesOn)
          /\ UNCHANGED retryTimer /\ retryTimer' \in BOOLEAN
      BY <2>1 DEF UbseNodeUpLedger, Kinds, IInv, TypeOK
    <3> HIDE DEF goesOn
    <3>2. QED  BY <3>1, BeginStep
  <2>2. CASE UbseNodeCycleLedger
    <3> DEFINE goesOn == state = "WORKING"
    <3>1. "cycle" \in Kinds \ {"up"} /\ goesOn \in BOOLEAN /\ Begin("cycle", goesOn)
          /\ UNCHANGED retryTimer /\ retryTimer' \in BOOLEAN
      BY <2>2 DEF UbseNodeCycleLedger, Kinds, IInv, TypeOK
    <3> HIDE DEF goesOn
    <3>2. QED  BY <3>1, BeginStep
  <2>3. CASE UbseNodeRetryLedger
    <3> DEFINE goesOn == state \notin Broken \cup {Absent}
    <3>1. "retry" \in Kinds \ {"up"} /\ goesOn \in BOOLEAN /\ Begin("retry", goesOn)
          /\ retryTimer' = (retryTimer /\ goesOn)
      BY <2>3 DEF UbseNodeRetryLedger, Kinds
    <3>2. retryTimer' \in BOOLEAN  BY <3>1, Zenon
    <3>3. goesOn = (state \notin Broken \cup {Absent})  OBVIOUS
    <3> HIDE DEF goesOn
    <3>4. QED  BY <3>1, <3>2, <3>3, BeginStep
  <2>4. CASE ExecuteNodeSmoothing
    <3> DEFINE goesOn == state = "FAULT"
    <3>1. "smooth" \in Kinds \ {"up"} /\ goesOn \in BOOLEAN /\ Begin("smooth", goesOn)
          /\ UNCHANGED retryTimer /\ retryTimer' \in BOOLEAN
      BY <2>4 DEF ExecuteNodeSmoothing, Kinds, IInv, TypeOK
    <3>2. goesOn = (state = "FAULT")  OBVIOUS
    <3> HIDE DEF goesOn
    <3>3. QED  BY <3>1, <3>2, BeginStep
  <2>5. CASE PreFaultFailLedger
    <3>1. "prefail" \in Kinds \ {"up"} /\ Begin("prefail", TRUE)
          /\ UNCHANGED retryTimer /\ retryTimer' \in BOOLEAN
      BY <2>5 DEF PreFaultFailLedger, Kinds, IInv, TypeOK
    <3>2. QED  BY <3>1, BeginStep
  <2>6. QED
    BY <1>1, <2>1, <2>2, <2>3, <2>4, <2>5, UpExecStep, StartStep, HandlersStep,
       CheckStep, CommitStep DEF TaskStep
<1>2. CASE Deliver
  BY <1>2, UpStep, DownStep, OnlineStep, CleanStep DEF Deliver
<1>3. CASE RasStep
  BY <1>3, PanicHandledStep, BmcHandledStep DEF RasStep
<1>4. CASE UNCHANGED vars
  BY <1>4 DEF vars, IInv, TypeOK, SwitchInv, IdleInv, FaultInv, RetryInv, TaskInv,
     SmoothingIsDriven, WorkingIsReconciled, Pending
<1>5. QED
  BY <1>1, <1>2, <1>3, <1>4, MirrorStep, ExpiryStep, CycleTimerStep, RetryTimerStep,
     ReportStep, LinkStep, PanicStep, BmcStep, PromoteStep, DemoteStep, JoinStep,
     LeaveStep DEF Next

\* The inductive invariant holds throughout.
THEOREM NodeInvariant == Spec => []IInv
<1>1. QED  BY InitIInv, NextIInv, PTL DEF Spec

\* The entry, the tasks, the counter and the events of a node have their types:
\* in particular the report counter never passes its threshold
\* (ProcessFaultCounter), whatever the faults and the order of the threads.
THEOREM NodeTypeCorrect == Spec => []TypeOK
<1>1. IInv => TypeOK  BY DEF IInv
<1>2. QED  BY <1>1, NodeInvariant, PTL

\* A fault is not for ever: on a master the reports of a FAULT node are counted,
\* or the task that ends the fault (ExecuteNodeSmoothing) is queued or about to
\* set the node SMOOTHING.  No assumption on faults or races.
THEOREM FaultCounted == Spec => []FaultIsCounted
<1>1. IInv => FaultIsCounted
  BY DEF IInv, SwitchInv, FaultInv, FaultIsCounted
<1>2. QED  BY <1>1, NodeInvariant, PTL

\* A node is never left SMOOTHING without a task or a retry (UbseNodeLedger,
\* UbseNodeRetryLedger), as long as a retry ends before the timer fires again.
THEOREM SmoothingDriven ==
    ASSUME "slowRetry" \notin Races
    PROVE  Spec => []SmoothingIsDriven
<1>1. IInv => SmoothingIsDriven  BY DEF IInv
<1>2. QED  BY <1>1, NodeInvariant, PTL

\* A master that takes a node for WORKING has reconciled it since the node was
\* last set to anything else, as long as no BMC announces power-offs: PRE_BMC is
\* the one state a task may set WORKING without having reconciled
\* (CanUpdateNodeClusterState).
THEOREM WorkingReconciled ==
    ASSUME "bmc" \notin FaultKinds
    PROVE  Spec => []WorkingIsReconciled
<1>1. IInv => WorkingIsReconciled  BY DEF IInv
<1>2. QED  BY <1>1, NodeInvariant, PTL
=============================================================================
