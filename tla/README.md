# Verification of the UB Service Engine (ubs-engine)

The daemon `ubse` runs on every node of a UB cluster. The nodes elect a master
(`src/src/framework/ha`); the master keeps the state of every node
(`src/src/controllers/node`) and the ledger of memory that nodes lend to each
other, and drives borrowing, sharing and returning it
(`src/src/controllers/mem`). This directory holds TLA+ models of these protocols,
of the event framework under them and of one addon on top of them, the TLC
configurations that check them, and TLAPS proofs.

## 1. Inventory

| Part | State it keeps | Operations | Talks to |
|---|---|---|---|
| Election (`framework/ha`) | current role object, last heartbeat, turn id, per-node loss counter and status, connections | `ProcTimer`, `RecvPkt`, `SwitchRole`, link-down callback, RAS hand-over | peers (SELECT, HEART), subscribers (role and node events) |
| Memory controller, master (`mem_controller/api`) | debt ledger: import and export objects per name, export index | borrow, attach, detach, return, permission, callbacks of agent reports | agents (objects as commands), clients (responses), scheduler |
| Memory controller, agent (same files) | its own ledger, kernel mappings | export, unexport, import, unimport | master (reports), drivers (`adapter_plugins/mmi`) |
| Reconciliation (`ubse_mem_controller_ledger.cpp`) | the nodes reconciled so far | compares the ledgers of a node with the master's and removes the difference | agents, node controller |
| Scheduler (`mem_scheduler`) | accounts per numa node | allocate, `MemoryObjChangeHandler` | master |
| Node controller (`controllers/node`) | cluster state of every node, fault counters, retry timers, mirror on the standby | node up and down, report, fault, reconciliation tasks, promotion, demotion | election events, RAS, reconciliation |
| RAS (`ras`) | pending faults | panic, reboot, BMC power-off, hand-over | election, node controller, memory controller |
| Event framework (`framework/event`) | subscriptions, published events, three priority queues | subscribe, publish, distribute, stop | every module |
| HAM migration (`addons/virt_agent/migrate`) | tasks in a cache, on disk and in the clear queue | borrow, clear, panic notice, rollback | memory controller, page scanner, storage |
| com, ipc, timer, thread pool, storage, config, SDK, CLI, other addons | – | infrastructure and clients | everybody |

Hard behaviour. *Election*: SELECT packets are sent outside the role's lock while
communication threads replace the role; a packet without answer counts as consent,
so partitions elect two masters on purpose and the merge has to decide between
them with stale counts; a restoring node answers but does not take part.
*Memory*: a borrow is a chain of four messages between three nodes and any link
of it can fail, be delivered although its send reported failure, or be delivered
twice; messages are acknowledged first and handled later by a pool, in any order;
reports are filtered by two flags that are not part of the wire format.
*Reconciliation*: compares copies taken at different moments while the protocol
goes on. *Node controller*: events come on detached threads, faults are
handled without the lock that reconciliation holds, and a change of master
hands half of the state over. *Share memory*: many importers of one export, with
two levels of locks. *HAM*: four external calls with a record each, crashes, and
three kinds of threads that read and write the same task. *Events*: bounded queues,
one distributor, condition variables. `PROJECT.json` lists the hazards with their
lines.

What makes the parts correct: the election converges to one master that all
follow, only candidates lead, subscribers hear of each node's coming and going in turn; memory that is
mapped is never unexported, ledgers agree with the hardware when nothing is under
way, or after reconciliation, answers are true and every request is answered; a
node that works has been reconciled, a reachable node works in the end; what
is borrowed for a migration is recorded and returned; events leave their queues in order
and reach their subscribers, and the framework can be stopped.

## 2. Modules

| Module | Content |
|---|---|
| `Election` | the election of all nodes: one action per handler of each role, network, crashes, time |
| `ElectionProofs` | TLAPS proofs about `Election` |
| `FdBorrow` | borrow and return of one named fd memory: master, exporters, importer |
| `FdBorrowProofs` | TLAPS proofs about `FdBorrow`, the refinement of `FdLease` included |
| `FdLease` | the contract of a name towards its clients; `FdBorrow` implements it |
| `FdLedger` | reconciliation, takeover and restarts, composed with `FdBorrow` (which it extends) |
| `FdLedgerProofs` | TLAPS proofs about `FdLedger` |
| `ShareBorrow` | a shared memory: created, attached by several nodes, detached, deleted |
| `ShareBorrowProofs` | TLAPS proofs about `ShareBorrow` |
| `NodeController` | the cluster state of one node, as a master-to-be, master and former master keeps it |
| `NodeControllerProofs` | TLAPS proofs about `NodeController` |
| `HamMigrate` | the task of one migrating VM in the virt_agent addon |
| `HamMigrateProofs` | TLAPS proofs about `HamMigrate` |
| `Event`, `MCEvent` | the event framework; `MCEvent` gives its function-valued constants |
| `EventProofs` | TLAPS proofs about `Event` |
| `Subsequences`, `SubsequenceProofs` | what is left of a sequence when elements are erased, and theorems about it |

The other `.cfg` files instantiate the modules directly: their parameters are CONSTANTS
that a configuration can set. Orders of steps that only a slow thread or a busy cluster brings
about are CONSTANTS too (`Races`); section 5 says which of them break what.

### 2.1 Election

`cur[n]` is `RoleMgr::currentRole_` of node *n*, one record for the fields of the
four role classes. `elec[n]` is the loop of `SendElectionPkt` that the timer thread
runs without holding the lock: `InitializerProcTimer`/`AgentProcTimer` start it,
`SendElectionPkt(n, d)` is one turn, `ElectionResult` the locked tail. `fresh` is
`IsCurrentRole()`: `SwitchRole` clears it, an update in place does not.
`net[s][d]` is the last undelivered HEART, `live` whether the Master object that
sent it still exists (`AsyncDealReply` and `~Master`). `told[n][d]` is a history
variable: the sequence of NODE_UP and NODE_DOWN events that *n*'s present Master has sent
about *d*, from its timer (`DealNodeUpdate`) and from the link-down callback
(`SetNodeDownStatus`). The second sends NODE_DOWN for any ACTIVE node, one that answered
its first heartbeat after the last beat included, of which no NODE_UP was sent;
`DownsPaired` names this as the one unpaired NODE_DOWN. No document or test of the repository
rules it out.

Time is counted in heartbeat intervals. `Tick` advances all clocks; normally it
waits until every packet that can be delivered has been handled and every due
timer has run (an interval is long compared with a handler). A "slow" fault lets an
interval end earlier.

Abstractions: a receiver's handler and the reply callback of the sender are one
step, unless the answer is lost ("timeout"); SELECT handlers change no state, so
the answer is a function of the state (`SelectAccepted`); a heartbeat that is
overtaken by the next one on the same link is dropped; the rejection of a packet
by a role object replaced while the packet was handled is a lost answer; the
candidate list is the same on all nodes; the broadcast and work-readiness
statuses, which influence no role decision, are left out; a hand-over by RAS is one
step. `MaxAge` merges ages beyond every threshold, and the loss counter stops at `HbLost + 1`,
though it counts on in the code, because only comparisons with `HbLost` read it. `MaxTurn` is never reached
within the fault bounds of the runs.

Faults (`FaultKinds`, at most `MaxFaults`): `partition`, `crash` (with restart, all
state lost), `link` (a connection breaks; also the notice of a dead peer),
`timeout` (an answer is lost), `early` (the answer to a heartbeat overtakes the
counting of that beat, `Master::ProcTimer` releases `mtx_` in between), `slow`, `switch` (hand-over).

### 2.2 FdBorrow

One name and one importer; master, importer and exporters are different nodes.
`mImp`, `mExp[e]`, `mIdx` are the master's ledger with `exportResIdToNodeId_`; `aImp`, `aExp[e]`
the agents' ledgers; `mapped` and `lent` the hardware, seen by nobody. `msgs` is
the set of objects that have been sent and not handled. Each handler is an action:
it runs under the lock of (name, importer) of its process, its sends included.
`Faults(kinds)` chooses what goes wrong in a step.

Abstractions: of an object only its states, exporter, request ids and the two report
flags are kept; sizes, permissions, decoder data and the scheduler's accounts are
left out (any exporter may be chosen); refusals before anything is changed
(unsupported feature, ledger of a node not ready, authorisation) are the one fault
"refuse"; the requester is the import node. The branches of `FdReturnExistImport` and
`HandleSingleExportReturn` for stored states EXPORT_DESTROYED and IMPORT_DESTROYED are
dead: these states are never stored. `Patient` says that the client
awaits the answer to a return before it sends the next one.

Some failures leave work to reconciliation by design or by the error path taken
(`LeftToLedger`: a failed unexport or signature, a lost report, a late or doubled
message). `debt` records that one of them happened; from then on QuietAgreement,
AnswersTruthful and EventuallyAnswered promise nothing, while MappedIsLent,
IndexFindsExports and ImplementsLease go on to hold.

### 2.3 FdLedger

`CollectAllLedger(n)` takes the copies (`snap`): the master's object of *n*, that of *n*
itself and that of the importer, which may be missing. `FdBorrowLedger` applies
the difference, for an exporter (`ExportLedger`) or the importer (`ImportLedger`),
by the handlers of the source. `ready` is `initLedgerDoneSet_`: requests wait for it.
`TakeOver` empties the master's ledger, `LoadLocalAllObjs` rebuilds an agent's from the
hardware, `Reboot` ends the importer's mapping. Reconciliation is triggered by the
node controller again and again (`UbseNodeLedgerTimerHandler`), which is the fairness of
`LedgerFairSpec`.

### 2.4 ShareBorrow

One name. Every borrow creates a memory of its own, so that a mapping of an old memory
can be told from one of the present memory. `lock[i]` is the lock of (name, i)
with the object that an attach or detach holds between its checks and its
send; `NameIsFree` is the name's read-write lock, which attaches share and deletes
need alone. An attach or detach is requested by the importer that it is for (the code makes the
key of the lock from the name and `requestNodeId`, so that a request on behalf of another node
would take another lock); the history variable `target[r]` keeps which importer that was, for the
answers to be judged by. `MaxRefCountExports` is the choice of the export with most importers among
equals. An importer that is the exporter maps without an import (`realExe`).

### 2.5 NodeController

`state` is the cluster state of one node with `ABSENT` for a node the master has no
entry of; `window` is the protection period of FAULT, `counter` the entry of
`faultReportCounters_` (`Threshold` stands for none), `queued` and `holder` the tasks of
the executor and the one holding the node's lock, with its place in the code
(`start`, `handlers`, `check`, `commit`). `events` are notifications on
detached threads, `mirror` what a standby holds for its promotion, `ras` the faults
being handled. `reconciled` is a history variable: the state handlers have succeeded
since the node was last set to another state. Handlers that take no
lock are actions enabled between the steps of a task.

### 2.6 HamMigrate

`cache` and `disk` are the task of the VM in `hamMigrateCache` and in the storage,
`queue` the clear queue, `borrow`, `writer` and `roll` the threads of a borrow request, of a
clear request or panic notice, and of the clear queue. `smap` is what the page
scanner was told, `borrowed` the memory that is borrowed, `given` what the rollback gave up
after its retries. The rollback of a VM that used no borrowed memory before (`NOBORROW_NOMIGRATE`)
removes its scan and is then done (`RollbackProcessTracking`, `ham_migrate.cpp:1024-1035`): nothing
starts its page migration again, and `RestIsRestored` promises that only for a VM that used
borrowed memory. Times are abstracted to "zero" (due) and "later".

### 2.7 Event

Each action is one critical section, with two exceptions in the worker's loop. A worker that
finds its queue empty has `tested` it and holds the mutex until it sleeps (`Sleep`); all that need the
mutex wait for it (`Unlocked`), but `StopQueue` does not take the mutex. And the mutex is released between
taking a task (`GetTask`, which moves it to `got`) and the call of its handler (`CallHandler`, which
tests `isRunning_` first), so that the calls of two workers may start in the other order.
`workers[p]` counts the workers of a priority by state; `WakeOne` and `WakeAll` are the notifications.
`taken[h]` lists the events whose tasks for *h* were taken. `Hanging` handlers may never return.

## 3. Runs

| Run | Instance | Shows | States |
|---|---|---|---|
| `election_safety` | 3 nodes, candidates 2 and 3, one fault of any kind but a partition | type, OnlyCandidatesLead, LeaderIffMaster, EventsMatchPreNodes, DownsPaired, Converges | 29,000 |
| `election_boot` | cold start of 3 nodes, one crash | PromotionJustified, Converges | 180,000 |
| `election_partition` | 4 nodes, candidates 1 and 2, any partition or a hand-over, also to the standby | Converges, with merges of equal sides | 120,000 |
| `fd_protocol` | 2 exporters, 3 borrows, 3 returns, 3 faults of any kind but late, dup | type, MappedIsLent, IndexFindsExports, ImplementsLease; QuietAgreement, AnswersTruthful, EventuallyAnswered while nothing is left to reconciliation | 141,000 |
| `ledger_converge` | 2 exporters, 2 borrows, 1 return, 3 faults or upsets | MappedIsLent, LedgersConverge | 237,000 |
| `ledger_midway` | 1 exporter, 1 borrow, no fault, reconciliation during the borrow | **violated**: MappedIsLent | |
| `node_safety` | 3 disturbances, overtaking events, faults during a switch | type, WorkingIsReconciled, SmoothingIsDriven, FaultIsCounted | 2.1 million |
| `node_recovery` | 2 disturbances with the BMC, events in order | SmoothingIsDriven, FaultIsCounted, ReachableNodeWorks | 97,000 |
| `share_lifecycle` | 2 memories of a name, 2 importers, 2 attaches, 2 detaches, a delete, 2 faults | type, UsedIsLent, QuietAgreement, AnswersTruthful, EventuallyAnswered | 436,000 |
| `ham_lifecycle` | 2 borrows, 2 clears or notices, 2 retries, 2 faults | type, BorrowedIsRecorded, RestIsRestored, EventuallyCleared | 156,000 |
| `event_delivery` | 2 handlers, pools of 1 and 2 threads, capacity 1, 3 events | type, TakenInOrder, Delivered | 293,000 |
| `event_stop` | 2 handlers, pools of 2 threads, 1 event | **violated**: StopEnds | |

Bounds. Election: three nodes give a master, a standby and an agent; four nodes are the
smallest cluster with two equal sides. `HbLost = 3` is the smallest value the
configuration allows, and the thresholds depend only on it. The node with the
smallest id is no candidate in most runs, since the rules prefer it everywhere else.
A partition together with links that fail at any moment gives a million states, so
`election_safety` has the latter and `election_partition` the former; the proofs below
have both.
Fd: three borrows of a name with two exporters let an object of the first borrow meet
the third on either exporter; three faults cover a failure, a failed clean-up and
one more. Share: the second memory shows what an old mapping or message does to a new
export; one of the importers is the exporter. Node: `Threshold = 2` instead of 150
reports has the first and the last report as different cases; three disturbances are, for
example, a panic, a demotion and a disconnection. HAM: two retries have a first failure and
the last one. Events: two workers and a queue of one make the third event of
a hanging handler the one that fills the queue (a fourth blocks the
distributor). The configuration allows no pool of less than two workers (`UbseEventConfigCheck`);
`event_delivery` has one for the handler that does not hang, and holds with two
as well (833,000 states), which is near the limit of what is comfortable to repeat. `CHECK_DEADLOCK FALSE` in all runs but the election: these models
stop when all requests are served, or the framework has stopped.

Fairness. Election: the timers and the communication threads of a running process
run (`TimerTaskElection`, `TimerTaskCom`), clocks advance, the restore ends,
partitions heal (a partition that stays keeps two masters, by design). Crashed nodes
need not restart, links need not break, nobody hands over. FdBorrow, ShareBorrow: the pool
(`GetExecutor("ubseMemController")`) handles every message in the end, and a handler
that holds a lock goes on; requests may never come. FdLedger: also every node is reconciled
again and again (strong fairness, since a reconciliation waits for a quiet moment).
NodeController: timers fire, the executor takes its tasks in order (strong fairness for
tasks that wait for the node's lock), faults are handled to their end, a node that
left comes back and a process that was demoted is promoted again; disturbances need
not happen. HamMigrate: the threads run on; requests need not come. Event: the
distributor, the workers and the stopping thread run, and calls that do not hang return.

Definitions commented "Mutant of ..." are deliberately wrong variants of the definition
that follows them; each property is tested by putting one of them in its place
(`mutants` in `PROJECT.json`), which TLC must then refute.

`Converges` states that from some time on, if a candidate is running, one running node is
master and every other running node follows it, for ever.

There are two violations (`findings` in `PROJECT.json`).

* `ledger_midway`: reconciliation of an exporter deletes an export when its borrow was under way at the
  collection of the importer's ledger and complete at the comparison. The importer's copy does not have
  the object and the master's object is no longer IMPORT_RUNNING, the only state that the code spares.
* `event_stop`: `StopQueue` stores its flag and notifies without the queue's mutex. A worker that has
  tested the flag and the queue and is about to wait is not woken, and Stop joins it for ever. The unit
  test expects all threads to exit.

## 4. Proofs

Everything below is proved for all values of the constants under the named `ASSUME`s of the
module concerned, which TLC evaluates in its runs. Each proof module defines an inductive
invariant `IInv`, shows that `Init` implies it and that every action preserves it (a lemma per
action, one step per conjunct the action can disturb), and derives the properties. TLC has
checked every `IInv` on the instance of the module's run, and some on others, before it was proved.

### 4.1 ElectionProofs

For every finite set of nodes, every candidate list, threshold, fault set and bound:

* `InvariantHolds`: `Spec => []IInv`. `IInv` is `TypeOK` and, for every node, `NodeInv`:
  the role object is consistent (`masterId = n` exactly for a master, which is a
  candidate and not its own standby; only a master has announced nodes), the last event about a node is
  NODE_UP exactly if it is in `preNodes`,
  no node is connected to, counts as active, or sends packets to itself, a running
  election belongs to a ready, running node, a successful one to a candidate, a fresh one to
  the role that started it, and a role other than INITIALIZER means a ready, running node. The
  strengthening is needed because none of the listed invariants is inductive:
  OnlyCandidatesLead needs to know who started the election that ends now,
  LeaderIffMaster that a HEART never comes from the node itself.
* `TypeCorrect`, `CandidatesCorrect`, `LeaderCorrect`, `EventsCorrect`: the four
  invariants of `election_safety`; `DownsCorrect` and `PromotionCorrect`: the action
  properties of `election_safety` and `election_boot`.
* `MergeDecides`: two masters with disjoint followers that report their true counts
  never both keep and never both give up the mastership, whatever their turns.

`SwitchRoleStep`, `LocalStep`, `AnswerStep` collect what several actions share.

### 4.2 FdBorrowProofs

* `FdTypeCorrect`: `TypeOK`, whatever is lost, late or doubled.
* Under the hypothesis `Calm` (the client is `Patient`, and messages are neither doubled nor
  delivered after their send was given up; all other faults may happen, up to any bound):
  `FdMappedIsLent`, `FdIndexFindsExports`, `FdQuietAgreement`, the action property
  `FdAnswersTruthful` and `FdImplementsLease`. Without `Calm` TLC refutes MappedIsLent (section 5),
  so the hypothesis says where the protocol's safety ends.

`MappedIsLent` alone says nothing about the message that will unexport the memory. The
invariant rests on one observation: on a calm network the borrow of a name hands *one* message
around (`MsgInv`), and what the message says agrees with the master's object, the hardware and
the open request (`ExportMsgInv`, `ImportMsgInv`). `LedgerInv` ties the index to the objects,
`MappingInv` the importer's ledger to its mapping. While nothing is left to reconciliation
(`~debt`), `LentInv` and `WaitInv` say what the exporters have and that the master waits only
for a message that exists.

`FdImplementsLease` maps initial states to initial states of `FdLease` and each action to a step
of it or to stuttering; the steps that answer use `IInv`, since the contract admits an answer
only once and only in the matching state.

### 4.3 FdLedgerProofs

`LedgerMappedIsLent`: MappedIsLent for the composition of `FdLedger`, under `Quiet`: the network is
`Calm` and nothing happens during a reconciliation (`"midway" \notin Races`, without which
`ledger_midway` refutes it). Upsets, failures of any kind, and borrows before all exporters
are reconciled (`early`) may happen in any number and order, a failed signature and a failed
collection among them.

The invariant of `FdBorrowProofs` does not survive a takeover: export objects of several nodes
appear, the index can lose one, requests stay unanswered. `LedgerIInv` is another, smaller one. It follows
the memory and leaves the answers aside. While a message about an export is under way nothing is mapped; the importer
is told to map only what is lent (`MessageAt`); a master that has reconciled the importer knows of
its mapping (`KnownInv`); what was collected is still true when it is used (`SnapInv`). What holds it
together is `WireInv`: there is one message, and while there is one, no borrow and no return is
taken up (`Busy`), because no node is reconciled since the takeover, the name is in use, or a return is
not answered. TLC checked it with 3 borrows, 2 returns and 3 faults or upsets (5.7 million states) and
with 5 faults and `early` (3.7 million).

### 4.4 ShareBorrowProofs

`ShareTypeCorrect`, `ShareUsedIsLent`, `ShareQuietAgreement` and `ShareAnswersTruthful`, for any
importers, exporters, requests and faults, with no further hypothesis: what the properties except
(a failed send that was delivered, a lost report, a failed signature) is read from `faults`,
and `IInv` is conditional on it in the same way. UsedIsLent needs most: that
there is one export object (`ExportInv`), that every import object and every object held across
the unlocked part of an attach or detach still belongs to the memory exported (`ImportAt`,
`LockAt`: what was read before the lock was released is still true when it is used), and that
there is one message per side and node, in step with the ledger (`MsgInv`). AnswersTruthful speaks of the
importer of the answered request, so the invariant also follows each request id from the request
to the lock, the objects and the messages that carry it, all of that one importer (`TargetInv`).

### 4.5 NodeControllerProofs

For every threshold, fault bound and order of the event threads:

* `NodeTypeCorrect` and `FaultCounted`, without a hypothesis;
* `SmoothingDriven` if no retry outlasts its timer (`"slowRetry" \notin Races`);
* `WorkingReconciled` if no BMC notice comes (`"bmc" \notin FaultKinds`).

TLC refutes the last two without their hypotheses (section 5). The invariant says what a promotion and a
demotion leave behind, in which order their events are pending (`SwitchInv`, `IdleInv`), how
the report counter, the protection window and the queued task relate (`FaultInv`), that the timer
outlives the retry (`RetryInv`), and what a task that is under way has made sure of at each of its
steps (`TaskInv`).

### 4.6 EventProofs

`EventTypeCorrect` (capacities and numbers of workers) and `EventTakenInOrder`, for any handlers,
priorities, numbers of workers, capacities and events. An event number
goes from `events` to `eventVec`, a queue, and `taken`. `IInv` says that the numbers a
handler meets grow from `taken` back to `events`, within each of the four and from one to the next
(`EventsInv`, `VecInv`, `QueueAt`, `TakenAt`); that `eventVec` has a handler once because
`subscribes` has (`SubsInv`); and that all tasks of a handler are in one queue. It says
nothing about the calls: with several workers they may start in another order than their tasks were taken.

Erasing subscriptions and choosing those of an event id keeps their order. The prover cannot expand
`SelectSeq`, so `Subsequences` defines the result by counting indices, without recursion, and
`SubsequenceProofs` shows that it has the chosen elements, each once and in their order. The clear queue of `HamMigrate`
puts a due task in its place with it.

### 4.7 HamMigrateProofs

For any number of requests, retries, faults and crashes:

* `HamTypeCorrect` if no request comes before the load (`"startup" \notin Races`): with the types,
  that a VM is queued at most once while the disk works;
* `HamBorrowedIsRecorded` if at most the race `expiry` occurs;
* `HamRestIsRestored` if none of the races occurs.

Each hypothesis is as weak as it can be: TLC refutes the theorem with any race that it
leaves out (section 5).

`IInv` has layers, each proved from those before it: the types, always; and while no access to the disk
has failed, for which the properties make an exception, (1) the disk is what the cache would save once it has been loaded,
and the task is in one place of the queue, the clear thread and the requests that
came early (`StoreInv`, `SingleInv`); (2) every copy of the task that may still be written names what is
borrowed and not given up (`CoverInv`, with `WriterInv` and `NamesInv` for what the threads
hold between their steps); (3) every copy undoes what was done to the page scanner, and at most one thread
differs from the cache (`UndoInv`, `AloneInv`, `FreshInv`). The lemmas named `...Does` say once
what each action does while the disk works; the three layers use them.

### 4.8 Only model-checked

The liveness properties `Converges`, `EventuallyAnswered` (of `FdBorrow` and of `ShareBorrow`),
`LedgersConverge`, `ReachableNodeWorks`, `EventuallyCleared` and `Delivered`: liveness
under fairness is beyond the prover. Of `ImplementsLease`, `FdImplementsLease` proves all there is:
`FdLease` states safety. Every invariant and action property of a run is stated by a theorem.

## 5. Not modelled

*What the runs exclude.* The models contain the following orders of steps and failures, but
the runs leave them out, because the code does not keep the named property with them:

| Excluded | Module | What happens with it |
|---|---|---|
| faults `late`, `dup` | `FdBorrow` | request ids are not compared, so a message of an earlier borrow is taken for one of the current one; MappedIsLent fails across several borrows |
| `Patient = FALSE` | `FdBorrow` | the destroy command of a second return of a half-returned name reaches the exporter after a new borrow |
| fault `sign` | `FdLedger` | the memory is in no ledger until the exporter restarts; LedgersConverge fails |
| race `midway` | `FdLedger` | run `ledger_midway` |
| race `early` | `FdLedger` | exports are matched by name alone; an old export is never cleaned |
| race `overtaking`, fault `collect` | `NodeController`, recovery | a late NODE_DOWN, or a failed topology collection, leaves a reachable node UNKNOWN or unknown to the master; safety is checked with both |
| race `faultAtSwitch` | `NodeController`, recovery | the mirror overwrites a fault handled just before, and the node stays INIT |
| race `slowRetry` | `NodeController` | a second retry, queued while the first still runs, sets the node SMOOTHING after the timer was cancelled; SmoothingIsDriven fails |
| fault `bmc` | `NodeController`, safety | PRE_BMC set between the last check of a reconciliation and its commit is overwritten by WORKING; WorkingIsReconciled fails |
| fault `late` (consequences) | `ShareBorrow` | a detach rolled back after its report restores a removed object; named in the properties |
| race `overlap` | `HamMigrate` | a task written back over a newer one hides borrowed memory from the rollback; BorrowedIsRecorded and RestIsRestored fail |
| race `expiry` | `HamMigrate` | a task that times out during its own borrow is rolled back before the borrow ends; RestIsRestored fails, the memory stays recorded |
| race `startup` | `HamMigrate` | the request handlers are registered before the tasks on disk are loaded; TypeOK, BorrowedIsRecorded and RestIsRestored fail |

Three facts of the event framework are outside the properties: a handler's calls may start in another
order than the events were published; `UnRegisterSubscribe` removes all
subscribers of the event that are no plain functions, and `Delivered` therefore speaks
of the handlers still subscribed; and a call may still start after its handler
was unsubscribed.

*What is left out.* Permissions of borrowed memory, numa and addr memory (the fd handlers with other
payloads), reconciliation of share memory, the scheduler's accounts, the memory fault
handling, the push of node information to the standby, RAS alarms of devices. The lifetime
of a Master object during its callbacks, and returns sent by a node other than the importer
(which take another lock) are below or beside the models.
Most of the repository's lines are not protocol code: drivers and their adapters, sockets,
configuration, certificates, logging, serialisation formats, SDK and CLI in three languages, and addons that
collect numbers from the operating system and decide by them (`process_mem`, `rmrs`, the rest of
`virt_agent`, `npu`, `urma`). They are I/O or clients, appear only through their outcomes,
and have little state whose interleavings TLC could explore; the models therefore cover a small share
of the lines and the part in which nodes, threads and failures meet.

## 6. Plan

The modules, runs and theorems planned are done. What would come next is more of the system: the
reconciliation of share memory, which takes `ShareBorrow` where `FdLedger` takes `FdBorrow`, the numa and addr
requests with their own failure paths, and several VMs in `HamMigrate`, where they share the clear queue.
