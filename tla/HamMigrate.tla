----------------------------- MODULE HamMigrate -----------------------------
(***************************************************************************)
(* Live migration of one VM with borrowed addresses, at its source node    *)
(* (src/src/addons/virt_agent/migrate/ham_migrate.cpp and                  *)
(* dao/ham_migrate_vm_info_storage.cpp).                                   *)
(*                                                                         *)
(* A borrow request stops the migration of hot and cold pages of the VM,   *)
(* sets a fast scan, and borrows the memory of the process at the          *)
(* destination.  Each step is recorded in a task, in a cache and on disk,  *)
(* and the clear thread undoes what the task says: when a clear request    *)
(* comes, when something failed, when the task times out, or after a       *)
(* restart.                                                                *)
(*                                                                         *)
(* Requests, the panic notice and the clear thread are threads of their    *)
(* own.  The store has a lock, taken for one read or one write; the queue  *)
(* has a mutex, which the clear thread holds during a whole rollback.      *)
(***************************************************************************)
EXTENDS Integers, Sequences, FiniteSets, Subsequences

CONSTANTS
    Borrows,     \* borrow requests for the VM, each names its own memory
    MaxCalls,    \* bound on clear requests and panic notices
    MaxRetry,    \* MAX_RETRY_COUNT
    FaultKinds,  \* the kinds of fault that may happen, each once
    MaxFaults,   \* bound on the number of faults
    Races,       \* the overlaps that may happen
    None

(***************************************************************************)
(* Faults                                                                  *)
(*   refuse    the destination or the VM is not found                      *)
(*   disable, track      a page migration or scan call fails               *)
(*   nonuma    the VM has no local NUMA node                               *)
(*   create, delete      borrowing or returning fails                      *)
(*   answer    borrowing or returning succeeds, but its answer is lost     *)
(*   abort     libvirt does not abort the migration                        *)
(*   store, query        writing or reading the disk fails                 *)
(*   crash     the process ends and is started again                       *)
(* Races                                                                   *)
(*   overlap   a clear or panic notice overlaps a rollback or a borrow     *)
(*   expiry    the task times out while the borrow is under way            *)
(*   startup   a request comes before the tasks on disk are loaded         *)
(***************************************************************************)
Kinds == {"refuse", "disable", "track", "nonuma", "create", "delete", "answer",
          "abort", "store", "query", "crash"}

ASSUME HamAssumption ==
    /\ Borrows \subseteq Nat /\ None \notin Borrows
    /\ MaxCalls \in Nat /\ MaxFaults \in Nat
    /\ MaxRetry \in Nat \ {0}
    /\ FaultKinds \subseteq Kinds
    /\ Races \subseteq {"overlap", "expiry", "startup"}

VARIABLES
    remote,      \* the VM already uses borrowed memory
    cache, disk, \* the task of the VM in hamMigrateCache and in the storage
    queue,       \* clearQueue, the earliest timeout first
    borrow,      \* the thread of a borrow request
    writer,      \* the thread of a clear request or panic notice
    roll,        \* the clear thread
    smap,        \* the scan and the page migration of the VM's process
    borrowed,    \* memories that are borrowed
    granted,     \* the last borrow request has been answered with success
    migrated,    \* the VM has moved
    todo,        \* borrow requests to come
    calls,       \* number of clear requests and panic notices so far
    given,       \* what was given up: memories, and None for scan and migration
    faults       \* the faults so far

store == <<cache, disk>>
client == <<granted, migrated, todo, calls>>
vars == <<remote, store, queue, borrow, writer, roll, smap, borrowed, client, given, faults>>

-----------------------------------------------------------------------------
VmStates == {"BORROWED_NOMIGRATE", "NOBORROW_NOMIGRATE", "BORROWED_MIGRATED",
             "NOBORROW_MIGRATED"}
VmOpStates == {"NOPE", "DISABLE_PROCESS_MIGRATE", "PROCESS_TRACKING", "BORROWED_ADDRESS"}

HamMigrateVmInfo ==
    [vmState : VmStates, vmOpState : VmOpStates, borrowName : Borrows \cup {None},
     opState : {"NOPE", "START", "END"}, panic : BOOLEAN,
     timeout : {"zero", "later"}, count : 1 .. MaxRetry + 1]
NoTask == [vmOpState |-> "NONE"]

\* UpdateHamMigrateVmInfo
NewTask == [vmState |-> IF remote THEN "BORROWED_NOMIGRATE" ELSE "NOBORROW_NOMIGRATE",
            vmOpState |-> "NOPE", borrowName |-> None, opState |-> "NOPE",
            panic |-> FALSE, timeout |-> "zero", count |-> 1]

\* The retry count is not serialised.
Saved(task) == [task EXCEPT !.count = 1]

\* What the process of a VM has before the borrow.
Untouched == [tracking |-> IF remote THEN "water" ELSE "none", migrate |-> TRUE]

Idle == [pc |-> "idle"]
NoWriter == [steps |-> <<>>]
Waiting == [pc |-> "wait"]

Init ==
    /\ remote \in BOOLEAN
    /\ cache = NoTask /\ disk = NoTask
    /\ queue = <<>>
    /\ borrow = Idle /\ writer = NoWriter /\ roll = [pc |-> "load"]
    /\ smap = Untouched
    /\ borrowed = {}
    /\ granted = FALSE /\ migrated = FALSE
    /\ todo = Borrows /\ calls = 0
    /\ given = {} /\ faults = {}

Fault(kind) == kind \in (FaultKinds \ faults)
Faulty(kinds) ==
    {f \in SUBSET {k \in kinds : Fault(k)} :
        Cardinality(faults \cup f) <= MaxFaults}
Suffer(f) == faults' = faults \cup f

\* SetHamMigrateVmInfo and DelHamMigrateVmInfo by OpHamMigrate: the cache is
\* changed even when the disk cannot be written.
Set(task, f) ==
    /\ cache' = task
    /\ disk' = IF "store" \in f THEN disk
               ELSE IF task = NoTask THEN NoTask ELSE Saved(task)

-----------------------------------------------------------------------------
(* The queue.  Its mutex is held during a rollback.                        *)

QueueIsFree == roll.pc \in {"load", "wait"}

\* The places of the tasks that are due.
Due(q) == {i \in DOMAIN q : q[i].timeout = "zero"}

Push(q, task) ==
    IF task.timeout = "zero"
    THEN Subsequence(q, Due(q)) \o <<task>> \o Subsequence(q, DOMAIN q \ Due(q))
    ELSE Append(q, task)

\* Only a task that is queued is updated.
Update(q, task) == IF q = <<>> THEN q ELSE Push(Tail(q), task)

-----------------------------------------------------------------------------
(* Borrow requests.                                                        *)

Alone == writer = NoWriter \/ "overlap" \in Races

\* UpdateDstNodeState
WithDstState(task) == IF cache = NoTask THEN task ELSE [task EXCEPT !.panic = cache.panic]

BorrowGoesOn(pc, task) == borrow' = [pc |-> pc, task |-> task]
BorrowFails == borrow' = Idle /\ UNCHANGED granted

\* Borrow up to MigrateAndTracking.  HasTask makes the task that it finds due.
Borrow(r) ==
    \E f \in Faulty({"refuse"}) :
    /\ r \in todo /\ \A q \in todo : r <= q
    /\ ~migrated /\ borrow = Idle /\ writer = NoWriter
    /\ roll.pc # "load" \/ "startup" \in Races
    /\ QueueIsFree \/ "overlap" \in Races
    /\ todo' = todo \ {r}
    /\ granted' = FALSE
    /\ Suffer(f)
    /\ \/ /\ cache # NoTask /\ f = {}
          /\ writer' = [steps |-> <<"set", "update">>, task |-> [cache EXCEPT !.timeout = "zero"]]
          /\ UNCHANGED borrow
       \/ /\ cache = NoTask /\ f = {"refuse"}
          /\ UNCHANGED <<borrow, writer>>
       \/ /\ cache = NoTask /\ f = {}
          /\ BorrowGoesOn("disable", [NewTask EXCEPT !.borrowName = r])
          /\ UNCHANGED writer
    /\ UNCHANGED <<remote, store, queue, roll, smap, borrowed, migrated, calls, given>>

\* DoProcessMigrate: the call, then its record.
DisableProcessMigrate ==
    \E f \in Faulty({"disable"}) :
    /\ borrow.pc = "disable" /\ Alone
    /\ IF f = {} THEN /\ smap' = [smap EXCEPT !.migrate = FALSE]
                      /\ BorrowGoesOn("disabled", borrow.task) /\ UNCHANGED granted
       ELSE BorrowFails /\ UNCHANGED smap
    /\ Suffer(f)
    /\ UNCHANGED <<remote, store, queue, writer, roll, borrowed, migrated, todo, calls, given>>

DoProcessMigrate ==
    \E f \in Faulty({"store"}) :
    LET task == [WithDstState(borrow.task) EXCEPT !.vmOpState = "DISABLE_PROCESS_MIGRATE"] IN
    /\ borrow.pc = "disabled" /\ Alone
    /\ IF task.panic
       THEN f = {} /\ BorrowFails /\ UNCHANGED store
       ELSE /\ Set(task, f)
            /\ IF f = {} THEN BorrowGoesOn("track", task) /\ UNCHANGED granted ELSE BorrowFails
    /\ Suffer(f)
    /\ UNCHANGED <<remote, queue, writer, roll, smap, borrowed, migrated, todo, calls, given>>

\* DoProcessTracking: the call, then its record.  When one of them fails the
\* task is queued.
AddProcessTracking ==
    \E f \in Faulty({"track"}) :
    /\ borrow.pc = "track" /\ Alone
    /\ IF f = {} THEN /\ smap' = [smap EXCEPT !.tracking = "ham"]
                      /\ BorrowGoesOn("tracked", borrow.task)
       ELSE BorrowGoesOn("enqueue", borrow.task) /\ UNCHANGED smap
    /\ Suffer(f)
    /\ UNCHANGED <<remote, store, queue, writer, roll, borrowed, client, given>>

DoProcessTracking ==
    \E f \in Faulty({"store", "nonuma"}) :
    LET task == [WithDstState(borrow.task) EXCEPT !.vmOpState = "PROCESS_TRACKING"] IN
    /\ borrow.pc = "tracked" /\ Alone
    /\ task.panic => f = {}
    /\ IF task.panic THEN UNCHANGED store ELSE Set(task, f)
    /\ IF task.panic \/ "store" \in f THEN BorrowGoesOn("enqueue", task) /\ UNCHANGED granted
       ELSE IF "nonuma" \in f THEN BorrowFails
       ELSE BorrowGoesOn("push", task) /\ UNCHANGED granted
    /\ ~({"store", "nonuma"} \subseteq f)
    /\ Suffer(f)
    /\ UNCHANGED <<remote, queue, writer, roll, smap, borrowed, migrated, todo, calls, given>>

EnterClearQueue ==
    /\ borrow.pc = "enqueue" /\ QueueIsFree /\ Alone
    /\ queue' = Push(queue, borrow.task)
    /\ BorrowFails
    /\ UNCHANGED <<remote, store, writer, roll, smap, borrowed, migrated, todo, calls, given, faults>>

\* DoBorrowAddress: the task is queued and recorded before the memory is
\* borrowed, and the borrow is recorded after it.
BorrowAddressQueued ==
    LET task == [WithDstState(borrow.task) EXCEPT !.vmOpState = "BORROWED_ADDRESS",
                                                  !.opState = "START", !.timeout = "later"]
    IN
    /\ borrow.pc = "push" /\ QueueIsFree /\ Alone
    /\ queue' = Push(queue, task)
    /\ BorrowGoesOn(IF task.panic THEN "failed" ELSE "record", task)
    /\ UNCHANGED <<remote, store, writer, roll, smap, borrowed, client, given, faults>>

\* Mutant of BorrowAddressRecorded: the record is left to the end.
BorrowAddressUnrecorded ==
    /\ borrow.pc = "record" /\ Alone
    /\ BorrowGoesOn("create", borrow.task)
    /\ UNCHANGED <<remote, store, queue, writer, roll, smap, borrowed, client, given, faults>>

BorrowAddressRecorded ==
    \E f \in Faulty({"store"}) :
    /\ borrow.pc = "record" /\ Alone
    /\ Set(borrow.task, f)
    /\ BorrowGoesOn("create", borrow.task)
    /\ Suffer(f)
    /\ UNCHANGED <<remote, queue, writer, roll, smap, borrowed, client, given>>

DoUbseBorrowAddress ==
    \E f \in Faulty({"create", "answer"}) :
    /\ borrow.pc = "create" /\ Alone /\ f # {"create", "answer"}
    /\ borrowed' = IF "create" \in f THEN borrowed ELSE borrowed \cup {borrow.task.borrowName}
    /\ BorrowGoesOn(IF f = {} THEN "created" ELSE "failed", borrow.task)
    /\ Suffer(f)
    /\ UNCHANGED <<remote, store, queue, writer, roll, smap, client, given>>

DoBorrowAddress ==
    \E f \in Faulty({"store"}) :
    LET task == [WithDstState(borrow.task) EXCEPT !.opState = "END"] IN
    /\ borrow.pc = "created" /\ Alone
    /\ IF task.panic THEN f = {} /\ UNCHANGED store ELSE Set(task, f)
    /\ IF task.panic \/ f # {} THEN BorrowGoesOn("failed", task) /\ UNCHANGED granted
       ELSE borrow' = Idle /\ granted' = TRUE
    /\ Suffer(f)
    /\ UNCHANGED <<remote, queue, writer, roll, smap, borrowed, migrated, todo, calls, given>>

\* HandleBorrowFailure: the task is recorded as due, then it is due.
HandleBorrowFailure ==
    \E f \in Faulty({"store"}) :
    LET task == [borrow.task EXCEPT !.timeout = "zero"] IN
    /\ borrow.pc = "failed" /\ Alone
    /\ Set(task, f)
    /\ BorrowGoesOn("requeue", task)
    /\ Suffer(f)
    /\ UNCHANGED <<remote, queue, writer, roll, smap, borrowed, client, given>>

\* Mutant of BorrowFailureQueued: the task is queued once more.
BorrowFailureQueuedAgain ==
    /\ borrow.pc = "requeue" /\ QueueIsFree /\ Alone
    /\ queue' = Push(queue, borrow.task)
    /\ BorrowFails
    /\ UNCHANGED <<remote, store, writer, roll, smap, borrowed, migrated, todo, calls, given, faults>>

BorrowFailureQueued ==
    /\ borrow.pc = "requeue" /\ QueueIsFree /\ Alone
    /\ queue' = Update(queue, borrow.task)
    /\ BorrowFails
    /\ UNCHANGED <<remote, store, writer, roll, smap, borrowed, migrated, todo, calls, given, faults>>

-----------------------------------------------------------------------------
(* Clear requests and panic notices: the task is read, changed and written *)
(* back under no common lock.                                              *)

WriterStarts ==
    /\ writer = NoWriter /\ calls < MaxCalls
    /\ (borrow = Idle /\ QueueIsFree) \/ "overlap" \in Races
    /\ roll.pc # "load" \/ "startup" \in Races
    /\ cache # NoTask
    /\ calls' = calls + 1

\* Clear, for this VM after it has moved or has failed to move, or for all
\* VMs of the node.
Clear(moved) ==
    LET task == [cache EXCEPT
            !.timeout = "zero",
            !.vmState = CASE moved /\ @ = "BORROWED_NOMIGRATE" -> "BORROWED_MIGRATED"
                          [] moved /\ @ = "NOBORROW_NOMIGRATE" -> "NOBORROW_MIGRATED"
                          [] OTHER -> @]
    IN
    /\ WriterStarts
    /\ moved => granted
    /\ migrated' = (migrated \/ moved)
    /\ writer' = [steps |-> <<"set", "update">>, task |-> task]
    /\ UNCHANGED <<remote, store, queue, borrow, roll, smap, borrowed, granted, todo, given, faults>>

\* HamMigrateCancel, after the master has seen the destination panic.
HamMigrateCancel ==
    \E f \in Faulty({"abort"}) :
    /\ WriterStarts
    /\ writer' = IF f = {}
                 THEN [steps |-> <<"set">>, task |-> [cache EXCEPT !.panic = TRUE]]
                 ELSE [steps |-> <<"update", "set">>,
                       task |-> [cache EXCEPT !.panic = TRUE, !.timeout = "zero"]]
    /\ Suffer(f)
    /\ UNCHANGED <<remote, store, queue, borrow, roll, smap, borrowed, granted, migrated, todo, given>>

WriterSets ==
    \E f \in Faulty({"store"}) :
    /\ writer.steps # <<>> /\ Head(writer.steps) = "set"
    /\ Set(writer.task, f)
    /\ writer' = IF Len(writer.steps) = 1 THEN NoWriter ELSE [writer EXCEPT !.steps = Tail(@)]
    /\ Suffer(f)
    /\ UNCHANGED <<remote, queue, borrow, roll, smap, borrowed, client, given>>

WriterUpdates ==
    /\ writer.steps # <<>> /\ Head(writer.steps) = "update" /\ QueueIsFree
    /\ queue' = Update(queue, writer.task)
    /\ writer' = IF Len(writer.steps) = 1 THEN NoWriter ELSE [writer EXCEPT !.steps = Tail(@)]
    /\ UNCHANGED <<remote, store, borrow, roll, smap, borrowed, client, given, faults>>

-----------------------------------------------------------------------------
(* The clear thread.                                                       *)

IsMigrating(task) ==
    /\ task.vmOpState = "BORROWED_ADDRESS" /\ task.opState = "END"
    /\ task.vmState \in {"BORROWED_NOMIGRATE", "NOBORROW_NOMIGRATE"}

\* LoadData: a task that is not migrating is due at once.
LoadData ==
    \E f \in Faulty({"query"}) :
    LET task == IF disk = NoTask \/ IsMigrating(disk) THEN disk
                ELSE [disk EXCEPT !.timeout = "zero"]
    IN
    /\ roll.pc = "load"
    /\ roll' = Waiting
    /\ IF f # {} THEN UNCHANGED <<store, queue>>
       ELSE /\ cache' = task /\ disk' = task
            /\ queue' = IF task = NoTask THEN queue ELSE Push(queue, task)
    /\ Suffer(f)
    /\ UNCHANGED <<remote, borrow, writer, smap, borrowed, client, given>>

\* ClearQueueOperation takes the first task when its time has come.
ClearQueueOperation ==
    /\ roll.pc = "wait" /\ queue # <<>> /\ Alone
    /\ \/ Head(queue).timeout = "zero"
       \/ borrow = Idle
       \/ "expiry" \in Races
    /\ roll' = [pc |-> "return", task |-> Head(queue), failed |-> FALSE]
    /\ queue' = Tail(queue)
    /\ UNCHANGED <<remote, store, borrow, writer, smap, borrowed, client, given, faults>>

ReSetReTry(task) == [task EXCEPT !.count = 1, !.timeout = "zero"]
RollGoesOn(pc, task, failed) ==
    roll' = [pc |-> pc, task |-> task, failed |-> roll.failed \/ failed]

\* RollbackBorrowAddress: returning memory that is not borrowed is an error.
UbseRollbackBorrowAddress ==
    \E f \in Faulty({"delete", "answer"}) :
    LET task == roll.task
        there == task.borrowName \in borrowed
    IN
    /\ roll.pc = "return"
    /\ \/ /\ task.vmOpState # "BORROWED_ADDRESS" /\ f = {}
          /\ RollGoesOn("untrack", task, FALSE)
          /\ UNCHANGED borrowed
       \/ /\ task.vmOpState = "BORROWED_ADDRESS" /\ there /\ f = {}
          /\ RollGoesOn("returned", task, FALSE)
          /\ borrowed' = borrowed \ {task.borrowName}
       \/ /\ task.vmOpState = "BORROWED_ADDRESS" /\ (IF there THEN f # {} ELSE f = {})
          /\ f # {"delete", "answer"}
          /\ RollGoesOn("untrack", task, TRUE)
          /\ borrowed' = IF "answer" \in f THEN borrowed \ {task.borrowName} ELSE borrowed
    /\ Suffer(f)
    /\ UNCHANGED <<remote, store, queue, borrow, writer, smap, client, given>>

RollbackBorrowAddress ==
    \E f \in Faulty({"store"}) :
    LET task == ReSetReTry([roll.task EXCEPT !.vmOpState = "PROCESS_TRACKING"]) IN
    /\ roll.pc = "returned"
    /\ Set(task, f)
    /\ RollGoesOn("untrack", task, f # {})
    /\ Suffer(f)
    /\ UNCHANGED <<remote, queue, borrow, writer, smap, borrowed, client, given>>

\* RollbackProcessTracking.  A VM that uses other borrowed memory gets the slow
\* scan back, and its page migration next; the scan of one that does not is
\* removed, and its page migration is not started again.
RollbackProcessTracking ==
    \E f \in Faulty({"track", "store"}) :
    LET stays == roll.task.vmState \in {"BORROWED_NOMIGRATE", "NOBORROW_NOMIGRATE"}
        slow == roll.task.vmState = "BORROWED_NOMIGRATE"
        task == IF slow
                THEN ReSetReTry([roll.task EXCEPT !.vmOpState = "DISABLE_PROCESS_MIGRATE"])
                ELSE [roll.task EXCEPT !.vmOpState = "NOPE"]
    IN
    /\ roll.pc = "untrack" /\ f # {"track", "store"}
    /\ \/ /\ roll.task.vmOpState # "PROCESS_TRACKING" /\ f = {}
          /\ RollGoesOn("enable", roll.task, FALSE)
          /\ UNCHANGED <<store, smap>>
       \/ /\ roll.task.vmOpState = "PROCESS_TRACKING" /\ stays /\ f = {"track"}
          /\ RollGoesOn("enable", roll.task, TRUE)
          /\ UNCHANGED <<store, smap>>
       \/ /\ roll.task.vmOpState = "PROCESS_TRACKING" /\ f \in {{}, {"store"}}
          /\ smap' = IF ~stays THEN smap
                     ELSE IF slow THEN [smap EXCEPT !.tracking = "water"]
                     ELSE [smap EXCEPT !.tracking = "none"]
          /\ Set(task, f)
          /\ RollGoesOn("enable", task, f # {})
    /\ Suffer(f)
    /\ UNCHANGED <<remote, queue, borrow, writer, borrowed, client, given>>

\* Mutant of RollbackProcessMigrate: a failure is not told to Rollback.
RollbackProcessMigrateUntold ==
    \E f \in Faulty({"disable"}) :
    LET stopped == roll.task.vmOpState = "DISABLE_PROCESS_MIGRATE" IN
    /\ roll.pc = "enable" /\ (stopped \/ f = {})
    /\ smap' = IF stopped /\ f = {} THEN [smap EXCEPT !.migrate = TRUE] ELSE smap
    /\ RollGoesOn("finish", roll.task, FALSE)
    /\ Suffer(f)
    /\ UNCHANGED <<remote, store, queue, borrow, writer, borrowed, client, given>>

RollbackProcessMigrate ==
    \E f \in Faulty({"disable"}) :
    LET stopped == roll.task.vmOpState = "DISABLE_PROCESS_MIGRATE" IN
    /\ roll.pc = "enable" /\ (stopped \/ f = {})
    /\ smap' = IF stopped /\ f = {} THEN [smap EXCEPT !.migrate = TRUE] ELSE smap
    /\ RollGoesOn("finish", roll.task, f # {})
    /\ Suffer(f)
    /\ UNCHANGED <<remote, store, queue, borrow, writer, borrowed, client, given>>

\* Back into the queue, with one more retry counted.
Requeued(task) ==
    Append(queue, [task EXCEPT !.timeout = "later",
                               !.count = IF @ > MaxRetry THEN @ ELSE @ + 1])

\* Mutant of Rollback: a task that failed to the end is dropped from the queue
\* only.
RollbackKeepsRecord ==
    LET task == roll.task IN
    /\ roll.pc = "finish"
    /\ roll' = Waiting
    /\ IF roll.failed /\ task.count < MaxRetry THEN queue' = Requeued(task) /\ UNCHANGED store
       ELSE IF roll.failed THEN UNCHANGED <<queue, store>>
       ELSE Set(NoTask, {}) /\ UNCHANGED queue
    /\ UNCHANGED <<remote, borrow, writer, smap, borrowed, client, given, faults>>

\* The rest of Rollback and of ClearQueueOperation: the task is done, or is
\* given up, or is tried again.
Rollback ==
    \E f \in Faulty({"store"}) :
    LET task == roll.task
        last == roll.failed /\ task.count = MaxRetry
        skip == last /\ task.vmOpState = "BORROWED_ADDRESS"
        over == ~roll.failed \/ (last /\ ~skip)
    IN
    /\ roll.pc = "finish" /\ (over \/ f = {})
    /\ roll' = Waiting
    /\ IF over THEN Set(NoTask, f) ELSE UNCHANGED store
    /\ given' = given \cup (IF skip THEN {task.borrowName}
                            ELSE IF last THEN {None} ELSE {})
    /\ queue' = IF skip THEN Requeued(ReSetReTry([task EXCEPT !.vmOpState = "PROCESS_TRACKING"]))
                ELSE IF over /\ f = {} THEN queue ELSE Requeued(task)
    /\ Suffer(f)
    /\ UNCHANGED <<remote, borrow, writer, smap, borrowed, client>>

\* The process ends and is started again.  A call that is not yet recorded is
\* forgotten.
Crash ==
    /\ {"crash"} \in Faulty({"crash"})
    /\ Suffer({"crash"})
    /\ cache' = NoTask /\ queue' = <<>>
    /\ borrow' = Idle /\ writer' = NoWriter /\ roll' = [pc |-> "load"]
    /\ given' = given \cup (IF borrow.pc \in {"disabled", "tracked"} THEN {None} ELSE {})
    /\ UNCHANGED <<remote, disk, smap, borrowed, client>>

-----------------------------------------------------------------------------
BorrowStep ==
    \/ DisableProcessMigrate \/ DoProcessMigrate
    \/ AddProcessTracking \/ DoProcessTracking \/ EnterClearQueue
    \/ BorrowAddressQueued \/ BorrowAddressRecorded \/ DoUbseBorrowAddress
    \/ DoBorrowAddress \/ HandleBorrowFailure \/ BorrowFailureQueued

WriterStep == WriterSets \/ WriterUpdates

ClearStep ==
    \/ LoadData \/ ClearQueueOperation
    \/ UbseRollbackBorrowAddress \/ RollbackBorrowAddress
    \/ RollbackProcessTracking \/ RollbackProcessMigrate \/ Rollback

Next ==
    \/ \E r \in todo : Borrow(r)
    \/ \E moved \in BOOLEAN : Clear(moved)
    \/ HamMigrateCancel
    \/ BorrowStep \/ WriterStep \/ ClearStep
    \/ Crash

Spec == Init /\ [][Next]_vars

\* Threads go on and timeouts pass; nobody need call.
FairSpec == Spec /\ WF_vars(BorrowStep) /\ WF_vars(WriterStep) /\ WF_vars(ClearStep)

-----------------------------------------------------------------------------
DiskFailed == faults \cap {"store", "query"} # {}

\* The VM is queued once, unless a disk failure hides its task from HasTask.
TypeOK ==
    /\ remote \in BOOLEAN
    /\ {cache, disk} \subseteq HamMigrateVmInfo \cup {NoTask}
    /\ queue \in Seq(HamMigrateVmInfo) /\ (Len(queue) <= 1 \/ DiskFailed)
    /\ borrow = Idle \/ borrow.task \in HamMigrateVmInfo
    /\ writer = NoWriter \/ writer.task \in HamMigrateVmInfo
    /\ roll.pc \in {"load", "wait"} \/ roll.task \in HamMigrateVmInfo
    /\ smap \in [tracking : {"none", "water", "ham"}, migrate : BOOLEAN]
    /\ borrowed \subseteq Borrows
    /\ granted \in BOOLEAN /\ migrated \in BOOLEAN
    /\ todo \subseteq Borrows /\ calls \in 0 .. MaxCalls
    /\ given \subseteq Borrows \cup {None}
    /\ faults \subseteq FaultKinds /\ Cardinality(faults) <= MaxFaults

\* Memory borrowed for a migration is on disk under its name until it is
\* returned, at every step of the borrow and of the rollback, so that a restart
\* finds it (DoBorrowAddress records it first, RollbackBorrowAddress last).
\* Failures of the disk and memory that was given up after the retries are
\* outside this promise.
BorrowedIsRecorded ==
    ~DiskFailed =>
        \A b \in borrowed \ given :
            disk.vmOpState = "BORROWED_ADDRESS" /\ disk.borrowName = b

AtRest == borrow = Idle /\ writer = NoWriter /\ roll.pc = "wait" /\ queue = <<>>

\* Where nothing is left to do for a VM that has not moved, it has no task, its
\* scan is as before the borrow, its page migration too if it uses other
\* borrowed memory, and the memory has been returned: no failure, crash or early
\* return of MigrateAndTracking is missed by the rollback.  The exceptions are
\* what was given up, a disk failure, a crash between a call and its record, and
\* a VM without a local NUMA node.  A VM that used no borrowed memory is left
\* with page migration stopped once its scan was set (ham_migrate.cpp:1024).
RestIsRestored ==
    AtRest /\ ~DiskFailed /\ "nonuma" \notin faults =>
        /\ cache = NoTask /\ disk = NoTask
        /\ borrowed \subseteq given
        /\ \/ migrated \/ None \in given
           \/ /\ smap.tracking = Untouched.tracking
              /\ remote => smap.migrate

\* The VM's task is eventually cleared, whatever fails but the disk, and the VM
\* can be migrated again (HasTask), where a clear request or panic notice does
\* not overlap a borrow or a rollback.
EventuallyCleared ==
    []<>(\/ DiskFailed \/ "nonuma" \in faults
         \/ AtRest /\ cache = NoTask /\ disk = NoTask)
=============================================================================
