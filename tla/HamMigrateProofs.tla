-------------------------- MODULE HamMigrateProofs --------------------------
(***************************************************************************)
(* Theorems about HamMigrate, for any number of borrow requests, clear     *)
(* requests, panic notices, retries and faults.                            *)
(***************************************************************************)
EXTENDS HamMigrate, SubsequenceProofs

-----------------------------------------------------------------------------
(* The inductive invariant.                                                *)

BorrowPcs == {"disable", "disabled", "track", "tracked", "enqueue", "push", "record",
              "create", "created", "failed", "requeue"}
RollPcs == {"return", "returned", "untrack", "enable", "finish"}
WriterSteps == {<<"set", "update">>, <<"update", "set">>, <<"set">>, <<"update">>}

\* The task of a request names its memory.
Request == {t \in HamMigrateVmInfo : t.borrowName \in Borrows}
BorrowTyped == borrow = Idle \/ borrow \in [pc : BorrowPcs, task : Request]
WriterTyped ==
    writer = NoWriter \/ writer \in [steps : WriterSteps, task : HamMigrateVmInfo]
RollTyped ==
    \/ roll = [pc |-> "load"] \/ roll = Waiting
    \/ roll \in [pc : RollPcs, task : HamMigrateVmInfo, failed : BOOLEAN]
StoreTyped == /\ cache \in HamMigrateVmInfo \cup {NoTask}
              /\ disk \in HamMigrateVmInfo \cup {NoTask}
ClientTyped ==
    /\ granted \in BOOLEAN /\ migrated \in BOOLEAN
    /\ todo \subseteq Borrows /\ calls \in 0 .. MaxCalls
SmapTyped == smap \in [tracking : {"none", "water", "ham"}, migrate : BOOLEAN]
FaultsTyped == faults \subseteq FaultKinds /\ Cardinality(faults) <= MaxFaults

\* The types, which do not depend on who overtakes whom.
Types ==
    /\ remote \in BOOLEAN
    /\ StoreTyped
    /\ queue \in Seq(HamMigrateVmInfo)
    /\ BorrowTyped /\ WriterTyped /\ RollTyped
    /\ SmapTyped
    /\ borrowed \subseteq Borrows
    /\ ClientTyped
    /\ given \subseteq Borrows \cup {None}
    /\ FaultsTyped

Rolling == roll.pc \in RollPcs

\* As long as the disk works it has what the cache has, once it was loaded.
Recorded(task) == IF task = NoTask THEN NoTask ELSE Saved(task)
StoreInv ==
    /\ disk # NoTask => disk.count = 1
    /\ roll.pc # "load" => disk = Recorded(cache)
    /\ roll.pc = "load" => cache = NoTask /\ borrow.pc = "idle" /\ writer = NoWriter

\* The task is in one place: with a request that has not queued it yet, in the
\* queue or with the clear thread.
Early == {"disable", "disabled", "track", "tracked", "enqueue", "push"}
SingleInv ==
    /\ Len(queue) <= 1
    /\ queue # << >> => ~Rolling /\ roll.pc # "load"
    /\ queue # << >> \/ Rolling => cache # NoTask
    /\ borrow.pc \in Early => queue = << >> /\ ~Rolling
    /\ borrow.pc \in {"track", "tracked", "enqueue", "push"} => cache # NoTask

\* The task names the memory that is borrowed and not given up.
Held == borrowed \ given
Covers(task) == \A b \in Held : task.vmOpState = "BORROWED_ADDRESS" /\ task.borrowName = b

\* The task names the memory that the request is about to borrow.
Names(task) ==
    task.vmOpState = "BORROWED_ADDRESS" /\ task.borrowName = borrow.task.borrowName

\* A writer is alone, and it does not change what its task names.
WriterInv ==
    writer # NoWriter =>
        /\ borrow.pc = "idle" /\ roll.pc = "wait" /\ cache # NoTask
        /\ writer.task.vmOpState = cache.vmOpState
        /\ writer.task.borrowName = cache.borrowName

\* A name is borrowed once.
NamesInv ==
    /\ borrowed \cap todo = {}
    /\ borrow.pc # "idle" => borrow.task.borrowName \notin todo
    /\ borrow.pc \in Early \cup {"record", "create"} => borrow.task.borrowName \notin borrowed

\* Every copy of the task names what is borrowed, and will when the request has
\* borrowed.
CoverInv ==
    /\ Covers(disk)
    /\ \A i \in DOMAIN queue : Covers(queue[i])
    /\ borrow.pc # "idle" => Covers(borrow.task)
    /\ Rolling => Covers(roll.task)
    /\ roll.pc = "returned" => Held = {}
    /\ Rolling /\ roll.pc # "return" /\ roll.task.vmOpState = "BORROWED_ADDRESS" =>
          roll.failed \/ roll.pc = "returned"
    /\ borrow.pc \in Early => borrow.task.vmOpState # "BORROWED_ADDRESS"
    /\ borrow.pc \in {"record", "create", "created", "failed", "requeue"} =>
          borrow.task.vmOpState = "BORROWED_ADDRESS"
    /\ borrow.pc \in {"record", "create"} =>
          \/ borrow.task.borrowName \in given
          \/ /\ \A i \in DOMAIN queue : Names(queue[i])
             /\ Rolling => Names(roll.task) /\ roll.pc # "returned"
             /\ borrow.pc = "create" => Names(disk)

\* A request is alone until its task is due.
AloneInv ==
    /\ borrow.pc # "idle" => writer = NoWriter /\ roll.pc = "wait"
    /\ borrow.pc \in {"disable", "disabled"} => cache = NoTask /\ ~borrow.task.panic
    /\ borrow.pc \in {"track", "tracked"} => ~cache.panic
    /\ borrow.pc = "track" =>
          /\ borrow.task.vmOpState = "DISABLE_PROCESS_MIGRATE"
          /\ cache.vmOpState = "DISABLE_PROCESS_MIGRATE"
    /\ borrow.pc \in {"record", "create", "created", "failed", "requeue"} =>
          queue # << >> /\ queue[1].timeout = "later"
    /\ borrow.pc = "idle" /\ roll.pc = "wait" /\ queue = << >> /\ "nonuma" \notin faults =>
          cache = NoTask

\* Every copy of the task says whether the VM used borrowed memory before.
Fresh(task) == migrated \/ task.vmState = NewTask.vmState
FreshInv ==
    /\ disk # NoTask => Fresh(disk)
    /\ \A i \in DOMAIN queue : Fresh(queue[i])
    /\ borrow.pc # "idle" => Fresh(borrow.task)
    /\ writer # NoWriter => Fresh(writer.task)
    /\ Rolling => Fresh(roll.task)

\* The pages of a VM that uses other borrowed memory are migrated.
Migrating == remote => smap.migrate

\* What the task does not undo is as it was before the borrow.
Undoes(task) ==
    /\ task.vmOpState \in {"NONE", "NOPE"} => Migrating
    /\ task.vmOpState \in {"NONE", "NOPE", "DISABLE_PROCESS_MIGRATE"} =>
          smap.tracking = Untouched.tracking

\* So it is with every copy, but for the moment between a call and its record.
UndoInv ==
    \/ migrated \/ None \in given
    \/ /\ borrow.pc \notin {"disabled", "tracked"} => Undoes(disk)
       /\ borrow.pc = "disabled" => smap.tracking = Untouched.tracking
       /\ borrow.pc = "enqueue" => Undoes(borrow.task)
       /\ \A i \in DOMAIN queue : Undoes(queue[i])
       /\ Rolling => Undoes(roll.task)
       /\ roll.pc = "finish" /\ ~roll.failed =>
             Migrating /\ roll.task.vmOpState \in {"NOPE", "DISABLE_PROCESS_MIGRATE"}
       /\ roll.pc \in {"untrack", "enable"} /\ roll.task.vmOpState = "BORROWED_ADDRESS" => roll.failed
       /\ roll.pc = "enable" /\ roll.task.vmOpState = "PROCESS_TRACKING" => roll.failed

IInv ==
    /\ Types
    /\ ~DiskFailed /\ "startup" \notin Races => StoreInv /\ SingleInv
    /\ ~DiskFailed /\ Races \subseteq {"expiry"} => WriterInv /\ NamesInv /\ CoverInv
    /\ ~DiskFailed /\ Races = {} => AloneInv /\ FreshInv /\ UndoInv

-----------------------------------------------------------------------------
(* The operators.                                                          *)

\* A task is not NoTask, and what is written to a field of it is read there.
LEMMA TaskFacts ==
    ASSUME NEW t \in HamMigrateVmInfo
    PROVE  /\ t # NoTask
           /\ t.vmOpState \in VmOpStates /\ t.vmState \in VmStates
           /\ t.borrowName \in Borrows \cup {None} /\ t.panic \in BOOLEAN
           /\ t.timeout \in {"zero", "later"} /\ t.count \in 1 .. MaxRetry + 1
BY DEF HamMigrateVmInfo, NoTask, VmOpStates

\* A task that is changed within the types is a task.
LEMMA ChangeFacts ==
    ASSUME NEW t \in HamMigrateVmInfo
    PROVE  /\ \A v \in VmOpStates : [t EXCEPT !.vmOpState = v] \in HamMigrateVmInfo
           /\ \A v \in {"NOPE", "START", "END"} : [t EXCEPT !.opState = v] \in HamMigrateVmInfo
           /\ \A v \in BOOLEAN : [t EXCEPT !.panic = v] \in HamMigrateVmInfo
           /\ \A v \in {"zero", "later"} : [t EXCEPT !.timeout = v] \in HamMigrateVmInfo
           /\ \A v \in VmStates : [t EXCEPT !.timeout = "zero", !.vmState = v] \in HamMigrateVmInfo
           /\ [t EXCEPT !.panic = TRUE, !.timeout = "zero"] \in HamMigrateVmInfo
BY DEF HamMigrateVmInfo

\* A saved task is the task with a new retry count.
LEMMA SavedFacts ==
    ASSUME NEW t \in HamMigrateVmInfo
    PROVE  /\ Saved(t) \in HamMigrateVmInfo /\ Saved(t).count = 1
           /\ Saved(t).vmState = t.vmState /\ Saved(t).vmOpState = t.vmOpState
           /\ Saved(t).borrowName = t.borrowName /\ Saved(t).timeout = t.timeout
           /\ Saved(t).opState = t.opState /\ Saved(t).panic = t.panic
BY HamAssumption DEF HamMigrateVmInfo, Saved

\* What ReSetReTry changes.
LEMMA ReSetReTryFacts ==
    ASSUME NEW t \in HamMigrateVmInfo
    PROVE  /\ ReSetReTry(t) \in HamMigrateVmInfo
           /\ ReSetReTry(t).vmState = t.vmState /\ ReSetReTry(t).vmOpState = t.vmOpState
           /\ ReSetReTry(t).borrowName = t.borrowName
<1>1. 1 \in 1 .. MaxRetry + 1
  BY HamAssumption
<1> QED BY <1>1 DEF HamMigrateVmInfo, ReSetReTry

\* What UpdateDstNodeState changes.
LEMMA WithDstStateFacts ==
    ASSUME StoreTyped, NEW t \in HamMigrateVmInfo
    PROVE  /\ WithDstState(t) \in HamMigrateVmInfo
           /\ WithDstState(t).vmState = t.vmState /\ WithDstState(t).vmOpState = t.vmOpState
           /\ WithDstState(t).borrowName = t.borrowName /\ WithDstState(t).timeout = t.timeout
           /\ WithDstState(t).opState = t.opState
           /\ WithDstState(t).panic = IF cache = NoTask THEN t.panic ELSE cache.panic
<1>1. CASE cache = NoTask
  BY <1>1 DEF WithDstState
<1>2. CASE cache # NoTask
  <2>1. cache.panic \in BOOLEAN
    BY <1>2, TaskFacts DEF StoreTyped
  <2>2. WithDstState(t) = [t EXCEPT !.panic = cache.panic]
    BY <1>2 DEF WithDstState
  <2> QED BY <1>2, <2>1, <2>2 DEF HamMigrateVmInfo
<1> QED BY <1>1, <1>2

\* A new task.
LEMMA NewTaskFacts ==
    ASSUME NEW r \in Borrows, remote \in BOOLEAN
    PROVE  /\ [NewTask EXCEPT !.borrowName = r] \in HamMigrateVmInfo
           /\ [NewTask EXCEPT !.borrowName = r].vmState = NewTask.vmState
           /\ [NewTask EXCEPT !.borrowName = r].vmOpState = "NOPE"
           /\ [NewTask EXCEPT !.borrowName = r].borrowName = r
           /\ ~[NewTask EXCEPT !.borrowName = r].panic
<1> DEFINE v == IF remote THEN "BORROWED_NOMIGRATE" ELSE "NOBORROW_NOMIGRATE"
<1>1. 1 \in 1 .. MaxRetry + 1
  BY HamAssumption
<1>2. v \in VmStates
  BY DEF VmStates
<1>3. NewTask = [vmState |-> v, vmOpState |-> "NOPE", borrowName |-> None, opState |-> "NOPE",
                 panic |-> FALSE, timeout |-> "zero", count |-> 1]
  BY DEF NewTask
<1> HIDE DEF v
<1>4. NewTask \in HamMigrateVmInfo
  BY <1>1, <1>2, <1>3 DEF HamMigrateVmInfo, VmOpStates
<1>5. NewTask.vmOpState = "NOPE" /\ NewTask.panic = FALSE
  BY <1>3
<1> QED BY <1>4, <1>5 DEF HamMigrateVmInfo

\* A task that is pushed comes into the queue, and is alone in an empty queue.
LEMMA PushFacts ==
    ASSUME NEW q \in Seq(HamMigrateVmInfo), NEW t \in HamMigrateVmInfo
    PROVE  /\ Push(q, t) \in Seq(HamMigrateVmInfo)
           /\ q = << >> => Push(q, t) = << t >>
<1>1. Due(q) \subseteq DOMAIN q /\ DOMAIN q \ Due(q) \subseteq DOMAIN q
  BY DEF Due
<1> DEFINE a == Subsequence(q, Due(q))
           b == Subsequence(q, DOMAIN q \ Due(q))
<1>2. a \in Seq(HamMigrateVmInfo) /\ b \in Seq(HamMigrateVmInfo) /\ Len(a) <= Len(q) /\ Len(b) <= Len(q)
  BY <1>1, SubsequenceFacts
<1>3. Push(q, t) = IF t.timeout = "zero" THEN a \o << t >> \o b ELSE Append(q, t)
  BY DEF Push
<1> HIDE DEF a, b
<1>4. Push(q, t) \in Seq(HamMigrateVmInfo)
  BY <1>2, <1>3
<1>5. ASSUME q = << >> PROVE Push(q, t) = << t >>
  <2>1. Len(a) = 0 /\ Len(b) = 0
    BY <1>2, <1>5
  <2>2. a = << >> /\ b = << >>
    BY <1>2, <2>1
  <2>3. a \o << t >> \o b = << t >>
    BY <2>2
  <2>4. Append(q, t) = << t >>
    BY <1>5
  <2> QED BY <1>3, <2>3, <2>4
<1> QED BY <1>4, <1>5

\* A task is updated only where it is queued.
LEMMA UpdateFacts ==
    ASSUME NEW q \in Seq(HamMigrateVmInfo), NEW t \in HamMigrateVmInfo
    PROVE  /\ Update(q, t) \in Seq(HamMigrateVmInfo)
           /\ q = << >> => Update(q, t) = << >>
           /\ q # << >> /\ Len(q) <= 1 => Update(q, t) = << t >>
<1>1. CASE q = << >>
  BY <1>1 DEF Update
<1>2. CASE q # << >>
  <2>1. Tail(q) \in Seq(HamMigrateVmInfo) /\ (Len(q) <= 1 => Tail(q) = << >>)
    BY <1>2
  <2>2. Update(q, t) = Push(Tail(q), t)
    BY <1>2 DEF Update
  <2> QED BY <1>2, <2>1, <2>2, PushFacts
<1> QED BY <1>1, <1>2

\* A task that is put back is the only one in an empty queue.
LEMMA RequeuedFacts ==
    ASSUME queue \in Seq(HamMigrateVmInfo), NEW t \in HamMigrateVmInfo
    PROVE  /\ Requeued(t) \in Seq(HamMigrateVmInfo)
           /\ queue = << >> =>
                 /\ Len(Requeued(t)) = 1 /\ Requeued(t) # << >> /\ DOMAIN Requeued(t) = {1}
                 /\ Requeued(t)[1].vmState = t.vmState
                 /\ Requeued(t)[1].vmOpState = t.vmOpState
                 /\ Requeued(t)[1].borrowName = t.borrowName
<1> DEFINE c == IF t.count > MaxRetry THEN t.count ELSE t.count + 1
           u == [t EXCEPT !.timeout = "later", !.count = c]
<1>1. c \in 1 .. MaxRetry + 1
  BY HamAssumption, TaskFacts
<1>2. Requeued(t) = Append(queue, u)
  BY DEF Requeued
<1> HIDE DEF c
<1>3. u \in HamMigrateVmInfo /\ u.vmState = t.vmState /\ u.vmOpState = t.vmOpState
      /\ u.borrowName = t.borrowName
  BY <1>1 DEF HamMigrateVmInfo
<1> HIDE DEF u
<1>4. queue = << >> => Requeued(t) = << u >>
  BY <1>2
<1> QED BY <1>2, <1>3, <1>4

\* A single task that is put into a queue.
LEMMA OneFacts ==
    ASSUME NEW t
    PROVE  << t >> # << >> /\ Len(<< t >>) = 1 /\ DOMAIN << t >> = {1} /\ << t >>[1] = t
OBVIOUS

\* The store after a Set.
LEMMA SetFacts ==
    ASSUME StoreTyped, NEW t \in HamMigrateVmInfo \cup {NoTask}, NEW f, Set(t, f)
    PROVE  /\ StoreTyped'
           /\ cache' = t
           /\ "store" \notin f => disk' = Recorded(t)
<1>1. cache' = t /\ disk' = IF "store" \in f THEN disk ELSE IF t = NoTask THEN NoTask ELSE Saved(t)
  BY DEF Set
<1>2. t # NoTask => Saved(t) \in HamMigrateVmInfo
  BY SavedFacts
<1> QED BY <1>1, <1>2 DEF StoreTyped, Recorded

\* Faults are as many as may be.  While the disk has not failed none of them is
\* of the disk.
LEMMA FaultFacts ==
    ASSUME FaultsTyped, NEW K, NEW f \in Faulty(K), Suffer(f)
    PROVE  /\ FaultsTyped'
           /\ f \subseteq K
           /\ ~DiskFailed' => ~DiskFailed /\ "store" \notin f /\ "query" \notin f
           /\ faults \subseteq faults'
<1>1. f \subseteq K /\ f \subseteq FaultKinds /\ Cardinality(faults \cup f) <= MaxFaults
  BY DEF Faulty, Fault
<1>2. faults' = faults \cup f
  BY DEF Suffer
<1> QED BY <1>1, <1>2 DEF FaultsTyped, DiskFailed

-----------------------------------------------------------------------------
(* The types.                                                              *)

\* The tasks that the steps of a borrow request write.
LEMMA BorrowTasks ==
    ASSUME Types, borrow.pc # "idle"
    PROVE  /\ borrow.task \in Request /\ borrow # Idle
           /\ \A v \in VmOpStates : [WithDstState(borrow.task) EXCEPT !.vmOpState = v] \in Request
           /\ [WithDstState(borrow.task) EXCEPT !.opState = "END"] \in Request
           /\ [WithDstState(borrow.task) EXCEPT !.vmOpState = "BORROWED_ADDRESS",
                  !.opState = "START", !.timeout = "later"] \in Request
           /\ [borrow.task EXCEPT !.timeout = "zero"] \in Request
<1>1. borrow.task \in Request /\ borrow # Idle
  BY DEF Types, BorrowTyped, Idle
<1>2. WithDstState(borrow.task) \in Request
  BY <1>1, WithDstStateFacts DEF Types, Request
<1>3. PICK w : w = WithDstState(borrow.task)
  OBVIOUS
<1>4. [w EXCEPT !.vmOpState = "BORROWED_ADDRESS", !.opState = "START", !.timeout = "later"]
         \in Request
  BY <1>2, <1>3 DEF HamMigrateVmInfo, VmOpStates, Request
<1>5. [w EXCEPT !.opState = "END"] \in Request
  BY <1>2, <1>3 DEF HamMigrateVmInfo, Request
<1>6. \A v \in VmOpStates : [w EXCEPT !.vmOpState = v] \in Request
  BY <1>2, <1>3 DEF HamMigrateVmInfo, Request
<1>7. [borrow.task EXCEPT !.timeout = "zero"] \in Request
  BY <1>1 DEF HamMigrateVmInfo, Request
<1> QED BY <1>1, <1>3, <1>4, <1>5, <1>6, <1>7

\* A step of a borrow request keeps the types.
LEMMA BorrowTypes ==
    ASSUME Types, BorrowStep
    PROVE  Types'
<1>a. Request \subseteq HamMigrateVmInfo
  BY DEF Request
<1> USE <1>a DEF Types, BorrowTyped, WriterTyped, RollTyped, ClientTyped, SmapTyped
<1>1. CASE DisableProcessMigrate
  <2>1. PICK f \in Faulty({"disable"}) : DisableProcessMigrate!(f)
    BY <1>1 DEF DisableProcessMigrate
  <2>2. FaultsTyped'
    BY <2>1, FaultFacts
  <2>3. borrow.task \in Request
    BY <2>1, BorrowTasks
  <2>4. SmapTyped'
    BY <2>1
  <2>5. BorrowTyped' /\ UNCHANGED granted
    BY <2>1, <2>3 DEF BorrowGoesOn, BorrowFails, BorrowPcs
  <2> QED BY <2>1, <2>2, <2>4, <2>5 DEF store, StoreTyped
<1>2. CASE DoProcessMigrate
  <2>1. PICK f \in Faulty({"store"}) : DoProcessMigrate!(f)
    BY <1>2 DEF DoProcessMigrate
  <2> DEFINE task == [WithDstState(borrow.task) EXCEPT !.vmOpState = "DISABLE_PROCESS_MIGRATE"]
  <2>2. FaultsTyped'
    BY <2>1, FaultFacts
  <2>3. task \in Request
    BY <2>1, BorrowTasks DEF VmOpStates
  <2>4. /\ \/ BorrowFails
           \/ BorrowGoesOn("track", task) /\ UNCHANGED granted
        /\ Set(task, f) \/ UNCHANGED store
    BY <2>1
  <2> HIDE DEF task
  <2>5. StoreTyped'
    BY <2>3, <2>4, SetFacts DEF store, StoreTyped
  <2> QED BY <2>1, <2>2, <2>3, <2>4, <2>5 DEF BorrowGoesOn, BorrowFails, BorrowPcs
<1>3. CASE AddProcessTracking
  <2>1. PICK f \in Faulty({"track"}) : AddProcessTracking!(f)
    BY <1>3 DEF AddProcessTracking
  <2>2. FaultsTyped'
    BY <2>1, FaultFacts
  <2>3. borrow.task \in Request
    BY <2>1, BorrowTasks
  <2> QED BY <2>1, <2>2, <2>3 DEF BorrowGoesOn, BorrowPcs, store, client, StoreTyped
<1>4. CASE DoProcessTracking
  <2>1. PICK f \in Faulty({"store", "nonuma"}) : DoProcessTracking!(f)
    BY <1>4 DEF DoProcessTracking
  <2> DEFINE task == [WithDstState(borrow.task) EXCEPT !.vmOpState = "PROCESS_TRACKING"]
  <2>2. FaultsTyped'
    BY <2>1, FaultFacts
  <2>3. task \in Request
    BY <2>1, BorrowTasks DEF VmOpStates
  <2>4. /\ \/ BorrowFails
           \/ BorrowGoesOn("enqueue", task) /\ UNCHANGED granted
           \/ BorrowGoesOn("push", task) /\ UNCHANGED granted
        /\ Set(task, f) \/ UNCHANGED store
    BY <2>1
  <2> HIDE DEF task
  <2>5. StoreTyped'
    BY <2>3, <2>4, SetFacts DEF store, StoreTyped
  <2> QED BY <2>1, <2>2, <2>3, <2>4, <2>5 DEF BorrowGoesOn, BorrowFails, BorrowPcs
<1>5. CASE EnterClearQueue
  <2>1. borrow.task \in Request
    BY <1>5, BorrowTasks DEF EnterClearQueue
  <2>2. queue' \in Seq(HamMigrateVmInfo)
    BY <1>5, <2>1, PushFacts DEF EnterClearQueue
  <2> QED BY <1>5, <2>2 DEF EnterClearQueue, BorrowFails, store, StoreTyped, FaultsTyped
<1>6. CASE BorrowAddressQueued
  <2> DEFINE task == [WithDstState(borrow.task) EXCEPT !.vmOpState = "BORROWED_ADDRESS",
                          !.opState = "START", !.timeout = "later"]
  <2>1. task \in Request
    BY <1>6, BorrowTasks DEF BorrowAddressQueued
  <2>2. /\ queue' = Push(queue, task)
        /\ BorrowGoesOn("failed", task) \/ BorrowGoesOn("record", task)
    BY <1>6 DEF BorrowAddressQueued
  <2> HIDE DEF task
  <2>3. queue' \in Seq(HamMigrateVmInfo)
    BY <2>1, <2>2, PushFacts
  <2>4. BorrowTyped'
    BY <2>1, <2>2 DEF BorrowGoesOn, BorrowPcs
  <2>5. UNCHANGED <<remote, store, writer, roll, smap, borrowed, client, given, faults>>
    BY <1>6 DEF BorrowAddressQueued
  <2> QED BY <2>3, <2>4, <2>5 DEF store, client, StoreTyped, FaultsTyped
<1>7. CASE BorrowAddressRecorded
  <2>1. PICK f \in Faulty({"store"}) : BorrowAddressRecorded!(f)
    BY <1>7 DEF BorrowAddressRecorded
  <2>2. FaultsTyped'
    BY <2>1, FaultFacts
  <2>3. borrow.task \in Request
    BY <2>1, BorrowTasks
  <2>4. StoreTyped'
    BY <2>1, <2>3, SetFacts
  <2> QED BY <2>1, <2>2, <2>3, <2>4 DEF BorrowGoesOn, BorrowPcs, client
<1>8. CASE DoUbseBorrowAddress
  <2>1. PICK f \in Faulty({"create", "answer"}) : DoUbseBorrowAddress!(f)
    BY <1>8 DEF DoUbseBorrowAddress
  <2>2. FaultsTyped'
    BY <2>1, FaultFacts
  <2>3. borrow.task \in Request
    BY <2>1, BorrowTasks
  <2>4. borrowed' \subseteq Borrows
    BY <2>1, <2>3 DEF Request
  <2>5. BorrowTyped'
    BY <2>1, <2>3 DEF BorrowGoesOn, BorrowPcs
  <2> QED BY <2>1, <2>2, <2>4, <2>5 DEF store, client, StoreTyped
<1>9. CASE DoBorrowAddress
  <2>1. PICK f \in Faulty({"store"}) : DoBorrowAddress!(f)
    BY <1>9 DEF DoBorrowAddress
  <2> DEFINE task == [WithDstState(borrow.task) EXCEPT !.opState = "END"]
  <2>2. FaultsTyped'
    BY <2>1, FaultFacts
  <2>3. task \in Request
    BY <2>1, BorrowTasks
  <2>4. /\ \/ BorrowGoesOn("failed", task) /\ UNCHANGED granted
           \/ borrow' = Idle /\ granted' = TRUE
        /\ Set(task, f) \/ UNCHANGED store
    BY <2>1
  <2> HIDE DEF task
  <2>5. StoreTyped'
    BY <2>3, <2>4, SetFacts DEF store, StoreTyped
  <2>6. BorrowTyped'
    BY <2>3, <2>4 DEF BorrowGoesOn, BorrowPcs
  <2>8. granted' = granted \/ granted' = TRUE
    BY <2>4
  <2>7. UNCHANGED <<remote, queue, writer, roll, smap, borrowed, migrated, todo, calls, given>>
    BY <2>1
  <2> QED BY <2>2, <2>5, <2>6, <2>7, <2>8
<1>10. CASE HandleBorrowFailure
  <2>1. PICK f \in Faulty({"store"}) : HandleBorrowFailure!(f)
    BY <1>10 DEF HandleBorrowFailure
  <2> DEFINE task == [borrow.task EXCEPT !.timeout = "zero"]
  <2>2. FaultsTyped'
    BY <2>1, FaultFacts
  <2>3. task \in Request
    BY <2>1, BorrowTasks
  <2>4. Set(task, f) /\ BorrowGoesOn("requeue", task)
    BY <2>1
  <2> HIDE DEF task
  <2>5. StoreTyped'
    BY <2>3, <2>4, SetFacts
  <2> QED BY <2>1, <2>2, <2>3, <2>4, <2>5 DEF BorrowGoesOn, BorrowPcs, client
<1>11. CASE BorrowFailureQueued
  <2>1. borrow.task \in Request
    BY <1>11, BorrowTasks DEF BorrowFailureQueued
  <2>2. queue' \in Seq(HamMigrateVmInfo)
    BY <1>11, <2>1, UpdateFacts DEF BorrowFailureQueued
  <2> QED BY <1>11, <2>2 DEF BorrowFailureQueued, BorrowFails, store, StoreTyped, FaultsTyped
<1> QED BY <1>1, <1>2, <1>3, <1>4, <1>5, <1>6, <1>7, <1>8, <1>9, <1>10, <1>11 DEF BorrowStep

\* What is left to do for a writer after a step.
LEMMA WriterRest ==
    ASSUME NEW s \in WriterSteps, Len(s) # 1
    PROVE  Tail(s) \in WriterSteps
<1>1. CASE s = << "set", "update" >>
  <2>1. Tail(s) = << "update" >>
    BY <1>1
  <2> QED BY <2>1 DEF WriterSteps
<1>2. CASE s = << "update", "set" >>
  <2>1. Tail(s) = << "set" >>
    BY <1>2
  <2> QED BY <2>1 DEF WriterSteps
<1>3. CASE s = << "set" >> \/ s = << "update" >>
  BY <1>3
<1> QED BY <1>1, <1>2, <1>3 DEF WriterSteps

\* The writer after a step.
LEMMA WriterFacts ==
    ASSUME WriterTyped, writer.steps # << >>,
           writer' = IF Len(writer.steps) = 1 THEN NoWriter ELSE [writer EXCEPT !.steps = Tail(@)]
    PROVE  /\ writer # NoWriter /\ writer.task \in HamMigrateVmInfo
           /\ WriterTyped'
           /\ writer' # NoWriter => writer'.task = writer.task
<1>1. writer # NoWriter /\ writer \in [steps : WriterSteps, task : HamMigrateVmInfo]
  BY DEF WriterTyped, NoWriter
<1>2. writer.steps \in WriterSteps /\ writer.task \in HamMigrateVmInfo
  BY <1>1
<1>3. CASE Len(writer.steps) = 1
  BY <1>1, <1>2, <1>3 DEF WriterTyped
<1>4. CASE Len(writer.steps) # 1
  <2>1. Tail(writer.steps) \in WriterSteps
    BY <1>2, <1>4, WriterRest
  <2>2. writer' = [writer EXCEPT !.steps = Tail(writer.steps)]
    BY <1>4
  <2>3. /\ writer' \in [steps : WriterSteps, task : HamMigrateVmInfo]
        /\ writer'.task = writer.task
    BY <1>1, <2>1, <2>2
  <2> QED BY <1>1, <1>2, <2>3 DEF WriterTyped
<1> QED BY <1>3, <1>4

\* The task of a clear request.
LEMMA ClearTask ==
    ASSUME cache \in HamMigrateVmInfo, NEW moved \in BOOLEAN,
           NEW task, task = [cache EXCEPT
            !.timeout = "zero",
            !.vmState = CASE moved /\ @ = "BORROWED_NOMIGRATE" -> "BORROWED_MIGRATED"
                          [] moved /\ @ = "NOBORROW_NOMIGRATE" -> "NOBORROW_MIGRATED"
                          [] OTHER -> @]
    PROVE  /\ task \in HamMigrateVmInfo
           /\ task.vmOpState = cache.vmOpState /\ task.borrowName = cache.borrowName
           /\ ~moved => task.vmState = cache.vmState
<1>1. PICK v : v = CASE moved /\ cache.vmState = "BORROWED_NOMIGRATE" -> "BORROWED_MIGRATED"
                     [] moved /\ cache.vmState = "NOBORROW_NOMIGRATE" -> "NOBORROW_MIGRATED"
                     [] OTHER -> cache.vmState
  OBVIOUS
<1>2. cache.vmState \in VmStates
  BY TaskFacts
<1>3. v \in VmStates /\ (~moved => v = cache.vmState)
  <2>1. CASE moved /\ cache.vmState = "BORROWED_NOMIGRATE"
    BY <1>1, <2>1 DEF VmStates
  <2>2. CASE moved /\ cache.vmState = "NOBORROW_NOMIGRATE"
    BY <1>1, <2>2 DEF VmStates
  <2>3. CASE ~(moved /\ cache.vmState = "BORROWED_NOMIGRATE")
             /\ ~(moved /\ cache.vmState = "NOBORROW_NOMIGRATE")
    <3>1. v = cache.vmState
      BY <1>1, <2>3
    <3> QED BY <1>2, <3>1
  <2> QED BY <2>1, <2>2, <2>3
<1>4. task = [cache EXCEPT !.timeout = "zero", !.vmState = v]
  BY <1>1
<1> QED BY <1>3, <1>4 DEF HamMigrateVmInfo

\* A request that comes, and a step of a writer, keep the types.
LEMMA RequestTypes ==
    ASSUME Types,
           \/ \E r \in todo : Borrow(r)
           \/ \E moved \in BOOLEAN : Clear(moved)
           \/ HamMigrateCancel
           \/ WriterStep
    PROVE  Types'
<1> USE DEF Types, BorrowTyped, RollTyped, ClientTyped, SmapTyped
<1>1. ASSUME NEW r \in todo, Borrow(r) PROVE Types'
  <2>1. PICK f \in Faulty({"refuse"}) : Borrow(r)!(f)
    BY <1>1 DEF Borrow
  <2>2. FaultsTyped'
    BY <2>1, FaultFacts
  <2>3. r \in Borrows /\ todo' \subseteq Borrows
    BY <2>1
  <2>4. WriterTyped'
    <3>1. CASE cache # NoTask
      <4>0. PICK u : u = [cache EXCEPT !.timeout = "zero"]
        OBVIOUS
      <4>1. u \in HamMigrateVmInfo
        BY <3>1, <4>0, ChangeFacts DEF StoreTyped
      <4>2. writer' = [steps |-> <<"set", "update">>, task |-> u]
        BY <2>1, <3>1, <4>0
      <4> QED BY <4>1, <4>2 DEF WriterTyped, WriterSteps
    <3>2. CASE cache = NoTask
      BY <2>1, <3>2 DEF WriterTyped
    <3> QED BY <3>1, <3>2
  <2>5. BorrowTyped'
    <3>1. [NewTask EXCEPT !.borrowName = r] \in Request
      BY <2>3, NewTaskFacts DEF Request
    <3>2. borrow' = borrow \/ BorrowGoesOn("disable", [NewTask EXCEPT !.borrowName = r])
      BY <2>1
    <3> QED BY <3>1, <3>2 DEF BorrowGoesOn, BorrowPcs
  <2>6. granted' = FALSE
    BY <2>1
  <2>7. UNCHANGED <<remote, store, queue, roll, smap, borrowed, migrated, calls, given>>
    BY <2>1
  <2> QED BY <2>2, <2>3, <2>4, <2>5, <2>6, <2>7 DEF store, StoreTyped
<1>a. ASSUME WriterStarts PROVE cache \in HamMigrateVmInfo /\ calls' \in 0 .. MaxCalls
  BY <1>a, HamAssumption DEF WriterStarts, StoreTyped
<1>2. ASSUME NEW moved \in BOOLEAN, Clear(moved) PROVE Types'
  <2>1. PICK task : task = [cache EXCEPT
            !.timeout = "zero",
            !.vmState = CASE moved /\ @ = "BORROWED_NOMIGRATE" -> "BORROWED_MIGRATED"
                          [] moved /\ @ = "NOBORROW_NOMIGRATE" -> "NOBORROW_MIGRATED"
                          [] OTHER -> @]
    OBVIOUS
  <2>2. WriterStarts /\ writer' = [steps |-> <<"set", "update">>, task |-> task]
    BY <1>2, <2>1 DEF Clear
  <2>3. task \in HamMigrateVmInfo
    BY <1>a, <2>1, <2>2, ClearTask
  <2>4. WriterTyped'
    BY <2>2, <2>3 DEF WriterTyped, WriterSteps
  <2>5. calls' \in 0 .. MaxCalls
    BY <1>a, <2>2
  <2>6. migrated' = (migrated \/ moved)
    BY <1>2 DEF Clear
  <2>7. migrated' \in BOOLEAN
    BY <2>6, Zenon
  <2>8. UNCHANGED <<remote, store, queue, borrow, roll, smap, borrowed, granted, todo, given, faults>>
    BY <1>2 DEF Clear
  <2> QED BY <2>4, <2>5, <2>7, <2>8 DEF store, StoreTyped, FaultsTyped
<1>3. CASE HamMigrateCancel
  <2>1. PICK f \in Faulty({"abort"}) : HamMigrateCancel!(f)
    BY <1>3 DEF HamMigrateCancel
  <2>2. FaultsTyped'
    BY <2>1, FaultFacts
  <2>3. cache \in HamMigrateVmInfo /\ calls' \in 0 .. MaxCalls
    BY <1>a, <2>1
  <2>4. \E u \in HamMigrateVmInfo :
           \/ writer' = [steps |-> <<"set">>, task |-> u]
           \/ writer' = [steps |-> <<"update", "set">>, task |-> u]
    BY <2>1, <2>3, ChangeFacts
  <2>6. WriterTyped'
    BY <2>4 DEF WriterTyped, WriterSteps
  <2> QED BY <2>1, <2>2, <2>3, <2>6 DEF store, StoreTyped
<1>4. CASE WriterSets
  <2>1. PICK f \in Faulty({"store"}) : WriterSets!(f)
    BY <1>4 DEF WriterSets
  <2>2. FaultsTyped'
    BY <2>1, FaultFacts
  <2>3. WriterTyped' /\ writer.task \in HamMigrateVmInfo
    BY <2>1, WriterFacts
  <2>4. StoreTyped'
    BY <2>1, <2>3, SetFacts
  <2> QED BY <2>1, <2>2, <2>3, <2>4 DEF client
<1>5. CASE WriterUpdates
  <2>1. WriterTyped' /\ writer.task \in HamMigrateVmInfo
    BY <1>5, WriterFacts DEF WriterUpdates
  <2>2. queue' \in Seq(HamMigrateVmInfo)
    BY <1>5, <2>1, UpdateFacts DEF WriterUpdates
  <2> QED BY <1>5, <2>1, <2>2 DEF WriterUpdates, store, client, StoreTyped, FaultsTyped
<1> QED BY <1>1, <1>2, <1>3, <1>4, <1>5 DEF WriterStep

\* The clear thread after a step of a rollback.
LEMMA RollFacts ==
    ASSUME RollTyped, roll.pc \in RollPcs, NEW pc \in RollPcs, NEW task \in HamMigrateVmInfo,
           NEW failed \in BOOLEAN, RollGoesOn(pc, task, failed)
    PROVE  /\ RollTyped' /\ roll'.pc = pc /\ roll'.task = task
           /\ roll'.failed = (roll.failed \/ failed) /\ Rolling'
<1>1. roll.failed \in BOOLEAN
  BY DEF RollTyped, RollPcs, Waiting
<1>2. PICK b : b = (roll.failed \/ failed)
  OBVIOUS
<1>3. b \in BOOLEAN
  BY <1>1, <1>2, Zenon
<1>4. roll' = [pc |-> pc, task |-> task, failed |-> b]
  BY <1>2 DEF RollGoesOn
<1> QED BY <1>2, <1>3, <1>4 DEF RollTyped, Rolling

\* The task of a rollback.
LEMMA RollTask ==
    ASSUME RollTyped, roll.pc \in RollPcs
    PROVE  roll.task \in HamMigrateVmInfo /\ roll.failed \in BOOLEAN
BY DEF RollTyped, RollPcs, Waiting

\* The tasks that a rollback writes.
LEMMA RollTasks ==
    ASSUME NEW t \in HamMigrateVmInfo, NEW v \in VmOpStates
    PROVE  /\ ReSetReTry([t EXCEPT !.vmOpState = v]) \in HamMigrateVmInfo
           /\ ReSetReTry([t EXCEPT !.vmOpState = v]).vmState = t.vmState
           /\ ReSetReTry([t EXCEPT !.vmOpState = v]).vmOpState = v
           /\ ReSetReTry([t EXCEPT !.vmOpState = v]).borrowName = t.borrowName
           /\ [t EXCEPT !.vmOpState = v] \in HamMigrateVmInfo
           /\ [t EXCEPT !.vmOpState = v].vmState = t.vmState
           /\ [t EXCEPT !.vmOpState = v].vmOpState = v
           /\ [t EXCEPT !.vmOpState = v].borrowName = t.borrowName
<1>1. PICK u : u = [t EXCEPT !.vmOpState = v]
  OBVIOUS
<1>2. /\ u \in HamMigrateVmInfo /\ u.vmState = t.vmState /\ u.vmOpState = v
      /\ u.borrowName = t.borrowName
  BY <1>1 DEF HamMigrateVmInfo
<1> QED BY <1>1, <1>2, ReSetReTryFacts

\* A step of the clear thread keeps the types.
LEMMA ClearTypes ==
    ASSUME Types, ClearStep
    PROVE  Types'
<1> USE DEF Types, BorrowTyped, WriterTyped, ClientTyped, SmapTyped
<1>1. CASE LoadData
  <2>1. PICK f \in Faulty({"query"}) : LoadData!(f)
    BY <1>1 DEF LoadData
  <2>2. FaultsTyped'
    BY <2>1, FaultFacts
  <2>3. PICK task : task = IF disk = NoTask \/ IsMigrating(disk) THEN disk
                           ELSE [disk EXCEPT !.timeout = "zero"]
    OBVIOUS
  <2>4. task \in HamMigrateVmInfo \cup {NoTask}
    BY <2>3, ChangeFacts DEF StoreTyped
  <2>5. \/ UNCHANGED <<store, queue>>
        \/ /\ cache' = task /\ disk' = task
           /\ queue' = IF task = NoTask THEN queue ELSE Push(queue, task)
    BY <2>1, <2>3
  <2>6. StoreTyped' /\ queue' \in Seq(HamMigrateVmInfo)
    BY <2>4, <2>5, PushFacts DEF store, StoreTyped
  <2>7. roll' = Waiting /\ UNCHANGED <<remote, borrow, writer, smap, borrowed, client, given>>
    BY <2>1
  <2> QED BY <2>2, <2>6, <2>7 DEF client, RollTyped
<1>2. CASE ClearQueueOperation
  <2>1. Head(queue) \in HamMigrateVmInfo /\ Tail(queue) \in Seq(HamMigrateVmInfo)
    BY <1>2 DEF ClearQueueOperation
  <2>2. RollTyped'
    BY <1>2, <2>1 DEF ClearQueueOperation, RollTyped, RollPcs
  <2> QED BY <1>2, <2>1, <2>2 DEF ClearQueueOperation, store, client, StoreTyped, FaultsTyped
<1>3. CASE UbseRollbackBorrowAddress
  <2>1. PICK f \in Faulty({"delete", "answer"}) : UbseRollbackBorrowAddress!(f)
    BY <1>3 DEF UbseRollbackBorrowAddress
  <2>2. FaultsTyped'
    BY <2>1, FaultFacts
  <2>3. roll.pc \in RollPcs
    BY <2>1 DEF RollPcs
  <2>4. roll.task \in HamMigrateVmInfo
    BY <2>3, RollTask
  <2>5. \/ RollGoesOn("untrack", roll.task, FALSE) \/ RollGoesOn("returned", roll.task, FALSE)
        \/ RollGoesOn("untrack", roll.task, TRUE)
    BY <2>1
  <2>6. RollTyped'
    BY <2>3, <2>4, <2>5, RollFacts DEF RollPcs
  <2>7. borrowed' \subseteq Borrows
    BY <2>1
  <2>8. UNCHANGED <<remote, store, queue, borrow, writer, smap, client, given>>
    BY <2>1
  <2> QED BY <2>2, <2>6, <2>7, <2>8 DEF store, client, StoreTyped
<1>4. CASE RollbackBorrowAddress
  <2>1. PICK f \in Faulty({"store"}) : RollbackBorrowAddress!(f)
    BY <1>4 DEF RollbackBorrowAddress
  <2>2. FaultsTyped'
    BY <2>1, FaultFacts
  <2>3. roll.pc \in RollPcs
    BY <2>1 DEF RollPcs
  <2>4. PICK task : task = ReSetReTry([roll.task EXCEPT !.vmOpState = "PROCESS_TRACKING"])
    OBVIOUS
  <2>5. task \in HamMigrateVmInfo
    BY <2>3, <2>4, RollTask, RollTasks DEF VmOpStates
  <2>6. Set(task, f) /\ RollGoesOn("untrack", task, f # {})
    BY <2>1, <2>4
  <2>7. StoreTyped'
    BY <2>5, <2>6, SetFacts
  <2>8. RollTyped'
    BY <2>3, <2>5, <2>6, RollFacts DEF RollPcs
  <2>9. UNCHANGED <<remote, queue, borrow, writer, smap, borrowed, client, given>>
    BY <2>1
  <2> QED BY <2>2, <2>7, <2>8, <2>9 DEF client
<1>5. CASE RollbackProcessTracking
  <2>1. PICK f \in Faulty({"track", "store"}) : RollbackProcessTracking!(f)
    BY <1>5 DEF RollbackProcessTracking
  <2>2. FaultsTyped'
    BY <2>1, FaultFacts
  <2>3. roll.pc \in RollPcs
    BY <2>1 DEF RollPcs
  <2>4. PICK task : task = IF roll.task.vmState = "BORROWED_NOMIGRATE"
                THEN ReSetReTry([roll.task EXCEPT !.vmOpState = "DISABLE_PROCESS_MIGRATE"])
                ELSE [roll.task EXCEPT !.vmOpState = "NOPE"]
    OBVIOUS
  <2>5. task \in HamMigrateVmInfo /\ roll.task \in HamMigrateVmInfo
    BY <2>3, <2>4, RollTask, RollTasks DEF VmOpStates
  <2>6. \/ RollGoesOn("enable", roll.task, FALSE) /\ UNCHANGED <<store, smap>>
        \/ RollGoesOn("enable", roll.task, TRUE) /\ UNCHANGED <<store, smap>>
        \/ /\ Set(task, f) /\ RollGoesOn("enable", task, f # {})
           /\ \/ smap' = smap \/ smap' = [smap EXCEPT !.tracking = "water"]
              \/ smap' = [smap EXCEPT !.tracking = "none"]
    BY <2>1, <2>4
  <2>7. StoreTyped'
    BY <2>5, <2>6, SetFacts DEF store, StoreTyped
  <2>8. RollTyped'
    BY <2>3, <2>5, <2>6, RollFacts DEF RollPcs
  <2>9. SmapTyped'
    <3>1. smap' \in {smap, [smap EXCEPT !.tracking = "water"], [smap EXCEPT !.tracking = "none"]}
      BY <2>6
    <3>2. [smap EXCEPT !.tracking = "none"] \in [tracking : {"none", "water", "ham"}, migrate : BOOLEAN]
      OBVIOUS
    <3>3. [smap EXCEPT !.tracking = "water"] \in [tracking : {"none", "water", "ham"}, migrate : BOOLEAN]
      OBVIOUS
    <3> QED BY <3>1, <3>2, <3>3
  <2>10. UNCHANGED <<remote, queue, borrow, writer, borrowed, client, given>>
    BY <2>1
  <2> QED BY <2>2, <2>7, <2>8, <2>9, <2>10 DEF client
<1>6. CASE RollbackProcessMigrate
  <2>1. PICK f \in Faulty({"disable"}) : RollbackProcessMigrate!(f)
    BY <1>6 DEF RollbackProcessMigrate
  <2>2. FaultsTyped'
    BY <2>1, FaultFacts
  <2>3. roll.pc \in RollPcs
    BY <2>1 DEF RollPcs
  <2>4. RollTyped'
    BY <2>1, <2>3, RollTask, RollFacts DEF RollPcs
  <2>5. SmapTyped'
    BY <2>1
  <2>6. UNCHANGED <<remote, store, queue, borrow, writer, borrowed, client, given>>
    BY <2>1
  <2> QED BY <2>2, <2>4, <2>5, <2>6 DEF client, store, StoreTyped
<1>7. CASE Rollback
  <2>1. PICK f \in Faulty({"store"}) : Rollback!(f)
    BY <1>7 DEF Rollback
  <2>2. FaultsTyped'
    BY <2>1, FaultFacts
  <2>3. roll.task \in HamMigrateVmInfo
    BY <2>1, RollTask DEF RollPcs
  <2>4. PICK u : u = ReSetReTry([roll.task EXCEPT !.vmOpState = "PROCESS_TRACKING"])
    OBVIOUS
  <2>5. u \in HamMigrateVmInfo
    BY <2>3, <2>4, RollTasks DEF VmOpStates
  <2>6. /\ roll' = Waiting
        /\ Set(NoTask, f) \/ UNCHANGED store
        /\ given' \subseteq given \cup {roll.task.borrowName, None}
        /\ queue' = queue \/ queue' = Requeued(u) \/ queue' = Requeued(roll.task)
        /\ UNCHANGED <<remote, borrow, writer, smap, borrowed, client>>
    BY <2>1, <2>4
  <2>7. queue' \in Seq(HamMigrateVmInfo)
    BY <2>3, <2>5, <2>6, RequeuedFacts
  <2>8. StoreTyped'
    BY <2>6, SetFacts DEF store, StoreTyped
  <2>9. given' \subseteq Borrows \cup {None}
    BY <2>3, <2>6, TaskFacts
  <2> QED BY <2>2, <2>6, <2>7, <2>8, <2>9 DEF client, RollTyped
<1> QED BY <1>1, <1>2, <1>3, <1>4, <1>5, <1>6, <1>7 DEF ClearStep

\* A restart keeps the types.
LEMMA CrashTypes ==
    ASSUME Types, Crash
    PROVE  Types'
<1>1. FaultsTyped'
  BY FaultFacts DEF Types, Crash
<1>2. << >> \in Seq(HamMigrateVmInfo)
  OBVIOUS
<1> QED BY <1>1, <1>2 DEF Types, Crash, BorrowTyped, WriterTyped, RollTyped, ClientTyped, SmapTyped,
                          StoreTyped, client

\* The types hold at the start.
LEMMA InitTypes ==
    ASSUME Init
    PROVE  Types
<1>1. Untouched \in [tracking : {"none", "water", "ham"}, migrate : BOOLEAN]
  BY DEF Untouched
<1>2. {} \subseteq FaultKinds /\ Cardinality({}) <= MaxFaults
  BY HamAssumption, FS_EmptySet
<1>3. << >> \in Seq(HamMigrateVmInfo) /\ 0 \in 0 .. MaxCalls
  BY HamAssumption
<1> QED BY <1>1, <1>2, <1>3 DEF Init, Types, BorrowTyped, WriterTyped, RollTyped, ClientTyped,
                                SmapTyped, StoreTyped, FaultsTyped

\* The types hold after every step.
LEMMA NextTypes ==
    ASSUME Types, [Next]_vars
    PROVE  Types'
<1>1. CASE Next
  BY <1>1, BorrowTypes, RequestTypes, ClearTypes, CrashTypes DEF Next
<1>2. CASE UNCHANGED vars
  BY <1>2 DEF vars, client, store, Types, BorrowTyped, WriterTyped, RollTyped, ClientTyped,
              SmapTyped, StoreTyped, FaultsTyped
<1> QED BY <1>1, <1>2

-----------------------------------------------------------------------------
(* What the steps do while the disk works.                                 *)

\* Nobody borrows exactly where the thread of the request is idle.
LEMMA IdleFacts ==
    ASSUME Types
    PROVE  /\ borrow.pc \in BorrowPcs \cup {"idle"}
           /\ borrow = Idle <=> borrow.pc = "idle"
           /\ borrow.pc # "idle" => borrow.task \in Request /\ borrow.task \in HamMigrateVmInfo
           /\ roll.pc \in RollPcs \cup {"load", "wait"}
           /\ Rolling => roll.task \in HamMigrateVmInfo /\ roll.failed \in BOOLEAN
           /\ writer # NoWriter => writer.task \in HamMigrateVmInfo
BY DEF Types, BorrowTyped, RollTyped, WriterTyped, BorrowPcs, RollPcs, Idle, Waiting, Request, Rolling

\* A borrow request that comes makes the task it finds due, is refused, or
\* starts with a new task.
LEMMA BorrowDoes ==
    ASSUME Types, ~DiskFailed', NEW r \in todo, Borrow(r)
    PROVE  /\ ~DiskFailed /\ r \in Borrows /\ ~migrated /\ faults \subseteq faults'
           /\ borrow.pc = "idle" /\ writer = NoWriter
           /\ roll.pc # "load" \/ "startup" \in Races
           /\ QueueIsFree \/ "overlap" \in Races
           /\ todo' = todo \ {r}
           /\ UNCHANGED << remote, cache, disk, queue, roll, smap, borrowed, migrated, given >>
           /\ \/ /\ cache # NoTask /\ UNCHANGED borrow /\ writer' # NoWriter
                 /\ writer'.task.vmState = cache.vmState
                 /\ writer'.task.vmOpState = cache.vmOpState
                 /\ writer'.task.borrowName = cache.borrowName
              \/ UNCHANGED << borrow, writer >>
              \/ /\ cache = NoTask /\ UNCHANGED writer /\ borrow'.pc = "disable"
                 /\ borrow'.task.vmState = NewTask.vmState /\ borrow'.task.vmOpState = "NOPE"
                 /\ borrow'.task.borrowName = r /\ ~borrow'.task.panic
<1>1. PICK f \in Faulty({"refuse"}) : Borrow(r)!(f)
  BY DEF Borrow
<1>2. ~DiskFailed /\ faults \subseteq faults'
  BY <1>1, FaultFacts DEF Types
<1>3. r \in Borrows /\ remote \in BOOLEAN
  BY DEF Types, ClientTyped
<1>4. /\ ~migrated /\ borrow.pc = "idle" /\ writer = NoWriter
      /\ roll.pc # "load" \/ "startup" \in Races
      /\ QueueIsFree \/ "overlap" \in Races
      /\ todo' = todo \ {r}
      /\ UNCHANGED << remote, cache, disk, queue, roll, smap, borrowed, migrated, given >>
  BY <1>1 DEF Idle, store
<1>5. CASE cache # NoTask
  <2>1. PICK u : u = [cache EXCEPT !.timeout = "zero"]
    OBVIOUS
  <2>2. cache \in HamMigrateVmInfo
    BY <1>5 DEF Types, StoreTyped
  <2>3. u.vmState = cache.vmState /\ u.vmOpState = cache.vmOpState /\ u.borrowName = cache.borrowName
    BY <2>1, <2>2 DEF HamMigrateVmInfo
  <2>4. writer' = [steps |-> <<"set", "update">>, task |-> u] /\ UNCHANGED borrow
    BY <1>1, <1>5, <2>1
  <2>5. writer'.task = u /\ writer'.steps = <<"set", "update">>
    BY <2>4
  <2>6. writer' # NoWriter
    BY <2>5 DEF NoWriter
  <2> QED BY <1>2, <1>3, <1>4, <1>5, <2>3, <2>4, <2>5, <2>6
<1>6. CASE cache = NoTask
  <2>1. PICK u : u = [NewTask EXCEPT !.borrowName = r]
    OBVIOUS
  <2>2. u.vmState = NewTask.vmState /\ u.vmOpState = "NOPE" /\ u.borrowName = r /\ ~u.panic
    BY <1>3, <2>1, NewTaskFacts
  <2>3. \/ UNCHANGED << borrow, writer >>
        \/ borrow' = [pc |-> "disable", task |-> u] /\ UNCHANGED writer
    BY <1>1, <1>6, <2>1 DEF BorrowGoesOn
  <2> QED BY <1>2, <1>3, <1>4, <1>6, <2>2, <2>3
<1> QED BY <1>5, <1>6

\* The page migration of the process is stopped, or the request fails.
LEMMA DisableProcessMigrateDoes ==
    ASSUME Types, ~DiskFailed', DisableProcessMigrate
    PROVE  /\ ~DiskFailed /\ faults \subseteq faults' /\ borrow.pc = "disable" /\ Alone
           /\ UNCHANGED << remote, cache, disk, queue, writer, roll, borrowed, migrated, todo, given >>
           /\ \/ /\ smap'.tracking = smap.tracking /\ borrow'.pc = "disabled"
                 /\ borrow'.task = borrow.task
              \/ UNCHANGED smap /\ borrow'.pc = "idle"
<1>1. PICK f \in Faulty({"disable"}) : DisableProcessMigrate!(f)
  BY DEF DisableProcessMigrate
<1>2. ~DiskFailed /\ faults \subseteq faults'
  BY <1>1, FaultFacts DEF Types
<1>3. \/ smap' = [smap EXCEPT !.migrate = FALSE] /\ borrow' = [pc |-> "disabled", task |-> borrow.task]
      \/ UNCHANGED smap /\ borrow' = [pc |-> "idle"]
  BY <1>1 DEF BorrowGoesOn, BorrowFails, Idle
<1>4. smap \in [tracking : {"none", "water", "ham"}, migrate : BOOLEAN]
  BY DEF Types, SmapTyped
<1> QED BY <1>1, <1>2, <1>3, <1>4 DEF store

\* The stop is recorded, unless the destination has panicked.
LEMMA DoProcessMigrateDoes ==
    ASSUME Types, ~DiskFailed', DoProcessMigrate
    PROVE  /\ ~DiskFailed /\ faults \subseteq faults' /\ borrow.pc = "disabled" /\ Alone
           /\ UNCHANGED << remote, queue, writer, roll, smap, borrowed, migrated, todo, given >>
           /\ \E task \in Request :
                 /\ task.vmState = borrow.task.vmState /\ task.borrowName = borrow.task.borrowName
                 /\ task.vmOpState = "DISABLE_PROCESS_MIGRATE"
                 /\ cache = NoTask => task.panic = borrow.task.panic
                 /\ \/ task.panic /\ UNCHANGED << cache, disk >> /\ borrow'.pc = "idle"
                    \/ /\ ~task.panic /\ cache' = task /\ disk' = Recorded(task)
                       /\ borrow'.pc = "track" /\ borrow'.task = task
<1>1. PICK f \in Faulty({"store"}) : DoProcessMigrate!(f)
  BY DEF DoProcessMigrate
<1>2. ~DiskFailed /\ faults \subseteq faults' /\ f = {}
  BY <1>1, FaultFacts DEF Types
<1>3. PICK w : w = WithDstState(borrow.task)
  OBVIOUS
<1>4. PICK task : task = [w EXCEPT !.vmOpState = "DISABLE_PROCESS_MIGRATE"]
  OBVIOUS
<1>5. /\ w \in HamMigrateVmInfo /\ w.vmState = borrow.task.vmState
      /\ w.borrowName = borrow.task.borrowName /\ (cache = NoTask => w.panic = borrow.task.panic)
  BY <1>1, <1>3, BorrowTasks, WithDstStateFacts DEF Types, Request
<1>6. /\ task.vmState = w.vmState /\ task.borrowName = w.borrowName /\ task.panic = w.panic
      /\ task.vmOpState = "DISABLE_PROCESS_MIGRATE"
  BY <1>4, <1>5 DEF HamMigrateVmInfo
<1>7. task \in Request
  BY <1>1, <1>3, <1>4, BorrowTasks DEF VmOpStates
<1>8. \/ task.panic /\ UNCHANGED << cache, disk >> /\ borrow' = [pc |-> "idle"]
      \/ ~task.panic /\ Set(task, {}) /\ borrow' = [pc |-> "track", task |-> task]
  BY <1>1, <1>2, <1>3, <1>4 DEF BorrowGoesOn, BorrowFails, Idle, store
<1>9. Set(task, {}) => cache' = task /\ disk' = Recorded(task)
  BY <1>7, SetFacts DEF Types, Request
<1>10. UNCHANGED << remote, queue, writer, roll, smap, borrowed, migrated, todo, given >> /\ Alone
  BY <1>1
<1> QED BY <1>1, <1>2, <1>5, <1>6, <1>7, <1>8, <1>9, <1>10

\* The fast scan is set, or the task will be queued.
LEMMA AddProcessTrackingDoes ==
    ASSUME Types, ~DiskFailed', AddProcessTracking
    PROVE  /\ ~DiskFailed /\ faults \subseteq faults' /\ borrow.pc = "track" /\ Alone
           /\ UNCHANGED << remote, cache, disk, queue, writer, roll, borrowed, migrated, todo, given >>
           /\ borrow'.task = borrow.task
           /\ borrow'.pc = "tracked" \/ (UNCHANGED smap /\ borrow'.pc = "enqueue")
<1>1. PICK f \in Faulty({"track"}) : AddProcessTracking!(f)
  BY DEF AddProcessTracking
<1>2. ~DiskFailed /\ faults \subseteq faults'
  BY <1>1, FaultFacts DEF Types
<1>3. \/ borrow' = [pc |-> "tracked", task |-> borrow.task]
      \/ UNCHANGED smap /\ borrow' = [pc |-> "enqueue", task |-> borrow.task]
  BY <1>1 DEF BorrowGoesOn
<1> QED BY <1>1, <1>2, <1>3 DEF store, client

\* The scan is recorded, unless the destination has panicked.
LEMMA DoProcessTrackingDoes ==
    ASSUME Types, ~DiskFailed', DoProcessTracking
    PROVE  /\ ~DiskFailed /\ faults \subseteq faults' /\ borrow.pc = "tracked" /\ Alone
           /\ UNCHANGED << remote, queue, writer, roll, smap, borrowed, migrated, todo, given >>
           /\ \E task \in Request :
                 /\ task.vmState = borrow.task.vmState /\ task.borrowName = borrow.task.borrowName
                 /\ task.vmOpState = "PROCESS_TRACKING"
                 /\ cache # NoTask => task.panic = cache.panic
                 /\ \/ /\ task.panic /\ UNCHANGED << cache, disk >>
                       /\ borrow'.pc = "enqueue" /\ borrow'.task = task
                    \/ /\ cache' = task /\ disk' = Recorded(task)
                       /\ \/ "nonuma" \in faults' /\ borrow'.pc = "idle"
                          \/ borrow'.pc = "push" /\ borrow'.task = task
<1>1. PICK f \in Faulty({"store", "nonuma"}) : DoProcessTracking!(f)
  BY DEF DoProcessTracking
<1>2. ~DiskFailed /\ faults \subseteq faults' /\ "store" \notin f
  BY <1>1, FaultFacts DEF Types
<1>3. PICK w : w = WithDstState(borrow.task)
  OBVIOUS
<1>4. PICK task : task = [w EXCEPT !.vmOpState = "PROCESS_TRACKING"]
  OBVIOUS
<1>5. /\ w \in HamMigrateVmInfo /\ w.vmState = borrow.task.vmState
      /\ w.borrowName = borrow.task.borrowName /\ (cache # NoTask => w.panic = cache.panic)
  BY <1>1, <1>3, BorrowTasks, WithDstStateFacts DEF Types, Request
<1>6. /\ task.vmState = w.vmState /\ task.borrowName = w.borrowName /\ task.panic = w.panic
      /\ task.vmOpState = "PROCESS_TRACKING"
  BY <1>4, <1>5 DEF HamMigrateVmInfo
<1>7. task \in Request
  BY <1>1, <1>3, <1>4, BorrowTasks DEF VmOpStates
<1>8. \/ task.panic /\ UNCHANGED << cache, disk >> /\ borrow' = [pc |-> "enqueue", task |-> task]
      \/ Set(task, f) /\ "nonuma" \in f /\ borrow' = [pc |-> "idle"]
      \/ Set(task, f) /\ borrow' = [pc |-> "push", task |-> task]
  BY <1>1, <1>2, <1>3, <1>4 DEF BorrowGoesOn, BorrowFails, Idle, store
<1>9. Set(task, f) => cache' = task /\ disk' = Recorded(task)
  BY <1>2, <1>7, SetFacts DEF Types, Request
<1>10. UNCHANGED << remote, queue, writer, roll, smap, borrowed, migrated, todo, given >> /\ Alone
  BY <1>1
<1>11. "nonuma" \in f => "nonuma" \in faults'
  BY <1>1 DEF Suffer
<1> QED BY <1>1, <1>2, <1>5, <1>6, <1>7, <1>8, <1>9, <1>10, <1>11

\* The task of a request that failed is queued.
LEMMA EnterClearQueueDoes ==
    ASSUME Types, ~DiskFailed', EnterClearQueue
    PROVE  /\ ~DiskFailed /\ faults \subseteq faults' /\ borrow.pc = "enqueue" /\ Alone /\ QueueIsFree
           /\ UNCHANGED << remote, cache, disk, writer, roll, smap, borrowed, migrated, todo, given >>
           /\ queue = << >> => queue' = << borrow.task >>
           /\ borrow'.pc = "idle"
<1>1. borrow.task \in HamMigrateVmInfo
  BY BorrowTasks DEF EnterClearQueue, Request
<1> QED BY <1>1, PushFacts DEF EnterClearQueue, BorrowFails, Idle, store, DiskFailed, Types

\* The task is queued before the memory is borrowed.
LEMMA BorrowAddressQueuedDoes ==
    ASSUME Types, ~DiskFailed', BorrowAddressQueued
    PROVE  /\ ~DiskFailed /\ faults \subseteq faults' /\ borrow.pc = "push" /\ Alone /\ QueueIsFree
           /\ UNCHANGED << remote, cache, disk, writer, roll, smap, borrowed, migrated, todo, given >>
           /\ \E task \in Request :
                 /\ task.vmState = borrow.task.vmState /\ task.borrowName = borrow.task.borrowName
                 /\ task.vmOpState = "BORROWED_ADDRESS" /\ task.timeout = "later"
                 /\ queue = << >> => queue' = << task >>
                 /\ borrow'.pc \in {"failed", "record"} /\ borrow'.task = task
<1>0. borrow.pc = "push" /\ Alone /\ QueueIsFree
  BY DEF BorrowAddressQueued
<1>1. PICK w : w = WithDstState(borrow.task)
  OBVIOUS
<1>2. PICK task : task = [w EXCEPT !.vmOpState = "BORROWED_ADDRESS",
                            !.opState = "START", !.timeout = "later"]
  OBVIOUS
<1>3. w \in HamMigrateVmInfo /\ w.vmState = borrow.task.vmState /\ w.borrowName = borrow.task.borrowName
  BY <1>0, <1>1, BorrowTasks, WithDstStateFacts DEF Types, Request
<1>4. /\ task.vmState = w.vmState /\ task.borrowName = w.borrowName
      /\ task.vmOpState = "BORROWED_ADDRESS" /\ task.timeout = "later"
  BY <1>2, <1>3 DEF HamMigrateVmInfo
<1>5. task \in Request
  BY <1>0, <1>1, <1>2, BorrowTasks
<1>6. /\ queue' = Push(queue, task)
      /\ \/ borrow' = [pc |-> "failed", task |-> task]
         \/ borrow' = [pc |-> "record", task |-> task]
  BY <1>1, <1>2 DEF BorrowAddressQueued, BorrowGoesOn
<1>7. queue = << >> => queue' = << task >>
  BY <1>5, <1>6, PushFacts DEF Types, Request
<1>8. UNCHANGED << remote, cache, disk, writer, roll, smap, borrowed, migrated, todo, given, faults >>
  BY DEF BorrowAddressQueued, store, client
<1>9. ~DiskFailed
  BY <1>8 DEF DiskFailed
<1> QED BY <1>0, <1>3, <1>4, <1>5, <1>6, <1>7, <1>8, <1>9

\* The task is recorded before the memory is borrowed.
LEMMA BorrowAddressRecordedDoes ==
    ASSUME Types, ~DiskFailed', BorrowAddressRecorded
    PROVE  /\ ~DiskFailed /\ faults \subseteq faults' /\ borrow.pc = "record" /\ Alone
           /\ UNCHANGED << remote, queue, writer, roll, smap, borrowed, migrated, todo, given >>
           /\ cache' = borrow.task /\ disk' = Recorded(borrow.task)
           /\ borrow'.pc = "create" /\ borrow'.task = borrow.task
<1>1. PICK f \in Faulty({"store"}) : BorrowAddressRecorded!(f)
  BY DEF BorrowAddressRecorded
<1>2. ~DiskFailed /\ faults \subseteq faults' /\ "store" \notin f
  BY <1>1, FaultFacts DEF Types
<1>3. borrow.task \in HamMigrateVmInfo
  BY <1>1, BorrowTasks DEF Request
<1>4. cache' = borrow.task /\ disk' = Recorded(borrow.task)
  BY <1>1, <1>2, <1>3, SetFacts DEF Types
<1> QED BY <1>1, <1>2, <1>4 DEF BorrowGoesOn, client

\* The memory is borrowed, or it is not.
LEMMA DoUbseBorrowAddressDoes ==
    ASSUME Types, ~DiskFailed', DoUbseBorrowAddress
    PROVE  /\ ~DiskFailed /\ faults \subseteq faults' /\ borrow.pc = "create" /\ Alone
           /\ UNCHANGED << remote, cache, disk, queue, writer, roll, smap, migrated, todo, given >>
           /\ borrow'.pc \in {"created", "failed"} /\ borrow'.task = borrow.task
           /\ borrowed' = borrowed \/ borrowed' = borrowed \cup {borrow.task.borrowName}
<1>1. PICK f \in Faulty({"create", "answer"}) : DoUbseBorrowAddress!(f)
  BY DEF DoUbseBorrowAddress
<1>2. ~DiskFailed /\ faults \subseteq faults'
  BY <1>1, FaultFacts DEF Types
<1>3. \/ borrow' = [pc |-> "created", task |-> borrow.task]
      \/ borrow' = [pc |-> "failed", task |-> borrow.task]
  BY <1>1 DEF BorrowGoesOn
<1> QED BY <1>1, <1>2, <1>3 DEF store, client

\* The borrow is recorded, unless the destination has panicked.
LEMMA DoBorrowAddressDoes ==
    ASSUME Types, ~DiskFailed', DoBorrowAddress
    PROVE  /\ ~DiskFailed /\ faults \subseteq faults' /\ borrow.pc = "created" /\ Alone
           /\ UNCHANGED << remote, queue, writer, roll, smap, borrowed, migrated, todo, given >>
           /\ \E task \in Request :
                 /\ task.vmState = borrow.task.vmState /\ task.borrowName = borrow.task.borrowName
                 /\ task.vmOpState = borrow.task.vmOpState
                 /\ \/ UNCHANGED << cache, disk >> /\ borrow'.pc = "failed" /\ borrow'.task = task
                    \/ cache' = task /\ disk' = Recorded(task) /\ borrow'.pc = "idle"
<1>1. PICK f \in Faulty({"store"}) : DoBorrowAddress!(f)
  BY DEF DoBorrowAddress
<1>2. ~DiskFailed /\ faults \subseteq faults' /\ f = {}
  BY <1>1, FaultFacts DEF Types
<1>3. PICK w : w = WithDstState(borrow.task)
  OBVIOUS
<1>4. PICK task : task = [w EXCEPT !.opState = "END"]
  OBVIOUS
<1>5. /\ w \in HamMigrateVmInfo /\ w.vmState = borrow.task.vmState
      /\ w.borrowName = borrow.task.borrowName /\ w.vmOpState = borrow.task.vmOpState
  BY <1>1, <1>3, BorrowTasks, WithDstStateFacts DEF Types, Request
<1>6. /\ task.vmState = w.vmState /\ task.borrowName = w.borrowName
      /\ task.vmOpState = w.vmOpState
  BY <1>4, <1>5 DEF HamMigrateVmInfo
<1>7. task \in Request
  BY <1>1, <1>3, <1>4, BorrowTasks
<1>8. \/ UNCHANGED << cache, disk >> /\ borrow' = [pc |-> "failed", task |-> task]
      \/ Set(task, f) /\ borrow' = [pc |-> "idle"]
  BY <1>1, <1>2, <1>3, <1>4 DEF BorrowGoesOn, Idle, store
<1>9. Set(task, f) => cache' = task /\ disk' = Recorded(task)
  BY <1>2, <1>7, SetFacts DEF Types, Request
<1>10. UNCHANGED << remote, queue, writer, roll, smap, borrowed, migrated, todo, given >> /\ Alone
  BY <1>1
<1> QED BY <1>1, <1>2, <1>5, <1>6, <1>7, <1>8, <1>9, <1>10

\* The task of a borrow that failed is recorded as due.
LEMMA HandleBorrowFailureDoes ==
    ASSUME Types, ~DiskFailed', HandleBorrowFailure
    PROVE  /\ ~DiskFailed /\ faults \subseteq faults' /\ borrow.pc = "failed" /\ Alone
           /\ UNCHANGED << remote, queue, writer, roll, smap, borrowed, migrated, todo, given >>
           /\ \E task \in Request :
                 /\ task.vmState = borrow.task.vmState /\ task.borrowName = borrow.task.borrowName
                 /\ task.vmOpState = borrow.task.vmOpState
                 /\ cache' = task /\ disk' = Recorded(task)
                 /\ borrow'.pc = "requeue" /\ borrow'.task = task
<1>1. PICK f \in Faulty({"store"}) : HandleBorrowFailure!(f)
  BY DEF HandleBorrowFailure
<1>2. ~DiskFailed /\ faults \subseteq faults' /\ "store" \notin f
  BY <1>1, FaultFacts DEF Types
<1>3. PICK task : task = [borrow.task EXCEPT !.timeout = "zero"]
  OBVIOUS
<1>4. task \in Request /\ borrow.task \in HamMigrateVmInfo
  BY <1>1, <1>3, BorrowTasks DEF Request
<1>5. /\ task.vmState = borrow.task.vmState /\ task.borrowName = borrow.task.borrowName
      /\ task.vmOpState = borrow.task.vmOpState
  BY <1>3, <1>4 DEF HamMigrateVmInfo
<1>6. Set(task, f) /\ borrow' = [pc |-> "requeue", task |-> task]
  BY <1>1, <1>3 DEF BorrowGoesOn
<1>7. cache' = task /\ disk' = Recorded(task)
  BY <1>2, <1>4, <1>6, SetFacts DEF Types, Request
<1>8. UNCHANGED << remote, queue, writer, roll, smap, borrowed, migrated, todo, given >> /\ Alone
  BY <1>1 DEF client
<1> QED BY <1>1, <1>2, <1>4, <1>5, <1>6, <1>7, <1>8

\* The task of a borrow that failed is made due where it is queued.
LEMMA BorrowFailureQueuedDoes ==
    ASSUME Types, ~DiskFailed', BorrowFailureQueued
    PROVE  /\ ~DiskFailed /\ faults \subseteq faults' /\ borrow.pc = "requeue" /\ Alone /\ QueueIsFree
           /\ UNCHANGED << remote, cache, disk, writer, roll, smap, borrowed, migrated, todo, given >>
           /\ queue = << >> => queue' = << >>
           /\ queue # << >> /\ Len(queue) <= 1 => queue' = << borrow.task >>
           /\ borrow'.pc = "idle"
<1>1. borrow.task \in HamMigrateVmInfo
  BY BorrowTasks DEF BorrowFailureQueued, Request
<1> QED BY <1>1, UpdateFacts DEF BorrowFailureQueued, BorrowFails, Idle, store, DiskFailed, Types

\* A clear request or a panic notice reads the task.
LEMMA WriterComes ==
    ASSUME Types, ~DiskFailed', (\E moved \in BOOLEAN : Clear(moved)) \/ HamMigrateCancel
    PROVE  /\ ~DiskFailed /\ faults \subseteq faults' /\ writer = NoWriter /\ cache # NoTask
           /\ (borrow.pc = "idle" /\ QueueIsFree) \/ "overlap" \in Races
           /\ roll.pc # "load" \/ "startup" \in Races
           /\ UNCHANGED << remote, cache, disk, queue, borrow, roll, smap, borrowed, todo, given >>
           /\ migrated => migrated'
           /\ writer' # NoWriter /\ writer'.task.vmOpState = cache.vmOpState
           /\ writer'.task.borrowName = cache.borrowName
           /\ migrated' \/ writer'.task.vmState = cache.vmState
<1>1. ASSUME NEW s, NEW u, s # << >>, writer' = [steps |-> s, task |-> u]
      PROVE  writer' # NoWriter /\ writer'.task = u
  BY <1>1 DEF NoWriter
<1>2. ASSUME WriterStarts
      PROVE  /\ writer = NoWriter /\ cache \in HamMigrateVmInfo /\ cache # NoTask
             /\ (borrow.pc = "idle" /\ QueueIsFree) \/ "overlap" \in Races
             /\ roll.pc # "load" \/ "startup" \in Races
  BY <1>2 DEF WriterStarts, Idle, Types, StoreTyped
<1>3. ASSUME NEW moved \in BOOLEAN, Clear(moved)
      PROVE  /\ UNCHANGED << remote, cache, disk, queue, borrow, roll, smap, borrowed, todo, given, faults >>
             /\ migrated => migrated'
             /\ WriterStarts
             /\ writer' # NoWriter /\ writer'.task.vmOpState = cache.vmOpState
             /\ writer'.task.borrowName = cache.borrowName
             /\ migrated' \/ writer'.task.vmState = cache.vmState
  <2>1. PICK task : task = [cache EXCEPT
            !.timeout = "zero",
            !.vmState = CASE moved /\ @ = "BORROWED_NOMIGRATE" -> "BORROWED_MIGRATED"
                          [] moved /\ @ = "NOBORROW_NOMIGRATE" -> "NOBORROW_MIGRATED"
                          [] OTHER -> @]
    OBVIOUS
  <2>2. WriterStarts /\ writer' = [steps |-> <<"set", "update">>, task |-> task]
    BY <1>3, <2>1 DEF Clear
  <2>3. /\ task.vmOpState = cache.vmOpState /\ task.borrowName = cache.borrowName
        /\ ~moved => task.vmState = cache.vmState
    BY <1>2, <2>1, <2>2, ClearTask
  <2>4. writer' # NoWriter /\ writer'.task = task
    BY <1>1, <2>2
  <2>5. UNCHANGED << remote, cache, disk, queue, borrow, roll, smap, borrowed, todo, given, faults >>
    BY <1>3 DEF Clear, store
  <2>6. migrated' = (migrated \/ moved)
    BY <1>3 DEF Clear
  <2>7. (migrated => migrated') /\ (moved => migrated')
    BY <2>6, Zenon
  <2> QED BY <2>2, <2>3, <2>4, <2>5, <2>7
<1>4. ASSUME HamMigrateCancel
      PROVE  /\ UNCHANGED << remote, cache, disk, queue, borrow, roll, smap, borrowed, migrated, todo, given >>
             /\ WriterStarts /\ ~DiskFailed /\ faults \subseteq faults'
             /\ writer' # NoWriter /\ writer'.task.vmOpState = cache.vmOpState
             /\ writer'.task.borrowName = cache.borrowName
             /\ writer'.task.vmState = cache.vmState
  <2>1. PICK f \in Faulty({"abort"}) : HamMigrateCancel!(f)
    BY <1>4 DEF HamMigrateCancel
  <2>2. ~DiskFailed /\ faults \subseteq faults'
    BY <2>1, FaultFacts DEF Types
  <2>3. cache \in HamMigrateVmInfo
    BY <1>2, <2>1
  <2>4. \E u : /\ u.vmOpState = cache.vmOpState /\ u.borrowName = cache.borrowName
               /\ u.vmState = cache.vmState
               /\ \/ writer' = [steps |-> <<"set">>, task |-> u]
                  \/ writer' = [steps |-> <<"update", "set">>, task |-> u]
    BY <2>1, <2>3 DEF HamMigrateVmInfo
  <2>5. << "set" >> # << >> /\ << "update", "set" >> # << >>
    OBVIOUS
  <2>6. /\ writer' # NoWriter /\ writer'.task.vmOpState = cache.vmOpState
        /\ writer'.task.borrowName = cache.borrowName /\ writer'.task.vmState = cache.vmState
    BY <1>1, <2>4, <2>5
  <2> QED BY <2>1, <2>2, <2>6 DEF store
<1>5. UNCHANGED faults => ~DiskFailed
  BY DEF DiskFailed
<1> QED BY <1>2, <1>3, <1>4, <1>5

\* A writer records its task.
LEMMA WriterSetsDoes ==
    ASSUME Types, ~DiskFailed', WriterSets
    PROVE  /\ ~DiskFailed /\ faults \subseteq faults' /\ writer # NoWriter
           /\ UNCHANGED << remote, queue, borrow, roll, smap, borrowed, migrated, todo, given >>
           /\ writer.task \in HamMigrateVmInfo
           /\ cache' = writer.task /\ disk' = Recorded(writer.task)
           /\ writer' # NoWriter => writer'.task = writer.task
<1>1. PICK f \in Faulty({"store"}) : WriterSets!(f)
  BY DEF WriterSets
<1>2. ~DiskFailed /\ faults \subseteq faults' /\ "store" \notin f
  BY <1>1, FaultFacts DEF Types
<1>3. /\ writer # NoWriter /\ writer.task \in HamMigrateVmInfo
      /\ writer' # NoWriter => writer'.task = writer.task
  BY <1>1, WriterFacts DEF Types
<1>4. cache' = writer.task /\ disk' = Recorded(writer.task)
  BY <1>1, <1>2, <1>3, SetFacts DEF Types
<1> QED BY <1>1, <1>2, <1>3, <1>4 DEF client

\* A writer makes its task due where it is queued.
LEMMA WriterUpdatesDoes ==
    ASSUME Types, ~DiskFailed', WriterUpdates
    PROVE  /\ ~DiskFailed /\ faults \subseteq faults' /\ writer # NoWriter /\ QueueIsFree
           /\ UNCHANGED << remote, cache, disk, borrow, roll, smap, borrowed, migrated, todo, given >>
           /\ writer.task \in HamMigrateVmInfo
           /\ queue = << >> => queue' = << >>
           /\ queue # << >> /\ Len(queue) <= 1 => queue' = << writer.task >>
           /\ writer' # NoWriter => writer'.task = writer.task
<1>1. /\ writer # NoWriter /\ writer.task \in HamMigrateVmInfo
      /\ writer' # NoWriter => writer'.task = writer.task
  BY WriterFacts DEF WriterUpdates, Types
<1>2. /\ queue = << >> => queue' = << >>
      /\ queue # << >> /\ Len(queue) <= 1 => queue' = << writer.task >>
  BY <1>1, UpdateFacts DEF WriterUpdates, Types
<1>3. UNCHANGED << remote, cache, disk, borrow, roll, smap, borrowed, migrated, todo, given, faults >>
  BY DEF WriterUpdates, store, client
<1> QED BY <1>1, <1>2, <1>3 DEF WriterUpdates, DiskFailed

\* The task on disk is loaded into the cache and the queue.
LEMMA LoadDataDoes ==
    ASSUME Types, ~DiskFailed', LoadData
    PROVE  /\ ~DiskFailed /\ faults \subseteq faults' /\ roll.pc = "load" /\ roll'.pc = "wait"
           /\ UNCHANGED << remote, borrow, writer, smap, borrowed, migrated, todo, given >>
           /\ \/ disk = NoTask /\ cache' = NoTask /\ disk' = NoTask /\ queue' = queue
              \/ \E task \in HamMigrateVmInfo :
                    /\ disk # NoTask
                    /\ task.vmState = disk.vmState /\ task.borrowName = disk.borrowName
                    /\ task.vmOpState = disk.vmOpState /\ task.count = disk.count
                    /\ cache' = task /\ disk' = task
                    /\ queue = << >> => queue' = << task >>
<1>1. PICK f \in Faulty({"query"}) : LoadData!(f)
  BY DEF LoadData
<1>2. ~DiskFailed /\ faults \subseteq faults' /\ f = {}
  BY <1>1, FaultFacts DEF Types
<1>3. PICK task : task = IF disk = NoTask \/ IsMigrating(disk) THEN disk
                         ELSE [disk EXCEPT !.timeout = "zero"]
  OBVIOUS
<1>4. /\ cache' = task /\ disk' = task
      /\ queue' = IF task = NoTask THEN queue ELSE Push(queue, task)
  BY <1>1, <1>2, <1>3
<1>5. /\ roll.pc = "load" /\ roll'.pc = "wait"
      /\ UNCHANGED << remote, borrow, writer, smap, borrowed, migrated, todo, given >>
  BY <1>1 DEF Waiting, client
<1>6. CASE disk = NoTask
  <2>1. task = NoTask
    BY <1>3, <1>6
  <2> QED BY <1>2, <1>4, <1>5, <1>6, <2>1
<1>7. CASE disk # NoTask
  <2>1. disk \in HamMigrateVmInfo
    BY <1>7 DEF Types, StoreTyped
  <2>2. PICK u : u = [disk EXCEPT !.timeout = "zero"]
    OBVIOUS
  <2>3. /\ u \in HamMigrateVmInfo /\ u.vmState = disk.vmState /\ u.borrowName = disk.borrowName
        /\ u.vmOpState = disk.vmOpState /\ u.count = disk.count
    BY <2>1, <2>2 DEF HamMigrateVmInfo
  <2>4. task = disk \/ task = u
    BY <1>3, <2>2
  <2>5. /\ task \in HamMigrateVmInfo /\ task.vmState = disk.vmState /\ task.borrowName = disk.borrowName
        /\ task.vmOpState = disk.vmOpState /\ task.count = disk.count
    BY <2>1, <2>3, <2>4
  <2>6. queue = << >> => queue' = << task >>
    BY <1>4, <2>5, TaskFacts, PushFacts DEF Types
  <2> QED BY <1>2, <1>4, <1>5, <1>7, <2>5, <2>6
<1> QED BY <1>6, <1>7

\* The clear thread takes the first task of the queue.
LEMMA ClearQueueOperationDoes ==
    ASSUME Types, ~DiskFailed', ClearQueueOperation
    PROVE  /\ ~DiskFailed /\ faults \subseteq faults' /\ roll.pc = "wait" /\ queue # << >> /\ Alone
           /\ queue[1].timeout = "zero" \/ borrow.pc = "idle" \/ "expiry" \in Races
           /\ UNCHANGED << remote, cache, disk, borrow, writer, smap, borrowed, migrated, todo, given >>
           /\ roll'.pc = "return" /\ roll'.task = queue[1] /\ roll'.failed = FALSE
           /\ 1 \in DOMAIN queue
           /\ Len(queue) <= 1 => queue' = << >>
<1>1. /\ roll.pc = "wait" /\ queue # << >> /\ Alone
      /\ UNCHANGED << remote, cache, disk, borrow, writer, smap, borrowed, migrated, todo, given, faults >>
      /\ roll' = [pc |-> "return", task |-> Head(queue), failed |-> FALSE]
      /\ queue' = Tail(queue)
      /\ Head(queue).timeout = "zero" \/ borrow.pc = "idle" \/ "expiry" \in Races
  BY DEF ClearQueueOperation, store, client, Idle
<1>2. Head(queue) = queue[1] /\ 1 \in DOMAIN queue /\ (Len(queue) <= 1 => Tail(queue) = << >>)
  BY <1>1 DEF Types
<1>3. ~DiskFailed
  BY <1>1 DEF DiskFailed
<1> QED BY <1>1, <1>2, <1>3

\* The memory is returned, or it is not, or there is none.
LEMMA UbseRollbackBorrowAddressDoes ==
    ASSUME Types, ~DiskFailed', UbseRollbackBorrowAddress
    PROVE  /\ ~DiskFailed /\ faults \subseteq faults' /\ roll.pc = "return"
           /\ UNCHANGED << remote, cache, disk, queue, borrow, writer, smap, migrated, todo, given >>
           /\ roll'.task = roll.task
           /\ \/ /\ roll.task.vmOpState # "BORROWED_ADDRESS" /\ roll'.pc = "untrack"
                 /\ roll'.failed = roll.failed /\ UNCHANGED borrowed
              \/ /\ roll.task.vmOpState = "BORROWED_ADDRESS" /\ roll'.pc = "returned"
                 /\ roll'.failed = roll.failed
                 /\ roll.task.borrowName \in borrowed
                 /\ borrowed' = borrowed \ {roll.task.borrowName}
              \/ /\ roll.task.vmOpState = "BORROWED_ADDRESS" /\ roll'.pc = "untrack"
                 /\ roll'.failed
                 /\ borrowed' = borrowed \/ borrowed' = borrowed \ {roll.task.borrowName}
<1>1. PICK f \in Faulty({"delete", "answer"}) : UbseRollbackBorrowAddress!(f)
  BY DEF UbseRollbackBorrowAddress
<1>2. ~DiskFailed /\ faults \subseteq faults'
  BY <1>1, FaultFacts DEF Types
<1>3. roll.pc \in RollPcs
  BY <1>1 DEF RollPcs
<1>4. roll.task \in HamMigrateVmInfo /\ roll.failed \in BOOLEAN /\ RollTyped
  BY <1>3, RollTask DEF Types
<1>5. ASSUME RollGoesOn("untrack", roll.task, FALSE)
      PROVE  roll'.pc = "untrack" /\ roll'.task = roll.task /\ roll'.failed = roll.failed
  BY <1>3, <1>4, <1>5, RollFacts DEF RollPcs
<1>6. ASSUME RollGoesOn("returned", roll.task, FALSE)
      PROVE  roll'.pc = "returned" /\ roll'.task = roll.task /\ roll'.failed = roll.failed
  BY <1>3, <1>4, <1>6, RollFacts DEF RollPcs
<1>7. ASSUME RollGoesOn("untrack", roll.task, TRUE)
      PROVE  roll'.pc = "untrack" /\ roll'.task = roll.task /\ roll'.failed
  BY <1>3, <1>4, <1>7, RollFacts DEF RollPcs
<1>8. UNCHANGED << remote, cache, disk, queue, borrow, writer, smap, migrated, todo, given >>
  BY <1>1 DEF store, client
<1>9. \/ /\ roll.task.vmOpState # "BORROWED_ADDRESS"
         /\ RollGoesOn("untrack", roll.task, FALSE) /\ UNCHANGED borrowed
      \/ /\ roll.task.vmOpState = "BORROWED_ADDRESS" /\ roll.task.borrowName \in borrowed
         /\ RollGoesOn("returned", roll.task, FALSE)
         /\ borrowed' = borrowed \ {roll.task.borrowName}
      \/ /\ roll.task.vmOpState = "BORROWED_ADDRESS" /\ RollGoesOn("untrack", roll.task, TRUE)
         /\ borrowed' = borrowed \/ borrowed' = borrowed \ {roll.task.borrowName}
  BY <1>1
<1> QED BY <1>1, <1>2, <1>5, <1>6, <1>7, <1>8, <1>9

\* The return is recorded.
LEMMA RollbackBorrowAddressDoes ==
    ASSUME Types, ~DiskFailed', RollbackBorrowAddress
    PROVE  /\ ~DiskFailed /\ faults \subseteq faults' /\ roll.pc = "returned"
           /\ UNCHANGED << remote, queue, borrow, writer, smap, borrowed, migrated, todo, given >>
           /\ \E task \in HamMigrateVmInfo :
                 /\ task.vmState = roll.task.vmState /\ task.borrowName = roll.task.borrowName
                 /\ task.vmOpState = "PROCESS_TRACKING"
                 /\ cache' = task /\ disk' = Recorded(task)
                 /\ roll'.pc = "untrack" /\ roll'.task = task /\ roll'.failed = roll.failed
<1>1. PICK f \in Faulty({"store"}) : RollbackBorrowAddress!(f)
  BY DEF RollbackBorrowAddress
<1>2. ~DiskFailed /\ faults \subseteq faults' /\ f = {}
  BY <1>1, FaultFacts DEF Types
<1>3. roll.pc \in RollPcs
  BY <1>1 DEF RollPcs
<1>4. roll.task \in HamMigrateVmInfo /\ roll.failed \in BOOLEAN /\ RollTyped
  BY <1>3, RollTask DEF Types
<1>5. PICK task : task = ReSetReTry([roll.task EXCEPT !.vmOpState = "PROCESS_TRACKING"])
  OBVIOUS
<1>6. /\ task \in HamMigrateVmInfo
      /\ task.vmState = roll.task.vmState /\ task.borrowName = roll.task.borrowName
      /\ task.vmOpState = "PROCESS_TRACKING"
  BY <1>4, <1>5, RollTasks DEF VmOpStates
<1>7. Set(task, f) /\ RollGoesOn("untrack", task, FALSE)
  BY <1>1, <1>2, <1>5
<1>8. cache' = task /\ disk' = Recorded(task)
  BY <1>2, <1>6, <1>7, SetFacts DEF Types
<1>9. roll'.pc = "untrack" /\ roll'.task = task /\ roll'.failed = roll.failed
  BY <1>3, <1>4, <1>6, <1>7, RollFacts DEF RollPcs
<1>10. UNCHANGED << remote, queue, borrow, writer, smap, borrowed, migrated, todo, given >>
  BY <1>1 DEF client
<1> QED BY <1>1, <1>2, <1>6, <1>8, <1>9, <1>10

\* The scan is undone and recorded, or it is not, or there is nothing to undo.
LEMMA RollbackProcessTrackingDoes ==
    ASSUME Types, ~DiskFailed', RollbackProcessTracking
    PROVE  /\ ~DiskFailed /\ faults \subseteq faults' /\ roll.pc = "untrack" /\ roll'.pc = "enable"
           /\ UNCHANGED << remote, queue, borrow, writer, borrowed, migrated, todo, given >>
           /\ \/ /\ roll.task.vmOpState # "PROCESS_TRACKING" /\ roll'.failed = roll.failed
                 /\ roll'.task = roll.task /\ UNCHANGED << cache, disk, smap >>
              \/ /\ roll.task.vmOpState = "PROCESS_TRACKING" /\ roll'.failed
                 /\ roll'.task = roll.task /\ UNCHANGED << cache, disk, smap >>
              \/ /\ roll.task.vmOpState = "PROCESS_TRACKING" /\ roll'.failed = roll.failed
                 /\ \E task \in HamMigrateVmInfo :
                       /\ task.vmState = roll.task.vmState /\ task.borrowName = roll.task.borrowName
                       /\ cache' = task /\ disk' = Recorded(task) /\ roll'.task = task
                       /\ roll.task.vmState = "BORROWED_NOMIGRATE" =>
                             /\ task.vmOpState = "DISABLE_PROCESS_MIGRATE"
                             /\ smap'.tracking = "water" /\ smap'.migrate = smap.migrate
                       /\ roll.task.vmState # "BORROWED_NOMIGRATE" => task.vmOpState = "NOPE"
                       /\ roll.task.vmState = "NOBORROW_NOMIGRATE" =>
                             smap'.tracking = "none" /\ smap'.migrate = smap.migrate
<1>1. PICK f \in Faulty({"track", "store"}) : RollbackProcessTracking!(f)
  BY DEF RollbackProcessTracking
<1>2. ~DiskFailed /\ faults \subseteq faults' /\ "store" \notin f
  BY <1>1, FaultFacts DEF Types
<1>3. roll.pc \in RollPcs
  BY <1>1 DEF RollPcs
<1>4. roll.task \in HamMigrateVmInfo /\ roll.failed \in BOOLEAN /\ RollTyped
  BY <1>3, RollTask DEF Types
<1>5. PICK task : task = IF roll.task.vmState = "BORROWED_NOMIGRATE"
                THEN ReSetReTry([roll.task EXCEPT !.vmOpState = "DISABLE_PROCESS_MIGRATE"])
                ELSE [roll.task EXCEPT !.vmOpState = "NOPE"]
  OBVIOUS
<1>6. /\ task \in HamMigrateVmInfo
      /\ task.vmState = roll.task.vmState /\ task.borrowName = roll.task.borrowName
      /\ roll.task.vmState = "BORROWED_NOMIGRATE" => task.vmOpState = "DISABLE_PROCESS_MIGRATE"
      /\ roll.task.vmState # "BORROWED_NOMIGRATE" => task.vmOpState = "NOPE"
  <2>1. CASE roll.task.vmState = "BORROWED_NOMIGRATE"
    <3>1. task = ReSetReTry([roll.task EXCEPT !.vmOpState = "DISABLE_PROCESS_MIGRATE"])
      BY <1>5, <2>1
    <3> QED BY <1>4, <2>1, <3>1, RollTasks DEF VmOpStates
  <2>2. CASE roll.task.vmState # "BORROWED_NOMIGRATE"
    <3>1. task = [roll.task EXCEPT !.vmOpState = "NOPE"]
      BY <1>5, <2>2
    <3> QED BY <1>4, <2>2, <3>1, RollTasks DEF VmOpStates
  <2> QED BY <2>1, <2>2
<1>7. \/ /\ roll.task.vmOpState # "PROCESS_TRACKING"
         /\ RollGoesOn("enable", roll.task, FALSE) /\ UNCHANGED << cache, disk, smap >>
      \/ /\ roll.task.vmOpState = "PROCESS_TRACKING"
         /\ RollGoesOn("enable", roll.task, TRUE) /\ UNCHANGED << cache, disk, smap >>
      \/ /\ roll.task.vmOpState = "PROCESS_TRACKING"
         /\ Set(task, f) /\ RollGoesOn("enable", task, FALSE)
         /\ roll.task.vmState = "BORROWED_NOMIGRATE" => smap' = [smap EXCEPT !.tracking = "water"]
         /\ roll.task.vmState = "NOBORROW_NOMIGRATE" =>
               smap' = [smap EXCEPT !.tracking = "none"]
  BY <1>1, <1>2, <1>5 DEF store
<1>8. ASSUME RollGoesOn("enable", roll.task, FALSE)
      PROVE  roll'.pc = "enable" /\ roll'.task = roll.task /\ roll'.failed = roll.failed
  BY <1>3, <1>4, <1>8, RollFacts DEF RollPcs
<1>9. ASSUME RollGoesOn("enable", roll.task, TRUE)
      PROVE  roll'.pc = "enable" /\ roll'.task = roll.task /\ roll'.failed
  BY <1>3, <1>4, <1>9, RollFacts DEF RollPcs
<1>10. ASSUME RollGoesOn("enable", task, FALSE)
       PROVE  roll'.pc = "enable" /\ roll'.task = task /\ roll'.failed = roll.failed
  BY <1>3, <1>4, <1>6, <1>10, RollFacts DEF RollPcs
<1>11. Set(task, f) => cache' = task /\ disk' = Recorded(task)
  BY <1>2, <1>6, SetFacts DEF Types
<1>12. UNCHANGED << remote, queue, borrow, writer, borrowed, migrated, todo, given >>
  BY <1>1 DEF client
<1>13. smap \in [tracking : {"none", "water", "ham"}, migrate : BOOLEAN]
  BY DEF Types, SmapTyped
<1>14. /\ smap' = [smap EXCEPT !.tracking = "water"] =>
             smap'.tracking = "water" /\ smap'.migrate = smap.migrate
       /\ smap' = [smap EXCEPT !.tracking = "none"] =>
             smap'.tracking = "none" /\ smap'.migrate = smap.migrate
  BY <1>13
<1> QED BY <1>1, <1>2, <1>6, <1>7, <1>8, <1>9, <1>10, <1>11, <1>12, <1>14

\* The page migration is started again, or it is not, or it has not been stopped.
LEMMA RollbackProcessMigrateDoes ==
    ASSUME Types, ~DiskFailed', RollbackProcessMigrate
    PROVE  /\ ~DiskFailed /\ faults \subseteq faults' /\ roll.pc = "enable" /\ roll'.pc = "finish"
           /\ UNCHANGED << remote, cache, disk, queue, borrow, writer, borrowed, migrated, todo, given >>
           /\ roll'.task = roll.task
           /\ smap'.tracking = smap.tracking
           /\ \/ roll.task.vmOpState # "DISABLE_PROCESS_MIGRATE" /\ UNCHANGED smap
                 /\ roll'.failed = roll.failed
              \/ roll.task.vmOpState = "DISABLE_PROCESS_MIGRATE" /\ UNCHANGED smap /\ roll'.failed
              \/ roll.task.vmOpState = "DISABLE_PROCESS_MIGRATE" /\ smap'.migrate = TRUE
                 /\ roll'.failed = roll.failed
<1>1. PICK f \in Faulty({"disable"}) : RollbackProcessMigrate!(f)
  BY DEF RollbackProcessMigrate
<1>2. ~DiskFailed /\ faults \subseteq faults'
  BY <1>1, FaultFacts DEF Types
<1>3. roll.pc \in RollPcs
  BY <1>1 DEF RollPcs
<1>4. roll.task \in HamMigrateVmInfo /\ roll.failed \in BOOLEAN /\ RollTyped
  BY <1>3, RollTask DEF Types
<1>5. ASSUME RollGoesOn("finish", roll.task, f # {})
      PROVE  /\ roll'.pc = "finish" /\ roll'.task = roll.task
             /\ (f = {} => roll'.failed = roll.failed) /\ (f # {} => roll'.failed)
  BY <1>3, <1>4, <1>5, RollFacts DEF RollPcs
<1>6. smap \in [tracking : {"none", "water", "ham"}, migrate : BOOLEAN]
  BY DEF Types, SmapTyped
<1>7. smap' = [smap EXCEPT !.migrate = TRUE] => smap'.tracking = smap.tracking /\ smap'.migrate = TRUE
  BY <1>6
<1>8. \/ /\ roll.task.vmOpState # "DISABLE_PROCESS_MIGRATE" /\ UNCHANGED smap /\ f = {}
      \/ /\ roll.task.vmOpState = "DISABLE_PROCESS_MIGRATE" /\ UNCHANGED smap /\ f # {}
      \/ /\ roll.task.vmOpState = "DISABLE_PROCESS_MIGRATE"
         /\ smap' = [smap EXCEPT !.migrate = TRUE] /\ f = {}
  BY <1>1
<1>9. RollGoesOn("finish", roll.task, f # {}) /\ roll.pc = "enable"
  BY <1>1
<1>10. UNCHANGED << remote, cache, disk, queue, borrow, writer, borrowed, migrated, todo, given >>
  BY <1>1 DEF store, client
<1> QED BY <1>2, <1>5, <1>7, <1>8, <1>9, <1>10

\* The task is done, is tried again, or a part of it is given up.
LEMMA RollbackDoes ==
    ASSUME Types, ~DiskFailed', Rollback
    PROVE  /\ ~DiskFailed /\ faults \subseteq faults' /\ roll.pc = "finish" /\ roll'.pc = "wait"
           /\ UNCHANGED << remote, borrow, writer, smap, borrowed, migrated, todo >>
           /\ \/ /\ cache' = NoTask /\ disk' = NoTask /\ UNCHANGED queue
                 /\ \/ ~roll.failed /\ given' = given
                    \/ /\ roll.failed /\ roll.task.vmOpState # "BORROWED_ADDRESS"
                       /\ given' = given \cup {None}
              \/ /\ UNCHANGED << cache, disk >> /\ roll.task.vmOpState = "BORROWED_ADDRESS"
                 /\ given' = given \cup {roll.task.borrowName}
                 /\ \E task \in HamMigrateVmInfo :
                       /\ task.vmState = roll.task.vmState /\ task.borrowName = roll.task.borrowName
                       /\ task.vmOpState = "PROCESS_TRACKING"
                       /\ queue' = Requeued(task)
              \/ UNCHANGED << cache, disk, given >> /\ queue' = Requeued(roll.task)
<1>1. PICK f \in Faulty({"store"}) : Rollback!(f)
  BY DEF Rollback
<1>2. ~DiskFailed /\ faults \subseteq faults' /\ f = {}
  BY <1>1, FaultFacts DEF Types
<1>3. roll.task \in HamMigrateVmInfo /\ roll.failed \in BOOLEAN
  BY <1>1, RollTask DEF Types, RollPcs
<1>4. PICK task : task = ReSetReTry([roll.task EXCEPT !.vmOpState = "PROCESS_TRACKING"])
  OBVIOUS
<1>5. /\ task \in HamMigrateVmInfo
      /\ task.vmState = roll.task.vmState /\ task.borrowName = roll.task.borrowName
      /\ task.vmOpState = "PROCESS_TRACKING"
  BY <1>3, <1>4, RollTasks DEF VmOpStates
<1>6. /\ roll.pc = "finish" /\ roll'.pc = "wait"
      /\ UNCHANGED << remote, borrow, writer, smap, borrowed, migrated, todo >>
  BY <1>1 DEF Waiting, client
<1>7. \/ /\ Set(NoTask, f) /\ UNCHANGED queue
         /\ \/ ~roll.failed /\ given' = given
            \/ /\ roll.failed /\ roll.task.vmOpState # "BORROWED_ADDRESS"
               /\ given' = given \cup {None}
      \/ /\ UNCHANGED << cache, disk >> /\ roll.task.vmOpState = "BORROWED_ADDRESS"
         /\ given' = given \cup {roll.task.borrowName} /\ queue' = Requeued(task)
      \/ UNCHANGED << cache, disk, given >> /\ queue' = Requeued(roll.task)
  <2>1. CASE ~roll.failed
    BY <1>1, <1>2, <2>1
  <2>2. CASE roll.failed /\ roll.task.count # MaxRetry
    BY <1>1, <1>2, <2>2 DEF store
  <2>3. CASE roll.failed /\ roll.task.count = MaxRetry /\ roll.task.vmOpState = "BORROWED_ADDRESS"
    BY <1>1, <1>2, <1>4, <2>3 DEF store
  <2>4. CASE roll.failed /\ roll.task.count = MaxRetry /\ roll.task.vmOpState # "BORROWED_ADDRESS"
    BY <1>1, <1>2, <2>4
  <2> QED BY <1>3, <2>1, <2>2, <2>3, <2>4
<1>8. Set(NoTask, f) => cache' = NoTask /\ disk' = NoTask
  BY <1>2, SetFacts DEF Types, Recorded
<1> QED BY <1>2, <1>5, <1>6, <1>7, <1>8

\* A restart.
LEMMA CrashDoes ==
    ASSUME Types, ~DiskFailed', Crash
    PROVE  /\ ~DiskFailed /\ faults \subseteq faults'
           /\ UNCHANGED << remote, disk, smap, borrowed, migrated, todo >>
           /\ cache' = NoTask /\ queue' = << >> /\ borrow'.pc = "idle" /\ writer' = NoWriter
           /\ roll'.pc = "load"
           /\ given \subseteq given' /\ given' \subseteq given \cup {None}
           /\ borrow.pc \in {"disabled", "tracked"} => None \in given'
<1>1. ~DiskFailed /\ faults \subseteq faults'
  BY FaultFacts DEF Crash, Types
<1> QED BY <1>1 DEF Crash, Idle, client

-----------------------------------------------------------------------------
(* The store and the place of the task, without a request before the load. *)

\* What is recorded of a task.
LEMMA RecordedFacts ==
    ASSUME NEW t \in HamMigrateVmInfo
    PROVE  /\ Recorded(t) # NoTask /\ Recorded(t).count = 1
           /\ Recorded(t).vmState = t.vmState /\ Recorded(t).vmOpState = t.vmOpState
           /\ Recorded(t).borrowName = t.borrowName
           /\ t.count = 1 => Recorded(t) = t
<1>1. Recorded(t) = Saved(t) /\ Recorded(t) # NoTask
  BY TaskFacts, SavedFacts DEF Recorded
<1>2. t.count = 1 => Saved(t) = t
  BY DEF Saved, HamMigrateVmInfo
<1> QED BY <1>1, <1>2, SavedFacts

\* Nothing is recorded where there is no task.
LEMMA RecordedNoTask == Recorded(NoTask) = NoTask
BY DEF Recorded

\* As long as the disk works it has what the cache has, and the task is in one
\* place, unless a request comes before the load.
LEMMA StoreNext ==
    ASSUME Types, ~DiskFailed', "startup" \notin Races, StoreInv, SingleInv, Next
    PROVE  StoreInv' /\ SingleInv'
<1> USE DEF StoreInv, SingleInv, Early, RollPcs, Rolling, QueueIsFree
<1>a. /\ Request \subseteq HamMigrateVmInfo
      /\ \A t \in HamMigrateVmInfo : t # NoTask /\ Recorded(t) # NoTask /\ Recorded(t).count = 1
  BY TaskFacts, RecordedFacts DEF Request
<1>c. Len(<< >>) = 0
  OBVIOUS
<1>1. ASSUME NEW r \in todo, Borrow(r) PROVE StoreInv' /\ SingleInv'
  BY <1>1, BorrowDoes
<1>2. CASE (\E moved \in BOOLEAN : Clear(moved)) \/ HamMigrateCancel
  BY <1>2, WriterComes
<1>3. CASE DisableProcessMigrate
  BY <1>3, DisableProcessMigrateDoes
<1>4. CASE DoProcessMigrate
  BY <1>4, <1>a, DoProcessMigrateDoes
<1>5. CASE AddProcessTracking
  BY <1>5, AddProcessTrackingDoes
<1>6. CASE DoProcessTracking
  BY <1>6, <1>a, DoProcessTrackingDoes
<1>7. CASE EnterClearQueue
  <2>1. queue = << >> /\ queue' = << borrow.task >>
    BY <1>7, EnterClearQueueDoes
  <2>2. Len(queue') = 1
    BY <2>1
  <2> QED BY <1>7, <2>2, EnterClearQueueDoes
<1>8. CASE BorrowAddressQueued
  <2>1. PICK task : queue' = << task >> /\ borrow'.pc \in {"failed", "record"}
    BY <1>8, BorrowAddressQueuedDoes
  <2>2. Len(queue') = 1
    BY <2>1
  <2> QED BY <1>8, <2>1, <2>2, BorrowAddressQueuedDoes
<1>9. CASE BorrowAddressRecorded
  BY <1>9, <1>a, IdleFacts, BorrowAddressRecordedDoes
<1>10. CASE DoUbseBorrowAddress
  BY <1>10, DoUbseBorrowAddressDoes
<1>11. CASE DoBorrowAddress
  BY <1>11, <1>a, DoBorrowAddressDoes
<1>12. CASE HandleBorrowFailure
  BY <1>12, <1>a, HandleBorrowFailureDoes
<1>13. CASE BorrowFailureQueued
  <2>1. Len(queue') <= 1 /\ (queue = << >> => queue' = << >>)
    <3>1. CASE queue = << >>
      BY <1>13, <3>1, <1>c, BorrowFailureQueuedDoes
    <3>2. CASE queue # << >>
      <4>1. queue' = << borrow.task >>
        BY <1>13, <3>2, BorrowFailureQueuedDoes
      <4>2. Len(queue') = 1
        BY <4>1
      <4> QED BY <3>2, <4>2
    <3> QED BY <3>1, <3>2
  <2> QED BY <1>13, <2>1, BorrowFailureQueuedDoes
<1>14. CASE WriterSets
  BY <1>14, <1>a, WriterSetsDoes
<1>15. CASE WriterUpdates
  <2>1. Len(queue') <= 1 /\ (queue = << >> => queue' = << >>)
    <3>1. CASE queue = << >>
      BY <1>15, <3>1, <1>c, WriterUpdatesDoes
    <3>2. CASE queue # << >>
      <4>1. queue' = << writer.task >>
        BY <1>15, <3>2, WriterUpdatesDoes
      <4>2. Len(queue') = 1
        BY <4>1
      <4> QED BY <3>2, <4>2
    <3> QED BY <3>1, <3>2
  <2>2. writer # NoWriter /\ QueueIsFree /\ UNCHANGED << cache, disk, borrow, roll >>
    BY <1>15, WriterUpdatesDoes
  <2> QED BY <2>1, <2>2
<1>16. CASE LoadData
  <2>1. CASE disk = NoTask
    BY <1>16, <2>1, <1>a, RecordedNoTask, LoadDataDoes
  <2>2. CASE disk # NoTask
    <3>1. PICK task \in HamMigrateVmInfo :
             /\ task.count = disk.count /\ cache' = task /\ disk' = task
             /\ queue = << >> => queue' = << task >>
      BY <1>16, <2>2, LoadDataDoes
    <3>2. Recorded(task) = task /\ task # NoTask
      BY <2>2, <3>1, RecordedFacts, TaskFacts
    <3>3. queue = << >> /\ queue' = << task >>
      BY <1>16, <3>1, LoadDataDoes
    <3>4. Len(queue') = 1
      BY <3>3
    <3>5. task.count = 1
      BY <2>2, <3>1
    <3>6. /\ roll'.pc = "wait" /\ borrow.pc = "idle" /\ UNCHANGED << borrow, writer >>
          /\ cache' = task /\ disk' = task
      BY <1>16, <3>1, LoadDataDoes
    <3>7. StoreInv'
      BY <3>2, <3>5, <3>6
    <3> QED BY <3>2, <3>4, <3>6, <3>7
  <2> QED BY <2>1, <2>2
<1>17. CASE ClearQueueOperation
  BY <1>17, <1>c, ClearQueueOperationDoes
<1>18. CASE UbseRollbackBorrowAddress
  BY <1>18, UbseRollbackBorrowAddressDoes
<1>19. CASE RollbackBorrowAddress
  BY <1>19, <1>a, RollbackBorrowAddressDoes
<1>20. CASE RollbackProcessTracking
  BY <1>20, <1>a, RollbackProcessTrackingDoes
<1>21. CASE RollbackProcessMigrate
  BY <1>21, RollbackProcessMigrateDoes
<1>22. CASE Rollback
  <2>1. /\ roll.pc = "finish" /\ roll'.pc = "wait" /\ UNCHANGED << borrow, writer >>
        /\ \/ cache' = NoTask /\ disk' = NoTask /\ UNCHANGED queue
           \/ UNCHANGED << cache, disk >> /\ \E task \in HamMigrateVmInfo : queue' = Requeued(task)
    BY <1>22, RollbackDoes, IdleFacts
  <2>2. queue = << >> => \A task \in HamMigrateVmInfo : Len(Requeued(task)) = 1
    BY RequeuedFacts DEF Types
  <2>3. queue = << >>
    BY <2>1
  <2>4. Len(queue') <= 1 /\ (queue' # << >> => cache' = cache)
    BY <2>1, <2>2, <2>3, <1>c
  <2>5. StoreInv'
    BY <2>1, RecordedNoTask
  <2> QED BY <2>1, <2>4, <2>5
<1>23. CASE Crash
  BY <1>23, <1>c, CrashDoes
<1> QED BY <1>1, <1>2, <1>3, <1>4, <1>5, <1>6, <1>7, <1>8, <1>9, <1>10, <1>11, <1>12, <1>13, <1>14,
           <1>15, <1>16, <1>17, <1>18, <1>19, <1>20, <1>21, <1>22, <1>23
        DEF Next, BorrowStep, WriterStep, ClearStep

-----------------------------------------------------------------------------
(* What is borrowed, without a request before the load or an overlap.      *)

\* A writer is alone, unless requests overlap.
LEMMA WriterNext ==
    ASSUME Types, ~DiskFailed', Races \subseteq {"expiry"}, StoreInv, SingleInv, WriterInv, Next
    PROVE  WriterInv'
<1> USE DEF WriterInv, RollPcs, Rolling, QueueIsFree, Alone
<1>a. "startup" \notin Races /\ "overlap" \notin Races
  OBVIOUS
<1>b. \A t \in HamMigrateVmInfo : t # NoTask
  BY TaskFacts
<1>1. ASSUME NEW r \in todo, Borrow(r) PROVE WriterInv'
  BY <1>1, <1>a, BorrowDoes
<1>2. CASE (\E moved \in BOOLEAN : Clear(moved)) \/ HamMigrateCancel
  BY <1>2, <1>a, WriterComes
<1>3. CASE DisableProcessMigrate
  BY <1>3, <1>a, DisableProcessMigrateDoes
<1>4. CASE DoProcessMigrate
  BY <1>4, <1>a, DoProcessMigrateDoes
<1>5. CASE AddProcessTracking
  BY <1>5, <1>a, AddProcessTrackingDoes
<1>6. CASE DoProcessTracking
  BY <1>6, <1>a, DoProcessTrackingDoes
<1>7. CASE EnterClearQueue
  BY <1>7, <1>a, EnterClearQueueDoes
<1>8. CASE BorrowAddressQueued
  BY <1>8, <1>a, BorrowAddressQueuedDoes
<1>9. CASE BorrowAddressRecorded
  BY <1>9, <1>a, BorrowAddressRecordedDoes
<1>10. CASE DoUbseBorrowAddress
  BY <1>10, <1>a, DoUbseBorrowAddressDoes
<1>11. CASE DoBorrowAddress
  BY <1>11, <1>a, DoBorrowAddressDoes
<1>12. CASE HandleBorrowFailure
  BY <1>12, <1>a, HandleBorrowFailureDoes
<1>13. CASE BorrowFailureQueued
  BY <1>13, <1>a, BorrowFailureQueuedDoes
<1>14. CASE WriterSets
  BY <1>14, <1>b, WriterSetsDoes
<1>15. CASE WriterUpdates
  BY <1>15, WriterUpdatesDoes
<1>16. CASE LoadData
  BY <1>16, LoadDataDoes
<1>17. CASE ClearQueueOperation
  BY <1>17, <1>a, ClearQueueOperationDoes
<1>18. CASE UbseRollbackBorrowAddress
  BY <1>18, UbseRollbackBorrowAddressDoes
<1>19. CASE RollbackBorrowAddress
  BY <1>19, RollbackBorrowAddressDoes
<1>20. CASE RollbackProcessTracking
  BY <1>20, RollbackProcessTrackingDoes
<1>21. CASE RollbackProcessMigrate
  BY <1>21, RollbackProcessMigrateDoes
<1>22. CASE Rollback
  BY <1>22, RollbackDoes
<1>23. CASE Crash
  BY <1>23, CrashDoes
<1> QED BY <1>1, <1>2, <1>3, <1>4, <1>5, <1>6, <1>7, <1>8, <1>9, <1>10, <1>11, <1>12, <1>13, <1>14,
           <1>15, <1>16, <1>17, <1>18, <1>19, <1>20, <1>21, <1>22, <1>23
        DEF Next, BorrowStep, WriterStep, ClearStep

\* A name is borrowed once.
LEMMA NamesNext ==
    ASSUME Types, ~DiskFailed', NamesInv, Next
    PROVE  NamesInv'
<1> USE DEF NamesInv, Early
<1>1. ASSUME NEW r \in todo, Borrow(r) PROVE NamesInv'
  BY <1>1, BorrowDoes
<1>2. CASE (\E moved \in BOOLEAN : Clear(moved)) \/ HamMigrateCancel
  BY <1>2, WriterComes
<1>3. CASE DisableProcessMigrate
  BY <1>3, DisableProcessMigrateDoes
<1>4. CASE DoProcessMigrate
  BY <1>4, DoProcessMigrateDoes
<1>5. CASE AddProcessTracking
  BY <1>5, AddProcessTrackingDoes
<1>6. CASE DoProcessTracking
  BY <1>6, DoProcessTrackingDoes
<1>7. CASE EnterClearQueue
  BY <1>7, EnterClearQueueDoes
<1>8. CASE BorrowAddressQueued
  BY <1>8, BorrowAddressQueuedDoes
<1>9. CASE BorrowAddressRecorded
  BY <1>9, BorrowAddressRecordedDoes
<1>10. CASE DoUbseBorrowAddress
  BY <1>10, DoUbseBorrowAddressDoes
<1>11. CASE DoBorrowAddress
  BY <1>11, DoBorrowAddressDoes
<1>12. CASE HandleBorrowFailure
  BY <1>12, HandleBorrowFailureDoes
<1>13. CASE BorrowFailureQueued
  BY <1>13, BorrowFailureQueuedDoes
<1>14. CASE WriterSets
  BY <1>14, WriterSetsDoes
<1>15. CASE WriterUpdates
  BY <1>15, WriterUpdatesDoes
<1>16. CASE LoadData
  BY <1>16, LoadDataDoes
<1>17. CASE ClearQueueOperation
  BY <1>17, ClearQueueOperationDoes
<1>18. CASE UbseRollbackBorrowAddress
  BY <1>18, UbseRollbackBorrowAddressDoes
<1>19. CASE RollbackBorrowAddress
  BY <1>19, RollbackBorrowAddressDoes
<1>20. CASE RollbackProcessTracking
  BY <1>20, RollbackProcessTrackingDoes
<1>21. CASE RollbackProcessMigrate
  BY <1>21, RollbackProcessMigrateDoes
<1>22. CASE Rollback
  BY <1>22, RollbackDoes
<1>23. CASE Crash
  BY <1>23, CrashDoes
<1> QED BY <1>1, <1>2, <1>3, <1>4, <1>5, <1>6, <1>7, <1>8, <1>9, <1>10, <1>11, <1>12, <1>13, <1>14,
           <1>15, <1>16, <1>17, <1>18, <1>19, <1>20, <1>21, <1>22, <1>23
        DEF Next, BorrowStep, WriterStep, ClearStep

\* Every copy of the task names what is borrowed.
LEMMA CoverNext ==
    ASSUME Types, ~DiskFailed', Races \subseteq {"expiry"},
           StoreInv, SingleInv, WriterInv, NamesInv, CoverInv, Next
    PROVE  CoverInv'
<1> USE DEF CoverInv, Covers, Names, Held, Rolling, RollPcs, Early
<1>a. "startup" \notin Races /\ "overlap" \notin Races
  OBVIOUS
<1>b. /\ Request \subseteq HamMigrateVmInfo
      /\ \A t \in HamMigrateVmInfo : /\ Recorded(t).vmOpState = t.vmOpState
                                     /\ Recorded(t).borrowName = t.borrowName
  BY RecordedFacts DEF Request
<1>c. \A t : DOMAIN << t >> = {1} /\ << t >>[1] = t
  BY OneFacts
<1>d. DOMAIN << >> = {} /\ NoTask.vmOpState = "NONE"
  BY DEF NoTask
<1>e. cache # NoTask => cache \in HamMigrateVmInfo
  BY DEF Types, StoreTyped
<1>1. ASSUME NEW r \in todo, Borrow(r) PROVE CoverInv'
  BY <1>1, <1>a, <1>d, BorrowDoes, RecordedNoTask DEF StoreInv, SingleInv, QueueIsFree
<1>2. CASE (\E moved \in BOOLEAN : Clear(moved)) \/ HamMigrateCancel
  BY <1>2, WriterComes
<1>3. CASE DisableProcessMigrate
  BY <1>3, DisableProcessMigrateDoes
<1>4. CASE DoProcessMigrate
  <2>1. Held = {} /\ borrow.pc = "disabled"
    BY <1>4, DoProcessMigrateDoes
  <2> QED BY <1>4, <2>1, <1>b, DoProcessMigrateDoes DEF SingleInv
<1>5. CASE AddProcessTracking
  BY <1>5, AddProcessTrackingDoes
<1>6. CASE DoProcessTracking
  <2>1. Held = {} /\ borrow.pc = "tracked"
    BY <1>6, DoProcessTrackingDoes
  <2> QED BY <1>6, <2>1, <1>b, DoProcessTrackingDoes DEF SingleInv
<1>7. CASE EnterClearQueue
  BY <1>7, <1>c, EnterClearQueueDoes DEF SingleInv
<1>8. CASE BorrowAddressQueued
  BY <1>8, <1>c, BorrowAddressQueuedDoes DEF SingleInv
<1>9. CASE BorrowAddressRecorded
  BY <1>9, <1>b, IdleFacts, BorrowAddressRecordedDoes
<1>10. CASE DoUbseBorrowAddress
  BY <1>10, DoUbseBorrowAddressDoes
<1>11. CASE DoBorrowAddress
  BY <1>11, <1>b, DoBorrowAddressDoes
<1>12. CASE HandleBorrowFailure
  BY <1>12, <1>b, HandleBorrowFailureDoes
<1>13. CASE BorrowFailureQueued
  BY <1>13, <1>c, <1>d, BorrowFailureQueuedDoes DEF SingleInv
<1>14. CASE WriterSets
  BY <1>14, <1>b, <1>e, WriterSetsDoes DEF WriterInv, StoreInv
<1>15. CASE WriterUpdates
  BY <1>15, <1>b, <1>c, <1>d, <1>e, WriterUpdatesDoes DEF WriterInv, StoreInv, SingleInv
<1>16. CASE LoadData
  BY <1>16, <1>c, <1>d, LoadDataDoes DEF SingleInv, StoreInv
<1>17. CASE ClearQueueOperation
  BY <1>17, <1>d, ClearQueueOperationDoes DEF SingleInv
<1>18. CASE UbseRollbackBorrowAddress
  <2>1. Held' \subseteq Held /\ (roll'.pc = "returned" => Held' = {})
    BY <1>18, UbseRollbackBorrowAddressDoes
  <2>2. /\ roll.pc = "return" /\ roll'.task = roll.task
        /\ UNCHANGED << disk, queue, borrow, given >>
        /\ \/ roll'.pc = "untrack" /\ (roll.task.vmOpState = "BORROWED_ADDRESS" => roll'.failed)
           \/ roll'.pc = "returned" /\ roll.task.borrowName \in borrowed
    BY <1>18, UbseRollbackBorrowAddressDoes
  <2>3. /\ Covers(disk)' /\ (\A i \in DOMAIN queue : Covers(queue[i]))'
        /\ borrow'.pc # "idle" => Covers(borrow.task)'
        /\ Covers(roll.task)'
    BY <2>1, <2>2
  <2>4. borrow.pc \in {"record", "create"} =>
          \/ borrow.task.borrowName \in given
          \/ roll'.pc # "returned"
    BY <2>2 DEF NamesInv
  <2> HIDE DEF Held, Covers
  <2> QED BY <2>1, <2>2, <2>3, <2>4
<1>19. CASE RollbackBorrowAddress
  BY <1>19, <1>b, RollbackBorrowAddressDoes
<1>20. CASE RollbackProcessTracking
  <2>1. /\ roll.pc = "untrack" /\ roll'.pc = "enable"
        /\ UNCHANGED << queue, borrow, borrowed, given >>
        /\ \/ UNCHANGED disk /\ roll'.task = roll.task /\ (roll.failed => roll'.failed)
           \/ /\ roll.task.vmOpState = "PROCESS_TRACKING"
              /\ \E task \in HamMigrateVmInfo :
                    /\ task.vmOpState \in {"NOPE", "DISABLE_PROCESS_MIGRATE"}
                    /\ disk' = Recorded(task) /\ roll'.task = task
    BY <1>20, RollbackProcessTrackingDoes
  <2>2. CASE UNCHANGED disk /\ roll'.task = roll.task /\ (roll.failed => roll'.failed)
    BY <2>1, <2>2
  <2>3. CASE /\ roll.task.vmOpState = "PROCESS_TRACKING"
             /\ \E task \in HamMigrateVmInfo :
                    /\ task.vmOpState \in {"NOPE", "DISABLE_PROCESS_MIGRATE"}
                    /\ disk' = Recorded(task) /\ roll'.task = task
    <3>1. /\ roll'.task.vmOpState # "BORROWED_ADDRESS"
          /\ disk'.vmOpState # "BORROWED_ADDRESS"
      BY <2>3, <1>b
    <3>2. Held = {} /\ Held' = {}
      BY <2>1, <2>3
    <3> QED BY <2>1, <2>3, <3>1, <3>2
  <2> QED BY <2>1, <2>2, <2>3
<1>21. CASE RollbackProcessMigrate
  <2>1. /\ roll.pc = "enable" /\ roll'.pc = "finish" /\ roll'.task = roll.task
        /\ UNCHANGED << disk, queue, borrow, borrowed, given >>
        /\ roll.failed => roll'.failed
    BY <1>21, RollbackProcessMigrateDoes
  <2> QED BY <2>1
<1>22. CASE Rollback
  <2>1. /\ roll.pc = "finish" /\ roll'.pc = "wait" /\ UNCHANGED << borrow, borrowed >> /\ queue = << >>
    BY <1>22, RollbackDoes DEF SingleInv
  <2>2. CASE cache' = NoTask
    <3>1. /\ disk' = NoTask /\ queue' = << >> /\ given \subseteq given'
          /\ roll.task.vmOpState # "BORROWED_ADDRESS"
      BY <1>22, <2>1, <2>2, RollbackDoes DEF SingleInv
    <3>2. Held' = {}
      BY <2>1, <3>1
    <3>3. borrow.pc \in {"record", "create"} => borrow.task.borrowName \in given'
      BY <2>1, <3>1
    <3> QED BY <2>1, <3>1, <3>2, <3>3, <1>d
  <2>3. CASE cache' # NoTask
    <3>1. PICK task \in HamMigrateVmInfo :
            /\ disk' = disk /\ queue' = Requeued(task) /\ task.borrowName = roll.task.borrowName
            /\ \/ given' = given /\ task.vmOpState = roll.task.vmOpState
               \/ given' = given \cup {roll.task.borrowName}
      BY <1>22, <2>3, RollbackDoes, IdleFacts
    <3>2. /\ DOMAIN queue' = {1} /\ queue'[1].vmOpState = task.vmOpState
          /\ queue'[1].borrowName = task.borrowName
      BY <2>1, <3>1, RequeuedFacts DEF Types
    <3>3. CASE given' = given /\ task.vmOpState = roll.task.vmOpState
      BY <2>1, <3>1, <3>2, <3>3
    <3>4. CASE given' = given \cup {roll.task.borrowName}
      <4>1. Held' = {}
        BY <2>1, <3>4
      <4>2. borrow.pc \in {"record", "create"} => borrow.task.borrowName \in given'
        BY <2>1, <3>4
      <4> QED BY <2>1, <3>1, <3>2, <4>1, <4>2
    <3> QED BY <3>1, <3>3, <3>4
  <2> QED BY <2>2, <2>3
<1>23. CASE Crash
  BY <1>23, <1>d, CrashDoes
<1> QED BY <1>1, <1>2, <1>3, <1>4, <1>5, <1>6, <1>7, <1>8, <1>9, <1>10, <1>11, <1>12, <1>13, <1>14,
           <1>15, <1>16, <1>17, <1>18, <1>19, <1>20, <1>21, <1>22, <1>23
        DEF Next, BorrowStep, WriterStep, ClearStep

-----------------------------------------------------------------------------
(* What is restored, where nothing races.                                  *)

\* A request is alone until its task is due.
LEMMA AloneNext ==
    ASSUME Types, ~DiskFailed', Races = {}, StoreInv, SingleInv, WriterInv, AloneInv, Next
    PROVE  AloneInv'
<1> USE DEF AloneInv
<1>a. "startup" \notin Races /\ "overlap" \notin Races /\ "expiry" \notin Races
  OBVIOUS
<1>b. \A t \in HamMigrateVmInfo : t # NoTask
  BY TaskFacts
<1>c. \A t : << t >> # << >> /\ << t >>[1] = t
  BY OneFacts
<1>1. ASSUME NEW r \in todo, Borrow(r) PROVE AloneInv'
  BY <1>1, <1>a, BorrowDoes DEF QueueIsFree
<1>2. CASE (\E moved \in BOOLEAN : Clear(moved)) \/ HamMigrateCancel
  BY <1>2, <1>a, WriterComes
<1>3. CASE DisableProcessMigrate
  BY <1>3, DisableProcessMigrateDoes
<1>4. CASE DoProcessMigrate
  BY <1>4, DoProcessMigrateDoes
<1>5. CASE AddProcessTracking
  BY <1>5, AddProcessTrackingDoes
<1>6. CASE DoProcessTracking
  BY <1>6, DoProcessTrackingDoes
<1>7. CASE EnterClearQueue
  BY <1>7, <1>c, EnterClearQueueDoes DEF SingleInv, Early
<1>8. CASE BorrowAddressQueued
  BY <1>8, <1>c, BorrowAddressQueuedDoes DEF SingleInv, Early
<1>9. CASE BorrowAddressRecorded
  BY <1>9, BorrowAddressRecordedDoes
<1>10. CASE DoUbseBorrowAddress
  BY <1>10, DoUbseBorrowAddressDoes
<1>11. CASE DoBorrowAddress
  BY <1>11, DoBorrowAddressDoes
<1>12. CASE HandleBorrowFailure
  BY <1>12, HandleBorrowFailureDoes
<1>13. CASE BorrowFailureQueued
  BY <1>13, <1>c, BorrowFailureQueuedDoes DEF SingleInv
<1>14. CASE WriterSets
  BY <1>14, WriterSetsDoes DEF WriterInv
<1>15. CASE WriterUpdates
  BY <1>15, <1>c, WriterUpdatesDoes DEF WriterInv, SingleInv
<1>16. CASE LoadData
  BY <1>16, <1>c, LoadDataDoes DEF SingleInv, StoreInv
<1>17. CASE ClearQueueOperation
  <2>1. roll.pc = "wait" /\ queue # << >> /\ (queue[1].timeout = "zero" \/ borrow.pc = "idle")
    BY <1>17, <1>a, ClearQueueOperationDoes
  <2>2. borrow.pc = "idle"
    BY <2>1, IdleFacts DEF SingleInv, Early, BorrowPcs
  <2> QED BY <1>17, <2>2, ClearQueueOperationDoes
<1>18. CASE UbseRollbackBorrowAddress
  BY <1>18, UbseRollbackBorrowAddressDoes
<1>19. CASE RollbackBorrowAddress
  BY <1>19, RollbackBorrowAddressDoes
<1>20. CASE RollbackProcessTracking
  BY <1>20, RollbackProcessTrackingDoes
<1>21. CASE RollbackProcessMigrate
  BY <1>21, RollbackProcessMigrateDoes
<1>22. CASE Rollback
  <2>1. /\ roll.pc = "finish" /\ roll'.pc = "wait" /\ UNCHANGED << borrow, writer >>
        /\ cache' = NoTask \/ \E task \in HamMigrateVmInfo : queue' = Requeued(task)
    BY <1>22, RollbackDoes, IdleFacts DEF Rolling, RollPcs
  <2>2. queue = << >>
    BY <2>1 DEF SingleInv, Rolling, RollPcs
  <2>3. \A task \in HamMigrateVmInfo : Requeued(task) # << >>
    BY <2>2, RequeuedFacts DEF Types
  <2> QED BY <2>1, <2>3
<1>23. CASE Crash
  BY <1>23, CrashDoes
<1> QED BY <1>1, <1>2, <1>3, <1>4, <1>5, <1>6, <1>7, <1>8, <1>9, <1>10, <1>11, <1>12, <1>13, <1>14,
           <1>15, <1>16, <1>17, <1>18, <1>19, <1>20, <1>21, <1>22, <1>23
        DEF Next, BorrowStep, WriterStep, ClearStep

\* Every copy of the task says whether the VM used borrowed memory before.
LEMMA FreshNext ==
    ASSUME Types, ~DiskFailed', Races = {}, StoreInv, SingleInv, WriterInv, FreshInv, Next
    PROVE  FreshInv'
<1> USE DEF FreshInv, Fresh, Rolling, RollPcs
<1>a. "startup" \notin Races /\ "overlap" \notin Races
  OBVIOUS
<1>b. /\ Request \subseteq HamMigrateVmInfo
      /\ \A t \in HamMigrateVmInfo : Recorded(t).vmState = t.vmState /\ Recorded(t) # NoTask
  BY RecordedFacts DEF Request
<1>c. \A t : DOMAIN << t >> = {1} /\ << t >>[1] = t
  BY OneFacts
<1>d. DOMAIN << >> = {}
  OBVIOUS
<1>e. cache # NoTask => cache \in HamMigrateVmInfo
  BY DEF Types, StoreTyped
<1>f. ASSUME UNCHANGED remote PROVE NewTask'.vmState = NewTask.vmState
  BY <1>f DEF NewTask
<1>1. ASSUME NEW r \in todo, Borrow(r) PROVE FreshInv'
  BY <1>1, <1>a, <1>b, <1>e, <1>f, BorrowDoes DEF StoreInv
<1>2. CASE (\E moved \in BOOLEAN : Clear(moved)) \/ HamMigrateCancel
  BY <1>2, <1>a, <1>b, <1>e, <1>f, WriterComes DEF StoreInv
<1>3. CASE DisableProcessMigrate
  BY <1>3, <1>f, DisableProcessMigrateDoes
<1>4. CASE DoProcessMigrate
  BY <1>4, <1>b, <1>f, DoProcessMigrateDoes
<1>5. CASE AddProcessTracking
  BY <1>5, <1>f, AddProcessTrackingDoes
<1>6. CASE DoProcessTracking
  BY <1>6, <1>b, <1>f, DoProcessTrackingDoes
<1>7. CASE EnterClearQueue
  BY <1>7, <1>c, <1>f, EnterClearQueueDoes DEF SingleInv, Early
<1>8. CASE BorrowAddressQueued
  BY <1>8, <1>c, <1>f, BorrowAddressQueuedDoes DEF SingleInv, Early
<1>9. CASE BorrowAddressRecorded
  BY <1>9, <1>b, <1>f, IdleFacts, BorrowAddressRecordedDoes
<1>10. CASE DoUbseBorrowAddress
  BY <1>10, <1>f, DoUbseBorrowAddressDoes
<1>11. CASE DoBorrowAddress
  BY <1>11, <1>b, <1>f, DoBorrowAddressDoes
<1>12. CASE HandleBorrowFailure
  BY <1>12, <1>b, <1>f, HandleBorrowFailureDoes
<1>13. CASE BorrowFailureQueued
  BY <1>13, <1>c, <1>d, <1>f, BorrowFailureQueuedDoes DEF SingleInv
<1>14. CASE WriterSets
  BY <1>14, <1>b, <1>f, WriterSetsDoes
<1>15. CASE WriterUpdates
  BY <1>15, <1>c, <1>d, <1>f, WriterUpdatesDoes DEF SingleInv
<1>16. CASE LoadData
  BY <1>16, <1>c, <1>d, <1>f, LoadDataDoes DEF SingleInv
<1>17. CASE ClearQueueOperation
  BY <1>17, <1>d, <1>f, ClearQueueOperationDoes DEF SingleInv
<1>18. CASE UbseRollbackBorrowAddress
  BY <1>18, <1>f, UbseRollbackBorrowAddressDoes
<1>19. CASE RollbackBorrowAddress
  BY <1>19, <1>b, <1>f, RollbackBorrowAddressDoes
<1>20. CASE RollbackProcessTracking
  <2>1. /\ roll.pc = "untrack" /\ roll'.task.vmState = roll.task.vmState
        /\ UNCHANGED << remote, queue, borrow, writer, migrated >>
        /\ disk' = disk \/ disk'.vmState = roll.task.vmState
    BY <1>20, <1>b, RollbackProcessTrackingDoes
  <2> QED BY <2>1, <1>f
<1>21. CASE RollbackProcessMigrate
  BY <1>21, <1>f, RollbackProcessMigrateDoes
<1>22. CASE Rollback
  <2>1. /\ roll.pc = "finish" /\ roll'.pc = "wait"
        /\ UNCHANGED << remote, borrow, writer, migrated >>
        /\ disk' = NoTask \/ disk' = disk
        /\ \/ queue' = queue
           \/ \E task \in HamMigrateVmInfo :
                 task.vmState = roll.task.vmState /\ queue' = Requeued(task)
    BY <1>22, RollbackDoes, IdleFacts
  <2>2. queue = << >>
    BY <2>1 DEF SingleInv
  <2>3. \/ queue' = queue
        \/ DOMAIN queue' = {1} /\ queue'[1].vmState = roll.task.vmState
    BY <2>1, <2>2, RequeuedFacts DEF Types
  <2> QED BY <2>1, <2>3, <1>f
<1>23. CASE Crash
  BY <1>23, <1>d, <1>f, CrashDoes
<1> QED BY <1>1, <1>2, <1>3, <1>4, <1>5, <1>6, <1>7, <1>8, <1>9, <1>10, <1>11, <1>12, <1>13, <1>14,
           <1>15, <1>16, <1>17, <1>18, <1>19, <1>20, <1>21, <1>22, <1>23
        DEF Next, BorrowStep, WriterStep, ClearStep

\* Every copy of the task undoes what was done to the process of the VM.
LEMMA UndoNext ==
    ASSUME Types, ~DiskFailed', Races = {}, StoreInv, SingleInv, WriterInv, CoverInv,
           AloneInv, FreshInv, UndoInv, Next
    PROVE  UndoInv'
<1> USE DEF UndoInv, Undoes, Migrating, Rolling, RollPcs
<1>a. /\ Request \subseteq HamMigrateVmInfo
      /\ \A t \in HamMigrateVmInfo : Recorded(t).vmOpState = t.vmOpState
  BY RecordedFacts DEF Request
<1>b. \A t : DOMAIN << t >> = {1} /\ << t >>[1] = t
  BY OneFacts
<1>c. DOMAIN << >> = {} /\ NoTask.vmOpState = "NONE"
  BY DEF NoTask
<1>d. cache # NoTask => cache \in HamMigrateVmInfo
  BY DEF Types, StoreTyped
<1>e. ASSUME UNCHANGED remote PROVE Untouched'.tracking = Untouched.tracking
  BY <1>e DEF Untouched
<1>1. ASSUME NEW r \in todo, Borrow(r) PROVE UndoInv'
  BY <1>1, <1>e, BorrowDoes
<1>2. CASE (\E moved \in BOOLEAN : Clear(moved)) \/ HamMigrateCancel
  BY <1>2, <1>e, WriterComes
<1>3. CASE DisableProcessMigrate
  <2>1. disk.vmOpState = "NONE" /\ queue = << >> /\ ~Rolling /\ borrow.pc = "disable"
    BY <1>3, <1>c, RecordedNoTask, DisableProcessMigrateDoes DEF AloneInv, StoreInv, SingleInv, Early
  <2> QED BY <1>3, <2>1, <1>c, <1>e, DisableProcessMigrateDoes
<1>4. CASE DoProcessMigrate
  <2>1. queue = << >> /\ ~Rolling
    BY <1>4, DoProcessMigrateDoes DEF SingleInv, Early
  <2>3. disk'.vmOpState = "DISABLE_PROCESS_MIGRATE" /\ borrow'.pc = "track"
    BY <1>4, <1>a, DoProcessMigrateDoes DEF AloneInv
  <2> QED BY <1>4, <2>1, <2>3, <1>c, <1>e, DoProcessMigrateDoes
<1>5. CASE AddProcessTracking
  <2>1. /\ queue = << >> /\ ~Rolling /\ borrow.task.vmOpState = "DISABLE_PROCESS_MIGRATE"
        /\ disk.vmOpState = "DISABLE_PROCESS_MIGRATE"
    BY <1>5, <1>a, <1>d, AddProcessTrackingDoes DEF SingleInv, StoreInv, AloneInv, Early
  <2> QED BY <1>5, <2>1, <1>c, <1>e, AddProcessTrackingDoes
<1>6. CASE DoProcessTracking
  <2>1. queue = << >> /\ ~Rolling /\ cache # NoTask
    BY <1>6, DoProcessTrackingDoes DEF SingleInv, Early
  <2>2. disk'.vmOpState = "PROCESS_TRACKING" /\ borrow'.pc \in {"idle", "push"}
    BY <1>6, <2>1, <1>a, DoProcessTrackingDoes DEF AloneInv
  <2> QED BY <1>6, <2>1, <2>2, <1>c, <1>e, DoProcessTrackingDoes
<1>7. CASE EnterClearQueue
  BY <1>7, <1>b, <1>e, EnterClearQueueDoes DEF SingleInv, Early
<1>8. CASE BorrowAddressQueued
  BY <1>8, <1>b, <1>e, BorrowAddressQueuedDoes DEF SingleInv, Early
<1>9. CASE BorrowAddressRecorded
  BY <1>9, <1>a, <1>e, IdleFacts, BorrowAddressRecordedDoes DEF CoverInv
<1>10. CASE DoUbseBorrowAddress
  BY <1>10, <1>e, DoUbseBorrowAddressDoes
<1>11. CASE DoBorrowAddress
  BY <1>11, <1>a, <1>e, DoBorrowAddressDoes DEF CoverInv
<1>12. CASE HandleBorrowFailure
  BY <1>12, <1>a, <1>e, HandleBorrowFailureDoes DEF CoverInv
<1>13. CASE BorrowFailureQueued
  BY <1>13, <1>b, <1>c, <1>e, BorrowFailureQueuedDoes DEF SingleInv, CoverInv
<1>14. CASE WriterSets
  BY <1>14, <1>a, <1>d, <1>e, WriterSetsDoes DEF WriterInv, StoreInv
<1>15. CASE WriterUpdates
  BY <1>15, <1>a, <1>b, <1>c, <1>d, <1>e, WriterUpdatesDoes DEF WriterInv, StoreInv, SingleInv
<1>16. CASE LoadData
  BY <1>16, <1>b, <1>c, <1>e, LoadDataDoes DEF SingleInv, StoreInv
<1>17. CASE ClearQueueOperation
  BY <1>17, <1>c, <1>e, ClearQueueOperationDoes DEF SingleInv
<1>18. CASE UbseRollbackBorrowAddress
  BY <1>18, <1>e, UbseRollbackBorrowAddressDoes
<1>19. CASE RollbackBorrowAddress
  BY <1>19, <1>a, <1>e, RollbackBorrowAddressDoes
<1>20. CASE RollbackProcessTracking
  <2>1. /\ roll.pc = "untrack" /\ roll'.pc = "enable"
        /\ UNCHANGED << remote, queue, borrow, migrated, given >>
    BY <1>20, RollbackProcessTrackingDoes
  <2>2. CASE roll'.task = roll.task /\ UNCHANGED << disk, smap >>
             /\ (roll.failed => roll'.failed)
             /\ (roll.task.vmOpState = "PROCESS_TRACKING" => roll'.failed)
    BY <2>1, <2>2, <1>e
  <2>3. CASE \E task \in HamMigrateVmInfo :
               /\ disk' = Recorded(task) /\ roll'.task = task
               /\ roll.task.vmState = "BORROWED_NOMIGRATE" =>
                     /\ task.vmOpState = "DISABLE_PROCESS_MIGRATE" /\ smap'.tracking = "water"
               /\ roll.task.vmState # "BORROWED_NOMIGRATE" => task.vmOpState = "NOPE"
               /\ roll.task.vmState = "NOBORROW_NOMIGRATE" =>
                     smap'.tracking = "none"
    <3>1. SUFFICES ASSUME ~migrated, None \notin given
                   PROVE  UndoInv'
      BY <2>1
    <3>2. roll.task.vmState = NewTask.vmState
      BY <2>1, <3>1 DEF FreshInv, Fresh
    <3>3. \/ roll.task.vmState = "BORROWED_NOMIGRATE" /\ Untouched.tracking = "water"
          \/ roll.task.vmState = "NOBORROW_NOMIGRATE" /\ Untouched.tracking = "none" /\ ~remote
      BY <3>2 DEF NewTask, Untouched
    <3>4. PICK task \in HamMigrateVmInfo :
               /\ disk' = Recorded(task) /\ roll'.task = task
               /\ \/ task.vmOpState = "DISABLE_PROCESS_MIGRATE"
                  \/ task.vmOpState = "NOPE" /\ ~remote
               /\ smap'.tracking = Untouched.tracking
      BY <2>3, <3>3
    <3>5. /\ Undoes(disk)' /\ Undoes(roll.task)'
          /\ roll'.task.vmOpState \notin {"BORROWED_ADDRESS", "PROCESS_TRACKING"}
      BY <2>1, <3>4, <1>a, <1>e
    <3>6. queue' = << >> /\ borrow'.pc = "idle"
      BY <2>1 DEF SingleInv, AloneInv
    <3> QED BY <2>1, <3>5, <3>6, <1>c
  <2> QED BY <1>20, <2>2, <2>3, RollbackProcessTrackingDoes
<1>21. CASE RollbackProcessMigrate
  <2>1. /\ roll.pc = "enable" /\ roll'.pc = "finish" /\ roll'.task = roll.task
        /\ UNCHANGED << remote, disk, queue, borrow, migrated, given >>
        /\ smap'.tracking = smap.tracking /\ (roll.failed => roll'.failed)
        /\ smap.migrate => smap'.migrate
        /\ roll.task.vmOpState = "DISABLE_PROCESS_MIGRATE" => roll'.failed \/ smap'.migrate
    BY <1>21, RollbackProcessMigrateDoes
  <2>2. roll.task.vmOpState \in VmOpStates
    BY <2>1, IdleFacts, TaskFacts
  <2> QED BY <2>1, <2>2, <1>e DEF VmOpStates
<1>22. CASE Rollback
  <2>1. /\ roll.pc = "finish" /\ roll'.pc = "wait"
        /\ UNCHANGED << remote, borrow, smap, migrated >> /\ given \subseteq given'
    BY <1>22, RollbackDoes
  <2>2. queue = << >> /\ borrow.pc = "idle"
    BY <2>1 DEF SingleInv, AloneInv
  <2>3. CASE disk' = NoTask /\ UNCHANGED queue
    <3>1. ~roll.failed \/ None \in given'
      BY <1>22, <2>3, <2>2, RollbackDoes, IdleFacts, RequeuedFacts DEF Types
    <3> QED BY <2>1, <2>2, <2>3, <3>1, <1>c, <1>e
  <2>4. CASE /\ UNCHANGED disk
             /\ \E task \in HamMigrateVmInfo :
                   /\ task.vmOpState \in {roll.task.vmOpState, "PROCESS_TRACKING"}
                   /\ queue' = Requeued(task)
    <3>1. DOMAIN queue' = {1} /\ queue'[1].vmOpState \in {roll.task.vmOpState, "PROCESS_TRACKING"}
      BY <2>2, <2>4, RequeuedFacts DEF Types
    <3> QED BY <2>1, <2>2, <2>4, <3>1, <1>e
  <2> QED BY <1>22, <2>3, <2>4, RollbackDoes, IdleFacts, <2>1
<1>23. CASE Crash
  BY <1>23, <1>c, <1>e, CrashDoes
<1> QED BY <1>1, <1>2, <1>3, <1>4, <1>5, <1>6, <1>7, <1>8, <1>9, <1>10, <1>11, <1>12, <1>13, <1>14,
           <1>15, <1>16, <1>17, <1>18, <1>19, <1>20, <1>21, <1>22, <1>23
        DEF Next, BorrowStep, WriterStep, ClearStep

-----------------------------------------------------------------------------
(* The theorems.                                                           *)

\* The invariant holds at the start.
LEMMA InitInv ==
    ASSUME Init
    PROVE  IInv
<1>1. Types
  BY InitTypes
<1>2. /\ cache = NoTask /\ disk = NoTask /\ queue = << >> /\ borrow.pc = "idle"
      /\ writer = NoWriter /\ roll.pc = "load" /\ borrowed = {}
      /\ smap.tracking = Untouched.tracking /\ smap.migrate = TRUE
  BY DEF Init, Idle, Untouched
<1>3. Len(<< >>) = 0 /\ DOMAIN << >> = {}
  OBVIOUS
<1>4. StoreInv /\ SingleInv
  BY <1>2, <1>3 DEF StoreInv, SingleInv, Rolling, RollPcs, Early
<1>5. WriterInv /\ NamesInv /\ CoverInv
  BY <1>2, <1>3 DEF WriterInv, NamesInv, CoverInv, Covers, Held, Rolling, RollPcs, Early
<1>6. AloneInv /\ FreshInv /\ UndoInv
  BY <1>2, <1>3 DEF AloneInv, FreshInv, UndoInv, Undoes, Migrating, Rolling, RollPcs
<1> QED BY <1>1, <1>4, <1>5, <1>6 DEF IInv

\* The invariant holds after every step.
LEMMA NextInv ==
    ASSUME IInv, [Next]_vars
    PROVE  IInv'
<1>1. Types /\ Types'
  BY NextTypes DEF IInv
<1>2. CASE Next
  <2>1. ~DiskFailed' => ~DiskFailed
    BY <1>1, <1>2, BorrowDoes, DisableProcessMigrateDoes, DoProcessMigrateDoes, AddProcessTrackingDoes,
       DoProcessTrackingDoes, EnterClearQueueDoes, BorrowAddressQueuedDoes, BorrowAddressRecordedDoes,
       DoUbseBorrowAddressDoes, DoBorrowAddressDoes, HandleBorrowFailureDoes, BorrowFailureQueuedDoes,
       WriterComes, WriterSetsDoes, WriterUpdatesDoes, LoadDataDoes, ClearQueueOperationDoes,
       UbseRollbackBorrowAddressDoes, RollbackBorrowAddressDoes, RollbackProcessTrackingDoes,
       RollbackProcessMigrateDoes, RollbackDoes, CrashDoes
       DEF Next, BorrowStep, WriterStep, ClearStep
  <2>2. ASSUME ~DiskFailed', "startup" \notin Races PROVE StoreInv' /\ SingleInv'
    BY <1>1, <1>2, <2>1, <2>2, StoreNext DEF IInv
  <2>3. ASSUME ~DiskFailed', Races \subseteq {"expiry"} PROVE WriterInv' /\ NamesInv' /\ CoverInv'
    <3>1. "startup" \notin Races /\ StoreInv /\ SingleInv /\ WriterInv /\ NamesInv /\ CoverInv
      BY <2>1, <2>3 DEF IInv
    <3> QED BY <1>1, <1>2, <2>3, <3>1, WriterNext, NamesNext, CoverNext
  <2>4. ASSUME ~DiskFailed', Races = {} PROVE AloneInv' /\ FreshInv' /\ UndoInv'
    <3>1. /\ StoreInv /\ SingleInv /\ WriterInv /\ NamesInv /\ CoverInv
          /\ AloneInv /\ FreshInv /\ UndoInv
      BY <2>1, <2>4 DEF IInv
    <3> QED BY <1>1, <1>2, <2>4, <3>1, AloneNext, FreshNext, UndoNext
  <2> QED BY <1>1, <2>2, <2>3, <2>4 DEF IInv
<1>3. CASE UNCHANGED vars
  <2>1. UNCHANGED << remote, cache, disk, queue, borrow, writer, roll, smap, borrowed, migrated,
                     todo, given, faults >>
    BY <1>3 DEF vars, store, client
  <2>2. UNCHANGED DiskFailed
    BY <2>1 DEF DiskFailed
  <2>3. (StoreInv => StoreInv') /\ (SingleInv => SingleInv')
    BY <2>1 DEF StoreInv, SingleInv, Rolling
  <2>4. (WriterInv => WriterInv') /\ (NamesInv => NamesInv') /\ (CoverInv => CoverInv')
    BY <2>1 DEF WriterInv, NamesInv, CoverInv, Covers, Names, Held, Rolling
  <2>5. (AloneInv => AloneInv') /\ (FreshInv => FreshInv') /\ (UndoInv => UndoInv')
    BY <2>1 DEF AloneInv, FreshInv, UndoInv, Undoes, Migrating, Fresh, NewTask, Untouched, Rolling
  <2> QED BY <1>1, <2>2, <2>3, <2>4, <2>5 DEF IInv
<1> QED BY <1>2, <1>3

\* The invariant holds in every behaviour, whatever races.
THEOREM HamInvariant == Spec => []IInv
<1>1. Init => IInv
  BY InitInv
<1>2. IInv /\ [Next]_vars => IInv'
  BY NextInv
<1> QED BY <1>1, <1>2, PTL DEF Spec

\* The state has its types, and the VM is queued at most once as long as the
\* disk works (Push of clearQueue, HasTask, LoadData), whatever overlaps and
\* whenever the task times out, if no request comes before the load.
THEOREM HamTypeCorrect ==
    ASSUME "startup" \notin Races
    PROVE  Spec => []TypeOK
<1>1. ASSUME IInv PROVE TypeOK
  <2>1. Types /\ (~DiskFailed => Len(queue) <= 1)
    BY <1>1 DEF IInv, SingleInv
  <2>2. /\ borrow = Idle \/ borrow.task \in HamMigrateVmInfo
        /\ writer = NoWriter \/ writer.task \in HamMigrateVmInfo
        /\ roll.pc \in {"load", "wait"} \/ roll.task \in HamMigrateVmInfo
    BY <2>1, IdleFacts DEF Rolling
  <2>3. {cache, disk} \subseteq HamMigrateVmInfo \cup {NoTask}
    BY <2>1 DEF Types, StoreTyped
  <2> QED BY <2>1, <2>2, <2>3 DEF TypeOK, Types, ClientTyped, SmapTyped, FaultsTyped
<1> QED BY <1>1, HamInvariant, PTL

\* Memory that is borrowed and not given up is on disk under its name, at every
\* step of the borrow, of the rollback and of a restart, also where the task
\* times out during the borrow, if requests do not overlap a rollback and none
\* comes before the load.
THEOREM HamBorrowedIsRecorded ==
    ASSUME Races \subseteq {"expiry"}
    PROVE  Spec => []BorrowedIsRecorded
<1>1. IInv => BorrowedIsRecorded
  BY DEF IInv, BorrowedIsRecorded, CoverInv, Covers, Held
<1> QED BY <1>1, HamInvariant, PTL

\* Where nothing races, a VM for which nothing is left to do has no task, no
\* memory that was not given up, its scan as before and, if it uses other
\* borrowed memory, its page migration too: every failure, early return and
\* restart is undone by the rollback.
THEOREM HamRestIsRestored ==
    ASSUME Races = {}
    PROVE  Spec => []RestIsRestored
<1>1. ASSUME IInv PROVE RestIsRestored
  <2>1. SUFFICES ASSUME AtRest, ~DiskFailed, "nonuma" \notin faults
                 PROVE  /\ cache = NoTask /\ disk = NoTask
                        /\ borrowed \subseteq given
                        /\ \/ migrated \/ None \in given
                           \/ smap.tracking = Untouched.tracking /\ (remote => smap.migrate)
    BY DEF RestIsRestored
  <2>2. Types /\ StoreInv /\ CoverInv /\ AloneInv /\ UndoInv
    BY <1>1, <2>1 DEF IInv
  <2>3. borrow.pc = "idle" /\ roll.pc = "wait" /\ queue = << >>
    BY <2>1 DEF AtRest, Idle
  <2>4. cache = NoTask /\ disk = NoTask
    BY <2>1, <2>2, <2>3, RecordedNoTask DEF AloneInv, StoreInv
  <2>5. borrowed \subseteq given
    BY <2>2, <2>4 DEF CoverInv, Covers, Held, NoTask
  <2>6. ASSUME ~migrated, None \notin given
        PROVE  smap.tracking = Untouched.tracking /\ (remote => smap.migrate)
    <3>1. Undoes(NoTask)
      BY <2>2, <2>3, <2>4, <2>6 DEF UndoInv
    <3> QED BY <3>1 DEF Undoes, Migrating, NoTask
  <2> QED BY <2>4, <2>5, <2>6
<1> QED BY <1>1, HamInvariant, PTL
=============================================================================
