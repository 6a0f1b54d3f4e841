------------------------------- MODULE Event -------------------------------
(***************************************************************************)
(* The event framework of a process (src/src/framework/event): modules     *)
(* subscribe to event ids and publish events; one distributor thread moves *)
(* every event to the bounded queues of its subscribers' priorities, and   *)
(* each queue has worker threads that call the handlers.                   *)
(*                                                                         *)
(* A step is one critical section of eventPubMutex_, eventSubMutex_ or of  *)
(* a queue's mutex, but a worker's wait for a task is two: it tests the    *)
(* queue, and keeps the mutex until it sleeps.  StopQueue does not take    *)
(* the mutex and may come between them.                                    *)
(***************************************************************************)
EXTENDS Integers, Sequences, FiniteSets, Functions, Subsequences

CONSTANTS
    Handlers,    \* the handlers the modules subscribe
    Id,          \* Id[h]: the event id h subscribes to
    Priority,    \* Priority[h]: its priority
    Lambdas,     \* the handlers that are no plain functions
    Hanging,     \* the handlers a call of which may never return
    Threads,     \* Threads[p]: the workers of the queue of priority p
    Capacity,    \* of each queue
    MaxEvents    \* bound on the number of events

Priorities == {"HIGH", "MEDIUM", "LOW"}

ASSUME HandlersAssumption ==
    /\ DOMAIN Id = Handlers
    /\ Priority \in [Handlers -> Priorities]
    /\ Lambdas \subseteq Handlers /\ Hanging \subseteq Handlers
ASSUME SizesAssumption ==
    /\ Threads \in [Range(Priority) -> Nat \ {0}] /\ Capacity \in Nat \ {0}
    /\ MaxEvents \in Nat

VARIABLES
    subscribes,   \* subscribes_: the subscriptions in their order, each with
                  \* the number of events published before it
    known,        \* the handlers subscribed so far
    published,    \* the ids of the events published so far
    events,       \* events_: numbers of the events to distribute
    distributor,  \* the state of the distributor's thread
    eventVec,     \* the tasks of an event it has still to queue
    queue,        \* queue[p]: the queue of priority p
    workers,      \* workers[p]: how many are in which state; the others ended
    got,          \* got[p]: the tasks that workers have taken from the queue
    running,      \* running[p]: the tasks whose handlers are being called
    taken,        \* history: taken[h], the events whose tasks for h were taken
    stop          \* how far Stop has come

pubs == <<published, events>>
subs == <<subscribes, known>>
pool == <<queue, workers, got, running, taken>>
vars == <<subs, pubs, distributor, eventVec, pool, stop>>

Ids == Range(Id)

\* The priorities with subscribers; the workers of the others only sleep.
Pools == Range(Priority)
Task == [handler : Handlers, event : 1 .. MaxEvents]

\* Init and Start of the event module.
Init ==
    /\ subscribes = <<>>
    /\ known = {}
    /\ published = <<>>
    /\ events = <<>>
    /\ distributor = "running"
    /\ eventVec = <<>>
    /\ queue = [p \in Pools |-> <<>>]
    /\ workers = [p \in Pools |-> [free |-> Threads[p], tested |-> 0, asleep |-> 0]]
    /\ got = [p \in Pools |-> {}]
    /\ running = [p \in Pools |-> {}]
    /\ taken = [h \in Handlers |-> <<>>]
    /\ stop = "no"

-----------------------------------------------------------------------------
(* Subscribers and publishers.  Once Stop has begun nothing looks at       *)
(* subscribes_ and events_ any more, and their steps are left out.         *)

\* A module subscribes once, when it starts.
RegisterSubscribe(h) ==
    /\ stop = "no" /\ h \notin known
    /\ subscribes' = Append(subscribes, [handler |-> h, since |-> Len(published)])
    /\ known' = known \cup {h}
    /\ UNCHANGED <<pubs, distributor, eventVec, pool, stop>>

\* Erasing a function erases the lambdas of its event id as well.
Erased(h) == {h} \cup {g \in Lambdas : Id[g] = Id[h]}

\* For a lambda nothing is done; a function need not be subscribed.
UnRegisterSubscribe(h) ==
    /\ stop = "no" /\ h \notin Lambdas
    /\ subscribes' = Subsequence(subscribes,
                       {i \in DOMAIN subscribes : subscribes[i].handler \notin Erased(h)})
    /\ UNCHANGED <<known, pubs, distributor, eventVec, pool, stop>>

\* Wakes the distributor if it waits.
Notified == IF distributor = "waiting" THEN "running" ELSE distributor

\* An event nobody has subscribed to so far is dropped; events_ has no bound.
PubEvent(id) ==
    /\ stop = "no" /\ Len(published) < MaxEvents
    /\ published' = Append(published, id)
    /\ IF \E h \in known : Id[h] = id
       THEN /\ events' = Append(events, Len(published'))
            /\ distributor' = Notified
       ELSE UNCHANGED <<events, distributor>>
    /\ UNCHANGED <<subs, eventVec, pool, stop>>

-----------------------------------------------------------------------------
(* The distributor's thread: RunDistribute and EventDistribute.            *)

\* The places of the subscribers of an id.
Interested(id) == {i \in DOMAIN subscribes : Id[subscribes[i].handler] = id}

\* Mutant of TakeEvent: the event is not popped.
TakeEventKeeps ==
    /\ distributor = "running" /\ eventVec = <<>>
    /\ IF stop # "no" THEN distributor' = "ended" /\ UNCHANGED <<events, eventVec>>
       ELSE IF events = <<>> THEN distributor' = "waiting" /\ UNCHANGED <<events, eventVec>>
       ELSE LET n == Head(events)
                subscribers == Subsequence(subscribes, Interested(published[n]))
            IN /\ events' = events
               /\ eventVec' = [i \in DOMAIN subscribers |->
                                  [handler |-> subscribers[i].handler, event |-> n]]
               /\ UNCHANGED distributor
    /\ UNCHANGED <<subs, published, pool, stop>>

\* Takes the front event and copies its subscribers.
TakeEvent ==
    /\ distributor = "running" /\ eventVec = <<>>
    /\ IF stop # "no" THEN distributor' = "ended" /\ UNCHANGED <<events, eventVec>>
       ELSE IF events = <<>> THEN distributor' = "waiting" /\ UNCHANGED <<events, eventVec>>
       ELSE LET n == Head(events)
                subscribers == Subsequence(subscribes, Interested(published[n]))
            IN /\ events' = Tail(events)
               /\ eventVec' = [i \in DOMAIN subscribers |->
                                  [handler |-> subscribers[i].handler, event |-> n]]
               /\ UNCHANGED distributor
    /\ UNCHANGED <<subs, published, pool, stop>>

\* notify_one and notify_all of notEmpty_.
WakeOne(w) == IF w.asleep = 0 THEN w ELSE [w EXCEPT !.asleep = @ - 1, !.free = @ + 1]
WakeAll(w) == [w EXCEPT !.asleep = 0, !.free = @ + w.asleep]

\* The mutex of a queue can be taken: no worker is about to sleep.
Unlocked(p) == workers[p].tested = 0

\* Mutant of AddEventTask: the room is not looked at.
AddEventTaskUnbounded(p, task) ==
    /\ Unlocked(p)
    /\ queue' = [queue EXCEPT ![p] = Append(@, task)]
    /\ workers' = [workers EXCEPT ![p] = WakeOne(@)]

\* Mutant of AddEventTask: nobody is notified.
AddEventTaskSilent(p, task) ==
    /\ Unlocked(p) /\ Len(queue[p]) < Capacity
    /\ queue' = [queue EXCEPT ![p] = Append(@, task)]
    /\ UNCHANGED workers

\* Waits for room.  The distributor is the only thread that adds, and the
\* queues stop after it has ended.
AddEventTask(p, task) ==
    /\ Unlocked(p) /\ Len(queue[p]) < Capacity
    /\ queue' = [queue EXCEPT ![p] = Append(@, task)]
    /\ workers' = [workers EXCEPT ![p] = WakeOne(@)]

Distribute ==
    /\ eventVec # <<>>
    /\ LET task == Head(eventVec) IN AddEventTask(Priority[task.handler], task)
    /\ eventVec' = Tail(eventVec)
    /\ UNCHANGED <<subs, pubs, distributor, got, running, taken, stop>>

-----------------------------------------------------------------------------
(* The workers of a queue: WorkerLoop.                                     *)

IsRunning == stop \in {"no", "told"}

\* GetTask, when nobody waits for the mutex: the queue is stopped, or is empty
\* and the worker is going to sleep, or its front is taken.
GetTask(p) ==
    /\ workers[p].free > 0 /\ Unlocked(p)
    /\ \/ /\ stop = "closed"
          /\ workers' = [workers EXCEPT ![p].free = @ - 1]
          /\ UNCHANGED <<queue, got, taken>>
       \/ /\ stop # "closed" /\ queue[p] = <<>>
          /\ workers' = [workers EXCEPT ![p].free = @ - 1, ![p].tested = @ + 1]
          /\ UNCHANGED <<queue, got, taken>>
       \/ /\ stop # "closed" /\ queue[p] # <<>>
          /\ LET task == Head(queue[p]) IN
             /\ got' = [got EXCEPT ![p] = @ \cup {task}]
             /\ taken' = [taken EXCEPT ![task.handler] = Append(@, task.event)]
          /\ queue' = [queue EXCEPT ![p] = Tail(@)]
          /\ workers' = [workers EXCEPT ![p].free = @ - 1]
    /\ UNCHANGED <<subs, pubs, distributor, eventVec, running, stop>>

\* The wait of GetTask releases the mutex and sleeps.
Sleep(p) ==
    /\ workers[p].tested > 0
    /\ workers' = [workers EXCEPT ![p].tested = @ - 1, ![p].asleep = @ + 1]
    /\ UNCHANGED <<subs, pubs, distributor, eventVec, queue, got, running, taken, stop>>

\* The test of isRunning_ after GetTask: the handler is called, or the loop ends.
CallHandler(p) ==
    \E task \in got[p] :
        /\ got' = [got EXCEPT ![p] = @ \ {task}]
        /\ running' = IF IsRunning THEN [running EXCEPT ![p] = @ \cup {task}] ELSE running
        /\ UNCHANGED <<subs, pubs, distributor, eventVec, queue, workers, taken, stop>>

LoopEnds(p) ==
    /\ workers[p].free > 0 /\ ~IsRunning
    /\ workers' = [workers EXCEPT ![p].free = @ - 1]
    /\ UNCHANGED <<subs, pubs, distributor, eventVec, queue, got, running, taken, stop>>

HandlerReturns(p, h) ==
    \E task \in running[p] :
        /\ task.handler = h
        /\ running' = [running EXCEPT ![p] = @ \ {task}]
        /\ workers' = [workers EXCEPT ![p].free = @ + 1]
        /\ UNCHANGED <<subs, pubs, distributor, eventVec, queue, got, taken, stop>>

-----------------------------------------------------------------------------
(* UbseEventDistribute::Stop and UbseEventThreadPool::Stop.                *)

StopDistributor ==
    /\ stop = "no"
    /\ stop' = "told"
    /\ distributor' = Notified
    /\ UNCHANGED <<subs, pubs, eventVec, pool>>

JoinDistributor ==
    /\ stop = "told" /\ distributor = "ended"
    /\ stop' = "joined"
    /\ UNCHANGED <<subs, pubs, distributor, eventVec, pool>>

\* StopQueue of every queue, which stores and notifies without the mutex: a
\* worker that is about to sleep is not woken.  The workers of one queue do not
\* look at another.
StopQueue ==
    /\ stop = "joined"
    /\ stop' = "closed"
    /\ workers' = [p \in Pools |-> WakeAll(workers[p])]
    /\ UNCHANGED <<subs, pubs, distributor, eventVec, queue, got, running, taken>>

\* The executors' Stop joins the workers.
JoinWorkers ==
    /\ stop = "closed"
    /\ \A p \in Pools :
        /\ got[p] = {} /\ running[p] = {}
        /\ workers[p] = [free |-> 0, tested |-> 0, asleep |-> 0]
    /\ stop' = "done"
    /\ UNCHANGED <<subs, pubs, distributor, eventVec, pool>>

-----------------------------------------------------------------------------
Distributing == TakeEvent \/ Distribute
WorkerStep(p) == GetTask(p) \/ Sleep(p) \/ CallHandler(p) \/ LoopEnds(p)
Stopping == JoinDistributor \/ StopQueue \/ JoinWorkers

Next ==
    \/ \E h \in Handlers : RegisterSubscribe(h) \/ UnRegisterSubscribe(h)
    \/ \E id \in Ids : PubEvent(id)
    \/ Distributing
    \/ \E p \in Pools : WorkerStep(p) \/ \E h \in Handlers : HandlerReturns(p, h)
    \/ StopDistributor
    \/ Stopping

Spec == Init /\ [][Next]_vars

\* Every thread runs, and handlers that do not hang return.
FairSpec ==
    /\ Spec
    /\ WF_vars(Distributing)
    /\ WF_vars(Stopping)
    /\ \A p \in Pools : WF_vars(WorkerStep(p))
    /\ \A h \in Handlers \ Hanging : WF_vars(HandlerReturns(Priority[h], h))

-----------------------------------------------------------------------------
(* Properties.                                                             *)

\* The queues keep to their capacity and there are as many workers as were
\* started.
TypeOK ==
    /\ subscribes \in Seq([handler : Handlers, since : 0 .. MaxEvents])
    /\ known \subseteq Handlers
    /\ published \in Seq(Ids) /\ Len(published) <= MaxEvents
    /\ Range(events) \subseteq DOMAIN published
    /\ distributor \in {"running", "waiting", "ended"}
    /\ Range(eventVec) \subseteq Task
    /\ \A p \in Pools :
        /\ Range(queue[p]) \subseteq Task /\ Len(queue[p]) <= Capacity
        /\ got[p] \cup running[p] \subseteq Task
        /\ workers[p] \in [free : 0 .. Threads[p], tested : {0, 1}, asleep : 0 .. Threads[p]]
        /\ workers[p].free + workers[p].tested + workers[p].asleep
             + Cardinality(got[p]) + Cardinality(running[p]) <= Threads[p]
    /\ stop \in {"no", "told", "joined", "closed", "done"}

\* The tasks of a handler are taken from its queue in the order of publication
\* and never twice for one event (test_ubse_event_queue.cpp, MultipleTasksFIFO),
\* whatever the queues and the subscriptions went through.  The calls are not
\* ordered: a worker calls after it has released the mutex.
TakenInOrder ==
    \A h \in Handlers : \A i, j \in DOMAIN taken[h] :
        i < j => taken[h][i] < taken[h][j]

\* All workers of p are in calls that do not return.
Stuck(p) ==
    /\ Cardinality(running[p]) = Threads[p]
    /\ \A task \in running[p] : task.handler \in Hanging

\* Before the stop, a task that was taken and is not held any more was called.
Called(h, n) ==
    n \in Range(taken[h]) /\ [handler |-> h, event |-> n] \notin got[Priority[h]]

Owed(h, n) ==
    /\ n <= Len(published) /\ published[n] = Id[h]
    /\ \E s \in Range(subscribes) : s.handler = h /\ s.since < n

\* An event reaches every handler subscribed before it (UbseSubEvent), unless
\* the subscription or the framework ends: with bounded publications there is
\* always a later moment when nothing is owed.  Handlers that hang keep the
\* other priorities from their events only when their own queue is full.
Delivered ==
    []<>(\/ stop # "no"
         \/ \E p \in Pools : Stuck(p) /\ Len(queue[p]) = Capacity
         \/ \A h \in Handlers, n \in 1 .. MaxEvents :
               Owed(h, n) => Called(h, n) \/ Stuck(Priority[h]))

\* Stop ends and all threads exit, unless a handler hangs
\* (test_ubse_event_thread_pool.cpp, DestructorCallsStop).  The code does not
\* keep this: StopQueue may be missed by a worker that is about to sleep, and
\* the executor waits for it forever.
StopEnds ==
    stop = "told" ~> \/ stop = "done"
                     \/ \E p \in Pools : \E task \in running[p] : task.handler \in Hanging
=============================================================================
