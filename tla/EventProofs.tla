---------------------------- MODULE EventProofs ----------------------------
(***************************************************************************)
(* Proofs about Event: the bounds of the queues and of the worker pools,   *)
(* and the order in which a handler's tasks are taken, for any number of   *)
(* handlers, events and workers and for queues of any capacity.            *)
(*                                                                         *)
(* An event number goes from events to eventVec, then to a queue and then  *)
(* to taken.  The inductive invariant says that the numbers a handler      *)
(* meets grow from taken back to events, within each of the four places    *)
(* and from one to the next; that eventVec has a handler once, because     *)
(* subscribes has it once; and that all tasks of a handler are in one      *)
(* queue.                                                                  *)
(***************************************************************************)
EXTENDS Event, SubsequenceProofs

Subscription == [handler : Handlers, since : 0 .. MaxEvents]

\* The states of the workers of a pool, and how many have not ended and have no
\* task.
Counts == [free : Nat, tested : {0, 1}, asleep : Nat]
Idle(w) == w.free + w.tested + w.asleep

Types ==
    /\ subscribes \in Seq(Subscription)
    /\ known \subseteq Handlers
    /\ published \in Seq(Ids) /\ Len(published) <= MaxEvents
    /\ events \in Seq(Nat)
    /\ distributor \in {"running", "waiting", "ended"}
    /\ eventVec \in Seq(Task)
    /\ queue \in [Pools -> Seq(Task)]
    /\ got \in [Pools -> SUBSET Task]
    /\ running \in [Pools -> SUBSET Task]
    /\ workers \in [Pools -> Counts]
    /\ taken \in [Handlers -> Seq(Nat)]
    /\ stop \in {"no", "told", "joined", "closed", "done"}

\* The capacity of a queue and the workers of its pool.
PoolAt(p) ==
    /\ Len(queue[p]) <= Capacity
    /\ IsFiniteSet(got[p]) /\ IsFiniteSet(running[p])
    /\ Idle(workers[p]) + Cardinality(got[p]) + Cardinality(running[p]) <= Threads[p]
PoolInv == \A p \in Pools : PoolAt(p)

\* A handler is subscribed at most once.
SubsInv ==
    /\ \A i \in DOMAIN subscribes : subscribes[i].handler \in known
    /\ \A i, j \in DOMAIN subscribes :
          subscribes[i].handler = subscribes[j].handler => i = j

\* The events to distribute are in the order of publication.
EventsInv ==
    /\ \A i \in DOMAIN events : events[i] \in DOMAIN published
    /\ \A i, j \in DOMAIN events : i < j => events[i] < events[j]

\* The event being distributed has a task for a handler at most once, and is
\* before the events to distribute.
VecInv ==
    /\ \A i \in DOMAIN eventVec : eventVec[i].event <= Len(published)
    /\ \A i, j \in DOMAIN eventVec :
          eventVec[i].handler = eventVec[j].handler => i = j
    /\ \A i \in DOMAIN eventVec, j \in DOMAIN events : eventVec[i].event < events[j]

\* The tasks of a handler are in the queue of its priority, in order, and
\* before those that are not queued yet.
QueueAt(p) ==
    LET q == queue[p] IN
    /\ \A i \in DOMAIN q : Priority[q[i].handler] = p /\ q[i].event <= Len(published)
    /\ \A i, j \in DOMAIN q :
          i < j /\ q[i].handler = q[j].handler => q[i].event < q[j].event
    /\ \A i \in DOMAIN q, j \in DOMAIN eventVec :
          q[i].handler = eventVec[j].handler => q[i].event < eventVec[j].event
    /\ \A i \in DOMAIN q, j \in DOMAIN events : q[i].event < events[j]
QueueInv == \A p \in Pools : QueueAt(p)

\* The tasks taken for a handler are in order, and before all that is still to come.
TakenAt(h) ==
    LET t == taken[h] IN
    /\ \A i \in DOMAIN t : t[i] <= Len(published)
    /\ \A i, j \in DOMAIN t : i < j => t[i] < t[j]
    /\ \A p \in Pools : \A i \in DOMAIN t, j \in DOMAIN queue[p] :
          queue[p][j].handler = h => t[i] < queue[p][j].event
    /\ \A i \in DOMAIN t, j \in DOMAIN eventVec :
          eventVec[j].handler = h => t[i] < eventVec[j].event
    /\ \A i \in DOMAIN t, j \in DOMAIN events : t[i] < events[j]
TakenInv == \A h \in Handlers : TakenAt(h)

Order == EventsInv /\ VecInv /\ QueueInv /\ TakenInv

IInv == Types /\ PoolInv /\ SubsInv /\ Order

-----------------------------------------------------------------------------
(* Sequences.                                                              *)

\* What Append does, index by index.
LEMMA AppendFacts ==
    ASSUME NEW S, NEW s \in Seq(S), NEW e \in S
    PROVE  /\ Append(s, e) \in Seq(S)
           /\ Len(Append(s, e)) = Len(s) + 1
           /\ DOMAIN s = 1 .. Len(s) /\ Len(s) \in Nat
           /\ DOMAIN Append(s, e) = 1 .. Len(s) + 1
           /\ \A i \in DOMAIN s : Append(s, e)[i] = s[i]
           /\ Append(s, e)[Len(s) + 1] = e
OBVIOUS

\* An index of Append(s, e) is one of s or the last.
LEMMA AppendIndex ==
    ASSUME NEW S, NEW s \in Seq(S), NEW e \in S, NEW i \in DOMAIN Append(s, e)
    PROVE  \/ i \in DOMAIN s /\ Append(s, e)[i] = s[i] /\ i < Len(s) + 1
           \/ i = Len(s) + 1 /\ Append(s, e)[i] = e /\ \A k \in DOMAIN s : k < i
BY AppendFacts

\* What Head and Tail do, index by index.
LEMMA TailFacts ==
    ASSUME NEW S, NEW s \in Seq(S), s # << >>
    PROVE  /\ Tail(s) \in Seq(S) /\ Len(Tail(s)) = Len(s) - 1 /\ Len(s) \in Nat
           /\ 1 \in DOMAIN s /\ Head(s) = s[1] /\ Head(s) \in S
           /\ \A i \in DOMAIN Tail(s) :
                 /\ i \in Nat /\ 1 < i + 1
                 /\ i + 1 \in DOMAIN s /\ Tail(s)[i] = s[i + 1]
OBVIOUS

\* The numbers of indices.
LEMMA Indices ==
    ASSUME NEW S, NEW s \in Seq(S)
    PROVE  Len(s) \in Nat /\ DOMAIN s = 1 .. Len(s) /\ \A i \in DOMAIN s : i \in Nat /\ s[i] \in S
OBVIOUS

\* The fields of tasks.
LEMMA TaskFacts ==
    ASSUME NEW s \in Seq(Task)
    PROVE  /\ Len(s) \in Nat /\ DOMAIN s = 1 .. Len(s)
           /\ \A i \in DOMAIN s :
                 i \in Nat /\ s[i] \in Task /\ s[i].handler \in Handlers /\ s[i].event \in Nat
<1>1. \A t \in Task : t.handler \in Handlers /\ t.event \in Nat
  BY SizesAssumption DEF Task
<1> QED BY <1>1, Indices

\* The handlers of subscriptions.
LEMMA SubscriptionFacts ==
    ASSUME NEW s \in Seq(Subscription)
    PROVE  /\ Len(s) \in Nat /\ DOMAIN s = 1 .. Len(s)
           /\ \A i \in DOMAIN s : s[i].handler \in Handlers
<1>1. \A t \in Subscription : t.handler \in Handlers
  BY DEF Subscription
<1> QED BY <1>1, Indices

\* A handler's priority has a pool.
LEMMA PoolOf ==
    ASSUME NEW h \in Handlers
    PROVE  Priority[h] \in Pools
BY HandlersAssumption DEF Pools, Range

-----------------------------------------------------------------------------
(* The invariant in the initial states.                                    *)

\* Before the first subscription and the first event nothing is out of order.
LEMMA InitIInv == Init => IInv
<1> SUFFICES ASSUME Init PROVE IInv
  OBVIOUS
<1>1. Types
  BY SizesAssumption DEF Init, Types, Counts, Pools
<1>2. PoolInv
  <2> SUFFICES ASSUME NEW p \in Pools PROVE PoolAt(p)
    BY DEF PoolInv
  <2>1. Threads[p] \in Nat /\ Capacity \in Nat
    BY SizesAssumption DEF Pools
  <2>2. queue[p] = << >> /\ got[p] = {} /\ running[p] = {} /\ Idle(workers[p]) = Threads[p]
    BY <2>1 DEF Init, Idle
  <2> QED BY <2>1, <2>2, FS_EmptySet DEF PoolAt
<1>3. SubsInv
  BY DEF Init, SubsInv
<1>4. EventsInv /\ VecInv
  BY DEF Init, EventsInv, VecInv
<1>5. QueueInv
  BY DEF Init, QueueInv, QueueAt
<1>6. TakenInv
  BY DEF Init, TakenInv, TakenAt
<1> QED BY <1>1, <1>2, <1>3, <1>4, <1>5, <1>6 DEF IInv, Order

\* The order is about these variables only.
LEMMA OrderKept ==
    ASSUME IInv, UNCHANGED <<pubs, eventVec, queue, taken>>
    PROVE  Order'
<1>0. UNCHANGED <<published, events, eventVec, queue, taken>>
  BY DEF pubs
<1>1. EventsInv' /\ VecInv'
  BY <1>0 DEF IInv, Order, EventsInv, VecInv
<1>2. QueueInv'
  BY <1>0 DEF IInv, Order, QueueInv, QueueAt
<1>3. TakenInv'
  BY <1>0 DEF IInv, Order, TakenInv, TakenAt
<1> QED BY <1>1, <1>2, <1>3 DEF Order

-----------------------------------------------------------------------------
(* Subscriptions.                                                          *)

\* A new subscription is of a handler that had none.
LEMMA RegisterInv ==
    ASSUME IInv, NEW h \in Handlers, RegisterSubscribe(h)
    PROVE  (Types /\ PoolInv /\ SubsInv)'
<1> DEFINE e == [handler |-> h, since |-> Len(published)]
<1>0. e \in Subscription /\ e.handler = h
  BY SizesAssumption DEF IInv, Types, Subscription
<1> HIDE DEF e
<1>1. subscribes' = Append(subscribes, e) /\ subscribes \in Seq(Subscription)
  BY DEF RegisterSubscribe, IInv, Types, e
<1>2. Types'
  <2>1. subscribes' \in Seq(Subscription)
    BY <1>0, <1>1, AppendFacts
  <2> QED BY <2>1 DEF RegisterSubscribe, IInv, Types, pubs, pool
<1>3. PoolInv'
  BY DEF RegisterSubscribe, IInv, PoolInv, PoolAt, pool
<1>4. ASSUME NEW i \in DOMAIN subscribes'
      PROVE  \/ i \in DOMAIN subscribes /\ subscribes'[i] = subscribes[i] /\ subscribes'[i].handler \in known
             \/ i = Len(subscribes) + 1 /\ subscribes'[i].handler = h
  BY <1>0, <1>1, AppendIndex DEF IInv, SubsInv
<1>5. h \notin known /\ known' = known \cup {h}
  BY DEF RegisterSubscribe
<1>6. SubsInv'
  <2>1. \A i \in DOMAIN subscribes' : subscribes'[i].handler \in known'
    BY <1>4, <1>5
  <2>2. ASSUME NEW i \in DOMAIN subscribes', NEW j \in DOMAIN subscribes',
               subscribes'[i].handler = subscribes'[j].handler
        PROVE  i = j
    BY <1>4, <1>5, <2>2 DEF IInv, SubsInv
  <2> QED BY <2>1, <2>2 DEF SubsInv
<1> QED BY <1>2, <1>3, <1>6

\* What stays after an erasure was there before, each subscription once.
LEMMA UnRegisterInv ==
    ASSUME IInv, NEW h \in Handlers, UnRegisterSubscribe(h)
    PROVE  (Types /\ PoolInv /\ SubsInv)'
<1> DEFINE K == {i \in DOMAIN subscribes : subscribes[i].handler \notin Erased(h)}
<1>1. /\ subscribes' = Subsequence(subscribes, K) /\ subscribes \in Seq(Subscription)
      /\ K \subseteq DOMAIN subscribes
  BY DEF UnRegisterSubscribe, IInv, Types
<1> HIDE DEF K
<1>2. /\ subscribes' \in Seq(Subscription)
      /\ \A i \in DOMAIN subscribes' :
            Nth(K, i) \in DOMAIN subscribes /\ subscribes'[i] = subscribes[Nth(K, i)]
      /\ \A i, j \in DOMAIN subscribes' : i < j => Nth(K, i) < Nth(K, j)
  BY <1>1, SubsequenceFacts
<1>3. Types'
  BY <1>2 DEF UnRegisterSubscribe, IInv, Types, pubs, pool
<1>4. PoolInv'
  BY DEF UnRegisterSubscribe, IInv, PoolInv, PoolAt, pool
<1>5. SubsInv'
  <2>1. \A i \in DOMAIN subscribes' : subscribes'[i].handler \in known'
    BY <1>2 DEF UnRegisterSubscribe, IInv, SubsInv
  <2>2. ASSUME NEW i \in DOMAIN subscribes', NEW j \in DOMAIN subscribes',
               subscribes'[i].handler = subscribes'[j].handler
        PROVE  i = j
    <3>1. Nth(K, i) = Nth(K, j)
      BY <1>2, <2>2 DEF IInv, SubsInv
    <3>2. i \in Nat /\ j \in Nat /\ Nth(K, i) \in Nat /\ Nth(K, j) \in Nat
      BY <1>1, <1>2, Indices
    <3>3. ~(i < j) /\ ~(j < i)
      BY <1>2, <3>1, <3>2
    <3> QED BY <3>2, <3>3
  <2> QED BY <2>1, <2>2 DEF SubsInv
<1> QED BY <1>3, <1>4, <1>5

-----------------------------------------------------------------------------
(* Publication and distribution.                                           *)

\* A new event is after all the others.
LEMMA PubEventInv ==
    ASSUME IInv, NEW id \in Ids, PubEvent(id)
    PROVE  (Types /\ PoolInv /\ Order)'
<1> DEFINE n == Len(published) + 1
<1>1. /\ published' = Append(published, id) /\ published \in Seq(Ids)
      /\ Len(published) \in Nat /\ n \in Nat /\ n <= MaxEvents
      /\ DOMAIN published = 1 .. Len(published)
  BY SizesAssumption DEF PubEvent, IInv, Types
<1>2. published' \in Seq(Ids) /\ Len(published') = n /\ DOMAIN published' = 1 .. n
  BY <1>1, AppendFacts
<1>3. events \in Seq(Nat) /\ (events' = events \/ events' = Append(events, n))
  BY <1>2 DEF PubEvent, IInv, Types
<1>u. UNCHANGED <<subs, eventVec, pool, stop>>
  BY DEF PubEvent
<1> HIDE DEF n
<1>4. events' \in Seq(Nat)
  <2>1. Append(events, n) \in Seq(Nat)
    BY <1>1, <1>3, AppendFacts
  <2> QED BY <1>3, <2>1
<1>5. Types'
  <2>1. distributor' \in {"running", "waiting", "ended"}
    BY DEF PubEvent, Notified, IInv, Types
  <2> QED BY <1>1, <1>2, <1>4, <1>u, <2>1 DEF IInv, Types, subs, pool
<1>6. PoolInv'
  BY <1>u DEF IInv, PoolInv, PoolAt, pool
<1>7. ASSUME NEW i \in DOMAIN events'
      PROVE  \/ i \in DOMAIN events /\ events'[i] = events[i]
             \/ /\ i = Len(events) + 1 /\ events'[i] = n
                /\ \A k \in DOMAIN events : k < i
  <2>1. CASE events' = events
    BY <2>1
  <2>2. CASE events' = Append(events, n)
    <3>1. i \in DOMAIN Append(events, n)
      BY <2>2
    <3>2. \/ i \in DOMAIN events /\ Append(events, n)[i] = events[i]
          \/ /\ i = Len(events) + 1 /\ Append(events, n)[i] = n
             /\ \A k \in DOMAIN events : k < i
      BY <1>1, <1>3, <3>1, AppendIndex
    <3> QED BY <2>2, <3>2
  <2> QED BY <1>3, <2>1, <2>2
<1>8. \A i \in DOMAIN events : i \in Nat /\ i < Len(events) + 1 /\ Len(events) \in Nat
  BY <1>3, Indices
<1>9. \A i \in DOMAIN events : events[i] \in Nat /\ 1 <= events[i] /\ events[i] < n /\ events[i] <= n
  BY <1>1, <1>3 DEF IInv, Order, EventsInv, n
<1>10. EventsInv'
  <2>1. \A i \in DOMAIN events' : events'[i] \in DOMAIN published'
    BY <1>1, <1>2, <1>7, <1>9 DEF n
  <2>2. ASSUME NEW i \in DOMAIN events', NEW j \in DOMAIN events', i < j
        PROVE  events'[i] < events'[j]
    <3>1. CASE j \in DOMAIN events /\ events'[j] = events[j]
      <4>1. i \in DOMAIN events /\ events'[i] = events[i]
        BY <1>7, <1>8, <2>2, <3>1
      <4> QED BY <2>2, <3>1, <4>1 DEF IInv, Order, EventsInv
    <3>2. CASE j = Len(events) + 1 /\ events'[j] = n
      <4>1. i \in DOMAIN events /\ events'[i] = events[i]
        <5>1. Len(events) \in Nat
          BY <1>3, Indices
        <5> QED BY <1>7, <2>2, <3>2, <5>1
      <4> QED BY <1>9, <3>2, <4>1
    <3> QED BY <1>7, <3>1, <3>2
  <2> QED BY <2>1, <2>2 DEF EventsInv
<1>11. VecInv'
  <2>0. eventVec' = eventVec /\ \A i \in DOMAIN eventVec : eventVec[i].event \in Nat
    BY <1>u, TaskFacts DEF IInv, Types
  <2>1. \A i \in DOMAIN eventVec : eventVec[i].event < n /\ eventVec[i].event <= n
    BY <1>1, <2>0 DEF IInv, Order, VecInv, n
  <2>2. \A i \in DOMAIN eventVec, j \in DOMAIN events' : eventVec[i].event < events'[j]
    BY <1>7, <2>1 DEF IInv, Order, VecInv
  <2> QED BY <1>2, <2>0, <2>1, <2>2 DEF IInv, Order, VecInv
<1>12. QueueInv'
  <2> SUFFICES ASSUME NEW p \in Pools PROVE QueueAt(p)'
    BY DEF QueueInv
  <2>0. /\ queue' = queue /\ eventVec' = eventVec /\ QueueAt(p)
        /\ \A i \in DOMAIN queue[p] : queue[p][i].event \in Nat
    <3>1. queue[p] \in Seq(Task)
      BY DEF IInv, Types
    <3>2. \A i \in DOMAIN queue[p] : queue[p][i].event \in Nat
      BY <3>1, TaskFacts
    <3> QED BY <1>u, <3>2 DEF IInv, pool, Order, QueueInv
  <2>1. \A i \in DOMAIN queue[p] : queue[p][i].event < n /\ queue[p][i].event <= n
    BY <1>1, <2>0 DEF QueueAt, n
  <2>2. \A i \in DOMAIN queue[p], j \in DOMAIN events' : queue[p][i].event < events'[j]
    BY <1>7, <2>0, <2>1 DEF QueueAt
  <2> QED BY <1>2, <2>0, <2>1, <2>2 DEF QueueAt
<1>13. TakenInv'
  <2> SUFFICES ASSUME NEW h \in Handlers PROVE TakenAt(h)'
    BY DEF TakenInv
  <2>0. /\ taken' = taken /\ queue' = queue /\ eventVec' = eventVec /\ TakenAt(h)
        /\ \A i \in DOMAIN taken[h] : taken[h][i] \in Nat
    BY <1>u, Indices DEF IInv, Types, pool, Order, TakenInv
  <2>1. \A i \in DOMAIN taken[h] : taken[h][i] < n /\ taken[h][i] <= n
    BY <1>1, <2>0 DEF TakenAt, n
  <2>2. \A i \in DOMAIN taken[h], j \in DOMAIN events' : taken[h][i] < events'[j]
    BY <1>7, <2>0, <2>1 DEF TakenAt
  <2> QED BY <1>2, <2>0, <2>1, <2>2 DEF TakenAt
<1> QED BY <1>5, <1>6, <1>10, <1>11, <1>12, <1>13 DEF Order

\* The tasks of an event, one for each subscription to its id.
TasksOf(n) ==
    LET subscribers == Subsequence(subscribes, Interested(published[n]))
    IN  [i \in DOMAIN subscribers |-> [handler |-> subscribers[i].handler, event |-> n]]

\* They are of different handlers.
LEMMA TasksFacts ==
    ASSUME Types, SubsInv, NEW n \in 1 .. MaxEvents
    PROVE  /\ TasksOf(n) \in Seq(Task)
           /\ \A i \in DOMAIN TasksOf(n) : TasksOf(n)[i].event = n
           /\ \A i, j \in DOMAIN TasksOf(n) :
                 TasksOf(n)[i].handler = TasksOf(n)[j].handler => i = j
<1> DEFINE K == Interested(published[n])
           s == Subsequence(subscribes, K)
           t == TasksOf(n)
<1>1. subscribes \in Seq(Subscription) /\ K \subseteq DOMAIN subscribes
  BY DEF Types, Interested
<1> HIDE DEF K
<1>2. /\ s \in Seq(Subscription)
      /\ \A i \in DOMAIN s : Nth(K, i) \in DOMAIN subscribes /\ s[i] = subscribes[Nth(K, i)]
      /\ \A i, j \in DOMAIN s : i < j => Nth(K, i) < Nth(K, j)
  BY <1>1, SubsequenceFacts
<1>3. t = [i \in DOMAIN s |-> [handler |-> s[i].handler, event |-> n]]
  BY DEF TasksOf, K
<1> HIDE DEF s
<1>4. Len(s) \in Nat /\ DOMAIN s = 1 .. Len(s) /\ \A i \in DOMAIN s : s[i].handler \in Handlers
  BY <1>2, SubscriptionFacts
<1>5. t \in [1 .. Len(s) -> Task]
  BY <1>3, <1>4 DEF Task
<1>6. t \in Seq(Task) /\ DOMAIN t = DOMAIN s
  BY <1>4, <1>5
<1>7. \A i \in DOMAIN t : t[i].event = n /\ t[i].handler = s[i].handler
  BY <1>3
<1> HIDE DEF t
<1>8. ASSUME NEW i \in DOMAIN t, NEW j \in DOMAIN t, t[i].handler = t[j].handler
      PROVE  i = j
  <2>1. Nth(K, i) = Nth(K, j)
    BY <1>2, <1>6, <1>7, <1>8 DEF SubsInv
  <2>2. i \in Nat /\ j \in Nat /\ Nth(K, i) \in Nat /\ Nth(K, j) \in Nat
    BY <1>1, <1>2, <1>6, <1>8, Indices
  <2>3. ~(i < j) /\ ~(j < i)
    BY <1>2, <1>6, <2>1, <2>2
  <2> QED BY <2>2, <2>3
<1>9. /\ t \in Seq(Task)
      /\ \A i \in DOMAIN t : t[i].event = n
      /\ \A i, j \in DOMAIN t : t[i].handler = t[j].handler => i = j
  BY <1>6, <1>7, <1>8
<1> QED BY <1>9 DEF t

\* The event taken is before those left and after all that are queued or
\* taken.
LEMMA TakeEventInv ==
    ASSUME IInv, TakeEvent
    PROVE  (Types /\ PoolInv /\ Order)'
<1>u. UNCHANGED <<subscribes, known, published, queue, workers, got, running, taken, stop>>
  BY DEF TakeEvent, subs, pool
<1>p. PoolInv'
  BY <1>u DEF IInv, PoolInv, PoolAt
<1>1. CASE events' = events /\ eventVec' = eventVec
  <2>1. distributor' \in {"running", "waiting", "ended"}
    BY DEF TakeEvent, IInv, Types
  <2>2. Types'
    BY <1>1, <1>u, <2>1 DEF IInv, Types
  <2>3. EventsInv' /\ VecInv'
    BY <1>1, <1>u DEF IInv, Order, EventsInv, VecInv
  <2>4. QueueInv'
    BY <1>1, <1>u DEF IInv, Order, QueueInv, QueueAt
  <2>5. TakenInv'
    BY <1>1, <1>u DEF IInv, Order, TakenInv, TakenAt
  <2> QED BY <1>p, <2>2, <2>3, <2>4, <2>5 DEF Order
<1>2. CASE ~(events' = events /\ eventVec' = eventVec)
  <2> DEFINE n == Head(events)
  <2>1. /\ events # << >> /\ eventVec = << >>
        /\ events' = Tail(events) /\ distributor' = distributor
        /\ eventVec' = TasksOf(n)
    BY <1>2 DEF TakeEvent, TasksOf
  <2>2. /\ events \in Seq(Nat) /\ events' \in Seq(Nat)
        /\ 1 \in DOMAIN events /\ n = events[1] /\ n \in Nat
        /\ \A i \in DOMAIN events' :
              1 < i + 1 /\ i \in Nat /\ i + 1 \in DOMAIN events /\ events'[i] = events[i + 1]
    <3>1. events \in Seq(Nat)
      BY DEF IInv, Types
    <3> QED BY <2>1, <3>1, TailFacts
  <2> HIDE DEF n
  <2>3. n \in 1 .. MaxEvents /\ n <= Len(published)
    <3>1. Len(published) \in Nat /\ Len(published) <= MaxEvents /\ DOMAIN published = 1 .. Len(published)
      BY DEF IInv, Types
    <3>2. n \in 1 .. Len(published)
      BY <2>2, <3>1 DEF IInv, Order, EventsInv
    <3> QED BY <3>1, <3>2, SizesAssumption
  <2>4. /\ eventVec' \in Seq(Task)
        /\ \A i \in DOMAIN eventVec' : eventVec'[i].event = n
        /\ \A i, j \in DOMAIN eventVec' : eventVec'[i].handler = eventVec'[j].handler => i = j
    BY <2>1, <2>3, TasksFacts DEF IInv
  <2>5. Types'
    BY <1>u, <2>1, <2>2, <2>4 DEF IInv, Types
  <2>6. \A i \in DOMAIN events' : n < events'[i]
    BY <2>2 DEF IInv, Order, EventsInv
  <2>7. EventsInv'
    <3>1. \A i, j \in DOMAIN events' : i < j => i + 1 < j + 1
      BY <2>2
    <3> QED BY <1>u, <2>2, <3>1 DEF IInv, Order, EventsInv
  <2>8. VecInv'
    BY <1>u, <2>3, <2>4, <2>6 DEF VecInv
  <2>9. QueueInv'
    <3> SUFFICES ASSUME NEW p \in Pools PROVE QueueAt(p)'
      BY DEF QueueInv
    <3>1. QueueAt(p) /\ queue'[p] = queue[p]
      BY <1>u DEF IInv, Order, QueueInv
    <3>2. \A i \in DOMAIN queue[p] : queue[p][i].event < n
      BY <2>2, <3>1 DEF QueueAt
    <3> QED BY <1>u, <2>2, <2>4, <3>1, <3>2 DEF QueueAt
  <2>10. TakenInv'
    <3> SUFFICES ASSUME NEW h \in Handlers PROVE TakenAt(h)'
      BY DEF TakenInv
    <3>1. TakenAt(h) /\ taken'[h] = taken[h]
      BY <1>u DEF IInv, Order, TakenInv
    <3>2. \A i \in DOMAIN taken[h] : taken[h][i] < n
      BY <2>2, <3>1 DEF TakenAt
    <3> QED BY <1>u, <2>2, <2>4, <3>1, <3>2 DEF TakenAt
  <2> QED BY <1>p, <2>5, <2>7, <2>8, <2>9, <2>10 DEF Order
<1> QED BY <1>1, <1>2

\* The fields of the counts.
LEMMA CountsFacts ==
    ASSUME NEW w \in Counts
    PROVE  /\ w.free \in Nat /\ w.tested \in {0, 1} /\ w.tested \in Nat /\ w.asleep \in Nat
           /\ w = [free |-> w.free, tested |-> w.tested, asleep |-> w.asleep]
           /\ Idle(w) \in Nat
BY DEF Counts, Idle

\* The types of the counts after two of them have changed.
LEMMA TwoFields ==
    ASSUME NEW w \in [free : Nat, tested : {0, 1}, asleep : Nat],
           NEW f \in Nat, NEW t \in {0, 1}, NEW a \in Nat
    PROVE  /\ [w EXCEPT !.free = f, !.tested = t] \in [free : Nat, tested : {0, 1}, asleep : Nat]
           /\ [w EXCEPT !.tested = t, !.asleep = a] \in [free : Nat, tested : {0, 1}, asleep : Nat]
           /\ [w EXCEPT !.asleep = a, !.free = f] \in [free : Nat, tested : {0, 1}, asleep : Nat]
OBVIOUS

\* A worker finds nothing to take.
LEMMA Tests ==
    ASSUME NEW w \in Counts, w.free > 0, w.tested = 0
    PROVE  LET v == [w EXCEPT !.free = @ - 1, !.tested = @ + 1]
           IN  v \in Counts /\ Idle(v) = Idle(w)
<1> DEFINE v == [w EXCEPT !.free = @ - 1, !.tested = @ + 1]
<1>1. w.free - 1 \in Nat /\ w.tested + 1 \in {0, 1}
  BY DEF Counts
<1>2. v \in Counts
  BY <1>1 DEF Counts
<1>3. v.free = w.free - 1 /\ v.tested = w.tested + 1 /\ v.asleep = w.asleep
  BY DEF Counts
<1>4. w.free \in Nat /\ w.tested \in Nat /\ w.asleep \in Nat
  BY DEF Counts
<1> HIDE DEF v
<1>5. v \in Counts /\ Idle(v) = Idle(w)
  BY <1>2, <1>3, <1>4 DEF Idle
<1> QED BY <1>5 DEF v

\* It falls asleep.
LEMMA FallsAsleep ==
    ASSUME NEW w \in Counts, w.tested > 0
    PROVE  LET v == [w EXCEPT !.tested = @ - 1, !.asleep = @ + 1]
           IN  v \in Counts /\ Idle(v) = Idle(w)
<1> DEFINE v == [w EXCEPT !.tested = @ - 1, !.asleep = @ + 1]
<1>1. w.tested - 1 \in {0, 1} /\ w.asleep + 1 \in Nat
  BY DEF Counts
<1>2. v \in Counts
  BY <1>1, TwoFields DEF Counts
<1>3. v.free = w.free /\ v.tested = w.tested - 1 /\ v.asleep = w.asleep + 1
  BY DEF Counts
<1>4. w.free \in Nat /\ w.tested \in Nat /\ w.asleep \in Nat
  BY DEF Counts
<1> HIDE DEF v
<1>5. v \in Counts /\ Idle(v) = Idle(w)
  BY <1>2, <1>3, <1>4 DEF Idle
<1> QED BY <1>5 DEF v

\* Waking all workers keeps their number.
LEMMA WakeAllFacts ==
    ASSUME NEW w \in Counts
    PROVE  WakeAll(w) \in Counts /\ Idle(WakeAll(w)) = Idle(w)
<1>1. w.free + w.asleep \in Nat
  BY DEF Counts
<1>2. WakeAll(w) \in Counts
  BY <1>1, TwoFields DEF Counts, WakeAll
<1>3. WakeAll(w).free = w.free + w.asleep /\ WakeAll(w).tested = w.tested /\ WakeAll(w).asleep = 0
  BY DEF Counts, WakeAll
<1>4. w.free \in Nat /\ w.tested \in Nat /\ w.asleep \in Nat
  BY DEF Counts
<1> QED BY <1>2, <1>3, <1>4 DEF Idle

\* Waking a worker keeps their number.
LEMMA WakeOneFacts ==
    ASSUME NEW w \in Counts
    PROVE  WakeOne(w) \in Counts /\ Idle(WakeOne(w)) = Idle(w)
<1>0. w.free \in Nat /\ w.tested \in {0, 1} /\ w.asleep \in Nat
  BY CountsFacts
<1>1. CASE w.asleep = 0
  BY <1>1 DEF WakeOne
<1>2. CASE w.asleep # 0
  <2>1. WakeOne(w) = [free |-> w.free + 1, tested |-> w.tested, asleep |-> w.asleep - 1]
    BY <1>2 DEF WakeOne, Counts
  <2> QED BY <1>0, <1>2, <2>1 DEF Counts, Idle
<1> QED BY <1>1, <1>2

\* A task goes from eventVec, which has no other of its handler, to the end of
\* the queue of its priority.
LEMMA DistributeInv ==
    ASSUME IInv, Distribute
    PROVE  (Types /\ PoolInv /\ Order)'
<1> DEFINE task == Head(eventVec)
           p == Priority[task.handler]
<1>1. /\ eventVec # << >> /\ eventVec' = Tail(eventVec)
      /\ Len(queue[p]) < Capacity
      /\ queue' = [queue EXCEPT ![p] = Append(@, task)]
      /\ workers' = [workers EXCEPT ![p] = WakeOne(@)]
      /\ UNCHANGED <<subscribes, known, published, events, distributor, got, running, taken, stop>>
  BY DEF Distribute, AddEventTask, subs, pubs
<1>2. /\ eventVec \in Seq(Task) /\ eventVec' \in Seq(Task)
      /\ 1 \in DOMAIN eventVec /\ task = eventVec[1] /\ task \in Task
      /\ \A i \in DOMAIN eventVec' :
            /\ i \in Nat /\ 1 < i + 1
            /\ i + 1 \in DOMAIN eventVec /\ eventVec'[i] = eventVec[i + 1]
  <2>1. eventVec \in Seq(Task)
    BY DEF IInv, Types
  <2> QED BY <1>1, <2>1, TailFacts
<1>3. task.handler \in Handlers /\ task.event \in Nat
  BY <1>2, TaskFacts
<1>4. p \in Pools
  BY <1>3, PoolOf
<1> HIDE DEF task, p
<1>5. /\ queue \in [Pools -> Seq(Task)] /\ queue[p] \in Seq(Task)
      /\ queue'[p] = Append(queue[p], task) /\ queue'[p] \in Seq(Task)
      /\ Len(queue'[p]) = Len(queue[p]) + 1 /\ Len(queue[p]) \in Nat
      /\ \A r \in Pools : r # p => queue'[r] = queue[r]
  <2>1. queue \in [Pools -> Seq(Task)] /\ queue[p] \in Seq(Task)
    BY <1>4 DEF IInv, Types
  <2>2. queue'[p] = Append(queue[p], task) /\ \A r \in Pools : r # p => queue'[r] = queue[r]
    BY <1>1, <1>4, <2>1
  <2> QED BY <1>2, <2>1, <2>2, AppendFacts
<1>6. queue' \in [Pools -> Seq(Task)]
  <2>1. Append(queue[p], task) \in Seq(Task)
    BY <1>5
  <2> QED BY <1>1, <1>5, <2>1
<1>7. /\ workers' \in [Pools -> Counts]
      /\ \A r \in Pools : Idle(workers'[r]) = Idle(workers[r])
  <2>1. workers \in [Pools -> Counts]
    BY DEF IInv, Types
  <2>2. WakeOne(workers[p]) \in Counts /\ Idle(WakeOne(workers[p])) = Idle(workers[p])
    BY <1>4, <2>1, WakeOneFacts
  <2> QED BY <1>1, <1>4, <2>1, <2>2
<1>8. Types'
  BY <1>1, <1>2, <1>6, <1>7 DEF IInv, Types
<1>9. PoolInv'
  <2> SUFFICES ASSUME NEW r \in Pools PROVE PoolAt(r)'
    BY DEF PoolInv
  <2>0. PoolAt(r)
    BY DEF IInv, PoolInv
  <2>1. Len(queue'[r]) <= Capacity
    BY <1>1, <1>5, <2>0, SizesAssumption DEF PoolAt
  <2> QED BY <1>1, <1>7, <2>0, <2>1 DEF PoolAt
<1>10. EventsInv'
  BY <1>1 DEF IInv, Order, EventsInv
<1>11. \A i \in DOMAIN eventVec' : eventVec'[i].handler # task.handler
  BY <1>2 DEF IInv, Order, VecInv
<1>12. VecInv'
  <2>1. \A i, j \in DOMAIN eventVec' : i + 1 = j + 1 => i = j
    BY <1>2
  <2> QED BY <1>1, <1>2, <2>1 DEF IInv, Order, VecInv
<1>13. ASSUME NEW i \in DOMAIN queue'[p]
       PROVE  \/ /\ i \in DOMAIN queue[p] /\ queue'[p][i] = queue[p][i]
                 /\ i \in Nat /\ i < Len(queue[p]) + 1
              \/ i = Len(queue[p]) + 1 /\ queue'[p][i] = task
  BY <1>2, <1>5, AppendIndex, TaskFacts
<1>14. task.event <= Len(published) /\ \A j \in DOMAIN events : task.event < events[j]
  BY <1>2 DEF IInv, Order, VecInv
<1>15. QueueInv'
  <2> SUFFICES ASSUME NEW r \in Pools PROVE QueueAt(r)'
    BY DEF QueueInv
  <2>0. QueueAt(r)
    BY DEF IInv, Order, QueueInv
  <2>1. CASE r # p
    BY <1>1, <1>2, <1>5, <2>0, <2>1 DEF QueueAt
  <2>2. CASE r = p
    <3>1. \A i \in DOMAIN queue'[p] :
              Priority[queue'[p][i].handler] = p /\ queue'[p][i].event <= Len(published)
      BY <1>13, <1>14, <2>0, <2>2 DEF QueueAt, p
    <3>2. ASSUME NEW i \in DOMAIN queue'[p], NEW j \in DOMAIN queue'[p],
                 i < j, queue'[p][i].handler = queue'[p][j].handler
          PROVE  queue'[p][i].event < queue'[p][j].event
      <4>1. CASE j \in DOMAIN queue[p] /\ queue'[p][j] = queue[p][j] /\ j < Len(queue[p]) + 1 /\ j \in Nat
        <5>1. i \in DOMAIN queue[p] /\ queue'[p][i] = queue[p][i]
          BY <1>5, <1>13, <3>2, <4>1
        <5> QED BY <2>0, <2>2, <3>2, <4>1, <5>1 DEF QueueAt
      <4>2. CASE j = Len(queue[p]) + 1 /\ queue'[p][j] = task
        <5>1. i \in DOMAIN queue[p] /\ queue'[p][i] = queue[p][i]
          BY <1>5, <1>13, <3>2, <4>2
        <5>2. queue[p][i].handler = eventVec[1].handler
          BY <1>2, <3>2, <4>2, <5>1
        <5>3. queue[p][i].event < eventVec[1].event
          BY <1>2, <2>0, <2>2, <5>1, <5>2 DEF QueueAt
        <5> QED BY <1>2, <4>2, <5>1, <5>3
      <4> QED BY <1>13, <4>1, <4>2
    <3>3. \A i \in DOMAIN queue'[p], j \in DOMAIN eventVec' :
              queue'[p][i].handler = eventVec'[j].handler => queue'[p][i].event < eventVec'[j].event
      BY <1>2, <1>11, <1>13, <2>0, <2>2 DEF QueueAt
    <3>4. \A i \in DOMAIN queue'[p], j \in DOMAIN events : queue'[p][i].event < events[j]
      <4> SUFFICES ASSUME NEW i \in DOMAIN queue'[p], NEW j \in DOMAIN events
                   PROVE  queue'[p][i].event < events[j]
        OBVIOUS
      <4>1. CASE i \in DOMAIN queue[p] /\ queue'[p][i] = queue[p][i]
        <5>1. queue[p][i].event < events[j]
          BY <2>0, <2>2, <4>1 DEF QueueAt
        <5> QED BY <4>1, <5>1
      <4>2. CASE queue'[p][i] = task
        BY <1>14, <4>2
      <4> QED BY <1>13, <4>1, <4>2
    <3>5. published' = published /\ events' = events
      BY <1>1
    <3> QED BY <2>2, <3>1, <3>2, <3>3, <3>4, <3>5, Zenon DEF QueueAt
  <2> QED BY <2>1, <2>2
<1>16. TakenInv'
  <2> SUFFICES ASSUME NEW h \in Handlers PROVE TakenAt(h)'
    BY DEF TakenInv
  <2>0. TakenAt(h) /\ taken'[h] = taken[h]
    BY <1>1 DEF IInv, Order, TakenInv
  <2>1. ASSUME NEW r \in Pools, NEW i \in DOMAIN taken[h], NEW j \in DOMAIN queue'[r],
               queue'[r][j].handler = h
        PROVE  taken[h][i] < queue'[r][j].event
    <3>1. CASE r # p
      BY <1>5, <2>0, <2>1, <3>1 DEF TakenAt
    <3>2. CASE r = p
      BY <1>2, <1>4, <1>13, <2>0, <2>1, <3>2 DEF TakenAt
    <3> QED BY <3>1, <3>2
  <2> QED BY <1>1, <1>2, <2>0, <2>1 DEF TakenAt
<1> QED BY <1>8, <1>9, <1>10, <1>12, <1>15, <1>16 DEF Order

-----------------------------------------------------------------------------
(* The workers.                                                            *)

\* Adding a task to a set adds at most one.
LEMMA TaskAdded ==
    ASSUME NEW S, IsFiniteSet(S), NEW e
    PROVE  /\ IsFiniteSet(S \cup {e})
           /\ Cardinality(S) \in Nat /\ Cardinality(S \cup {e}) \in Nat
           /\ Cardinality(S \cup {e}) <= Cardinality(S) + 1
<1>1. /\ IsFiniteSet(S \cup {e})
      /\ \/ Cardinality(S \cup {e}) = Cardinality(S)
         \/ Cardinality(S \cup {e}) = Cardinality(S) + 1
  BY FS_AddElement
<1>2. Cardinality(S) \in Nat
  BY FS_CardinalityType
<1> QED BY <1>1, <1>2

\* Removing a task from a set.
LEMMA TaskRemoved ==
    ASSUME NEW S, IsFiniteSet(S), NEW e \in S
    PROVE  /\ IsFiniteSet(S \ {e})
           /\ Cardinality(S) \in Nat /\ Cardinality(S \ {e}) \in Nat
           /\ Cardinality(S \ {e}) = Cardinality(S) - 1
<1>1. IsFiniteSet(S \ {e}) /\ Cardinality(S \ {e}) = Cardinality(S) - 1
  BY FS_RemoveElement
<1> QED BY <1>1, FS_CardinalityType

\* Four numbers of which the first three change.
LEMMA NoMoreWorkers ==
    ASSUME NEW a \in Nat, NEW b \in Nat, NEW c \in Nat, NEW t \in Nat,
           NEW d \in Nat, NEW e \in Nat, NEW f \in Nat,
           d + e + f <= a + b + c, a + b + c <= t
    PROVE  d + e + f <= t
OBVIOUS

\* A step that changes the workers of one pool keeps the types and the bounds
\* when the workers do not become more.
LEMMA PoolStep ==
    ASSUME IInv, NEW p \in Pools, NEW w \in Counts, NEW G \in SUBSET Task, NEW R \in SUBSET Task,
           workers' = [workers EXCEPT ![p] = w],
           got' = [got EXCEPT ![p] = G], running' = [running EXCEPT ![p] = R],
           IsFiniteSet(G), IsFiniteSet(R),
           Idle(w) + Cardinality(G) + Cardinality(R)
              <= Idle(workers[p]) + Cardinality(got[p]) + Cardinality(running[p]),
           \A r \in Pools : Len(queue'[r]) <= Capacity,
           queue' \in [Pools -> Seq(Task)], taken' \in [Handlers -> Seq(Nat)],
           UNCHANGED <<subs, pubs, distributor, eventVec, stop>>
    PROVE  Types' /\ PoolInv'
<1>1. /\ workers \in [Pools -> Counts]
      /\ got \in [Pools -> SUBSET Task] /\ running \in [Pools -> SUBSET Task]
  BY DEF IInv, Types
<1>2. /\ workers' \in [Pools -> Counts]
      /\ got' \in [Pools -> SUBSET Task] /\ running' \in [Pools -> SUBSET Task]
      /\ workers'[p] = w /\ got'[p] = G /\ running'[p] = R
      /\ \A r \in Pools : r # p => /\ workers'[r] = workers[r]
                                  /\ got'[r] = got[r] /\ running'[r] = running[r]
  BY <1>1
<1>3. Types'
  BY <1>2 DEF IInv, Types, subs, pubs
<1>4. PoolInv'
  <2> SUFFICES ASSUME NEW r \in Pools PROVE PoolAt(r)'
    BY DEF PoolInv
  <2>0. PoolAt(r)
    BY DEF IInv, PoolInv
  <2>1. CASE r # p
    BY <1>2, <2>0, <2>1 DEF PoolAt
  <2>2. CASE r = p
    <3>1. /\ Idle(w) \in Nat /\ Idle(workers[p]) \in Nat
          /\ Cardinality(G) \in Nat /\ Cardinality(R) \in Nat
          /\ Cardinality(got[p]) \in Nat /\ Cardinality(running[p]) \in Nat
      BY <1>1, <2>0, <2>2, CountsFacts, FS_CardinalityType DEF PoolAt
    <3>2. Threads[p] \in Nat
      BY SizesAssumption DEF Pools
    <3>3. Idle(workers[p]) + Cardinality(got[p]) + Cardinality(running[p]) <= Threads[p]
      BY <2>0, <2>2 DEF PoolAt
    <3>4. Idle(w) + Cardinality(G) + Cardinality(R) <= Threads[p]
      BY <3>1, <3>2, <3>3, NoMoreWorkers
    <3> QED BY <1>2, <2>2, <3>4 DEF PoolAt
  <2> QED BY <2>1, <2>2
<1> QED BY <1>3, <1>4

\* Removing the head of a queue keeps the order of the rest.
LEMMA QueueTail ==
    ASSUME IInv, NEW p \in Pools, queue[p] # << >>,
           queue' = [queue EXCEPT ![p] = Tail(@)],
           UNCHANGED <<published, events, eventVec>>
    PROVE  /\ queue' \in [Pools -> Seq(Task)] /\ Len(queue'[p]) <= Capacity
           /\ QueueInv'
           /\ \A r \in Pools : r # p => queue'[r] = queue[r]
           /\ 1 \in DOMAIN queue[p] /\ Head(queue[p]) = queue[p][1] /\ Head(queue[p]) \in Task
           /\ \A i \in DOMAIN queue'[p] :
                 1 < i + 1 /\ i + 1 \in DOMAIN queue[p] /\ queue'[p][i] = queue[p][i + 1]
<1>1. queue \in [Pools -> Seq(Task)] /\ queue[p] \in Seq(Task)
  BY DEF IInv, Types
<1>2. /\ queue'[p] = Tail(queue[p]) /\ \A r \in Pools : r # p => queue'[r] = queue[r]
  BY <1>1
<1>3. /\ Tail(queue[p]) \in Seq(Task) /\ Len(Tail(queue[p])) = Len(queue[p]) - 1
      /\ Len(queue[p]) \in Nat
      /\ 1 \in DOMAIN queue[p] /\ Head(queue[p]) = queue[p][1] /\ Head(queue[p]) \in Task
      /\ \A i \in DOMAIN queue'[p] :
            /\ i \in Nat /\ 1 < i + 1
            /\ i + 1 \in DOMAIN queue[p] /\ queue'[p][i] = queue[p][i + 1]
  BY <1>1, <1>2, TailFacts
<1>4. queue' \in [Pools -> Seq(Task)] /\ Len(queue'[p]) <= Capacity
  BY <1>1, <1>2, <1>3, SizesAssumption DEF IInv, PoolInv, PoolAt
<1>5. QueueInv'
  <2> SUFFICES ASSUME NEW r \in Pools PROVE QueueAt(r)'
    BY DEF QueueInv
  <2>0. QueueAt(r)
    BY DEF IInv, Order, QueueInv
  <2>1. CASE r # p
    BY <1>2, <2>0, <2>1 DEF QueueAt
  <2>2. CASE r = p
    <3>1. \A i, j \in DOMAIN queue'[p] : i < j => i + 1 < j + 1
      BY <1>3
    <3>2. \A i, j \in DOMAIN queue'[p] :
              i < j /\ queue'[p][i].handler = queue'[p][j].handler
                  => queue'[p][i].event < queue'[p][j].event
      <4> SUFFICES ASSUME NEW i \in DOMAIN queue'[p], NEW j \in DOMAIN queue'[p],
                          i < j, queue'[p][i].handler = queue'[p][j].handler
                   PROVE  queue'[p][i].event < queue'[p][j].event
        OBVIOUS
      <4>1. PICK k \in DOMAIN queue[p] : k = i + 1 /\ queue'[p][i] = queue[p][k]
        BY <1>3
      <4>2. PICK l \in DOMAIN queue[p] : l = j + 1 /\ queue'[p][j] = queue[p][l]
        BY <1>3
      <4>3. k < l /\ queue[p][k].handler = queue[p][l].handler
        BY <3>1, <4>1, <4>2
      <4>4. queue[p][k].event < queue[p][l].event
        BY <2>0, <2>2, <4>3 DEF QueueAt
      <4> QED BY <4>1, <4>2, <4>4
    <3>3. ASSUME NEW i \in DOMAIN queue'[p]
          PROVE  /\ Priority[queue'[p][i].handler] = p /\ queue'[p][i].event <= Len(published)
                 /\ \A j \in DOMAIN eventVec :
                       queue'[p][i].handler = eventVec[j].handler
                           => queue'[p][i].event < eventVec[j].event
                 /\ \A j \in DOMAIN events : queue'[p][i].event < events[j]
      <4>1. PICK k \in DOMAIN queue[p] : queue'[p][i] = queue[p][k]
        BY <1>3
      <4> QED BY <2>0, <2>2, <4>1, Zenon DEF QueueAt
    <3>4. published' = published /\ events' = events /\ eventVec' = eventVec
      OBVIOUS
    <3>5. \A i \in DOMAIN queue'[p] :
              Priority[queue'[p][i].handler] = p /\ queue'[p][i].event <= Len(published)
      BY <3>3
    <3>6. \A i \in DOMAIN queue'[p], j \in DOMAIN eventVec' :
              queue'[p][i].handler = eventVec'[j].handler => queue'[p][i].event < eventVec'[j].event
      BY <3>3, <3>4
    <3>7. \A i \in DOMAIN queue'[p], j \in DOMAIN events : queue'[p][i].event < events[j]
      BY <3>3
    <3>8. QueueAt(p)'
      BY <3>2, <3>4, <3>5, <3>6, <3>7 DEF QueueAt
    <3> QED BY <2>2, <3>8
  <2> QED BY <2>1, <2>2
<1> QED BY <1>2, <1>3, <1>4, <1>5

\* The event of the head of a queue is after those taken for its handler and
\* before those that will be.
LEMMA TakenHead ==
    ASSUME IInv, NEW p \in Pools, queue[p] # << >>,
           queue' = [queue EXCEPT ![p] = Tail(@)],
           taken' = [taken EXCEPT ![Head(queue[p]).handler] = Append(@, Head(queue[p]).event)],
           UNCHANGED <<published, events, eventVec>>
    PROVE  taken' \in [Handlers -> Seq(Nat)] /\ TakenInv'
<1> DEFINE task == Head(queue[p])
           g == task.handler
<1>1. /\ \A r \in Pools : r # p => queue'[r] = queue[r]
      /\ 1 \in DOMAIN queue[p] /\ task = queue[p][1] /\ task \in Task
      /\ \A i \in DOMAIN queue'[p] :
            1 < i + 1 /\ i + 1 \in DOMAIN queue[p] /\ queue'[p][i] = queue[p][i + 1]
  BY QueueTail
<1>2. g \in Handlers /\ task.event \in Nat
  <2>1. queue[p] \in Seq(Task)
    BY DEF IInv, Types
  <2> QED BY <1>1, <2>1, TaskFacts
<1>3. taken' = [taken EXCEPT ![g] = Append(@, task.event)]
  OBVIOUS
<1> HIDE DEF task, g
<1>4. taken \in [Handlers -> Seq(Nat)] /\ taken[g] \in Seq(Nat)
  BY <1>2 DEF IInv, Types
<1>5. /\ taken'[g] = Append(taken[g], task.event)
      /\ \A h \in Handlers : h # g => taken'[h] = taken[h]
  BY <1>2, <1>3, <1>4
<1>6. Append(taken[g], task.event) \in Seq(Nat)
  BY <1>2, <1>4, AppendFacts
<1>7. taken' \in [Handlers -> Seq(Nat)]
  BY <1>3, <1>4, <1>6
<1>8. TakenInv'
  <2> SUFFICES ASSUME NEW h \in Handlers PROVE TakenAt(h)'
    BY DEF TakenInv
  <2>0. TakenAt(h) /\ QueueAt(p)
    BY DEF IInv, Order, TakenInv, QueueInv
  <2>1. \* What is in a queue now was there before.
        ASSUME NEW r \in Pools, NEW j \in DOMAIN queue'[r]
        PROVE  \E k \in DOMAIN queue[r] : queue'[r][j] = queue[r][k]
    BY <1>1
  <2>2. CASE h # g
    <3>1. taken'[h] = taken[h]
      BY <1>5, <2>2
    <3>2. ASSUME NEW r \in Pools, NEW i \in DOMAIN taken[h], NEW j \in DOMAIN queue'[r],
                 queue'[r][j].handler = h
          PROVE  taken[h][i] < queue'[r][j].event
      <4>1. PICK k \in DOMAIN queue[r] : queue'[r][j] = queue[r][k]
        BY <2>1
      <4>2. taken[h][i] < queue[r][k].event
        BY <2>0, <3>2, <4>1 DEF TakenAt
      <4> QED BY <4>1, <4>2
    <3> QED BY <2>0, <3>1, <3>2 DEF TakenAt
  <2>3. CASE h = g
    <3>1. ASSUME NEW i \in DOMAIN taken'[h]
          PROVE  \/ /\ i \in DOMAIN taken[h] /\ taken'[h][i] = taken[h][i]
                    /\ i < Len(taken[h]) + 1 /\ i \in Nat
                 \/ i = Len(taken[h]) + 1 /\ taken'[h][i] = task.event
      BY <1>2, <1>4, <1>5, <2>3, AppendIndex, Indices
    <3>2. Len(taken[h]) \in Nat
      BY <1>4, <2>3, Indices
    <3>3. ASSUME NEW i \in DOMAIN taken'[h] PROVE taken'[h][i] <= Len(published)
      <4>1. task.event <= Len(published)
        BY <1>1, <2>0 DEF QueueAt
      <4> QED BY <2>0, <3>1, <4>1 DEF TakenAt
    <3>4. ASSUME NEW i \in DOMAIN taken'[h], NEW j \in DOMAIN taken'[h], i < j
          PROVE  taken'[h][i] < taken'[h][j]
      <4>1. CASE j \in DOMAIN taken[h] /\ taken'[h][j] = taken[h][j] /\ j < Len(taken[h]) + 1 /\ j \in Nat
        <5>1. i \in DOMAIN taken[h] /\ taken'[h][i] = taken[h][i]
          BY <3>1, <3>2, <3>4, <4>1
        <5> QED BY <2>0, <3>4, <4>1, <5>1 DEF TakenAt
      <4>2. CASE j = Len(taken[h]) + 1 /\ taken'[h][j] = task.event
        <5>1. i \in DOMAIN taken[h] /\ taken'[h][i] = taken[h][i]
          BY <3>1, <3>2, <3>4, <4>2
        <5>2. taken[h][i] < queue[p][1].event
          BY <1>1, <2>0, <2>3, <5>1 DEF TakenAt, g
        <5> QED BY <1>1, <4>2, <5>1, <5>2
      <4> QED BY <3>1, <4>1, <4>2
    <3>5. ASSUME NEW r \in Pools, NEW i \in DOMAIN taken'[h], NEW j \in DOMAIN queue'[r],
                 queue'[r][j].handler = h
          PROVE  taken'[h][i] < queue'[r][j].event
      <4>1. PICK k \in DOMAIN queue[r] : queue'[r][j] = queue[r][k]
        BY <2>1
      <4>2. CASE i \in DOMAIN taken[h] /\ taken'[h][i] = taken[h][i]
        <5>1. taken[h][i] < queue[r][k].event
          BY <2>0, <3>5, <4>1, <4>2 DEF TakenAt
        <5> QED BY <4>1, <4>2, <5>1
      <4>3. CASE taken'[h][i] = task.event
        <5>1. r = p
          <6>1. QueueAt(r)
            BY DEF IInv, Order, QueueInv
          <6>2. Priority[h] = r
            BY <3>5, <4>1, <6>1 DEF QueueAt
          <6>3. Priority[h] = p
            BY <1>1, <2>0, <2>3 DEF QueueAt, g
          <6> QED BY <6>2, <6>3
        <5>2. PICK l \in DOMAIN queue[p] : 1 < l /\ queue'[p][j] = queue[p][l]
          BY <1>1, <3>5, <5>1
        <5>3. queue[p][1].handler = queue[p][l].handler
          BY <1>1, <2>3, <3>5, <5>1, <5>2 DEF g
        <5>4. queue[p][1].event < queue[p][l].event
          BY <1>1, <2>0, <5>2, <5>3 DEF QueueAt
        <5> QED BY <1>1, <4>3, <5>1, <5>2, <5>4
      <4> QED BY <3>1, <4>2, <4>3
    <3>6. ASSUME NEW i \in DOMAIN taken'[h], NEW j \in DOMAIN eventVec, eventVec[j].handler = h
          PROVE  taken'[h][i] < eventVec[j].event
      <4>1. CASE i \in DOMAIN taken[h] /\ taken'[h][i] = taken[h][i]
        BY <2>0, <3>6, <4>1 DEF TakenAt
      <4>2. CASE taken'[h][i] = task.event
        <5>1. queue[p][1].event < eventVec[j].event
          BY <1>1, <2>0, <2>3, <3>6 DEF QueueAt, g
        <5> QED BY <1>1, <4>2, <5>1
      <4> QED BY <3>1, <4>1, <4>2
    <3>7. ASSUME NEW i \in DOMAIN taken'[h], NEW j \in DOMAIN events
          PROVE  taken'[h][i] < events[j]
      <4>1. CASE i \in DOMAIN taken[h] /\ taken'[h][i] = taken[h][i]
        BY <2>0, <4>1 DEF TakenAt
      <4>2. CASE taken'[h][i] = task.event
        <5>1. queue[p][1].event < events[j]
          BY <1>1, <2>0 DEF QueueAt
        <5> QED BY <1>1, <4>2, <5>1
      <4> QED BY <3>1, <4>1, <4>2
    <3> QED BY <3>3, <3>4, <3>5, <3>6, <3>7 DEF TakenAt
  <2> QED BY <2>2, <2>3
<1> QED BY <1>7, <1>8

\* Taking a task, going to sleep with nothing to take, and the end of a worker
\* of a stopped queue.
LEMMA GetTaskInv ==
    ASSUME IInv, NEW p \in Pools, GetTask(p)
    PROVE  (Types /\ PoolInv /\ Order)'
<1> DEFINE w == workers[p]
           task == Head(queue[p])
<1>1. /\ UNCHANGED <<subs, pubs, distributor, eventVec, running, stop>>
      /\ w.free > 0 /\ w.tested = 0
  BY DEF GetTask, Unlocked
<1>2. /\ workers \in [Pools -> Counts] /\ w \in Counts
      /\ got \in [Pools -> SUBSET Task] /\ running \in [Pools -> SUBSET Task]
      /\ queue \in [Pools -> Seq(Task)] /\ taken \in [Handlers -> Seq(Nat)]
      /\ IsFiniteSet(got[p]) /\ IsFiniteSet(running[p])
      /\ Cardinality(got[p]) \in Nat /\ Cardinality(running[p]) \in Nat
      /\ \A r \in Pools : Len(queue[r]) <= Capacity
  BY FS_CardinalityType DEF IInv, Types, PoolInv, PoolAt
<1>3. w.free \in Nat /\ w.tested \in Nat /\ w.asleep \in Nat
  BY <1>2, CountsFacts
<1>4. running' = [running EXCEPT ![p] = running[p]]
  BY <1>1, <1>2
<1>5. \E v \in {[w EXCEPT !.free = @ - 1], [w EXCEPT !.free = @ - 1, !.tested = @ + 1]} :
         /\ workers' = [workers EXCEPT ![p] = v]
         /\ \/ UNCHANGED <<queue, got, taken>>
            \/ /\ v = [w EXCEPT !.free = @ - 1] /\ queue[p] # << >>
               /\ got' = [got EXCEPT ![p] = got[p] \cup {task}]
               /\ taken' = [taken EXCEPT ![task.handler] = Append(@, task.event)]
               /\ queue' = [queue EXCEPT ![p] = Tail(@)]
  BY DEF GetTask
<1>6. PICK v \in {[w EXCEPT !.free = @ - 1], [w EXCEPT !.free = @ - 1, !.tested = @ + 1]} :
         /\ workers' = [workers EXCEPT ![p] = v]
         /\ \/ UNCHANGED <<queue, got, taken>>
            \/ /\ v = [w EXCEPT !.free = @ - 1] /\ queue[p] # << >>
               /\ got' = [got EXCEPT ![p] = got[p] \cup {task}]
               /\ taken' = [taken EXCEPT ![task.handler] = Append(@, task.event)]
               /\ queue' = [queue EXCEPT ![p] = Tail(@)]
  BY <1>5
<1>7. ASSUME v = [w EXCEPT !.free = @ - 1]
      PROVE  v \in Counts /\ Idle(v) = Idle(w) - 1 /\ Idle(v) <= Idle(w) /\ Idle(v) \in Nat /\ Idle(w) \in Nat
  <2>1. v = [free |-> w.free - 1, tested |-> w.tested, asleep |-> w.asleep]
    BY <1>2, <1>7 DEF Counts
  <2> QED BY <1>1, <1>2, <1>3, <2>1 DEF Counts, Idle
<1>8. v \in Counts /\ Idle(v) <= Idle(w) /\ Idle(v) \in Nat /\ Idle(w) \in Nat
  <2>1. CASE v = [w EXCEPT !.free = @ - 1, !.tested = @ + 1]
    <3>1. v \in Counts /\ Idle(v) = Idle(w)
      BY <1>1, <1>2, <2>1, Tests
    <3> QED BY <1>2, <3>1, CountsFacts
  <2> QED BY <1>6, <1>7, <2>1
<1>9. CASE UNCHANGED <<queue, got, taken>>
  <2>1. got' = [got EXCEPT ![p] = got[p]]
    BY <1>2, <1>9
  <2>2. Idle(v) + Cardinality(got[p]) + Cardinality(running[p])
           <= Idle(w) + Cardinality(got[p]) + Cardinality(running[p])
    BY <1>2, <1>8
  <2>3. queue' \in [Pools -> Seq(Task)] /\ taken' \in [Handlers -> Seq(Nat)]
    BY <1>2, <1>9
  <2>4. \A r \in Pools : Len(queue'[r]) <= Capacity
    BY <1>2, <1>9
  <2> HIDE DEF w
  <2>5. got[p] \in SUBSET Task /\ running[p] \in SUBSET Task
    BY <1>2
  <2>6. Types' /\ PoolInv'
    BY <1>1, <1>2, <1>4, <1>6, <1>8, <2>1, <2>2, <2>3, <2>4, <2>5, PoolStep DEF w
  <2>7. Order'
    BY <1>1, <1>9, OrderKept
  <2> QED BY <2>6, <2>7
<1>10. CASE ~UNCHANGED <<queue, got, taken>>
  <2>1. /\ v = [w EXCEPT !.free = @ - 1] /\ queue[p] # << >>
        /\ got' = [got EXCEPT ![p] = got[p] \cup {task}]
        /\ taken' = [taken EXCEPT ![task.handler] = Append(@, task.event)]
        /\ queue' = [queue EXCEPT ![p] = Tail(@)]
    BY <1>6, <1>10
  <2>2. UNCHANGED <<published, events, eventVec>>
    BY <1>1 DEF pubs
  <2>3. /\ queue' \in [Pools -> Seq(Task)] /\ Len(queue'[p]) <= Capacity /\ QueueInv'
        /\ \A r \in Pools : r # p => queue'[r] = queue[r]
        /\ task \in Task
    BY <2>1, <2>2, QueueTail
  <2>4. taken' \in [Handlers -> Seq(Nat)] /\ TakenInv'
    BY <2>1, <2>2, TakenHead
  <2>5. \A r \in Pools : Len(queue'[r]) <= Capacity
    BY <1>2, <2>3
  <2>6. EventsInv' /\ VecInv'
    BY <2>2 DEF IInv, Order, EventsInv, VecInv
  <2>7. /\ IsFiniteSet(got[p] \cup {task}) /\ Cardinality(got[p] \cup {task}) \in Nat
        /\ Cardinality(got[p] \cup {task}) <= Cardinality(got[p]) + 1
    BY <1>2, TaskAdded
  <2>8. Idle(v) = Idle(w) - 1
    BY <1>7, <2>1
  <2>9. Idle(v) + Cardinality(got[p] \cup {task}) + Cardinality(running[p])
           <= Idle(w) + Cardinality(got[p]) + Cardinality(running[p])
    BY <1>2, <1>8, <2>7, <2>8
  <2>10. got[p] \cup {task} \in SUBSET Task /\ running[p] \in SUBSET Task
    BY <1>2, <2>3
  <2> HIDE DEF w, task
  <2>11. Types' /\ PoolInv'
    BY <1>1, <1>2, <1>4, <1>6, <1>8, <2>1, <2>3, <2>4, <2>5, <2>7, <2>9, <2>10, PoolStep DEF w
  <2> QED BY <2>3, <2>4, <2>6, <2>11 DEF Order
<1> QED BY <1>9, <1>10

\* The other steps of a worker: it falls asleep, calls a handler, ends, or its
\* handler returns.
LEMMA WorkerInv ==
    ASSUME IInv, NEW p \in Pools,
           \/ Sleep(p) \/ CallHandler(p) \/ LoopEnds(p)
           \/ \E h \in Handlers : HandlerReturns(p, h)
    PROVE  Types' /\ PoolInv' /\ UNCHANGED <<subs, pubs, eventVec, queue, taken>>
<1> DEFINE w == workers[p]
<1>1. /\ workers \in [Pools -> Counts] /\ w \in Counts
      /\ got \in [Pools -> SUBSET Task] /\ running \in [Pools -> SUBSET Task]
      /\ IsFiniteSet(got[p]) /\ IsFiniteSet(running[p])
      /\ Cardinality(got[p]) \in Nat /\ Cardinality(running[p]) \in Nat
  BY FS_CardinalityType DEF IInv, Types, PoolInv, PoolAt
<1>2. w.free \in Nat /\ w.tested \in {0, 1} /\ w.asleep \in Nat /\ Idle(w) \in Nat
  BY <1>1, CountsFacts
<1>3. UNCHANGED <<subs, pubs, distributor, eventVec, queue, taken, stop>>
  BY DEF Sleep, CallHandler, LoopEnds, HandlerReturns
<1>4. /\ queue' \in [Pools -> Seq(Task)] /\ taken' \in [Handlers -> Seq(Nat)]
      /\ \A r \in Pools : Len(queue'[r]) <= Capacity
  BY <1>3 DEF IInv, Types, PoolInv, PoolAt
<1>5. ASSUME NEW v \in Counts, NEW G \in SUBSET Task, NEW R \in SUBSET Task,
             workers' = [workers EXCEPT ![p] = v],
             got' = [got EXCEPT ![p] = G], running' = [running EXCEPT ![p] = R],
             IsFiniteSet(G), IsFiniteSet(R),
             Idle(v) + Cardinality(G) + Cardinality(R)
                <= Idle(w) + Cardinality(got[p]) + Cardinality(running[p])
      PROVE  Types' /\ PoolInv'
  BY <1>3, <1>4, <1>5, PoolStep
<1>6. got[p] \in SUBSET Task /\ running[p] \in SUBSET Task
  BY <1>1
<1>7. CASE Sleep(p)
  <2> DEFINE v == [w EXCEPT !.tested = @ - 1, !.asleep = @ + 1]
  <2>1. w.tested > 0 /\ workers' = [workers EXCEPT ![p] = v] /\ UNCHANGED <<got, running>>
    BY <1>7 DEF Sleep
  <2>2. v \in Counts /\ Idle(v) = Idle(w)
    BY <1>1, <2>1, FallsAsleep
  <2>3. got' = [got EXCEPT ![p] = got[p]] /\ running' = [running EXCEPT ![p] = running[p]]
    BY <1>1, <2>1
  <2> HIDE DEF v, w
  <2>4. Idle(v) + Cardinality(got[p]) + Cardinality(running[p])
           <= Idle(w) + Cardinality(got[p]) + Cardinality(running[p])
    BY <1>1, <1>2, <2>2
  <2>5. Types' /\ PoolInv'
    BY <1>1, <1>5, <1>6, <2>1, <2>2, <2>3, <2>4
  <2> QED BY <1>3, <2>5
<1>8. CASE CallHandler(p)
  <2>1. PICK task \in got[p] :
           /\ got' = [got EXCEPT ![p] = got[p] \ {task}]
           /\ \/ running' = [running EXCEPT ![p] = running[p] \cup {task}]
              \/ running' = running
           /\ workers' = workers
    BY <1>8 DEF CallHandler
  <2>2. PICK R \in {running[p] \cup {task}, running[p]} : running' = [running EXCEPT ![p] = R]
    <3>1. running = [running EXCEPT ![p] = running[p]]
      BY <1>1
    <3> QED BY <2>1, <3>1
  <2>3. workers' = [workers EXCEPT ![p] = w]
    BY <1>1, <2>1
  <2>4. /\ IsFiniteSet(got[p] \ {task}) /\ Cardinality(got[p] \ {task}) \in Nat
        /\ Cardinality(got[p] \ {task}) = Cardinality(got[p]) - 1
    BY <1>1, TaskRemoved
  <2>5. /\ R \in SUBSET Task /\ IsFiniteSet(R) /\ Cardinality(R) \in Nat
        /\ Cardinality(R) <= Cardinality(running[p]) + 1
    <3>1. CASE R = running[p]
      BY <1>1, <3>1
    <3>2. CASE R = running[p] \cup {task}
      BY <1>1, <1>6, <3>2, TaskAdded
    <3> QED BY <2>2, <3>1, <3>2
  <2>6. Idle(w) + Cardinality(got[p] \ {task}) + Cardinality(R)
           <= Idle(w) + Cardinality(got[p]) + Cardinality(running[p])
    BY <1>1, <1>2, <2>4, <2>5
  <2>7. got[p] \ {task} \in SUBSET Task
    BY <1>6
  <2> HIDE DEF w
  <2>8. Types' /\ PoolInv'
    BY <1>1, <1>5, <2>1, <2>2, <2>3, <2>4, <2>5, <2>6, <2>7
  <2> QED BY <1>3, <2>8
<1>9. CASE LoopEnds(p)
  <2> DEFINE v == [free |-> w.free - 1, tested |-> w.tested, asleep |-> w.asleep]
  <2>1. w.free > 0 /\ workers' = [workers EXCEPT ![p] = v] /\ UNCHANGED <<got, running>>
    <3>1. workers' = [workers EXCEPT ![p] = [w EXCEPT !.free = @ - 1]]
      BY <1>9 DEF LoopEnds
    <3>2. [w EXCEPT !.free = @ - 1] = v
      BY <1>1 DEF Counts
    <3> QED BY <1>9, <3>1, <3>2 DEF LoopEnds
  <2>2. v \in Counts /\ Idle(v) = Idle(w) - 1
    BY <1>2, <2>1 DEF Counts, Idle
  <2>3. got' = [got EXCEPT ![p] = got[p]] /\ running' = [running EXCEPT ![p] = running[p]]
    BY <1>1, <2>1
  <2> HIDE DEF v, w
  <2>4. Idle(v) + Cardinality(got[p]) + Cardinality(running[p])
           <= Idle(w) + Cardinality(got[p]) + Cardinality(running[p])
    BY <1>1, <1>2, <2>2
  <2>5. Types' /\ PoolInv'
    BY <1>1, <1>5, <1>6, <2>1, <2>2, <2>3, <2>4
  <2> QED BY <1>3, <2>5
<1>10. CASE \E h \in Handlers : HandlerReturns(p, h)
  <2> DEFINE v == [free |-> w.free + 1, tested |-> w.tested, asleep |-> w.asleep]
  <2>1. PICK task \in running[p] :
           /\ running' = [running EXCEPT ![p] = running[p] \ {task}]
           /\ workers' = [workers EXCEPT ![p].free = @ + 1] /\ UNCHANGED got
    BY <1>10 DEF HandlerReturns
  <2>2. workers' = [workers EXCEPT ![p] = v]
    <3>1. workers' = [workers EXCEPT ![p] = [w EXCEPT !.free = @ + 1]]
      BY <2>1
    <3>2. [w EXCEPT !.free = @ + 1] = v
      BY <1>1 DEF Counts
    <3> QED BY <3>1, <3>2
  <2>3. v \in Counts /\ Idle(v) = Idle(w) + 1
    BY <1>2 DEF Counts, Idle
  <2>4. got' = [got EXCEPT ![p] = got[p]]
    BY <1>1, <2>1
  <2>5. /\ IsFiniteSet(running[p] \ {task}) /\ Cardinality(running[p] \ {task}) \in Nat
        /\ Cardinality(running[p] \ {task}) = Cardinality(running[p]) - 1
    BY <1>1, TaskRemoved
  <2>6. running[p] \ {task} \in SUBSET Task
    BY <1>6
  <2> HIDE DEF v, w
  <2>7. Idle(v) + Cardinality(got[p]) + Cardinality(running[p] \ {task})
           <= Idle(w) + Cardinality(got[p]) + Cardinality(running[p])
    BY <1>1, <1>2, <2>3, <2>5
  <2>8. Types' /\ PoolInv'
    BY <1>1, <1>5, <1>6, <2>1, <2>2, <2>3, <2>4, <2>5, <2>6, <2>7
  <2> QED BY <1>3, <2>8
<1> QED BY <1>7, <1>8, <1>9, <1>10

-----------------------------------------------------------------------------
(* The stop.                                                               *)

\* Waking all workers that sleep keeps their number.
LEMMA StopQueueInv ==
    ASSUME IInv, StopQueue
    PROVE  Types' /\ PoolInv' /\ UNCHANGED <<subs, pubs, eventVec, queue, taken>>
<1>1. /\ workers' = [p \in Pools |-> WakeAll(workers[p])] /\ stop' = "closed"
      /\ UNCHANGED <<subs, pubs, distributor, eventVec, queue, got, running, taken>>
  BY DEF StopQueue
<1>2. ASSUME NEW p \in Pools
      PROVE  WakeAll(workers[p]) \in Counts /\ Idle(WakeAll(workers[p])) = Idle(workers[p])
  BY WakeAllFacts DEF IInv, Types
<1>3. workers' \in [Pools -> Counts] /\ \A p \in Pools : Idle(workers'[p]) = Idle(workers[p])
  BY <1>1, <1>2
<1>4. Types'
  BY <1>1, <1>3 DEF IInv, Types, subs, pubs
<1>5. PoolInv'
  BY <1>1, <1>3 DEF IInv, PoolInv, PoolAt
<1> QED BY <1>1, <1>4, <1>5

\* The other steps of the stop.
LEMMA StopInv ==
    ASSUME IInv, StopDistributor \/ JoinDistributor \/ JoinWorkers
    PROVE  Types' /\ PoolInv' /\ UNCHANGED <<subs, pubs, eventVec, queue, taken>>
<1>1. /\ UNCHANGED <<subs, pubs, eventVec, queue, workers, got, running, taken>>
      /\ stop' \in {"told", "joined", "done"}
  BY DEF StopDistributor, JoinDistributor, JoinWorkers, pool
<1>2. distributor' \in {"running", "waiting", "ended"}
  BY DEF StopDistributor, JoinDistributor, JoinWorkers, Notified, IInv, Types
<1>3. Types'
  BY <1>1, <1>2 DEF IInv, Types, subs, pubs
<1>4. PoolInv'
  BY <1>1 DEF IInv, PoolInv, PoolAt
<1> QED BY <1>1, <1>3, <1>4

-----------------------------------------------------------------------------
(* The invariant.                                                          *)

\* SubsInv is about the subscriptions only.
LEMMA SubsKept ==
    ASSUME IInv, UNCHANGED subs
    PROVE  SubsInv'
BY DEF IInv, SubsInv, subs

\* Every step keeps the invariant.
LEMMA NextIInv == IInv /\ [Next]_vars => IInv'
<1> SUFFICES ASSUME IInv, [Next]_vars PROVE IInv'
  OBVIOUS
<1>1. ASSUME NEW h \in Handlers, RegisterSubscribe(h) PROVE IInv'
  <2>1. UNCHANGED <<pubs, eventVec, queue, taken>>
    BY <1>1 DEF RegisterSubscribe, pool
  <2> QED BY <1>1, <2>1, RegisterInv, OrderKept DEF IInv
<1>2. ASSUME NEW h \in Handlers, UnRegisterSubscribe(h) PROVE IInv'
  <2>1. UNCHANGED <<pubs, eventVec, queue, taken>>
    BY <1>2 DEF UnRegisterSubscribe, pool
  <2> QED BY <1>2, <2>1, UnRegisterInv, OrderKept DEF IInv
<1>3. ASSUME NEW id \in Ids, PubEvent(id) PROVE IInv'
  <2>1. UNCHANGED subs
    BY <1>3 DEF PubEvent
  <2> QED BY <1>3, <2>1, PubEventInv, SubsKept DEF IInv
<1>4. CASE TakeEvent
  <2>1. UNCHANGED subs
    BY <1>4 DEF TakeEvent
  <2> QED BY <1>4, <2>1, TakeEventInv, SubsKept DEF IInv
<1>5. CASE Distribute
  <2>1. UNCHANGED subs
    BY <1>5 DEF Distribute
  <2> QED BY <1>5, <2>1, DistributeInv, SubsKept DEF IInv
<1>6. ASSUME NEW p \in Pools, GetTask(p) PROVE IInv'
  <2>1. UNCHANGED subs
    BY <1>6 DEF GetTask
  <2> QED BY <1>6, <2>1, GetTaskInv, SubsKept DEF IInv
<1>7. ASSUME NEW p \in Pools,
             \/ Sleep(p) \/ CallHandler(p) \/ LoopEnds(p)
             \/ \E h \in Handlers : HandlerReturns(p, h)
      PROVE  IInv'
  <2>1. Types' /\ PoolInv' /\ UNCHANGED <<subs, pubs, eventVec, queue, taken>>
    BY <1>7, WorkerInv
  <2> QED BY <2>1, OrderKept, SubsKept DEF IInv
<1>8. CASE StopQueue
  <2>1. Types' /\ PoolInv' /\ UNCHANGED <<subs, pubs, eventVec, queue, taken>>
    BY <1>8, StopQueueInv
  <2> QED BY <2>1, OrderKept, SubsKept DEF IInv
<1>9. CASE StopDistributor \/ JoinDistributor \/ JoinWorkers
  <2>1. Types' /\ PoolInv' /\ UNCHANGED <<subs, pubs, eventVec, queue, taken>>
    BY <1>9, StopInv
  <2> QED BY <2>1, OrderKept, SubsKept DEF IInv
<1>10. CASE UNCHANGED vars
  <2>1. UNCHANGED <<subs, pubs, eventVec, queue, taken>>
    BY <1>10 DEF vars, pool
  <2>2. Types' /\ PoolInv'
    BY <1>10 DEF vars, subs, pubs, pool, IInv, Types, PoolInv, PoolAt
  <2> QED BY <2>1, <2>2, OrderKept, SubsKept DEF IInv
<1> QED BY <1>1, <1>2, <1>3, <1>4, <1>5, <1>6, <1>7, <1>8, <1>9, <1>10
        DEF Next, Distributing, WorkerStep, Stopping

\* The inductive invariant holds in every reachable state.
THEOREM EventInvariant == Spec => []IInv
<1>1. Init => IInv
  BY InitIInv
<1>2. IInv /\ [Next]_vars => IInv'
  BY NextIInv
<1> QED BY <1>1, <1>2, PTL DEF Spec

\* The queues keep to their capacity and the pools to their workers, whoever
\* subscribes, publishes, hangs or stops the framework.
THEOREM EventTypeCorrect == Spec => []TypeOK
<1>1. IInv => TypeOK
  <2> SUFFICES ASSUME IInv PROVE TypeOK
    OBVIOUS
  <2>1. /\ subscribes \in Seq([handler : Handlers, since : 0 .. MaxEvents])
        /\ known \subseteq Handlers
        /\ published \in Seq(Ids) /\ Len(published) <= MaxEvents
        /\ distributor \in {"running", "waiting", "ended"}
        /\ stop \in {"no", "told", "joined", "closed", "done"}
    BY DEF IInv, Types, Subscription
  <2>2. Range(events) \subseteq DOMAIN published
    BY DEF IInv, Order, EventsInv, Range
  <2>3. Range(eventVec) \subseteq Task
    <3>1. \A i \in DOMAIN eventVec : eventVec[i] \in Task
      BY TaskFacts DEF IInv, Types
    <3> QED BY <3>1 DEF Range
  <2>4. ASSUME NEW p \in Pools
        PROVE  /\ Range(queue[p]) \subseteq Task /\ Len(queue[p]) <= Capacity
               /\ got[p] \cup running[p] \subseteq Task
               /\ workers[p] \in [free : 0 .. Threads[p], tested : {0, 1}, asleep : 0 .. Threads[p]]
               /\ workers[p].free + workers[p].tested + workers[p].asleep
                    + Cardinality(got[p]) + Cardinality(running[p]) <= Threads[p]
    <3>1. /\ queue[p] \in Seq(Task) /\ got[p] \subseteq Task /\ running[p] \subseteq Task
          /\ workers[p] \in Counts /\ PoolAt(p)
      BY DEF IInv, Types, PoolInv
    <3>2. \A i \in DOMAIN queue[p] : queue[p][i] \in Task
      BY <3>1, TaskFacts
    <3>3. Range(queue[p]) \subseteq Task
      BY <3>2 DEF Range
    <3>4. /\ workers[p].free \in Nat /\ workers[p].tested \in {0, 1} /\ workers[p].tested \in Nat
          /\ workers[p].asleep \in Nat
          /\ workers[p] = [free |-> workers[p].free, tested |-> workers[p].tested,
                            asleep |-> workers[p].asleep]
      BY <3>1, CountsFacts
    <3>5. /\ Len(queue[p]) <= Capacity
          /\ Cardinality(got[p]) \in Nat /\ Cardinality(running[p]) \in Nat
          /\ workers[p].free + workers[p].tested + workers[p].asleep
                + Cardinality(got[p]) + Cardinality(running[p]) <= Threads[p]
      BY <3>1, FS_CardinalityType DEF PoolAt, Idle
    <3>6. workers[p].free \in 0 .. Threads[p] /\ workers[p].asleep \in 0 .. Threads[p]
      <4>1. Threads[p] \in Nat
        BY SizesAssumption DEF Pools
      <4> QED BY <3>4, <3>5, <4>1
    <3>7. workers[p] \in [free : 0 .. Threads[p], tested : {0, 1}, asleep : 0 .. Threads[p]]
      BY <3>4, <3>6
    <3> QED BY <3>1, <3>3, <3>5, <3>7
  <2> QED BY <2>1, <2>2, <2>3, <2>4 DEF TypeOK
<1> QED BY <1>1, EventInvariant, PTL

\* The tasks of a handler are taken from its queue in the order of publication
\* and at most once for an event, with any number of workers, subscriptions and
\* handlers.
THEOREM EventTakenInOrder == Spec => []TakenInOrder
<1>1. IInv => TakenInOrder
  BY DEF IInv, Order, TakenInv, TakenAt, TakenInOrder
<1> QED BY <1>1, EventInvariant, PTL
=============================================================================
