-------------------------- MODULE PublishAllProofs --------------------------
(***************************************************************************)
(* Proofs about PublishAll, for any number of subscribers, futures, flushes *)
(* and watchers, any queue size and any bound on the publishers.            *)
(***************************************************************************)
EXTENDS PublishAll, Clients, CoreProofs

\* The polls of a when_ready future keep the types.
LEMMA PollTypes ==
    ASSUME TypeOK, NEW f \in Future, PollWhenReady(f)
    PROVE  TypeOK'
  <1>1. CASE PollReady(f)
    BY <1>1 DEF TypeOK, PollReady, CreateSender, Reserve, FutureState, coreVars, Registered
  <1>2. CASE PollBlocked(f)
    <2>1. PICK full \in Blocking(f) :
            WaitFor(f, full, {s \in Wanted(f) : subscribers[s] < subscribers[full]})
      BY <1>2 DEF PollBlocked
    <2> DEFINE passed == {s \in Wanted(f) : subscribers[s] < subscribers[full]}
    <2>2. passed \subseteq Subscriber
      BY DEF TypeOK, Wanted
    <2> HIDE DEF passed
    <2>3. slots' \in [Future -> SUBSET Subscriber]
      BY <2>1, <2>2 DEF TypeOK, WaitFor, passed
    <2>4. reserved' \in [Subscriber -> Nat]
      BY <2>1 DEF TypeOK, WaitFor, Reserve
    <2>5. notify_ready' \in [Subscriber -> SUBSET (Future \cup Flush)]
      BY <2>1 DEF TypeOK, WaitFor
    <2>6. asleep' \subseteq Subscriber \cup Future \cup Flush \cup Watcher
      BY <2>1 DEF TypeOK, WaitFor
    <2> QED
      BY <2>1, <2>3, <2>4, <2>5, <2>6 DEF TypeOK, WaitFor, coreVars, history, Registered
  <1> QED
    BY <1>1, <1>2 DEF PollWhenReady

\* Every step of the specification is one of these, or changes nothing.
LEMMA StepTypes ==
    ASSUME TypeOK, Registry, SlotAccounting, [Next]_vars
    PROVE  TypeOK'
  BY SharedTypes, PollTypes, SenderTypes DEF Next

\* Slots are only reserved where there is room.
ReservesFree(f, R, K) == Reserves(f, R, K) /\ (\A s \in R : ~Full(s)) /\ UNCHANGED waiting

\* The steps of PollReady and PollBlocked reserve; the second never a slot of a full subscriber,
\* since it stops at the first one in the order of the map.
LEMMA PollReserves ==
    ASSUME TypeOK, NEW f \in Future, PollWhenReady(f)
    PROVE  \E R, K : ReservesFree(f, R, K)
  <1>1. CASE PollReady(f)
    <2>1. ReservesFree(f, Wanted(f), Registered)
      BY <1>1 DEF PollReady, CreateSender, ReservesFree, Reserves, Wanted, Blocking, coreVars
    <2> QED
      BY <2>1
  <1>2. CASE PollBlocked(f)
    <2>1. PICK full \in Blocking(f) :
            /\ IsFirst(full, Blocking(f))
            /\ WaitFor(f, full, {s \in Wanted(f) : subscribers[s] < subscribers[full]})
      BY <1>2 DEF PollBlocked
    <2> DEFINE passed == {s \in Wanted(f) : subscribers[s] < subscribers[full]}
    <2>2. ASSUME NEW s \in passed
          PROVE  ~Full(s)
      <3>1. subscribers[s] \in Nat /\ subscribers[full] \in Nat
        BY DEF TypeOK, Wanted, Blocking
      <3>2. s \notin Blocking(f)
        BY <2>1, <3>1 DEF IsFirst
      <3> QED
        BY <3>2 DEF Blocking
    <2>3. ReservesFree(f, passed, slots[f] \cup passed)
      BY <2>1, <2>2 DEF WaitFor, ReservesFree, Reserves, coreVars
    <2> QED
      BY <2>3
  <1> QED
    BY <1>1, <1>2 DEF PollWhenReady

\* Every step keeps the slots, adds a subscriber, reserves slots or releases one.
LEMMA StepKinds ==
    ASSUME TypeOK, Registry, [Next]_vars
    PROVE  \/ Keeps
           \/ \E s \in Subscriber : Joins(s)
           \/ \E f \in Future : \E R, K : ReservesFree(f, R, K)
           \/ \E f \in Future : \E s \in Subscriber : Releases(f, s)
  BY SharedKinds, PollReserves, SenderKinds DEF Next

-----------------------------------------------------------------------------
(* The inductive invariant *)

\* Types, registry and accounting carry each other over every step.
LEMMA StepIInv == IInv /\ [Next]_vars => IInv'
  BY StepTypes, StepKinds, KindsRegistry, KindsAccounting DEF IInv, ReservesFree

\* So they hold always, for every instance of the constants and whatever the clients do.
THEOREM InvariantHolds == Spec => []IInv
  BY InitIInv, StepIInv, PTL DEF Spec

\* Every variable keeps the type the code gives it, in particular `reserved' its usize.
THEOREM TypeCorrect == Spec => []TypeOK
  <1>1. IInv => TypeOK
    BY DEF IInv
  <1> QED
    BY <1>1, InvariantHolds, PTL

\* However the polls, sends and cancellations of any number of publishes interleave, a registered
\* subscriber's `reserved' is the number of futures that hold a slot of it.
THEOREM SlotsAreAccountedFor == Spec => []SlotAccounting
  <1>1. IInv => SlotAccounting
    BY DEF IInv
  <1> QED
    BY <1>1, InvariantHolds, PTL

-----------------------------------------------------------------------------
(* max_queue_size is never exceeded *)

\* A reservation passes over the subscribers that are full.
LEMMA StepBound ==
    ASSUME IInv, QueueBound, [Next]_vars
    PROVE  QueueBound'
  <1>1. TypeOK /\ Registry /\ TypeOK'
    BY StepIInv DEF IInv
  <1>2. \A s \in Subscriber : /\ Len(waiting[s]) \in Nat /\ reserved[s] \in Nat
                              /\ Len(waiting[s]) + reserved[s] <= MaxQueueSize
    BY <1>1 DEF TypeOK, QueueBound, QueueSize
  <1>3. ASSUME NEW f \in Future, NEW R, NEW K, ReservesFree(f, R, K)
        PROVE  QueueBound'
    <2>1. ASSUME NEW t \in Subscriber
          PROVE  Len(waiting'[t]) + reserved'[t] <= MaxQueueSize
      BY <1>2, <1>3, SizesAssumption DEF ReservesFree, Reserves, Reserve, Full, QueueSize
    <2> QED
      BY <2>1 DEF QueueBound, QueueSize
  <1> QED
    BY <1>1, <1>3, StepKinds, KindsBound

\* The queue and the reservations of a subscriber never exceed max_queue_size, although each
\* reservation is made at some poll and used at some later one.
THEOREM QueuesAreBounded == Spec => []QueueBound
  <1>1. Init => QueueBound
    BY SizesAssumption DEF Init, QueueBound, QueueSize
  <1>2. IInv /\ QueueBound /\ [Next]_vars => QueueBound'
    BY StepBound
  <1> QED
    BY <1>1, <1>2, InvariantHolds, PTL DEF Spec

-----------------------------------------------------------------------------
(* A publish that sleeps is registered where the slot it wants can come free *)

\* No step brings a publisher back.
LEMMA PublishersGo ==
    ASSUME TypeOK, [Next]_vars, publisher_count' > 0
    PROVE  publisher_count > 0
  <1>1. ASSUME NEW f \in Future, PollWhenReady(f)
        PROVE  UNCHANGED publisher_count
    BY <1>1 DEF PollWhenReady, PollReady, CreateSender, PollBlocked, WaitFor, coreVars
  <1> QED
    BY <1>1, SharedPublishersGo, SenderPublishersGo DEF Next

Awaits(f, s) == s \in Blocking(f) /\ f \in notify_ready[s]

\* f slept before and each subscriber that it had registered with keeps it registered.
StillAwaits(f) ==
    /\ f \in asleep
    /\ \A s \in Subscriber : Awaits(f, s) => Awaits(f, s)'

\* A step that touches neither the queues nor the registrations.
LEMMA AwaitsSame ==
    ASSUME TypeOK, NEW f \in Future, f \in asleep,
           UNCHANGED <<subscribers, reserved, waiting, slots, notify_ready>>
    PROVE  StillAwaits(f)
  BY DEF StillAwaits, Awaits, Blocking, Wanted, Full, QueueSize, Registered

\* The subscriber stays full if nothing was taken out of its count.
LEMMA AwaitsFuller ==
    ASSUME TypeOK, TypeOK', NEW f \in Future, NEW s \in Subscriber, Awaits(f, s),
           s \in Registered', s \notin slots'[f], f \in notify_ready'[s],
           QueueSize(s)' >= QueueSize(s)
    PROVE  Awaits(f, s)'
  <1>1. QueueSize(s) \in Nat /\ QueueSize(s)' \in Nat
    BY DEF TypeOK, QueueSize
  <1> QED
    BY <1>1, SizesAssumption DEF Awaits, Blocking, Wanted, Full

\* A poll that ends at a full subscriber leaves the future asleep, and registered there.
LEMMA BlockedAwaits ==
    ASSUME TypeOK, TypeOK', NEW f \in Future, PollBlocked(f)
    PROVE  f \in asleep' /\ \E s \in Subscriber : Awaits(f, s)'
  <1>1. PICK full \in Blocking(f) :
          WaitFor(f, full, {s \in Wanted(f) : subscribers[s] < subscribers[full]})
    BY DEF PollBlocked
  <1> DEFINE passed == {s \in Wanted(f) : subscribers[s] < subscribers[full]}
  <1>2. /\ Reserve(passed)
        /\ slots' = [slots EXCEPT ![f] = @ \cup passed]
        /\ notify_ready' = [notify_ready EXCEPT ![full] = @ \cup {f}]
        /\ asleep' = asleep \cup {f}
        /\ UNCHANGED <<subscribers, waiting>>
    BY <1>1 DEF WaitFor, coreVars
  <1>3. full \in Subscriber /\ full \in Registered /\ full \notin slots[f] /\ full \notin passed
    BY DEF Blocking, Wanted, TypeOK
  <1> HIDE DEF passed
  <1>4. full \notin slots'[f] /\ f \in notify_ready'[full] /\ full \in Registered'
    BY <1>2, <1>3 DEF TypeOK, Registered
  <1>5. Full(full)'
    BY <1>2, <1>3 DEF Blocking, Full, QueueSize, Reserve, TypeOK
  <1> QED
    BY <1>2, <1>3, <1>4, <1>5 DEF Awaits, Blocking, Wanted

\* A poll that leaves f asleep has registered it; any other step either wakes f or leaves its
\* registrations as they are, unless it drops the last publisher.
LEMMA SleepersStillAwait ==
    ASSUME IInv, [Next]_vars, ~DropLastPublisher, NEW f \in Future, f \in asleep'
    PROVE  StillAwaits(f) \/ \E s \in Subscriber : Awaits(f, s)'
  <1> DEFINE Goal == StillAwaits(f) \/ \E s \in Subscriber : Awaits(f, s)'
  <1>1. TypeOK /\ TypeOK' /\ Registry
    BY StepIInv DEF IInv
  <1>2. f \notin Subscriber /\ f \notin Flush /\ f \notin Watcher
    BY TasksAssumption
  <1>3. ASSUME NEW s \in Subscriber, NEW b, NEW q, NewSubCore(s, b, q),
               Registered \subseteq Registered'
        PROVE  Goal
    <2>1. /\ f \in asleep /\ stream[s] = "none"
          /\ reserved' = [reserved EXCEPT ![s] = 0] /\ waiting' = [waiting EXCEPT ![s] = q]
          /\ notify_ready' = [notify_ready EXCEPT ![s] = {}] /\ slots' = slots
      BY <1>3 DEF NewSubCore
    <2>2. ASSUME NEW t \in Subscriber, Awaits(f, t)
          PROVE  Awaits(f, t)'
      <3>1. t # s /\ t \in Registered' /\ t \notin slots'[f]
        BY <1>1, <1>3, <2>1, <2>2 DEF Awaits, Blocking, Wanted, Registry
      <3>2. f \in notify_ready'[t] /\ QueueSize(t)' = QueueSize(t)
        BY <1>1, <2>1, <2>2, <3>1 DEF Awaits, QueueSize, TypeOK
      <3>3. QueueSize(t) \in Nat
        BY <1>1 DEF QueueSize, TypeOK
      <3> QED
        BY <1>1, <2>2, <3>1, <3>2, <3>3, AwaitsFuller
    <2> QED
      BY <2>1, <2>2 DEF StillAwaits
  <1>4. ASSUME NEW s \in Subscriber, NEW t \in Subscriber,
               \/ Subscribe(s) \/ WeakSubscribe(s) \/ Resubscribe(t, s)
               \/ ResubscribeClosed(t, s) \/ WeakSubscribeClosed(s)
        PROVE  Goal
    <2>1. CASE Subscribe(s) \/ WeakSubscribe(s) \/ Resubscribe(t, s)
      BY <1>1, <1>3, <2>1, LayoutTypes DEF Subscribe, WeakSubscribe, Resubscribe, Attach
    <2>2. CASE ResubscribeClosed(t, s) \/ WeakSubscribeClosed(s)
      BY <1>3, <2>2 DEF ResubscribeClosed, WeakSubscribeClosed, Registered
    <2> QED
      BY <1>4, <2>1, <2>2
  <1>5. ASSUME NEW s \in Subscriber, notify_ready' = [notify_ready EXCEPT ![s] = {}],
               f \in asleep \ notify_ready[s],
               Registered \ {s} \subseteq Registered',
               \A t \in Subscriber : t # s => QueueSize(t)' = QueueSize(t),
               slots'[f] \subseteq slots[f]
        PROVE  Goal
    <2>1. ASSUME NEW t \in Subscriber, Awaits(f, t)
          PROVE  Awaits(f, t)'
      <3>1. t # s
        BY <1>5, <2>1 DEF Awaits
      <3>2. t \in Registered' /\ t \notin slots'[f] /\ f \in notify_ready'[t]
        BY <1>1, <1>5, <2>1, <3>1 DEF Awaits, Blocking, Wanted, TypeOK
      <3>3. QueueSize(t)' = QueueSize(t) /\ QueueSize(t) \in Nat
        BY <1>1, <1>5, <3>1 DEF TypeOK, QueueSize
      <3> QED
        BY <1>1, <2>1, <3>2, <3>3, AwaitsFuller
    <2> QED
      BY <1>5, <2>1 DEF StillAwaits
  <1>6. ASSUME NEW s \in Subscriber, DropSubscriber(s)
        PROVE  Goal
    <2>1. Registered' = Registered \ {s}
      BY <1>6 DEF DropSubscriber, Detach, Restrict, Registered
    <2> QED
      BY <1>5, <1>6, <2>1 DEF DropSubscriber, Detach, QueueSize
  <1>7. ASSUME NEW s \in Subscriber, PollMessage(s)
        PROVE  Goal
    <2>1. \A t \in Subscriber : t # s => QueueSize(t)' = QueueSize(t)
      BY <1>1, <1>7 DEF PollMessage, TakeMessage, QueueSize, TypeOK
    <2> QED
      BY <1>5, <1>7, <2>1 DEF PollMessage, TakeMessage, coreVars, Registered
  <1>8. ASSUME NEW s \in Subscriber, PollPending(s)
        PROVE  Goal
    BY <1>2, <1>5, <1>8 DEF PollPending, coreVars, Registered, QueueSize
  <1>9. ASSUME NEW s \in Subscriber, PollEnded(s)
        PROVE  Goal
    BY <1>1, <1>9, AwaitsSame DEF PollEnded, coreVars, subVars
  <1>10. ASSUME NEW g \in Future, NEW s \in Subscriber, CancelSend(g, s)
         PROVE  Goal
    <2>1. slots'[f] \subseteq slots[f]
      BY <1>1, <1>10 DEF CancelSend, GiveBack, TypeOK
    <2>2. \A t \in Subscriber : t # s => QueueSize(t)' = QueueSize(t)
      BY <1>1, <1>10 DEF CancelSend, GiveBack, QueueSize, TypeOK
    <2> QED
      BY <1>5, <1>10, <2>1, <2>2 DEF CancelSend, GiveBack, coreVars, Registered
  <1>11. ASSUME NEW g \in Future, NEW s \in Subscriber, SendMessage(g, s)
         PROVE  Goal
    <2>1. /\ reserved' = [reserved EXCEPT ![s] = @ - 1]
          /\ waiting' = [waiting EXCEPT ![s] = Append(@, g)]
          /\ slots' = [slots EXCEPT ![g] = @ \ {s}]
          /\ UNCHANGED <<subscribers, notify_ready, asleep>>
      BY <1>11 DEF SendMessage, Push, coreVars
    <2>2. ASSUME NEW t \in Subscriber, Awaits(f, t)
          PROVE  Awaits(f, t)'
      <3>1. waiting[s] \in Seq(Future) /\ reserved[s] \in Nat /\ reserved'[s] \in Nat
        BY <1>1 DEF TypeOK
      <3>2. QueueSize(t)' = QueueSize(t) /\ QueueSize(t) \in Nat
        <4>1. waiting[t] \in Seq(Future) /\ reserved[t] \in Nat
          BY <1>1 DEF TypeOK
        <4>2. CASE t # s
          BY <1>1, <2>1, <4>1, <4>2 DEF QueueSize, TypeOK
        <4>3. CASE t = s
          <5>1. reserved'[s] = reserved[s] - 1 /\ waiting'[s] = Append(waiting[s], g)
            BY <1>1, <2>1 DEF TypeOK
          <5>2. Len(waiting'[s]) = Len(waiting[s]) + 1
            BY <3>1, <5>1
          <5>3. /\ QueueSize(t) = Len(waiting[s]) + reserved[s]
                /\ QueueSize(t)' = Len(waiting'[s]) + reserved'[s]
            BY <4>3 DEF QueueSize
          <5>4. Len(waiting[s]) \in Nat
            BY <3>1
          <5>5. reserved[s] \in Nat /\ reserved'[s] = reserved[s] - 1
            BY <4>1, <4>3, <5>1
          <5>6. /\ Len(waiting'[s]) + reserved'[s] = Len(waiting[s]) + reserved[s]
                /\ Len(waiting[s]) + reserved[s] \in Nat
            BY <5>2, <5>4, <5>5
          <5> QED
            BY <5>3, <5>6
        <4> QED
          BY <4>2, <4>3
      <3>3. t \in Registered' /\ t \notin slots'[f] /\ f \in notify_ready'[t]
        BY <1>1, <2>1, <2>2 DEF Awaits, Blocking, Wanted, Registered, TypeOK
      <3> QED
        BY <1>1, <2>2, <3>2, <3>3, AwaitsFuller
    <2> QED
      BY <2>1, <2>2 DEF StillAwaits
  <1>12. ASSUME NEW g \in Future, g # f, NEW R, Reserve(R), UNCHANGED waiting,
                \A t \in Subscriber : notify_ready[t] \subseteq notify_ready'[t],
                slots'[f] = slots[f], f \in asleep, UNCHANGED subscribers
         PROVE  Goal
    <2>1. ASSUME NEW t \in Subscriber, Awaits(f, t)
          PROVE  Awaits(f, t)'
      <3>1. QueueSize(t)' >= QueueSize(t)
        BY <1>1, <1>12 DEF Reserve, QueueSize, TypeOK
      <3>2. t \in Registered' /\ t \notin slots'[f] /\ f \in notify_ready'[t]
        BY <1>12, <2>1 DEF Awaits, Blocking, Wanted, Registered
      <3> QED
        BY <1>1, <2>1, <3>1, <3>2, AwaitsFuller
    <2> QED
      BY <1>12, <2>1 DEF StillAwaits
  <1>13. ASSUME NEW g \in Future, PollReady(g)
         PROVE  Goal
    BY <1>1, <1>12, <1>13 DEF PollReady, CreateSender, coreVars, TypeOK
  <1>14. ASSUME NEW g \in Future, PollBlocked(g)
         PROVE  Goal
    <2>1. CASE f = g
      BY <1>1, <1>14, <2>1, BlockedAwaits
    <2>2. CASE f # g
      <3>1. PICK full \in Blocking(g) :
              WaitFor(g, full, {s \in Wanted(g) : subscribers[s] < subscribers[full]})
        BY <1>14 DEF PollBlocked
      <3>2. /\ Reserve({s \in Wanted(g) : subscribers[s] < subscribers[full]})
            /\ slots' = [slots EXCEPT ![g] = @ \cup {s \in Wanted(g) :
                                                       subscribers[s] < subscribers[full]}]
            /\ notify_ready' = [notify_ready EXCEPT ![full] = @ \cup {g}]
            /\ asleep' = asleep \cup {g}
            /\ UNCHANGED <<subscribers, waiting>>
        BY <3>1 DEF WaitFor, coreVars
      <3>3. \A t \in Subscriber : notify_ready[t] \subseteq notify_ready'[t]
        BY <1>1, <3>2 DEF TypeOK
      <3>4. slots'[f] = slots[f] /\ f \in asleep
        BY <1>1, <2>2, <3>2 DEF TypeOK
      <3> QED
        BY <1>12, <2>2, <3>2, <3>3, <3>4
    <2> QED
      BY <2>1, <2>2
  <1>15. CASE Republish \/ DropPublisher \/ DropLastPublisher \/ ReleaseCore
    <2>1. CASE Republish \/ DropPublisher \/ ReleaseCore
      BY <1>1, <2>1, AwaitsSame DEF Republish, DropPublisher, ReleaseCore, subVars, taskVars, TypeOK
    <2>2. CASE DropLastPublisher
      BY <2>2
    <2> QED
      BY <1>15, <2>1, <2>2
  <1>16. ASSUME NEW g \in Future,
                \/ WhenReady(g) \/ WeakWhenReady(g) \/ WeakWhenReadyClosed(g) \/ DropFuture(g)
                \/ SendLock(g) \/ SendUnlock(g) \/ CancelStart(g) \/ CancelEnd(g)
         PROVE  Goal
    BY <1>1, <1>16, AwaitsSame DEF WhenReady, WeakWhenReady, StartFuture, WeakWhenReadyClosed,
       DropFuture, SendLock, SendStart, SendUnlock, SendEnd, CancelStart, CancelEnd, coreVars, subVars
  <1>17. ASSUME NEW e \in Flush,
                \/ WhenEmpty(e) \/ WeakWhenEmpty(e) \/ WeakWhenEmptyClosed(e)
                \/ PollFlushed(e) \/ DropFlush(e)
         PROVE  Goal
    BY <1>1, <1>17, AwaitsSame DEF WhenEmpty, WeakWhenEmpty, StartFlush, WeakWhenEmptyClosed,
       PollFlushed, DropFlush, coreVars, subVars
  <1>18. ASSUME NEW e \in Flush, PollUnflushed(e)
         PROVE  Goal
    <2>1. PICK s : notify_ready' = [notify_ready EXCEPT ![s] = @ \cup {e}]
      BY <1>18 DEF PollUnflushed
    <2>2. \A t \in Subscriber : notify_ready[t] \subseteq notify_ready'[t]
      BY <1>1, <2>1 DEF TypeOK
    <2>3. /\ f \in asleep
          /\ UNCHANGED <<subscribers, reserved, waiting, slots>>
      BY <1>2, <1>18 DEF PollUnflushed, coreVars
    <2> QED
      BY <2>2, <2>3 DEF StillAwaits, Awaits, Blocking, Wanted, Full, QueueSize, Registered
  <1>19. ASSUME NEW c \in Watcher,
                \/ WhenClosed(c) \/ WeakWhenClosed(c) \/ WeakWhenClosedClosed(c)
                \/ PollClosed(c) \/ PollOpen(c) \/ DropWatcher(c)
         PROVE  Goal
    BY <1>1, <1>2, <1>19, AwaitsSame DEF WhenClosed, WeakWhenClosed, StartWatcher,
       WeakWhenClosedClosed, PollClosed, PollOpen, DropWatcher, coreVars, subVars
  <1>20. CASE UNCHANGED vars
    BY <1>1, <1>20, AwaitsSame DEF vars, coreVars, subVars, taskVars
  <1>21. CASE SharedNext
    BY <1>4, <1>6, <1>7, <1>8, <1>9, <1>15, <1>16, <1>17, <1>18, <1>19, <1>21
       DEF SharedNext, PollNext
  <1>22. CASE WeakNext
    BY <1>4, <1>16, <1>17, <1>19, <1>22 DEF WeakNext
  <1>23. CASE \E g \in Future :
                PollWhenReady(g) \/ Sending(g) \/ CancelStart(g) \/ Cancelling(g)
    BY <1>10, <1>11, <1>13, <1>14, <1>16, <1>23 DEF PollWhenReady, Sending, Cancelling
  <1> QED
    BY <1>20, <1>21, <1>22, <1>23 DEF Next

\* While a publisher exists no publish is left asleep with nothing to wake it, however many of them
\* wait for the same slots: it is registered with a full subscriber that it wants a slot of.
THEOREM NoSenderIsStranded == Spec => []SenderNotStranded
  <1>1. Init => SenderNotStranded
    BY DEF Init, SenderNotStranded
  <1>2. IInv /\ SenderNotStranded /\ [Next]_vars => SenderNotStranded'
    <2> SUFFICES ASSUME IInv, SenderNotStranded, [Next]_vars, publisher_count' > 0,
                        NEW f \in asleep' \cap Future
                 PROVE  \E s \in Blocking(f)' : f \in notify_ready'[s]
      BY DEF SenderNotStranded
    <2> ~DropLastPublisher /\ publisher_count > 0
      BY PublishersGo DEF IInv, DropLastPublisher, CloseCore
    <2>1. CASE \E s \in Subscriber : Awaits(f, s)'
      BY <2>1 DEF Awaits
    <2>2. CASE StillAwaits(f)
      <3>1. PICK s \in Blocking(f) : f \in notify_ready[s]
        BY <2>2 DEF SenderNotStranded, StillAwaits
      <3>2. s \in Subscriber
        BY DEF IInv, TypeOK, Blocking, Wanted
      <3> QED
        BY <2>2, <3>1, <3>2 DEF StillAwaits, Awaits
    <2> QED
      BY <2>1, <2>2, SleepersStillAwait
  <1> QED
    BY <1>1, <1>2, InvariantHolds, PTL DEF Spec

-----------------------------------------------------------------------------
(* A stream that sleeps has nothing to return *)

\* Wakers are only collected by a sender that holds the lock, and a sleeping stream is collected
\* already or still registered, which is what a send and the last Drop look at.
Registration(s) == waiting[s] = <<>> /\ published[s] /\ s \in notify_waiting[s]

ReaderInv ==
    /\ CoreUnlocked => wakers = {}
    /\ \A s \in asleep \cap Subscriber : stream[s] = "live" /\ (s \in wakers \/ Registration(s))

\* What drains notify_waiting wakes, or hands over to the sender that will.
LEMMA StepReaderInv ==
    ASSUME IInv, ReaderInv, [Next]_vars
    PROVE  ReaderInv'
  <1>1. TypeOK /\ TypeOK'
    BY StepIInv DEF IInv
  <1>2. /\ \A f \in Future : f \notin Subscriber
        /\ \A e \in Flush : e \notin Subscriber
        /\ \A c \in Watcher : c \notin Subscriber
    BY TasksAssumption
  <1>3. ASSUME UNCHANGED <<published, waiting, notify_waiting, stream, wakers>>,
               CoreUnlocked' => CoreUnlocked, asleep' \cap Subscriber \subseteq asleep
        PROVE  ReaderInv'
    BY <1>3 DEF ReaderInv, Registration
  <1>4. ASSUME UNCHANGED future
        PROVE  CoreUnlocked' => CoreUnlocked
    BY <1>4 DEF CoreUnlocked
  <1>5. ASSUME NEW f \in Future, NEW state, future[f] \notin {"sending", "polling"},
               future' = [future EXCEPT ![f] = state]
        PROVE  CoreUnlocked' => CoreUnlocked
    BY <1>1, <1>5 DEF CoreUnlocked, TypeOK
  <1>6. ASSUME NEW s \in Subscriber, NEW b, NEW q, NewSubCore(s, b, q)
        PROVE  ReaderInv'
    <2>1. /\ stream[s] = "none" /\ stream' = [stream EXCEPT ![s] = "live"]
          /\ published' = [published EXCEPT ![s] = b] /\ waiting' = [waiting EXCEPT ![s] = q]
          /\ notify_waiting' = [notify_waiting EXCEPT ![s] = {}]
          /\ UNCHANGED <<future, wakers, asleep>>
      BY <1>6 DEF NewSubCore
    <2>2. ASSUME NEW t \in asleep \cap Subscriber
          PROVE  stream'[t] = "live" /\ (t \in wakers' \/ Registration(t)')
      <3>1. stream[t] = "live" /\ (t \in wakers \/ Registration(t)) /\ t # s
        BY <2>1 DEF ReaderInv
      <3> QED
        BY <1>1, <2>1, <3>1 DEF Registration, TypeOK
    <2> QED
      BY <1>4, <2>1, <2>2 DEF ReaderInv
  <1>7. ASSUME NEW s \in Subscriber, NEW t \in Subscriber,
               \/ Subscribe(s) \/ WeakSubscribe(s) \/ Resubscribe(t, s)
               \/ ResubscribeClosed(t, s) \/ WeakSubscribeClosed(s)
        PROVE  ReaderInv'
    BY <1>6, <1>7 DEF Subscribe, WeakSubscribe, Resubscribe, Attach, ResubscribeClosed,
       WeakSubscribeClosed
  <1>8. ASSUME NEW s \in Subscriber, DropSubscriber(s)
        PROVE  ReaderInv'
    <2>1. /\ stream' = [stream EXCEPT ![s] = "dropped"]
          /\ asleep' \subseteq asleep \ {s}
          /\ UNCHANGED <<published, waiting, notify_waiting, future, wakers>>
      BY <1>8 DEF DropSubscriber, Detach
    <2>2. ASSUME NEW t \in asleep' \cap Subscriber
          PROVE  stream'[t] = "live" /\ (t \in wakers' \/ Registration(t)')
      BY <1>1, <2>1 DEF ReaderInv, Registration, TypeOK
    <2> QED
      BY <1>4, <2>1, <2>2 DEF ReaderInv
  <1>9. ASSUME NEW s \in Subscriber, PollMessage(s)
        PROVE  ReaderInv'
    <2>1. /\ waiting' = [waiting EXCEPT ![s] = Tail(@)]
          /\ asleep' \subseteq asleep \ {s}
          /\ UNCHANGED <<published, notify_waiting, stream, future, wakers>>
      BY <1>9 DEF PollMessage, TakeMessage
    <2>2. ASSUME NEW t \in asleep' \cap Subscriber
          PROVE  stream'[t] = "live" /\ (t \in wakers' \/ Registration(t)')
      BY <1>1, <2>1 DEF ReaderInv, Registration, TypeOK
    <2> QED
      BY <1>4, <2>1, <2>2 DEF ReaderInv
  <1>10. ASSUME NEW s \in Subscriber, PollPending(s)
         PROVE  ReaderInv'
    <2>1. /\ stream[s] = "live" /\ waiting[s] = <<>> /\ published[s]
          /\ notify_waiting' = [notify_waiting EXCEPT ![s] = @ \cup {s}]
          /\ asleep' \subseteq asleep \cup {s}
          /\ UNCHANGED <<published, waiting, stream, future, wakers>>
      BY <1>10 DEF PollPending
    <2>2. ASSUME NEW t \in asleep' \cap Subscriber
          PROVE  stream'[t] = "live" /\ (t \in wakers' \/ Registration(t)')
      <3>1. CASE t = s
        BY <1>1, <2>1, <3>1 DEF Registration, TypeOK
      <3>2. CASE t # s
        BY <1>1, <2>1, <3>2 DEF ReaderInv, Registration, TypeOK
      <3> QED
        BY <3>1, <3>2
    <2> QED
      BY <1>4, <2>1, <2>2 DEF ReaderInv
  <1>11. ASSUME NEW s \in Subscriber, PollEnded(s)
         PROVE  ReaderInv'
    BY <1>3, <1>4, <1>11 DEF PollEnded, subVars
  <1>12. ASSUME NEW f \in Future, NEW s \in Subscriber, SendMessage(f, s)
         PROVE  ReaderInv'
    <2>1. /\ future[f] = "sending"
          /\ waiting' = [waiting EXCEPT ![s] = Append(@, f)]
          /\ notify_waiting' = [notify_waiting EXCEPT ![s] = {}]
          /\ wakers' = wakers \cup notify_waiting[s]
          /\ UNCHANGED <<published, stream, future, asleep>>
      BY <1>12 DEF SendMessage, Push
    <2>2. ~CoreUnlocked'
      BY <2>1 DEF CoreUnlocked
    <2>3. ASSUME NEW t \in asleep' \cap Subscriber
          PROVE  stream'[t] = "live" /\ (t \in wakers' \/ Registration(t)')
      <3>1. stream[t] = "live" /\ (t \in wakers \/ Registration(t))
        BY <2>1 DEF ReaderInv
      <3>2. CASE t = s
        BY <2>1, <3>1, <3>2 DEF Registration
      <3>3. CASE t # s
        BY <1>1, <2>1, <3>1, <3>3 DEF Registration, TypeOK
      <3> QED
        BY <3>2, <3>3
    <2> QED
      BY <2>2, <2>3 DEF ReaderInv
  <1>13. ASSUME NEW f \in Future, SendUnlock(f)
         PROVE  ReaderInv'
    BY <1>13 DEF SendUnlock, SendEnd, subVars, ReaderInv, Registration
  <1>14. ASSUME NEW f \in Future, SendLock(f)
         PROVE  ReaderInv'
    <2>1. ~CoreUnlocked'
      BY <1>1, <1>14 DEF SendLock, SendStart, CoreUnlocked, TypeOK
    <2> QED
      BY <1>3, <1>14, <2>1 DEF SendLock, SendStart, subVars
  <1>15. ASSUME NEW f \in Future, NEW s \in Subscriber, CancelSend(f, s)
         PROVE  ReaderInv'
    BY <1>3, <1>4, <1>15 DEF CancelSend, GiveBack
  <1>16. ASSUME NEW f \in Future,
                \/ WhenReady(f) \/ WeakWhenReady(f) \/ WeakWhenReadyClosed(f) \/ DropFuture(f)
                \/ CancelStart(f) \/ CancelEnd(f)
         PROVE  ReaderInv'
    <2>1. CASE WhenReady(f) \/ WeakWhenReady(f)
      BY <1>3, <1>5, <2>1 DEF WhenReady, WeakWhenReady, StartFuture, subVars
    <2>2. CASE WeakWhenReadyClosed(f) \/ DropFuture(f)
      BY <1>3, <1>5, <2>2 DEF WeakWhenReadyClosed, DropFuture, subVars
    <2>3. CASE CancelStart(f) \/ CancelEnd(f)
      BY <1>3, <1>5, <2>3 DEF CancelStart, CancelEnd, subVars
    <2> QED
      BY <1>16, <2>1, <2>2, <2>3
  <1>17. ASSUME NEW f \in Future, PollReady(f)
         PROVE  ReaderInv'
    BY <1>3, <1>5, <1>17 DEF PollReady, CreateSender
  <1>18. ASSUME NEW f \in Future, PollBlocked(f)
         PROVE  ReaderInv'
    <2>1. PICK full, passed : WaitFor(f, full, passed)
      BY <1>18 DEF PollBlocked
    <2> QED
      BY <1>2, <1>3, <1>4, <2>1 DEF WaitFor
  <1>19. CASE Republish \/ DropPublisher \/ ReleaseCore
    BY <1>3, <1>4, <1>19 DEF Republish, DropPublisher, ReleaseCore, subVars, taskVars
  <1>20. CASE DropLastPublisher
    <2>1. /\ CoreUnlocked
          /\ published' = [s \in Subscriber |-> published[s] /\ s \notin Registered]
          /\ notify_waiting' =
               [s \in Subscriber |-> IF s \in Registered THEN {} ELSE notify_waiting[s]]
          /\ asleep' = asleep \ ClosingWakers
          /\ UNCHANGED <<waiting, stream, future, wakers>>
      BY <1>20 DEF DropLastPublisher, CloseCore
    <2>2. ASSUME NEW t \in asleep' \cap Subscriber
          PROVE  stream'[t] = "live" /\ (t \in wakers' \/ Registration(t)')
      <3>1. stream[t] = "live" /\ Registration(t)
        BY <2>1 DEF ReaderInv
      <3>2. t \notin Registered
        BY <2>1, <3>1 DEF ClosingWakers, Registration
      <3> QED
        BY <2>1, <3>1, <3>2 DEF Registration
    <2> QED
      BY <1>4, <2>1, <2>2 DEF ReaderInv
  <1>21. ASSUME NEW e \in Flush,
                \/ WhenEmpty(e) \/ WeakWhenEmpty(e) \/ WeakWhenEmptyClosed(e)
                \/ PollFlushed(e) \/ PollUnflushed(e) \/ DropFlush(e)
         PROVE  ReaderInv'
    BY <1>2, <1>3, <1>4, <1>21 DEF WhenEmpty, WeakWhenEmpty, StartFlush, WeakWhenEmptyClosed,
       PollFlushed, PollUnflushed, DropFlush, subVars
  <1>22. ASSUME NEW c \in Watcher,
                \/ WhenClosed(c) \/ WeakWhenClosed(c) \/ WeakWhenClosedClosed(c)
                \/ PollClosed(c) \/ PollOpen(c) \/ DropWatcher(c)
         PROVE  ReaderInv'
    BY <1>2, <1>3, <1>4, <1>22 DEF WhenClosed, WeakWhenClosed, StartWatcher,
       WeakWhenClosedClosed, PollClosed, PollOpen, DropWatcher, subVars
  <1>23. CASE UNCHANGED vars
    BY <1>3, <1>4, <1>23 DEF vars, subVars, taskVars
  <1>24. CASE SharedNext
    BY <1>7, <1>8, <1>9, <1>10, <1>11, <1>16, <1>19, <1>20, <1>21, <1>22, <1>24
       DEF SharedNext, PollNext
  <1>25. CASE WeakNext
    BY <1>7, <1>16, <1>21, <1>22, <1>25 DEF WeakNext
  <1>26. CASE \E f \in Future :
                PollWhenReady(f) \/ Sending(f) \/ CancelStart(f) \/ Cancelling(f)
    BY <1>12, <1>13, <1>14, <1>15, <1>16, <1>17, <1>18, <1>26
       DEF PollWhenReady, Sending, Cancelling
  <1> QED
    BY <1>23, <1>24, <1>25, <1>26 DEF Next

\* However the polls of the readers fall between the pushes of a send and its wake-ups, a stream
\* that sleeps has no message and no end to return, unless its waker is about to be called.
THEOREM NoReaderIsStranded == Spec => []ReaderNotStranded
  <1>1. Init => ReaderInv
    BY DEF Init, ReaderInv
  <1>2. IInv /\ ReaderInv /\ [Next]_vars => ReaderInv'
    BY StepReaderInv
  <1>3. ReaderInv => ReaderNotStranded
    BY DEF ReaderInv, Registration, ReaderNotStranded
  <1> QED
    BY <1>1, <1>2, <1>3, InvariantHolds, PTL DEF Spec

-----------------------------------------------------------------------------
(* A stream ends only after the last publisher is gone *)

\* Only a stream that has lost its publisher can end, and only the last Drop and a clone made
\* without a core leave a stream without one.
EndInv ==
    /\ \A s \in Subscriber : stream[s] = "live" /\ ~published[s] => publisher_count = 0
    /\ EndsOnlyWhenClosed

\* No step but the last Drop lowers publisher_count to 0, and no step raises it again.
LEMMA StepEndInv ==
    ASSUME TypeOK, EndInv, [Next]_vars
    PROVE  EndInv'
  <1>1. ASSUME publisher_count = 0 => publisher_count' = 0, UNCHANGED <<stream, published, ended>>
        PROVE  EndInv'
    BY <1>1 DEF EndInv, EndsOnlyWhenClosed
  <1>2. ASSUME NEW s \in Subscriber, NEW b, NEW q, NewSubCore(s, b, q), b \/ publisher_count = 0
        PROVE  EndInv'
    <2>1. /\ stream' = [stream EXCEPT ![s] = "live"]
          /\ published' = [published EXCEPT ![s] = b]
          /\ UNCHANGED <<publisher_count, ended>>
      BY <1>2 DEF NewSubCore, history
    <2> QED
      BY <1>2, <2>1 DEF EndInv, EndsOnlyWhenClosed, TypeOK
  <1>3. ASSUME NEW s \in Subscriber, NEW t \in Subscriber,
               \/ Subscribe(s) \/ WeakSubscribe(s) \/ Resubscribe(t, s) \/ WeakSubscribeClosed(s)
        PROVE  EndInv'
    BY <1>2, <1>3 DEF Subscribe, WeakSubscribe, Resubscribe, Attach, WeakSubscribeClosed
  <1>4. ASSUME NEW s \in Subscriber, NEW t \in Subscriber, ResubscribeClosed(t, s)
        PROVE  EndInv'
    <2>1. publisher_count = 0
      BY <1>4 DEF ResubscribeClosed, CoreAlive, TypeOK
    <2> QED
      BY <1>2, <1>4, <2>1 DEF ResubscribeClosed
  <1>5. ASSUME NEW s \in Subscriber, DropSubscriber(s)
        PROVE  EndInv'
    BY <1>5 DEF DropSubscriber, Detach, EndInv, EndsOnlyWhenClosed, history, TypeOK
  <1>6. ASSUME NEW s \in Subscriber, PollEnded(s)
        PROVE  EndInv'
    BY <1>6 DEF PollEnded, coreVars, subVars, EndInv, EndsOnlyWhenClosed
  <1>7. ASSUME NEW s \in Subscriber, PollMessage(s) \/ PollPending(s)
        PROVE  EndInv'
    BY <1>1, <1>7 DEF PollMessage, TakeMessage, PollPending, coreVars, history
  <1>8. CASE Republish \/ DropPublisher \/ ReleaseCore
    BY <1>1, <1>8 DEF Republish, DropPublisher, ReleaseCore, subVars, taskVars, history
  <1>9. CASE DropLastPublisher
    BY <1>9 DEF DropLastPublisher, CloseCore, EndInv, EndsOnlyWhenClosed, history
  <1>10. ASSUME NEW f \in Future,
                \/ WhenReady(f) \/ WeakWhenReady(f) \/ WeakWhenReadyClosed(f) \/ DropFuture(f)
                \/ SendLock(f) \/ SendUnlock(f) \/ CancelStart(f) \/ CancelEnd(f)
         PROVE  EndInv'
    BY <1>1, <1>10 DEF WhenReady, WeakWhenReady, StartFuture, WeakWhenReadyClosed, DropFuture,
       SendLock, SendStart, SendUnlock, SendEnd, CancelStart, CancelEnd, coreVars, subVars, history
  <1>11. ASSUME NEW f \in Future, NEW s \in Subscriber, SendMessage(f, s) \/ CancelSend(f, s)
         PROVE  EndInv'
    BY <1>1, <1>11 DEF SendMessage, Push, CancelSend, GiveBack, coreVars, history
  <1>12. ASSUME NEW f \in Future, PollWhenReady(f)
         PROVE  EndInv'
    BY <1>1, <1>12 DEF PollWhenReady, PollReady, CreateSender, PollBlocked, WaitFor, coreVars, history
  <1>13. ASSUME NEW e \in Flush,
                \/ WhenEmpty(e) \/ WeakWhenEmpty(e) \/ WeakWhenEmptyClosed(e)
                \/ PollFlushed(e) \/ PollUnflushed(e) \/ DropFlush(e)
         PROVE  EndInv'
    BY <1>1, <1>13 DEF WhenEmpty, WeakWhenEmpty, StartFlush, WeakWhenEmptyClosed, PollFlushed,
       PollUnflushed, DropFlush, coreVars, subVars, history
  <1>14. ASSUME NEW c \in Watcher,
                \/ WhenClosed(c) \/ WeakWhenClosed(c) \/ WeakWhenClosedClosed(c)
                \/ PollClosed(c) \/ PollOpen(c) \/ DropWatcher(c)
         PROVE  EndInv'
    BY <1>1, <1>14 DEF WhenClosed, WeakWhenClosed, StartWatcher, WeakWhenClosedClosed, PollClosed,
       PollOpen, DropWatcher, coreVars, subVars, history
  <1>15. CASE UNCHANGED vars
    BY <1>1, <1>15 DEF vars, coreVars, subVars, taskVars, history
  <1>16. CASE SharedNext
    BY <1>3, <1>4, <1>5, <1>6, <1>7, <1>8, <1>9, <1>10, <1>13, <1>14, <1>16
       DEF SharedNext, PollNext
  <1>17. CASE WeakNext
    BY <1>3, <1>10, <1>13, <1>14, <1>17 DEF WeakNext
  <1>18. CASE \E f \in Future :
                PollWhenReady(f) \/ Sending(f) \/ CancelStart(f) \/ Cancelling(f)
    BY <1>10, <1>11, <1>12, <1>18 DEF Sending, Cancelling
  <1> QED
    BY <1>15, <1>16, <1>17, <1>18 DEF Next

\* No stream returns None while a strong publisher exists, however they are republished and
\* dropped, and however clones are made meanwhile.
THEOREM StreamsDoNotEndEarly == Spec => []EndsOnlyWhenClosed
  <1>1. Init => EndInv
    BY DEF Init, EndInv, EndsOnlyWhenClosed
  <1>2. IInv /\ EndInv /\ [Next]_vars => EndInv'
    BY StepEndInv DEF IInv
  <1>3. EndInv => EndsOnlyWhenClosed
    BY DEF EndInv
  <1> QED
    BY <1>1, <1>2, <1>3, InvariantHolds, PTL DEF Spec


-----------------------------------------------------------------------------
(* Publishes never wait for each other in a circle *)

\* The clients add subscribers between publishes.  Without that the theorem is false: see README.
OrderedSpec == Init /\ [][Next /\ JoinsBetweenPublishes]_vars

\* Two subscribers have two places in the map, and what a waiting publish holds is what comes
\* before some place: slots are taken in the order of the map, and kept.
PlacesDiffer ==
    \A s, t \in Registered : subscribers[s] = subscribers[t] => s = t

HoldsInOrder(f) ==
    \A s, t \in Registered :
        s \in slots[f] /\ subscribers[t] < subscribers[s] => t \in slots[f]

WaitInv ==
    /\ PlacesDiffer
    /\ \A f \in Future : future[f] = "none" => slots[f] = {}
    /\ \A f \in Future : future[f] = "waiting" => HoldsInOrder(f)

\* Places that stay, and slots of waiting publishes that stay
LEMMA WaitSame ==
    ASSUME TypeOK, WaitInv, Registered' \subseteq Registered,
           \A s \in Registered' : subscribers'[s] = subscribers[s],
           \A f \in Future : future'[f] \in {"none", "waiting"} =>
               slots'[f] = slots[f] /\ future[f] \in {future'[f], "none"}
    PROVE  WaitInv'
  <1>1. PlacesDiffer'
    BY DEF WaitInv, PlacesDiffer
  <1>2. \A f \in Future : future'[f] = "none" => slots'[f] = {}
    BY DEF WaitInv
  <1>3. ASSUME NEW f \in Future, future'[f] = "waiting"
        PROVE  HoldsInOrder(f)'
    <2>1. HoldsInOrder(f) /\ slots'[f] = slots[f]
      BY <1>3 DEF WaitInv, HoldsInOrder
    <2> QED
      BY <2>1 DEF HoldsInOrder
  <1> QED
    BY <1>1, <1>2, <1>3 DEF WaitInv

\* A new subscriber, and the map in whatever new order, while nobody waits
LEMMA WaitJoin ==
    ASSUME IInv, WaitInv, NEW s \in Subscriber, NEW q, Attach(s, q), JoinsBetweenPublishes
    PROVE  WaitInv'
  <1>1. /\ subscribers' \in Layouts(Registered \cup {s}) /\ stream[s] = "none"
        /\ UNCHANGED <<future, slots>>
    BY DEF Attach, NewSubCore
  <1>2. Registered' = Registered \cup {s}
    BY <1>1, LayoutTypes DEF IInv
  <1>3. s \notin Registered
    BY <1>1 DEF IInv, Registry
  <1>4. \A f \in Future : future[f] # "waiting"
    BY <1>2, <1>3 DEF JoinsBetweenPublishes, NoPublishWaits
  <1>5. PlacesDiffer'
    BY <1>1, <1>2 DEF PlacesDiffer, Layouts, Injection, IsInjective
  <1> QED
    BY <1>1, <1>4, <1>5 DEF WaitInv

\* A poll that stops takes the slots of all that come before the place where it stops.
LEMMA WaitBlocked ==
    ASSUME TypeOK, WaitInv, NEW f \in Future, PollBlocked(f)
    PROVE  WaitInv'
  <1>1. PICK full \in Blocking(f) :
          WaitFor(f, full, {s \in Wanted(f) : subscribers[s] < subscribers[full]})
    BY DEF PollBlocked
  <1>2. /\ slots' = [slots EXCEPT
                       ![f] = @ \cup {s \in Wanted(f) : subscribers[s] < subscribers[full]}]
        /\ future[f] = "waiting" /\ UNCHANGED <<subscribers, future>>
    BY <1>1 DEF WaitFor, coreVars
  <1>3. \A s \in Registered : subscribers[s] \in Nat
    BY DEF TypeOK
  <1>4. full \in Registered
    BY DEF Blocking, Wanted
  <1>5. HoldsInOrder(f)'
    <2> SUFFICES ASSUME NEW s \in Registered, NEW t \in Registered,
                        s \in slots'[f], subscribers[t] < subscribers[s]
                 PROVE  t \in slots'[f]
      BY <1>2 DEF HoldsInOrder, Registered
    <2>1. slots'[f] = slots[f] \cup {u \in Wanted(f) : subscribers[u] < subscribers[full]}
      BY <1>2 DEF TypeOK
    <2>2. CASE s \in slots[f]
      BY <1>2, <2>1, <2>2 DEF WaitInv, HoldsInOrder
    <2>3. CASE subscribers[s] < subscribers[full]
      <3>1. subscribers[t] < subscribers[full]
        BY <1>3, <1>4, <2>3
      <3> QED
        BY <2>1, <3>1 DEF Wanted
    <2> QED
      BY <2>1, <2>2, <2>3
  <1>6. \A g \in Future : g # f => slots'[g] = slots[g]
    BY <1>2 DEF TypeOK
  <1>7. ASSUME NEW g \in Future, future'[g] = "waiting"
        PROVE  HoldsInOrder(g)'
    <2>1. CASE g = f
      BY <1>5, <2>1
    <2>2. CASE g # f
      BY <1>2, <1>6, <1>7, <2>2 DEF WaitInv, HoldsInOrder, Registered
    <2> QED
      BY <2>1, <2>2
  <1>8. \A g \in Future : future'[g] = "none" => slots'[g] = {}
    BY <1>2, <1>6 DEF WaitInv
  <1> QED
    BY <1>2, <1>7, <1>8 DEF WaitInv, PlacesDiffer, Registered

\* The other steps leave the slots of waiting publishes, and the places of those that stay.
LEMMA StepWaitInv ==
    ASSUME IInv, WaitInv, [Next /\ JoinsBetweenPublishes]_vars
    PROVE  WaitInv'
  <1>1. TypeOK /\ Registry
    BY DEF IInv
  <1>2. ASSUME UNCHANGED <<subscribers, future, slots>>
        PROVE  WaitInv'
    BY <1>1, <1>2, WaitSame DEF Registered
  <1>3. ASSUME NEW s \in Subscriber, NEW t \in Subscriber, JoinsBetweenPublishes,
               Subscribe(s) \/ WeakSubscribe(s) \/ Resubscribe(t, s)
        PROVE  WaitInv'
    BY <1>3, WaitJoin DEF Subscribe, WeakSubscribe, Resubscribe
  <1>4. ASSUME NEW s \in Subscriber, NEW t \in Subscriber,
               \/ ResubscribeClosed(t, s) \/ WeakSubscribeClosed(s) \/ PollNext(s)
        PROVE  WaitInv'
    BY <1>2, <1>4 DEF ResubscribeClosed, WeakSubscribeClosed, NewSubCore, PollNext, PollMessage,
       TakeMessage, PollEnded, PollPending, coreVars
  <1>5. ASSUME NEW s \in Subscriber, DropSubscriber(s)
        PROVE  WaitInv'
    <2>1. Registered' \subseteq Registered /\ \A t \in Registered' : subscribers'[t] = subscribers[t]
      BY <1>5 DEF DropSubscriber, Detach, Restrict, Registered
    <2>2. UNCHANGED <<future, slots>>
      BY <1>5 DEF DropSubscriber, Detach
    <2> QED
      BY <1>1, <2>1, <2>2, WaitSame
  <1>6. CASE \/ Republish \/ DropPublisher \/ DropLastPublisher \/ ReleaseCore
             \/ UNCHANGED vars
    BY <1>2, <1>6 DEF Republish, DropPublisher, DropLastPublisher, CloseCore, ReleaseCore,
       taskVars, vars, coreVars
  <1>7. ASSUME NEW f \in Future, NEW state, UNCHANGED <<subscribers, slots>>,
               future' = [future EXCEPT ![f] = state],
               state = "waiting" => future[f] = "none", state # "none"
        PROVE  WaitInv'
    BY <1>1, <1>7, WaitSame DEF TypeOK, Registered
  <1>8. ASSUME NEW f \in Future,
               \/ WhenReady(f) \/ WeakWhenReady(f) \/ WeakWhenReadyClosed(f) \/ DropFuture(f)
               \/ SendLock(f) \/ SendUnlock(f) \/ CancelStart(f) \/ CancelEnd(f)
        PROVE  WaitInv'
    <2>1. CASE WhenReady(f) \/ WeakWhenReady(f) \/ WeakWhenReadyClosed(f) \/ DropFuture(f)
      BY <1>7, <2>1 DEF WhenReady, WeakWhenReady, StartFuture, WeakWhenReadyClosed, DropFuture,
         coreVars
    <2>2. CASE SendLock(f) \/ SendUnlock(f) \/ CancelStart(f) \/ CancelEnd(f)
      BY <1>7, <2>2 DEF SendLock, SendStart, SendUnlock, SendEnd, CancelStart, CancelEnd, coreVars
    <2> QED
      BY <1>8, <2>1, <2>2
  <1>9. ASSUME NEW f \in Future, NEW s \in Subscriber, SendMessage(f, s) \/ CancelSend(f, s)
        PROVE  WaitInv'
    <2>1. /\ future[f] \in {"sending", "cancelling"} /\ UNCHANGED <<subscribers, future>>
          /\ slots' = [slots EXCEPT ![f] = @ \ {s}]
      BY <1>9 DEF SendMessage, Push, CancelSend, GiveBack, coreVars
    <2> QED
      BY <1>1, <2>1, WaitSame DEF TypeOK, Registered
  <1>10. ASSUME NEW f \in Future, PollReady(f)
         PROVE  WaitInv'
    <2>1. /\ UNCHANGED subscribers
          /\ future' = [future EXCEPT ![f] = "ready"]
          /\ slots' = [slots EXCEPT ![f] = Registered]
      BY <1>10 DEF PollReady, CreateSender, coreVars
    <2> QED
      BY <1>1, <2>1, WaitSame DEF TypeOK, Registered
  <1>11. ASSUME NEW f \in Future, PollBlocked(f)
         PROVE  WaitInv'
    BY <1>1, <1>11, WaitBlocked
  <1>12. ASSUME NEW e \in Flush,
                \/ WhenEmpty(e) \/ WeakWhenEmpty(e) \/ WeakWhenEmptyClosed(e)
                \/ PollFlushed(e) \/ PollUnflushed(e) \/ DropFlush(e)
         PROVE  WaitInv'
    BY <1>2, <1>12 DEF WhenEmpty, WeakWhenEmpty, StartFlush, WeakWhenEmptyClosed,
       PollFlushed, PollUnflushed, DropFlush, coreVars
  <1>13. ASSUME NEW c \in Watcher,
                \/ WhenClosed(c) \/ WeakWhenClosed(c) \/ WeakWhenClosedClosed(c)
                \/ PollClosed(c) \/ PollOpen(c) \/ DropWatcher(c)
         PROVE  WaitInv'
    BY <1>2, <1>13 DEF WhenClosed, WeakWhenClosed, StartWatcher, WeakWhenClosedClosed,
       PollClosed, PollOpen, DropWatcher, coreVars
  <1>14. CASE SharedNext /\ JoinsBetweenPublishes
    BY <1>3, <1>4, <1>5, <1>6, <1>8, <1>12, <1>13, <1>14 DEF SharedNext
  <1>15. CASE WeakNext /\ JoinsBetweenPublishes
    BY <1>3, <1>4, <1>8, <1>12, <1>13, <1>15 DEF WeakNext
  <1>16. CASE \E f \in Future :
                PollWhenReady(f) \/ Sending(f) \/ CancelStart(f) \/ Cancelling(f)
    BY <1>8, <1>9, <1>10, <1>11, <1>16 DEF PollWhenReady, Sending, Cancelling
  <1> QED
    BY <1>6, <1>14, <1>15, <1>16 DEF Next

\* In a circle, somebody waits at the last of the places that are waited at.  Its slots are held,
\* as there is at least one, by publishes that wait at a later place still.
LEMMA NoCircle ==
    ASSUME IInv, WaitInv, MaxQueueSize > 0, NEW F \in SUBSET Future
    PROVE  ~WaitCycle(F)
  <1> SUFFICES ASSUME WaitCycle(F)
               PROVE  FALSE
    OBVIOUS
  <1> DEFINE WaitedAt == {s \in Registered : \E f \in F :
                            s \in Wanted(f) /\ Full(s) /\ f \in notify_ready[s]}
             Later(s) == {t \in Registered : subscribers[t] > subscribers[s]}
             Nested == StrictSubsetOrdering(Registered)
             Laters == {Later(s) : s \in WaitedAt}
  <1>1. \A s \in Registered : subscribers[s] \in Nat
    BY DEF IInv, TypeOK
  <1>2. WaitedAt # {}
    BY DEF WaitCycle, Wanted
  <1>3. PICK s \in WaitedAt : \A t \in WaitedAt : ~(<<Later(t), Later(s)>> \in Nested)
    <2>1. FiniteSubsetsOf(Registered) = SUBSET Registered
      BY FS_FiniteSubsetsOfFinite DEF IInv, Registry
    <2>2. Laters \subseteq FiniteSubsetsOf(Registered) /\ Laters # {}
      <3>1. \A t : Later(t) \in SUBSET Registered
        OBVIOUS
      <3> HIDE DEF Later, WaitedAt
      <3> QED
        BY <1>2, <2>1, <3>1
    <2>3. IsWellFoundedOn(Nested, FiniteSubsetsOf(Registered))
      BY FS_StrictSubsetOrderingWellFounded
    <2> HIDE DEF Laters, Nested
    <2>4. \E L \in Laters : \A M \in Laters : ~(<<M, L>> \in Nested)
      BY <2>2, <2>3, WFMin
    <2> QED
      BY <2>4 DEF Laters
  <1>4. PICK f \in F : s \in Wanted(f) /\ Full(s) /\ f \in notify_ready[s]
    OBVIOUS
  <1>5. waiting[s] = <<>> /\ Holders(s) \subseteq F
    BY <1>4 DEF WaitCycle
  <1>6. Holders(s) # {}
    <2>1. s \in Subscriber /\ s \in Registered
      BY DEF IInv, TypeOK
    <2>2. reserved[s] >= MaxQueueSize /\ reserved[s] \in Nat
      BY <1>4, <1>5, <2>1 DEF Full, QueueSize, IInv, TypeOK
    <2>3. Cardinality(Holders(s)) # 0
      BY <2>1, <2>2, SizesAssumption DEF IInv, SlotAccounting
    <2> QED
      BY <2>3, FS_EmptySet
  <1>7. PICK g \in F : s \in slots[g]
    BY <1>5, <1>6 DEF Holders
  <1>8. future[g] = "waiting"
    BY <1>7 DEF WaitCycle
  <1>9. PICK t \in WaitedAt : t \in Wanted(g)
    BY <1>7 DEF WaitCycle, Wanted
  <1>10. subscribers[t] > subscribers[s]
    <2>1. s # t /\ ~(subscribers[t] < subscribers[s])
      BY <1>7, <1>8, <1>9 DEF WaitInv, HoldsInOrder, Wanted
    <2>2. subscribers[s] # subscribers[t]
      BY <2>1 DEF WaitInv, PlacesDiffer
    <2> QED
      BY <1>1, <2>1, <2>2
  <1>11. Later(t) \subseteq Later(s) /\ t \in Later(s) /\ t \notin Later(t)
    BY <1>1, <1>10
  <1>12. <<Later(t), Later(s)>> \in Nested
    BY <1>11 DEF StrictSubsetOrdering
  <1> QED
    BY <1>3, <1>12

\* Publishes that reserve slots in the order of the map never wait for nothing but each other, if
\* subscribers join between publishes and each has room for a message (with no room at all a publish
\* waits for ever by itself).
THEOREM NobodyWaitsInACircle == MaxQueueSize > 0 /\ OrderedSpec => []NoWaitCycle
  <1> DEFINE WInv == MaxQueueSize > 0 /\ IInv /\ WaitInv
  <1>1. MaxQueueSize > 0 /\ Init => WInv
    BY InitIInv DEF Init, WaitInv, PlacesDiffer, HoldsInOrder, Registered
  <1>2. WInv /\ [Next /\ JoinsBetweenPublishes]_vars => WInv'
    BY StepWaitInv, StepIInv
  <1>3. WInv => NoWaitCycle
    BY NoCircle DEF NoWaitCycle
  <1> QED
    BY <1>1, <1>2, <1>3, PTL DEF OrderedSpec
=============================================================================
