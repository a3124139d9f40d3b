--------------------------- MODULE ExpiringProofs ---------------------------
(***************************************************************************)
(* Proofs about PublishExpiring, for any number of subscribers, futures,    *)
(* flushes and watchers, any queue size and any bound on the publishers.    *)
(***************************************************************************)
EXTENDS PublishExpiring, CoreProofs, SequenceTheorems

Passed(f, jam) == {s \in Wanted(f) : subscribers[s] < subscribers[jam]}

\* A poll that stops, in terms of the subscriber that it stops at
StopsAt(f, jam) ==
    /\ jam \in Jammed(f) /\ jam \in Registered
    /\ future[f] = "waiting" /\ CoreUnlocked
    /\ \A s \in Passed(f, jam) : s \notin Jammed(f)
    /\ Reserve(Passed(f, jam))
    /\ ExpireOldest(Passed(f, jam))
    /\ slots' = [slots EXCEPT ![f] = @ \cup Passed(f, jam)]
    /\ notify_ready' = [notify_ready EXCEPT ![jam] = @ \cup {f}]
    /\ notify_waiting' = [notify_waiting EXCEPT ![jam] = @ \cup {f}]
    /\ asleep' = asleep \cup {f}
    /\ UNCHANGED <<coreVars, published, stream, future, flush, watcher, wakers, history>>

\* It stops at the first subscriber that is jammed, and makes room on the way there.
LEMMA BlockedStops ==
    ASSUME TypeOK, NEW f \in Future, PollBlocked(f)
    PROVE  \E jam \in Subscriber : StopsAt(f, jam)
  <1>1. PICK jam \in Jammed(f) :
          /\ WaitFor(f, jam)
          /\ notify_waiting' = [notify_waiting EXCEPT ![jam] = @ \cup {f}]
    BY DEF PollBlocked
  <1>2. jam \in Registered /\ jam \in Subscriber
    BY DEF Jammed, Wanted, TypeOK
  <1>3. ASSUME NEW s \in Passed(f, jam), s \in Jammed(f)
        PROVE  FALSE
    <2>1. subscribers[s] \in Nat /\ subscribers[jam] \in Nat
      BY <1>2 DEF TypeOK, Passed, Wanted
    <2>2. subscribers[jam] <= subscribers[s] /\ subscribers[s] < subscribers[jam]
      BY <1>1, <1>3 DEF WaitFor, IsFirst, Passed
    <2> QED
      BY <2>1, <2>2
  <1>4. /\ Reserve(Passed(f, jam)) /\ ExpireOldest(Passed(f, jam))
        /\ slots' = [slots EXCEPT ![f] = @ \cup Passed(f, jam)]
        /\ notify_ready' = [notify_ready EXCEPT ![jam] = @ \cup {f}]
        /\ asleep' = asleep \cup {f}
        /\ future[f] = "waiting" /\ CoreUnlocked
        /\ UNCHANGED <<coreVars, published, stream, future, flush, watcher, wakers, history>>
    BY <1>1 DEF WaitFor, Passed
  <1> QED
    BY <1>1, <1>2, <1>3, <1>4 DEF StopsAt

\* A poll that gets its sender has made room everywhere.
Readies(f) ==
    /\ future[f] = "waiting" /\ CoreUnlocked /\ Jammed(f) = {}
    /\ Reserve(Wanted(f))
    /\ ExpireOldest(Wanted(f))
    /\ future' = [future EXCEPT ![f] = "ready"]
    /\ slots' = [slots EXCEPT ![f] = Registered]
    /\ audience' = [audience EXCEPT ![f] = Registered]
    /\ asleep' = asleep \ {f}
    /\ UNCHANGED <<coreVars, published, notify_waiting, notify_ready, stream, flush,
                   watcher, wakers, received, ended>>

\* PollReady in these terms.
LEMMA ReadyReadies ==
    ASSUME NEW f \in Future, PollReady(f)
    PROVE  Readies(f)
  BY DEF PollReady, CreateSender, Readies

\* What expires is the first message of a full queue that has one: the queues stay queues of
\* messages, no longer than they were, and shorter where there was no room.
LEMMA ExpiryTypes ==
    ASSUME TypeOK, NEW R, ExpireOldest(R)
    PROVE  /\ waiting' \in [Subscriber -> Seq(Future)]
           /\ \A s \in Subscriber :
                /\ waiting'[s] = waiting[s] \/ (waiting[s] # <<>> /\ waiting'[s] = Tail(waiting[s]))
                /\ Len(waiting'[s]) <= Len(waiting[s])
                /\ s \in R /\ Full(s) /\ waiting[s] # <<>> =>
                     waiting'[s] = Tail(waiting[s]) /\ Len(waiting'[s]) + 1 = Len(waiting[s])
                /\ ~(s \in R /\ Full(s)) => waiting'[s] = waiting[s]
  <1> SUFFICES ASSUME NEW s \in Subscriber
               PROVE  /\ waiting'[s] \in Seq(Future)
                      /\ waiting'[s] = waiting[s] \/
                           (waiting[s] # <<>> /\ waiting'[s] = Tail(waiting[s]))
                      /\ Len(waiting'[s]) <= Len(waiting[s])
                      /\ s \in R /\ Full(s) /\ waiting[s] # <<>> =>
                           waiting'[s] = Tail(waiting[s]) /\ Len(waiting'[s]) + 1 = Len(waiting[s])
                      /\ ~(s \in R /\ Full(s)) => waiting'[s] = waiting[s]
    BY DEF ExpireOldest
  <1>1. waiting[s] \in Seq(Future) /\ Len(waiting[s]) \in Nat
    BY DEF TypeOK
  <1>2. waiting'[s] = IF s \in R /\ Full(s) THEN Tail(waiting[s]) ELSE waiting[s]
    BY DEF ExpireOldest
  <1>3. Len(waiting[s]) <= Len(waiting[s])
    BY <1>1
  <1>4. CASE waiting[s] = <<>>
    <2>1. Tail(waiting[s]) = waiting[s]
      BY <1>4
    <2> QED
      BY <1>1, <1>2, <1>3, <1>4, <2>1
  <1>5. CASE waiting[s] # <<>>
    <2>1. Tail(waiting[s]) \in Seq(Future) /\ Len(Tail(waiting[s])) + 1 = Len(waiting[s])
      BY <1>1, <1>5
    <2>2. Len(Tail(waiting[s])) <= Len(waiting[s])
      BY <1>1, <1>5
    <2> QED
      BY <1>1, <1>2, <1>3, <1>5, <2>1, <2>2
  <1> QED
    BY <1>4, <1>5

\* The polls keep the types.
LEMMA PollTypes ==
    ASSUME TypeOK, NEW f \in Future, PollWhenReady(f)
    PROVE  TypeOK'
  <1>1. CASE PollReady(f)
    <2>1. Readies(f)
      BY <1>1, ReadyReadies
    <2>2. waiting' \in [Subscriber -> Seq(Future)]
      BY <2>1, ExpiryTypes DEF Readies
    <2>3. reserved' \in [Subscriber -> Nat]
      BY <2>1 DEF Readies, Reserve, TypeOK
    <2>4. slots' \in [Future -> SUBSET Subscriber] /\ audience' \in [Future -> SUBSET Subscriber]
      BY <2>1 DEF Readies, TypeOK
    <2>5. future' \in [Future -> FutureState] /\ asleep' \subseteq asleep
      BY <2>1 DEF Readies, TypeOK, FutureState
    <2> QED
      BY <2>1, <2>2, <2>3, <2>4, <2>5 DEF Readies, TypeOK, coreVars, Registered
  <1>2. CASE PollBlocked(f)
    <2>1. PICK jam \in Subscriber : StopsAt(f, jam)
      BY <1>2, BlockedStops
    <2>2. waiting' \in [Subscriber -> Seq(Future)]
      BY <2>1, ExpiryTypes DEF StopsAt
    <2>3. Passed(f, jam) \subseteq Subscriber
      BY DEF Passed, Wanted, TypeOK
    <2>4. reserved' \in [Subscriber -> Nat]
      BY <2>1 DEF StopsAt, Reserve, TypeOK
    <2>5. slots' \in [Future -> SUBSET Subscriber]
      BY <2>1, <2>3 DEF StopsAt, TypeOK
    <2>6. notify_ready' \in [Subscriber -> SUBSET (Future \cup Flush)]
      BY <2>1 DEF StopsAt, TypeOK
    <2>7. notify_waiting' \in [Subscriber -> SUBSET (Subscriber \cup Future)]
      BY <2>1 DEF StopsAt, TypeOK
    <2>8. asleep' \subseteq Subscriber \cup Future \cup Flush \cup Watcher
      BY <2>1 DEF StopsAt, TypeOK
    <2> QED
      BY <2>1, <2>2, <2>4, <2>5, <2>6, <2>7, <2>8 DEF StopsAt, TypeOK, coreVars, history, Registered
  <1> QED
    BY <1>1, <1>2 DEF PollWhenReady

\* So does every step.
LEMMA StepTypes ==
    ASSUME TypeOK, Registry, SlotAccounting, [Next]_vars
    PROVE  TypeOK'
  BY SharedTypes, PollTypes, SenderTypes DEF Next

\* Slots are reserved where there is room, or where a message can expire, which it then does.
ReservesRoom(f, R, K) ==
    /\ Reserves(f, R, K)
    /\ \A s \in R : Full(s) => waiting[s] # <<>>
    /\ ExpireOldest(R)

\* That is what the polls do.
LEMMA PollReserves ==
    ASSUME TypeOK, NEW f \in Future, PollWhenReady(f)
    PROVE  \E R, K : ReservesRoom(f, R, K)
  <1>1. CASE PollReady(f)
    <2>1. ReservesRoom(f, Wanted(f), Registered)
      BY <1>1, ReadyReadies DEF Readies, ReservesRoom, Reserves, Wanted, Jammed, coreVars
    <2> QED
      BY <2>1
  <1>2. CASE PollBlocked(f)
    <2>1. PICK jam \in Subscriber : StopsAt(f, jam)
      BY <1>2, BlockedStops
    <2>2. ReservesRoom(f, Passed(f, jam), slots[f] \cup Passed(f, jam))
      BY <2>1 DEF StopsAt, ReservesRoom, Reserves, Passed, Jammed, coreVars
    <2> QED
      BY <2>2
  <1> QED
    BY <1>1, <1>2 DEF PollWhenReady

\* Every step keeps the slots, adds a subscriber, reserves slots or releases one.
LEMMA StepKinds ==
    ASSUME TypeOK, Registry, [Next]_vars
    PROVE  \/ Keeps
           \/ \E s \in Subscriber : Joins(s)
           \/ \E f \in Future : \E R, K : ReservesRoom(f, R, K)
           \/ \E f \in Future : \E s \in Subscriber : Releases(f, s)
  BY SharedKinds, PollReserves, SenderKinds DEF Next

\* Types, registry and accounting carry each other over every step.
LEMMA StepIInv == IInv /\ [Next]_vars => IInv'
  BY StepTypes, StepKinds, KindsRegistry, KindsAccounting DEF IInv, ReservesRoom

\* So they hold always: an expiring publisher's `reserved', too, is the number of futures that hold
\* a slot, whatever expires between their polls.
THEOREM InvariantHolds == Spec => []IInv
  BY InitIInv, StepIInv, PTL DEF Spec

-----------------------------------------------------------------------------
(* max_queue_size is never exceeded *)

\* A reservation in a full queue takes the place of the message that expires.
LEMMA StepBound ==
    ASSUME IInv, QueueBound, [Next]_vars
    PROVE  QueueBound'
  <1>1. TypeOK /\ Registry /\ TypeOK'
    BY StepIInv DEF IInv
  <1>2. \A s \in Subscriber : /\ Len(waiting[s]) \in Nat /\ reserved[s] \in Nat
                              /\ Len(waiting[s]) + reserved[s] <= MaxQueueSize
                              /\ Len(waiting'[s]) \in Nat
    BY <1>1 DEF TypeOK, QueueBound, QueueSize
  <1>3. ASSUME NEW f \in Future, NEW R, NEW K, ReservesRoom(f, R, K)
        PROVE  QueueBound'
    <2> SUFFICES ASSUME NEW t \in Subscriber
                 PROVE  Len(waiting'[t]) + reserved'[t] <= MaxQueueSize
      BY DEF QueueBound, QueueSize
    <2>1. /\ Len(waiting'[t]) <= Len(waiting[t])
          /\ t \in R /\ Full(t) /\ waiting[t] # <<>> => Len(waiting'[t]) + 1 = Len(waiting[t])
      BY <1>1, <1>3, ExpiryTypes DEF ReservesRoom
    <2>2. /\ reserved'[t] = IF t \in R THEN reserved[t] + 1 ELSE reserved[t]
          /\ t \in R /\ Full(t) => waiting[t] # <<>>
      BY <1>3 DEF ReservesRoom, Reserves, Reserve
    <2>3. CASE t \in R /\ Full(t)
      BY <1>2, <2>1, <2>2, <2>3, SizesAssumption
    <2>4. CASE t \in R /\ ~Full(t)
      <3>1. Len(waiting[t]) + reserved[t] < MaxQueueSize
        BY <1>2, <2>4, SizesAssumption DEF Full, QueueSize
      <3> QED
        BY <1>2, <2>1, <2>2, <2>4, <3>1, SizesAssumption
    <2>5. CASE t \notin R
      BY <1>2, <2>1, <2>2, <2>5, SizesAssumption
    <2> QED
      BY <2>3, <2>4, <2>5
  <1> QED
    BY <1>1, <1>3, StepKinds, KindsBound

\* An expiring publisher's queues, with what is reserved in them, never exceed max_queue_size.
THEOREM QueuesAreBounded == Spec => []QueueBound
  <1>1. Init => QueueBound
    BY SizesAssumption DEF Init, QueueBound, QueueSize
  <1>2. IInv /\ QueueBound /\ [Next]_vars => QueueBound'
    BY StepBound
  <1> QED
    BY <1>1, <1>2, InvariantHolds, PTL DEF Spec

-----------------------------------------------------------------------------
(* A publish that sleeps is registered where the slot it wants can come free *)

Waits(f, s) == s \in Jammed(f) /\ f \in notify_ready[s] \cap notify_waiting[s]

\* f slept before, and wherever it is registered it stays so, unless a sender has come for it.
Stays(f) ==
    /\ f \in asleep
    /\ f \in wakers => f \in wakers'
    /\ \A s \in Subscriber : Waits(f, s) => Waits(f, s)' \/ f \in wakers'

\* A subscriber whose lists, queue and count are left alone stays jammed.
LEMMA WaitsOn ==
    ASSUME NEW f \in Future, NEW s \in Subscriber, Waits(f, s),
           s \in Registered', s \notin slots'[f],
           f \in notify_ready'[s], f \in notify_waiting'[s],
           waiting'[s] = waiting[s], reserved'[s] = reserved[s]
    PROVE  Waits(f, s)'
  BY DEF Waits, Jammed, Wanted, Full, QueueSize

\* A step that touches neither queues nor lists
LEMMA StaysSame ==
    ASSUME NEW f \in Future, f \in asleep,
           UNCHANGED <<subscribers, reserved, waiting, slots, notify_ready, notify_waiting, wakers>>
    PROVE  Stays(f)
  BY DEF Stays, Waits, Jammed, Wanted, Full, QueueSize, Registered

\* A step that clears the lists of one subscriber, and has woken or collected who was there
LEMMA StaysElsewhere ==
    ASSUME TypeOK, NEW f \in Future, f \in asleep, NEW s \in Subscriber, NEW R, NEW W,
           Waits(f, s) => f \in wakers', wakers \subseteq wakers',
           notify_ready' = notify_ready \/ notify_ready' = [notify_ready EXCEPT ![s] = R],
           notify_waiting' = notify_waiting \/ notify_waiting' = [notify_waiting EXCEPT ![s] = W],
           Registered \ {s} \subseteq Registered', slots'[f] \subseteq slots[f],
           \A t \in Subscriber : t # s => waiting'[t] = waiting[t] /\ reserved'[t] = reserved[t]
    PROVE  Stays(f)
  <1> SUFFICES ASSUME NEW t \in Subscriber, Waits(f, t), t # s
               PROVE  Waits(f, t)'
    BY DEF Stays
  <1>1. f \in notify_ready'[t] /\ f \in notify_waiting'[t]
    BY DEF Waits, TypeOK
  <1>2. t \in Registered' /\ t \notin slots'[f]
    BY DEF Waits, Jammed, Wanted
  <1> QED
    BY <1>1, <1>2, WaitsOn

\* A poll leaves the jammed subscribers alone, those that others wait for included.
LEMMA PollStays ==
    ASSUME TypeOK, TypeOK', NEW f \in Future, NEW g \in Future, PollWhenReady(g), f \in asleep'
    PROVE  Stays(f) \/ \E s \in Subscriber : Waits(f, s)'
  <1>1. ASSUME NEW s \in Subscriber, NEW R, Waits(f, s), f # g,
               s \in R => s \in Wanted(g) /\ s \notin Jammed(g),
               Reserve(R), ExpireOldest(R)
        PROVE  waiting'[s] = waiting[s] /\ reserved'[s] = reserved[s]
    <2>1. s \notin R
      BY <1>1 DEF Waits, Jammed
    <2> QED
      BY <1>1, <2>1, ExpiryTypes DEF Reserve
  <1>2. CASE PollReady(g)
    <2>1. Readies(g)
      BY <1>2, ReadyReadies
    <2>2. f # g /\ f \in asleep /\ UNCHANGED <<subscribers, notify_ready, notify_waiting, wakers>>
      BY <2>1 DEF Readies, coreVars
    <2>3. ASSUME NEW s \in Subscriber, Waits(f, s)
          PROVE  Waits(f, s)'
      <3>1. waiting'[s] = waiting[s] /\ reserved'[s] = reserved[s]
        BY <1>1, <2>1, <2>2, <2>3 DEF Readies
      <3>2. slots'[f] = slots[f] /\ Registered' = Registered
        BY <2>1, <2>2 DEF Readies, TypeOK, Registered
      <3> QED
        BY <2>2, <2>3, <3>1, <3>2, WaitsOn DEF Waits, Jammed, Wanted
    <2> QED
      BY <2>2, <2>3 DEF Stays
  <1>3. CASE PollBlocked(g)
    <2>1. PICK jam \in Subscriber : StopsAt(g, jam)
      BY <1>3, BlockedStops
    <2>2. /\ notify_ready' = [notify_ready EXCEPT ![jam] = @ \cup {g}]
          /\ notify_waiting' = [notify_waiting EXCEPT ![jam] = @ \cup {g}]
          /\ slots' = [slots EXCEPT ![g] = @ \cup Passed(g, jam)]
          /\ asleep' = asleep \cup {g}
          /\ Registered' = Registered /\ wakers' = wakers
      BY <2>1 DEF StopsAt, coreVars, Registered
    <2>3. CASE f = g
      <3>1. jam \notin Passed(g, jam)
        BY <2>1 DEF StopsAt
      <3>2. waiting'[jam] = waiting[jam] /\ reserved'[jam] = reserved[jam]
        BY <2>1, <3>1, ExpiryTypes DEF StopsAt, Reserve
      <3>3. jam \notin slots'[g] /\ jam \in Registered' /\ jam \in Jammed(g)
        BY <2>1, <2>2, <3>1 DEF StopsAt, Jammed, Wanted, TypeOK
      <3>4. jam \in Jammed(g)'
        BY <3>2, <3>3 DEF Jammed, Wanted, Full, QueueSize
      <3>5. g \in notify_ready'[jam] /\ g \in notify_waiting'[jam]
        BY <2>2 DEF TypeOK
      <3> QED
        BY <2>3, <3>4, <3>5 DEF Waits
    <2>4. CASE f # g
      <3>1. ASSUME NEW s \in Subscriber, Waits(f, s)
            PROVE  Waits(f, s)'
        <4>1. waiting'[s] = waiting[s] /\ reserved'[s] = reserved[s]
          BY <1>1, <2>1, <2>4, <3>1 DEF StopsAt, Passed
        <4>2. slots'[f] = slots[f]
          BY <2>2, <2>4 DEF TypeOK
        <4>3. f \in notify_ready'[s] /\ f \in notify_waiting'[s]
          BY <2>2, <3>1 DEF Waits, TypeOK
        <4> QED
          BY <2>2, <3>1, <4>1, <4>2, <4>3, WaitsOn DEF Waits, Jammed, Wanted
      <3> QED
        BY <2>2, <2>4, <3>1 DEF Stays
    <2> QED
      BY <2>3, <2>4
  <1> QED
    BY <1>2, <1>3 DEF PollWhenReady

\* A sender collects those it makes room for before it lets go of the lock, or wakes them itself.
LEMMA SenderStays ==
    ASSUME TypeOK, NEW f \in Future, NEW g \in Future, f \in asleep',
           Sending(g) \/ CancelStart(g) \/ Cancelling(g)
    PROVE  Stays(f) \/ (f \notin wakers /\ \A s \in Subscriber : Waits(f, s) => Waits(f, s)')
  <1>1. CASE SendLock(g) \/ CancelStart(g) \/ CancelEnd(g)
    BY <1>1, StaysSame DEF SendLock, SendStart, CancelStart, CancelEnd, coreVars, subVars
  <1>2. ASSUME NEW s \in Subscriber, SendMessage(g, s)
        PROVE  Stays(f)
    <2>1. /\ notify_waiting' = [notify_waiting EXCEPT ![s] = {}]
          /\ wakers' = wakers \cup notify_waiting[s]
          /\ slots' = [slots EXCEPT ![g] = @ \ {s}]
          /\ reserved' = [reserved EXCEPT ![s] = @ - 1]
          /\ waiting' = [waiting EXCEPT ![s] = Append(@, g)]
          /\ UNCHANGED <<subscribers, notify_ready, asleep>>
      BY <1>2 DEF SendMessage, Push, coreVars
    <2>2. slots'[f] \subseteq slots[f] /\ Registered' = Registered
      BY <2>1 DEF TypeOK, Registered
    <2>3. \A t \in Subscriber : t # s => waiting'[t] = waiting[t] /\ reserved'[t] = reserved[t]
      BY <2>1 DEF TypeOK
    <2> QED
      BY <2>1, <2>2, <2>3, StaysElsewhere DEF Waits
  <1>3. CASE SendUnlock(g)
    BY <1>3 DEF SendUnlock, SendEnd, subVars, coreVars, Waits, Jammed, Wanted, Full, QueueSize,
       Registered
  <1>4. ASSUME NEW s \in Subscriber, CancelSend(g, s)
        PROVE  Stays(f)
    <2>1. /\ notify_ready' = [notify_ready EXCEPT ![s] = {}]
          /\ asleep' = asleep \ notify_ready[s]
          /\ slots' = [slots EXCEPT ![g] = @ \ {s}]
          /\ reserved' = [reserved EXCEPT ![s] = @ - 1]
          /\ UNCHANGED <<subscribers, waiting, notify_waiting, wakers>>
      BY <1>4 DEF CancelSend, GiveBack, coreVars
    <2>2. slots'[f] \subseteq slots[f] /\ Registered' = Registered
      BY <2>1 DEF TypeOK, Registered
    <2>3. \A t \in Subscriber : t # s => waiting'[t] = waiting[t] /\ reserved'[t] = reserved[t]
      BY <2>1 DEF TypeOK
    <2> QED
      BY <2>1, <2>2, <2>3, StaysElsewhere DEF Waits
  <1> QED
    BY <1>1, <1>2, <1>3, <1>4 DEF Sending, Cancelling

\* Who drains a list of a subscriber wakes those in it, and the last Drop wakes those that read as
\* well as those that publish, since both are in notify_waiting.
LEMMA SharedStays ==
    ASSUME TypeOK, Registry, NEW f \in Future, f \in asleep', SharedNext \/ UNCHANGED vars
    PROVE  Stays(f)
  <1>1. f \notin Subscriber /\ f \notin Flush /\ f \notin Watcher
    BY TasksAssumption
  <1>2. ASSUME NEW s \in Subscriber, NEW b, NEW q, NewSubCore(s, b, q), Registered \subseteq Registered'
        PROVE  Stays(f)
    <2>1. /\ f \in asleep /\ stream[s] = "none"
          /\ reserved' = [reserved EXCEPT ![s] = 0] /\ waiting' = [waiting EXCEPT ![s] = q]
          /\ notify_waiting' = [notify_waiting EXCEPT ![s] = {}]
          /\ notify_ready' = [notify_ready EXCEPT ![s] = {}]
          /\ UNCHANGED <<slots, wakers>>
      BY <1>2 DEF NewSubCore
    <2>2. ~Waits(f, s)
      BY <2>1 DEF Waits, Jammed, Wanted, Registry
    <2>3. \A t \in Subscriber : t # s => waiting'[t] = waiting[t] /\ reserved'[t] = reserved[t]
      BY <2>1 DEF TypeOK
    <2> QED
      BY <1>2, <2>1, <2>2, <2>3, StaysElsewhere
  <1>3. ASSUME NEW s \in Subscriber, NEW t \in Subscriber,
               Subscribe(s) \/ Resubscribe(t, s) \/ ResubscribeClosed(t, s)
        PROVE  Stays(f)
    <2>1. CASE Subscribe(s) \/ Resubscribe(t, s)
      BY <1>2, <2>1, LayoutTypes DEF Subscribe, Resubscribe, Attach
    <2>2. CASE ResubscribeClosed(t, s)
      BY <1>2, <2>2 DEF ResubscribeClosed, Registered
    <2> QED
      BY <1>3, <2>1, <2>2
  <1>4. ASSUME NEW s \in Subscriber, DropSubscriber(s)
        PROVE  Stays(f)
    <2>1. /\ notify_ready' = [notify_ready EXCEPT ![s] = {}]
          /\ asleep' = asleep \ (notify_ready[s] \cup {s})
          /\ UNCHANGED <<reserved, waiting, notify_waiting, slots, wakers>>
      BY <1>4 DEF DropSubscriber, Detach
    <2>2. Registered \ {s} \subseteq Registered'
      BY <1>4 DEF DropSubscriber, Detach, Restrict, Registered
    <2> QED
      BY <2>1, <2>2, StaysElsewhere DEF Waits
  <1>5. ASSUME NEW s \in Subscriber, PollMessage(s)
        PROVE  Stays(f)
    <2>1. /\ notify_ready' = [notify_ready EXCEPT ![s] = {}]
          /\ asleep' = asleep \ (notify_ready[s] \cup {s})
          /\ waiting' = [waiting EXCEPT ![s] = Tail(@)]
          /\ UNCHANGED <<subscribers, reserved, notify_waiting, slots, wakers>>
      BY <1>5 DEF PollMessage, TakeMessage, coreVars
    <2>2. \A t \in Subscriber : t # s => waiting'[t] = waiting[t] /\ reserved'[t] = reserved[t]
      BY <2>1 DEF TypeOK
    <2>3. Registered \ {s} \subseteq Registered'
      BY <2>1 DEF Registered
    <2> QED
      BY <2>1, <2>2, <2>3, StaysElsewhere DEF Waits
  <1>6. ASSUME NEW s \in Subscriber, PollPending(s)
        PROVE  Stays(f)
    <2>1. /\ notify_ready' = [notify_ready EXCEPT ![s] = {}]
          /\ notify_waiting' = [notify_waiting EXCEPT ![s] = @ \cup {s}]
          /\ asleep' = (asleep \ notify_ready[s]) \cup {s}
          /\ UNCHANGED <<subscribers, reserved, waiting, slots, wakers>>
      BY <1>6 DEF PollPending, coreVars
    <2>2. f \in asleep /\ ~Waits(f, s) /\ Registered' = Registered
      BY <1>1, <2>1 DEF Waits, Registered
    <2> QED
      BY <2>1, <2>2, StaysElsewhere
  <1>7. ASSUME NEW s \in Subscriber, PollEnded(s)
        PROVE  Stays(f)
    BY <1>1, <1>7, StaysSame DEF PollEnded, coreVars, subVars
  <1>8. CASE Republish \/ DropPublisher \/ ReleaseCore \/ UNCHANGED vars
    BY <1>8, StaysSame DEF Republish, DropPublisher, ReleaseCore, subVars, taskVars, vars, coreVars
  <1>9. CASE DropLastPublisher
    <2>1. /\ asleep' = asleep \ ClosingWakers
          /\ UNCHANGED wakers
      BY <1>9 DEF DropLastPublisher, CloseCore
    <2>2. \A s \in Subscriber : ~Waits(f, s)
      BY <2>1 DEF Waits, Jammed, Wanted, ClosingWakers
    <2> QED
      BY <2>1, <2>2 DEF Stays
  <1>10. ASSUME NEW g \in Future, WhenReady(g) \/ DropFuture(g)
         PROVE  Stays(f)
    BY <1>10, StaysSame DEF WhenReady, StartFuture, DropFuture, coreVars, subVars
  <1>11. ASSUME NEW e \in Flush, WhenEmpty(e) \/ PollFlushed(e) \/ DropFlush(e)
         PROVE  Stays(f)
    BY <1>1, <1>11, StaysSame DEF WhenEmpty, StartFlush, PollFlushed, DropFlush, coreVars, subVars
  <1>12. ASSUME NEW e \in Flush, PollUnflushed(e)
         PROVE  Stays(f)
    <2>1. PICK s : /\ s \in NonEmpty
                   /\ notify_ready' = [notify_ready EXCEPT ![s] = @ \cup {e}]
      BY <1>12 DEF PollUnflushed
    <2>2. /\ f \in asleep
          /\ UNCHANGED <<subscribers, reserved, waiting, slots, notify_waiting, wakers>>
      BY <1>1, <1>12 DEF PollUnflushed, coreVars
    <2>3. \A t \in Subscriber : f \in notify_ready[t] => f \in notify_ready'[t]
      BY <2>1 DEF TypeOK
    <2> QED
      BY <2>2, <2>3 DEF Stays, Waits, Jammed, Wanted, Full, QueueSize, Registered
  <1>13. ASSUME NEW c \in Watcher, WhenClosed(c) \/ PollClosed(c) \/ PollOpen(c) \/ DropWatcher(c)
         PROVE  Stays(f)
    BY <1>1, <1>13, StaysSame DEF WhenClosed, StartWatcher, PollClosed, PollOpen, DropWatcher,
       coreVars, subVars
  <1> QED
    BY <1>3, <1>4, <1>5, <1>6, <1>7, <1>8, <1>9, <1>10, <1>11, <1>12, <1>13 DEF SharedNext, PollNext

\* A publish that sleeps waits for a sender: whatever is read, pushed, cancelled, dropped, expired or
\* closed meanwhile, either its waker has been collected or it is still registered, twice over, with
\* a subscriber all of whose slots are reserved.
THEOREM NoSenderIsStranded == Spec => []SenderNotStranded
  <1>1. Init => SenderNotStranded
    BY DEF Init, SenderNotStranded
  <1>2. IInv /\ SenderNotStranded /\ [Next]_vars => SenderNotStranded'
    <2> SUFFICES ASSUME IInv, SenderNotStranded, [Next]_vars, NEW f \in Future, f \in asleep'
                 PROVE  f \in wakers' \/ \E s \in Subscriber : Waits(f, s)'
      BY DEF SenderNotStranded, Waits
    <2>1. TypeOK /\ Registry /\ TypeOK'
      BY StepIInv DEF IInv
    <2>2. f \in asleep => f \in wakers \/ \E s \in Subscriber : Waits(f, s)
      <3>1. \A s \in Jammed(f) : s \in Subscriber
        BY <2>1 DEF Jammed, Wanted, TypeOK
      <3> QED
        BY <3>1 DEF SenderNotStranded, Waits
    <2>3. CASE Stays(f)
      BY <2>2, <2>3 DEF Stays
    <2>4. CASE SharedNext \/ UNCHANGED vars
      BY <2>1, <2>3, <2>4, SharedStays
    <2>5. ASSUME NEW g \in Future, PollWhenReady(g), ~Stays(f)
          PROVE  \E s \in Subscriber : Waits(f, s)'
      BY <2>1, <2>5, PollStays
    <2>6. ASSUME NEW g \in Future, Sending(g) \/ CancelStart(g) \/ Cancelling(g), ~Stays(f)
          PROVE  \E s \in Subscriber : Waits(f, s)'
      <3>1. f \notin wakers /\ \A s \in Subscriber : Waits(f, s) => Waits(f, s)'
        BY <2>1, <2>6, SenderStays
      <3>2. f \in asleep
        BY <2>6 DEF Sending, SendLock, SendStart, SendMessage, Push, SendUnlock, SendEnd, CancelStart,
           Cancelling, CancelSend, GiveBack, CancelEnd
      <3> QED
        BY <2>2, <3>1, <3>2
    <2> QED
      BY <2>3, <2>4, <2>5, <2>6 DEF Next
  <1> QED
    BY <1>1, <1>2, InvariantHolds, PTL DEF Spec

-----------------------------------------------------------------------------
(* What the subscribers got, and what they missed *)

\* A poll leaves the lock and takes no more than the first message out of a queue.
LEMMA PollSenderInv ==
    ASSUME TypeOK, SenderInv, NEW f \in Future, PollWhenReady(f)
    PROVE  SenderInv'
  <1>1. CASE PollReady(f)
    <2>1. /\ future' = [future EXCEPT ![f] = "ready"]
          /\ slots' = [slots EXCEPT ![f] = Registered]
          /\ audience' = [audience EXCEPT ![f] = Registered]
      BY <1>1, ReadyReadies DEF Readies
    <2>2. \A g \in Future : /\ future'[g] = "sending" => future[g] = "sending"
                            /\ future'[g] # "polling"
      BY <2>1 DEF TypeOK, SenderInv
    <2>3. \A g \in Future : future'[g] = "ready" => slots'[g] = audience'[g]
      BY <2>1 DEF SenderInv, TypeOK
    <2> QED
      BY <2>2, <2>3 DEF SenderInv
  <1>2. CASE PollBlocked(f)
    <2>1. PICK jam \in Subscriber : StopsAt(f, jam)
      BY <1>2, BlockedStops
    <2>2. /\ future[f] = "waiting" /\ UNCHANGED <<future, audience>>
          /\ slots' = [slots EXCEPT ![f] = @ \cup Passed(f, jam)]
      BY <2>1 DEF StopsAt, history
    <2>3. \A g \in Future : future'[g] = "ready" => slots'[g] = audience'[g]
      BY <2>2 DEF SenderInv, TypeOK
    <2> QED
      BY <2>2, <2>3 DEF SenderInv
  <1> QED
    BY <1>1, <1>2 DEF PollWhenReady

\* What a poll does to the futures and the queues
LEMMA PollEffects ==
    ASSUME TypeOK, NEW f \in Future, PollWhenReady(f)
    PROVE  \E R \in SUBSET Wanted(f) :
             /\ ReservesRoom(f, R, slots'[f])
             /\ CoreUnlocked /\ future[f] = "waiting"
             /\ future'[f] \in {"waiting", "ready"}
             /\ future'[f] = "waiting" => audience'[f] = audience[f]
             /\ future'[f] = "ready" => slots'[f] = Registered /\ audience'[f] = Registered
             /\ \A g \in Future \ {f} :
                  future'[g] = future[g] /\ slots'[g] = slots[g] /\ audience'[g] = audience[g]
             /\ UNCHANGED <<received, stream, subscribers>>
  <1>1. CASE PollReady(f)
    <2>1. Readies(f)
      BY <1>1, ReadyReadies
    <2>2. /\ ReservesRoom(f, Wanted(f), Registered) /\ slots'[f] = Registered
          /\ UNCHANGED <<received, stream, subscribers>>
          /\ CoreUnlocked /\ future[f] = "waiting"
      BY <2>1 DEF Readies, ReservesRoom, Reserves, Wanted, Jammed, coreVars, TypeOK
    <2>3. /\ future'[f] = "ready" /\ audience'[f] = Registered
          /\ \A g \in Future \ {f} :
               future'[g] = future[g] /\ slots'[g] = slots[g] /\ audience'[g] = audience[g]
      BY <2>1 DEF Readies, TypeOK
    <2> QED
      BY <2>2, <2>3
  <1>2. CASE PollBlocked(f)
    <2>1. PICK jam \in Subscriber : StopsAt(f, jam)
      BY <1>2, BlockedStops
    <2>2. slots'[f] = slots[f] \cup Passed(f, jam) /\ Passed(f, jam) \subseteq Wanted(f)
      BY <2>1 DEF StopsAt, Passed, TypeOK
    <2>3. ReservesRoom(f, Passed(f, jam), slots'[f])
      BY <2>1, <2>2 DEF StopsAt, ReservesRoom, Reserves, Passed, Jammed, coreVars
    <2>4. \A g \in Future \ {f} : slots'[g] = slots[g]
      BY <2>1 DEF StopsAt, TypeOK
    <2>5. /\ UNCHANGED <<received, stream, subscribers, future, audience>>
          /\ CoreUnlocked /\ future[f] = "waiting"
      BY <2>1 DEF StopsAt, coreVars, history
    <2> QED
      BY <2>2, <2>3, <2>4, <2>5
  <1> QED
    BY <1>1, <1>2 DEF PollWhenReady

\* What a poll takes out of the queues leaves them in order.
LEMMA PollOrder ==
    ASSUME TypeOK, TypeOK', OrderInv, NEW f \in Future, PollWhenReady(f)
    PROVE  OrderInv' /\ \A s \in Subscriber : Thinned(Delivered(s)', Delivered(s))
  <1>1. PICK R \in SUBSET Wanted(f) :
          /\ ReservesRoom(f, R, slots'[f])
          /\ CoreUnlocked /\ future[f] = "waiting"
          /\ future'[f] \in {"waiting", "ready"}
          /\ future'[f] = "waiting" => audience'[f] = audience[f]
          /\ future'[f] = "ready" => slots'[f] = Registered /\ audience'[f] = Registered
          /\ \A g \in Future \ {f} :
               future'[g] = future[g] /\ slots'[g] = slots[g] /\ audience'[g] = audience[g]
          /\ UNCHANGED <<received, stream, subscribers>>
    BY PollEffects
  <1>2. ASSUME NEW s \in Subscriber
        PROVE  Thinned(Delivered(s)', Delivered(s))
    <2> DEFINE r == received[s]
               w == waiting[s]
    <2>1. r \in Seq(Future) /\ w \in Seq(Future)
      BY DEF TypeOK
    <2>2. received'[s] = r /\ (waiting'[s] = w \/ (w # <<>> /\ waiting'[s] = Tail(w)))
      BY <1>1, ExpiryTypes DEF ReservesRoom
    <2> HIDE DEF r, w
    <2>3. r \o w \in Seq(Future)
      BY <2>1, ConcatFacts
    <2>4. Thinned(r \o w, r \o w) /\ (w # <<>> => Thinned(r \o Tail(w), r \o w))
      BY <2>1, <2>3, ThinnedFacts
    <2> QED
      BY <2>2, <2>4 DEF Delivered, r, w
  <1>3. \A g \in Future : Proceeds(g)
    BY <1>1 DEF Proceeds
  <1>4. KeepsStreamsMade
    BY <1>1 DEF KeepsStreamsMade
  <1> QED
    BY <1>2, <1>3, <1>4, ThinnedOrder

\* One sender at a time, one order, nobody gets a message twice.
LEMMA StepOrder ==
    ASSUME IInv, SenderInv, OrderInv, [Next]_vars
    PROVE  SenderInv' /\ OrderInv'
  <1>1. TypeOK /\ TypeOK'
    BY StepIInv DEF IInv
  <1>2. CASE SharedNext \/ UNCHANGED vars
    BY <1>1, <1>2, SharedSenderInv, SharedDeliveries, KindsOrder
  <1>3. ASSUME NEW f \in Future, PollWhenReady(f)
        PROVE  SenderInv' /\ OrderInv'
    BY <1>1, <1>3, PollSenderInv, PollOrder
  <1>4. ASSUME NEW f \in Future, Sending(f) \/ CancelStart(f) \/ Cancelling(f)
        PROVE  SenderInv' /\ OrderInv'
    BY <1>1, <1>4, SenderSenderInv, SenderDeliveries, KindsOrder
  <1> QED
    BY <1>2, <1>3, <1>4 DEF Next

\* Who a message is for is settled when its sender is created.  A sender holds slots of those only,
\* and while it has the lock all that it has served have its message.
AudienceInv ==
    /\ \A f \in Future : future[f] \in {"none", "waiting"} => audience[f] = {}
    /\ \A f \in Future :
         future[f] \in {"ready", "sending", "cancelling"} => slots[f] \subseteq audience[f]
    /\ \A f \in Future : future[f] = "sent" => slots[f] = {}
    /\ \A f \in Future : \A s \in audience[f] : stream[s] # "none"
    /\ \A f \in Future : future[f] = "sending" => \A s \in audience[f] \ slots[f] : Has(s, f)

\* A stream that was cloned has the messages that it was cloned with first, and then its own.
OwnLast ==
    \A s \in Subscriber : \A i, j \in DOMAIN waiting[s] :
        i < j /\ s \in audience[waiting[s][i]] => s \in audience[waiting[s][j]]

\* What s was to get and did not; what s has had to hold a slot for.
Missed(s) == {f \in Future : future[f] = "sent" /\ s \in audience[f] /\ ~Has(s, f)}
Counted(s) == {f \in Future : s \in slots[f] \cup audience[f]}

\* All losses are those of messages whose send is over.
LEMMA LostIsMissed ==
    ASSUME TypeOK, OrderInv, AudienceInv, NEW s \in Subscriber
    PROVE  Lost(s) = Missed(s)
  <1> SUFFICES ASSUME NEW f \in Future
               PROVE  f \in Lost(s) <=> f \in Missed(s)
    BY DEF Lost, Missed
  <1>1. Occurrences(f, Delivered(s)) = 0 <=> ~Has(s, f)
    BY OccursOnce DEF OrderInv
  <1> QED
    BY <1>1 DEF Lost, Missed, AudienceInv

\* The steps that neither add a subscriber nor push nor expire: queues are read, futures move on, and
\* cancelled slots go.
MovesOn(f) ==
    /\ future'[f] \in {"none", "waiting"} => future[f] \in {"none", "waiting"}
    /\ future'[f] = "ready" => future[f] = "ready"
    /\ future'[f] = "sending" =>
         future[f] = "sending" \/ (future[f] = "ready" /\ slots[f] = audience[f])
    /\ future'[f] = "cancelling" => future[f] \in {"ready", "cancelling"}
    /\ future'[f] = "sent" => future[f] = "sent" \/ (future[f] = "sending" /\ slots[f] = {})
    /\ \/ slots'[f] = slots[f]
       \/ /\ future[f] = "cancelling" /\ future'[f] = "cancelling"
          /\ slots'[f] \subseteq slots[f]

Calm ==
    /\ \A s \in Subscriber :
         /\ Delivered(s)' = Delivered(s)
         /\ waiting'[s] = waiting[s] \/ (waiting[s] # <<>> /\ waiting'[s] = Tail(waiting[s]))
         /\ stream[s] # "none" => stream'[s] # "none"
    /\ UNCHANGED audience
    /\ Registered' \subseteq Registered
    /\ \A f \in Future : MovesOn(f)

\* Who joins is new, and starts with nothing or with a copy of a queue.
Clones(s) ==
    /\ stream[s] = "none" /\ stream'[s] = "live"
    /\ Registered' \subseteq Registered \cup {s}
    /\ waiting'[s] = <<>> \/ \E u \in Subscriber : waiting'[s] = waiting[u]
    /\ \A t \in Subscriber \ {s} : waiting'[t] = waiting[t] /\ stream'[t] = stream[t]
    /\ UNCHANGED <<received, future, slots, audience>>

\* Steps that touch no queue and move no future
LEMMA CalmSame ==
    ASSUME UNCHANGED <<waiting, received, stream, future, slots, audience, subscribers>>
    PROVE  Calm
  BY DEF Calm, MovesOn, Delivered, Registered

\* Steps that move one future
LEMMA CalmFuture ==
    ASSUME TypeOK, SenderInv, NEW f \in Future, NEW state, future' = [future EXCEPT ![f] = state],
           \/ state = "waiting" /\ future[f] = "none"
           \/ state \in {"dropped", "cancelled", "void"}
           \/ state = "sending" /\ future[f] = "ready"
           \/ state = "cancelling" /\ future[f] = "ready"
           \/ state = "sent" /\ future[f] = "sending" /\ slots[f] = {},
           UNCHANGED <<waiting, received, stream, slots, audience, subscribers>>
    PROVE  Calm
  <1>1. \A g \in Future : MovesOn(g)
    BY DEF MovesOn, TypeOK, SenderInv
  <1> QED
    BY <1>1 DEF Calm, Delivered, Registered

\* The shared steps are calm, or add a subscriber.
LEMMA SharedCalm ==
    ASSUME TypeOK, Registry, SenderInv, SharedNext \/ UNCHANGED vars
    PROVE  Calm \/ \E s \in Subscriber : Clones(s)
  <1>1. ASSUME NEW s \in Subscriber, NEW b, NEW q, NewSubCore(s, b, q),
               q = <<>> \/ \E u \in Subscriber : q = waiting[u],
               Registered' \subseteq Registered \cup {s}
        PROVE  Clones(s)
    BY <1>1 DEF NewSubCore, Clones, history, TypeOK
  <1>2. ASSUME NEW s \in Subscriber, NEW t \in Subscriber,
               Subscribe(s) \/ Resubscribe(t, s) \/ ResubscribeClosed(t, s)
        PROVE  Clones(s)
    <2>1. CASE Subscribe(s) \/ Resubscribe(t, s)
      BY <1>1, <2>1, LayoutTypes DEF Subscribe, Resubscribe, Attach
    <2>2. CASE ResubscribeClosed(t, s)
      BY <1>1, <2>2 DEF ResubscribeClosed, Registered
    <2> QED
      BY <1>2, <2>1, <2>2
  <1>3. ASSUME NEW s \in Subscriber, DropSubscriber(s)
        PROVE  Calm
    <2>1. Registered' \subseteq Registered
      BY <1>3 DEF DropSubscriber, Detach, Restrict, Registered
    <2>2. /\ \A t \in Subscriber : stream[t] # "none" => stream'[t] # "none"
          /\ UNCHANGED <<waiting, received, future, slots, audience>>
      BY <1>3 DEF DropSubscriber, Detach, history, TypeOK
    <2> QED
      BY <2>1, <2>2 DEF Calm, MovesOn, Delivered
  <1>4. ASSUME NEW s \in Subscriber, PollMessage(s)
        PROVE  Calm
    <2>1. \A t \in Subscriber : Delivered(t)' = Delivered(t)
      BY <1>4, ReadDelivers DEF DeliversNothing
    <2>2. \A t \in Subscriber :
            waiting'[t] = waiting[t] \/ (waiting[t] # <<>> /\ waiting'[t] = Tail(waiting[t]))
      BY <1>4 DEF PollMessage, TakeMessage, TypeOK
    <2>3. UNCHANGED <<stream, future, slots, audience, subscribers>>
      BY <1>4 DEF PollMessage, TakeMessage, coreVars
    <2> QED
      BY <2>1, <2>2, <2>3 DEF Calm, MovesOn, Registered
  <1>5. ASSUME NEW s \in Subscriber, PollEnded(s) \/ PollPending(s)
        PROVE  Calm
    BY <1>5, CalmSame DEF PollEnded, PollPending, coreVars, subVars, history
  <1>6. CASE Republish \/ DropPublisher \/ DropLastPublisher \/ ReleaseCore \/ UNCHANGED vars
    BY <1>6, CalmSame DEF Republish, DropPublisher, DropLastPublisher, CloseCore, ReleaseCore,
       subVars, taskVars, history, vars, coreVars
  <1>7. ASSUME NEW f \in Future, WhenReady(f) \/ DropFuture(f)
        PROVE  Calm
    BY <1>7, CalmFuture DEF WhenReady, StartFuture, DropFuture, coreVars, subVars, history
  <1>8. ASSUME NEW e \in Flush, WhenEmpty(e) \/ PollFlushed(e) \/ PollUnflushed(e) \/ DropFlush(e)
        PROVE  Calm
    BY <1>8, CalmSame DEF WhenEmpty, StartFlush, PollFlushed, PollUnflushed, DropFlush, coreVars,
       subVars, history
  <1>9. ASSUME NEW c \in Watcher, WhenClosed(c) \/ PollClosed(c) \/ PollOpen(c) \/ DropWatcher(c)
        PROVE  Calm
    BY <1>9, CalmSame DEF WhenClosed, StartWatcher, PollClosed, PollOpen, DropWatcher, coreVars,
       subVars, history
  <1> QED
    BY <1>2, <1>3, <1>4, <1>5, <1>6, <1>7, <1>8, <1>9 DEF SharedNext, PollNext

\* A sender's steps are calm, but for its pushes.
LEMMA SenderCalm ==
    ASSUME TypeOK, SenderInv, NEW f \in Future, Sending(f) \/ CancelStart(f) \/ Cancelling(f)
    PROVE  Calm \/ \E s \in Subscriber : SendMessage(f, s) /\ UNCHANGED subscribers
  <1>1. CASE SendLock(f) \/ SendUnlock(f) \/ CancelStart(f) \/ CancelEnd(f)
    BY <1>1, CalmFuture DEF SendLock, SendStart, SendUnlock, SendEnd, CancelStart, CancelEnd,
       coreVars, subVars, history
  <1>2. ASSUME NEW s \in Subscriber, SendMessage(f, s)
        PROVE  UNCHANGED subscribers
    BY <1>2 DEF SendMessage, Push, coreVars
  <1>3. ASSUME NEW s \in Subscriber, CancelSend(f, s)
        PROVE  Calm
    <2>1. /\ future[f] = "cancelling" /\ slots' = [slots EXCEPT ![f] = @ \ {s}]
          /\ UNCHANGED <<waiting, received, stream, future, audience, subscribers>>
      BY <1>3 DEF CancelSend, GiveBack, history, coreVars
    <2>2. \A g \in Future : MovesOn(g)
      BY <2>1 DEF MovesOn, TypeOK
    <2> QED
      BY <2>1, <2>2 DEF Calm, Delivered, Registered
  <1> QED
    BY <1>1, <1>2, <1>3 DEF Sending, Cancelling

\* Every step is calm, or a clone, a push or a poll.
LEMMA StepEffects ==
    ASSUME TypeOK, Registry, SenderInv, [Next]_vars
    PROVE  \/ Calm
           \/ \E s \in Subscriber : Clones(s)
           \/ \E f \in Future : \E s \in Subscriber : SendMessage(f, s) /\ UNCHANGED subscribers
           \/ \E f \in Future : PollWhenReady(f)
  BY SharedCalm, SenderCalm DEF Next

\* Audiences stay, and what is sent is served, over each of these.
LEMMA StepAudience ==
    ASSUME TypeOK, Registry, SenderInv, AudienceInv, [Next]_vars
    PROVE  AudienceInv'
  <1>1. CASE Calm
    <2>1. \A f \in Future : MovesOn(f) /\ audience'[f] = audience[f]
      BY <1>1 DEF Calm
    <2>2. \A s \in Subscriber : \A f : Has(s, f)' <=> Has(s, f)
      BY <1>1 DEF Calm, Has
    <2>3. \A f \in Future : audience[f] \subseteq Subscriber
      BY DEF TypeOK
    <2>4. \A f \in Future : \A s \in audience'[f] : stream'[s] # "none"
      BY <1>1, <2>3 DEF Calm, AudienceInv
    <2>5. \A f \in Future : future'[f] = "sending" => \A s \in audience'[f] \ slots'[f] : Has(s, f)'
      BY <2>1, <2>2, <2>3 DEF MovesOn, AudienceInv
    <2>6. \A f \in Future : future'[f] \in {"none", "waiting"} => audience'[f] = {}
      BY <2>1 DEF MovesOn, AudienceInv
    <2>7. \A f \in Future :
            future'[f] \in {"ready", "sending", "cancelling"} => slots'[f] \subseteq audience'[f]
      BY <2>1 DEF MovesOn, AudienceInv
    <2>8. \A f \in Future : future'[f] = "sent" => slots'[f] = {}
      BY <2>1 DEF MovesOn, AudienceInv
    <2> QED
      BY <2>4, <2>5, <2>6, <2>7, <2>8 DEF AudienceInv
  <1>2. ASSUME NEW s \in Subscriber, Clones(s)
        PROVE  AudienceInv'
    <2>1. UNCHANGED <<future, slots, audience>>
      BY <1>2 DEF Clones
    <2>2. \A f \in Future : \A t \in audience[f] : t \in Subscriber \ {s}
      BY <1>2 DEF Clones, AudienceInv, TypeOK
    <2>3. \A f \in Future : \A t \in audience'[f] : stream'[t] # "none" /\ (Has(t, f)' <=> Has(t, f))
      <3>1. \A t \in Subscriber \ {s} : Delivered(t)' = Delivered(t) /\ stream'[t] = stream[t]
        BY <1>2 DEF Clones, Delivered
      <3> QED
        BY <2>1, <2>2, <3>1 DEF Has, AudienceInv
    <2> QED
      BY <2>1, <2>3 DEF AudienceInv
  <1>3. ASSUME NEW f \in Future, NEW s \in Subscriber, SendMessage(f, s)
        PROVE  AudienceInv'
    <2>1. /\ future[f] = "sending" /\ UNCHANGED <<stream, future, audience>>
          /\ slots'[f] = slots[f] \ {s} /\ \A g \in Future \ {f} : slots'[g] = slots[g]
          /\ Delivered(s)' = Append(Delivered(s), f)
          /\ \A t \in Subscriber \ {s} : Delivered(t)' = Delivered(t)
      BY <1>3, PushAppends
    <2>2. Has(s, f)' /\ \A t \in Subscriber : \A g : Has(t, g) => Has(t, g)'
      BY <2>1, DeliveredType, AppendFacts DEF Has
    <2>3. \A g \in Future : audience[g] \subseteq Subscriber
      BY DEF TypeOK
    <2>4. \A g \in Future : future[g] = "sending" => \A t \in audience[g] \ slots'[g] : Has(t, g)'
      BY <2>1, <2>2, <2>3 DEF AudienceInv
    <2>5. \A g \in Future : slots'[g] \subseteq slots[g]
      BY <2>1
    <2> QED
      BY <2>1, <2>4, <2>5 DEF AudienceInv
  <1>4. ASSUME NEW f \in Future, PollWhenReady(f)
        PROVE  AudienceInv'
    <2>1. /\ CoreUnlocked /\ future[f] = "waiting"
          /\ future'[f] \in {"waiting", "ready"}
          /\ future'[f] = "waiting" => audience'[f] = audience[f]
          /\ future'[f] = "ready" => slots'[f] = Registered /\ audience'[f] = Registered
          /\ \A g \in Future \ {f} :
               future'[g] = future[g] /\ slots'[g] = slots[g] /\ audience'[g] = audience[g]
          /\ stream' = stream
      BY <1>4, PollEffects
    <2>2. \A g \in Future : future'[g] # "sending"
      BY <2>1 DEF CoreUnlocked
    <2>3. \A g \in Future : \A s \in audience'[g] : stream'[s] # "none"
      BY <2>1 DEF AudienceInv, Registry
    <2>4. \A g \in Future : future'[g] \in {"none", "waiting"} => audience'[g] = {}
      BY <2>1 DEF AudienceInv
    <2>5. \A g \in Future :
            future'[g] \in {"ready", "sending", "cancelling"} => slots'[g] \subseteq audience'[g]
      BY <2>1 DEF AudienceInv
    <2>6. \A g \in Future : future'[g] = "sent" => slots'[g] = {}
      BY <2>1 DEF AudienceInv
    <2> QED
      BY <2>2, <2>3, <2>4, <2>5, <2>6 DEF AudienceInv
  <1> QED
    BY <1>1, <1>2, <1>3, <1>4, StepEffects

\* A queue without its first message, in terms of the queue
LEMMA TailFacts ==
    ASSUME NEW S, NEW w \in Seq(S), w # <<>>
    PROVE  /\ Len(w) \in Nat \ {0} /\ DOMAIN w = 1 .. Len(w) /\ w[1] = Head(w)
           /\ DOMAIN Tail(w) = 1 .. Len(w) - 1
           /\ \A i \in 1 .. Len(w) - 1 : Tail(w)[i] = w[i + 1]
  OBVIOUS

\* Own messages come after those that were cloned, since they are appended; and a queue that loses
\* its first message keeps the order of the others.
LEMMA TailOwnLast ==
    ASSUME TypeOK, OwnLast, NEW s \in Subscriber, waiting[s] # <<>>, waiting'[s] = Tail(waiting[s]),
           \A i \in DOMAIN waiting[s] : audience'[waiting[s][i]] = audience[waiting[s][i]]
    PROVE  \A i, j \in DOMAIN waiting'[s] :
             i < j /\ s \in audience'[waiting'[s][i]] => s \in audience'[waiting'[s][j]]
  <1> DEFINE w == waiting[s]
  <1>1. w \in Seq(Future) /\ w # <<>>
    BY DEF TypeOK
  <1>2. \A i, j \in DOMAIN w : i < j /\ s \in audience[w[i]] => s \in audience[w[j]]
    BY DEF OwnLast
  <1>3. waiting'[s] = Tail(w) /\ \A i \in DOMAIN w : audience'[w[i]] = audience[w[i]]
    OBVIOUS
  <1> HIDE DEF w
  <1>4. /\ Len(w) \in Nat \ {0} /\ DOMAIN w = 1 .. Len(w)
        /\ DOMAIN Tail(w) = 1 .. Len(w) - 1
        /\ \A i \in 1 .. Len(w) - 1 : Tail(w)[i] = w[i + 1]
    BY <1>1, TailFacts
  <1> SUFFICES ASSUME NEW i \in DOMAIN Tail(w), NEW j \in DOMAIN Tail(w), i < j,
                      s \in audience'[Tail(w)[i]]
               PROVE  s \in audience'[Tail(w)[j]]
    BY <1>3
  <1>5. i + 1 \in DOMAIN w /\ j + 1 \in DOMAIN w /\ i + 1 < j + 1
    BY <1>4
  <1>6. Tail(w)[i] = w[i + 1] /\ Tail(w)[j] = w[j + 1]
    BY <1>4
  <1> QED
    BY <1>2, <1>3, <1>5, <1>6

\* The order of own messages after cloned ones is kept by every step.
LEMMA StepOwnLast ==
    ASSUME TypeOK, Registry, SenderInv, OrderInv, AudienceInv, OwnLast, [Next]_vars
    PROVE  OwnLast'
  <1> DEFINE Goal(s) == \A i, j \in DOMAIN waiting'[s] :
                 i < j /\ s \in audience'[waiting'[s][i]] => s \in audience'[waiting'[s][j]]
  <1>1. ASSUME NEW s \in Subscriber, waiting'[s] = waiting[s],
               \A i \in DOMAIN waiting[s] : audience'[waiting[s][i]] = audience[waiting[s][i]]
        PROVE  Goal(s)
    BY <1>1 DEF OwnLast
  <1>2. CASE Calm
    <2>1. \A s \in Subscriber : Goal(s)
      BY <1>1, <1>2, TailOwnLast DEF Calm
    <2> QED
      BY <2>1 DEF OwnLast
  <1>3. ASSUME NEW s \in Subscriber, Clones(s)
        PROVE  OwnLast'
    <2>1. \A t \in Subscriber \ {s} : Goal(t)
      BY <1>1, <1>3 DEF Clones
    <2>2. \A f \in Future : s \notin audience'[f]
      BY <1>3 DEF Clones, AudienceInv
    <2>0. <<>> \in Seq(Future) /\ \A u \in Subscriber : waiting[u] \in Seq(Future)
      BY DEF TypeOK
    <2>3. waiting'[s] \in Seq(Future)
      BY <1>3, <2>0 DEF Clones
    <2>4. \A i \in DOMAIN waiting'[s] : waiting'[s][i] \in Future
      BY <2>3
    <2>5. Goal(s)
      BY <2>2, <2>4
    <2> QED
      BY <2>1, <2>5 DEF OwnLast
  <1>4. ASSUME NEW f \in Future, NEW s \in Subscriber, SendMessage(f, s)
        PROVE  OwnLast'
    <2>1. /\ future[f] = "sending" /\ s \in slots[f] /\ UNCHANGED audience
          /\ waiting'[s] = Append(waiting[s], f)
          /\ \A t \in Subscriber \ {s} : waiting'[t] = waiting[t]
      BY <1>4, PushAppends
    <2>2. s \in audience'[f]
      BY <2>1 DEF AudienceInv
    <2>3. \A t \in Subscriber \ {s} : Goal(t)
      BY <1>1, <2>1
    <2>4. Goal(s)
      <3> DEFINE w == waiting[s]
      <3>1. w \in Seq(Future) /\ waiting'[s] = Append(w, f)
        BY <2>1 DEF TypeOK
      <3>2. \A i, j \in DOMAIN w : i < j /\ s \in audience[w[i]] => s \in audience[w[j]]
        BY DEF OwnLast
      <3> HIDE DEF w
      <3>3. /\ Len(w) \in Nat /\ DOMAIN w = 1 .. Len(w) /\ DOMAIN Append(w, f) = 1 .. Len(w) + 1
            /\ \A i \in 1 .. Len(w) : Append(w, f)[i] = w[i]
            /\ Append(w, f)[Len(w) + 1] = f
        BY <3>1, AppendFacts
      <3> SUFFICES ASSUME NEW i \in 1 .. Len(w) + 1, NEW j \in 1 .. Len(w) + 1, i < j,
                          s \in audience[Append(w, f)[i]]
                   PROVE  s \in audience[Append(w, f)[j]]
        BY <2>1, <3>1, <3>3
      <3>4. CASE j = Len(w) + 1
        BY <2>1, <2>2, <3>3, <3>4
      <3>5. CASE j \in 1 .. Len(w)
        <4>1. i \in 1 .. Len(w)
          BY <3>3, <3>5
        <4> QED
          BY <3>2, <3>3, <3>5, <4>1
      <3> QED
        BY <3>3, <3>4, <3>5
    <2> QED
      BY <2>3, <2>4 DEF OwnLast
  <1>5. ASSUME NEW f \in Future, PollWhenReady(f)
        PROVE  OwnLast'
    <2>1. PICK R \in SUBSET Wanted(f) :
            /\ ReservesRoom(f, R, slots'[f])
            /\ future[f] = "waiting"
            /\ \A g \in Future \ {f} : audience'[g] = audience[g]
      BY <1>5, PollEffects
    <2> SUFFICES ASSUME NEW s \in Subscriber
                 PROVE  Goal(s)
      BY DEF OwnLast
    <2>2. waiting'[s] = waiting[s] \/ (waiting[s] # <<>> /\ waiting'[s] = Tail(waiting[s]))
      BY <2>1, ExpiryTypes DEF ReservesRoom
    <2>3. \A i \in DOMAIN waiting[s] : audience'[waiting[s][i]] = audience[waiting[s][i]]
      <3>1. \A i \in DOMAIN waiting[s] : waiting[s][i] \in Future /\ Has(s, waiting[s][i])
        BY WaitingHas
      <3>2. \A i \in DOMAIN waiting[s] : waiting[s][i] # f
        BY <2>1, <3>1 DEF OrderInv, Newest
      <3> QED
        BY <2>1, <3>1, <3>2
    <2> QED
      BY <1>1, <2>2, <2>3, TailOwnLast
  <1> QED
    BY <1>2, <1>3, <1>4, <1>5, StepEffects


-----------------------------------------------------------------------------
(* Nobody gets a message twice *)

\* One sender at a time, one order, and audiences that are served: inductive together.
ServesInv == IInv /\ SenderInv /\ OrderInv /\ AudienceInv

\* It holds before anything was published.
LEMMA InitServes == Init => ServesInv
  <1> SUFFICES ASSUME Init
               PROVE  AudienceInv
    BY InitIInv, InitOrder DEF ServesInv
  <1>1. \A f \in Future : future[f] = "none" /\ audience[f] = {} /\ slots[f] = {}
    BY DEF Init
  <1> QED
    BY <1>1 DEF AudienceInv

\* Every step keeps it.
LEMMA StepServes == ServesInv /\ [Next]_vars => ServesInv'
  <1> SUFFICES ASSUME ServesInv, [Next]_vars
               PROVE  ServesInv'
    OBVIOUS
  <1>1. IInv' /\ SenderInv' /\ OrderInv'
    BY StepIInv, StepOrder DEF ServesInv
  <1>2. AudienceInv'
    BY StepAudience DEF ServesInv, IInv
  <1> QED
    BY <1>1, <1>2 DEF ServesInv

\* A message reaches a subscriber of its audience at most once, and not before it is pushed; it
\* reaches nobody when its sender is dropped: the slots that send_message takes from `targets' and
\* that cancel_send gives back are one set.
THEOREM NobodyGetsItTwice == Spec => []AtMostOnce
  <1>1. ServesInv => AtMostOnce
    <2> SUFFICES ASSUME ServesInv, NEW f \in Future, NEW s \in audience[f]
                 PROVE  Occurrences(f, Delivered(s)) <=
                          IF future[f] \in {"sending", "sent"} /\ s \notin slots[f] THEN 1 ELSE 0
      BY DEF AtMostOnce
    <2>1. s \in Subscriber
      BY DEF ServesInv, IInv, TypeOK
    <2>2. Occurrences(f, Delivered(s)) = IF Has(s, f) THEN 1 ELSE 0
      BY <2>1, OccursOnce DEF ServesInv, IInv, OrderInv
    <2>3. Has(s, f) => future[f] \in {"sending", "sent"} /\ s \notin slots[f]
      BY <2>1 DEF ServesInv, OrderInv, Newest, AudienceInv
    <2> QED
      BY <2>2, <2>3
  <1> QED
    BY <1>1, InitServes, StepServes, PTL DEF Spec

-----------------------------------------------------------------------------
(* What a poll expires is the oldest message of its queue *)

InQueue(s, g) == \E i \in DOMAIN waiting[s] : waiting[s][i] = g

\* What s missed is older than all that waits for s.
OldestInv ==
    \A s, t \in Subscriber : \A f \in Missed(s), g \in Future :
        InQueue(s, g) => ~Precedes(g, f, Delivered(t))

\* A queue that loses its first message has what it had.
LEMMA TailInQueue ==
    ASSUME TypeOK, NEW s \in Subscriber,
           waiting'[s] = waiting[s] \/ (waiting[s] # <<>> /\ waiting'[s] = Tail(waiting[s]))
    PROVE  \A g : InQueue(s, g)' => InQueue(s, g)
  <1> DEFINE w == waiting[s]
  <1>1. w \in Seq(Future)
    BY DEF TypeOK
  <1>2. CASE waiting'[s] = w
    BY <1>2 DEF InQueue
  <1>3. CASE w # <<>> /\ waiting'[s] = Tail(w)
    <2> HIDE DEF w
    <2>1. /\ Len(w) \in Nat \ {0} /\ DOMAIN w = 1 .. Len(w)
          /\ DOMAIN Tail(w) = 1 .. Len(w) - 1
          /\ \A i \in 1 .. Len(w) - 1 : Tail(w)[i] = w[i + 1]
      BY <1>1, <1>3, TailFacts
    <2>2. \A i \in DOMAIN Tail(w) : i + 1 \in DOMAIN w /\ Tail(w)[i] = w[i + 1]
      BY <2>1
    <2>3. \A g : (\E i \in DOMAIN Tail(w) : Tail(w)[i] = g) => \E i \in DOMAIN w : w[i] = g
      BY <2>2
    <2> QED
      BY <1>3, <2>3 DEF InQueue, w
  <1> QED
    BY <1>2, <1>3

\* What is gone from a sequence whose second part lost its first member is that member.
LEMMA HeadTaken ==
    ASSUME NEW S, NEW r \in Seq(S), NEW w \in Seq(S), w # <<>>, NEW i \in DOMAIN (r \o w),
           \A k \in DOMAIN (r \o Tail(w)) : (r \o Tail(w))[k] # (r \o w)[i]
    PROVE  (r \o w)[i] = w[1]
  <1>1. /\ Len(w) \in Nat \ {0} /\ DOMAIN w = 1 .. Len(w)
        /\ DOMAIN Tail(w) = 1 .. Len(w) - 1
        /\ \A k \in 1 .. Len(w) - 1 : Tail(w)[k] = w[k + 1]
    BY TailFacts
  <1>2. /\ Len(r) \in Nat /\ DOMAIN (r \o w) = 1 .. Len(r) + Len(w)
        /\ \A k \in 1 .. Len(w) : (r \o w)[Len(r) + k] = w[k]
        /\ \A k \in 1 .. Len(r) : (r \o w)[k] = r[k]
    BY ConcatFacts
  <1>3. Tail(w) \in Seq(S) /\ Len(Tail(w)) = Len(w) - 1
    OBVIOUS
  <1>4. /\ DOMAIN (r \o Tail(w)) = 1 .. Len(r) + Len(Tail(w))
        /\ \A k \in 1 .. Len(Tail(w)) : (r \o Tail(w))[Len(r) + k] = Tail(w)[k]
        /\ \A k \in 1 .. Len(r) : (r \o Tail(w))[k] = r[k]
    BY <1>3, ConcatFacts
  <1>5. CASE i \in 1 .. Len(r)
    <2>1. i \in DOMAIN (r \o Tail(w))
      BY <1>1, <1>2, <1>3, <1>4, <1>5
    <2> QED
      BY <1>2, <1>4, <1>5, <2>1
  <1>6. CASE i = Len(r) + 1
    BY <1>1, <1>2, <1>6
  <1>7. CASE i > Len(r) + 1
    <2> DEFINE k == i - Len(r) - 1
    <2>1. k \in 1 .. Len(w) - 1 /\ k + 1 \in 1 .. Len(w) /\ i = Len(r) + (k + 1)
      BY <1>1, <1>2, <1>7
    <2>2. Len(r) + k \in DOMAIN (r \o Tail(w)) /\ k \in 1 .. Len(Tail(w))
      BY <1>2, <1>3, <1>4, <2>1
    <2> HIDE DEF k
    <2>3. (r \o Tail(w))[Len(r) + k] = w[k + 1] /\ (r \o w)[i] = w[k + 1]
      BY <1>1, <1>2, <1>4, <2>1, <2>2
    <2> QED
      BY <2>2, <2>3
  <1> QED
    BY <1>1, <1>2, <1>5, <1>6, <1>7

\* A calm step makes nobody miss anything: a send that ends has served its audience.
LEMMA CalmMissed ==
    ASSUME TypeOK, AudienceInv, Calm, NEW s \in Subscriber
    PROVE  Missed(s)' \subseteq Missed(s)
  <1> SUFFICES ASSUME NEW f \in Future, future'[f] = "sent", s \in audience'[f], ~Has(s, f)'
               PROVE  f \in Missed(s)
    BY DEF Missed
  <1>1. s \in audience[f] /\ ~Has(s, f)
    BY DEF Calm, Has
  <1>2. future[f] = "sent" \/ (future[f] = "sending" /\ slots[f] = {})
    BY DEF Calm, MovesOn
  <1> QED
    BY <1>1, <1>2 DEF Missed, AudienceInv

\* Who joins missed nothing, and makes nobody miss anything.
LEMMA ClonesMissed ==
    ASSUME TypeOK, AudienceInv, NEW s \in Subscriber, Clones(s)
    PROVE  /\ Missed(s)' = {}
           /\ \A t \in Subscriber \ {s} : Missed(t)' = Missed(t) /\ Delivered(t)' = Delivered(t)
  <1>1. \A f \in Future : s \notin audience'[f]
    BY DEF Clones, AudienceInv
  <1>2. \A t \in Subscriber \ {s} : Delivered(t)' = Delivered(t)
    BY DEF Clones, Delivered
  <1>3. UNCHANGED <<future, audience>>
    BY DEF Clones
  <1> QED
    BY <1>1, <1>2, <1>3 DEF Missed, Has

\* A push makes nobody miss anything.
LEMMA PushMissed ==
    ASSUME TypeOK, NEW f \in Future, NEW s \in Subscriber, SendMessage(f, s), NEW t \in Subscriber
    PROVE  Missed(t)' \subseteq Missed(t)
  <1>1. /\ UNCHANGED <<future, audience>>
        /\ Delivered(s)' = Append(Delivered(s), f)
        /\ \A u \in Subscriber \ {s} : Delivered(u)' = Delivered(u)
    BY PushAppends
  <1>2. \A g : Has(t, g) => Has(t, g)'
    BY <1>1, DeliveredType, AppendFacts DEF Has
  <1> QED
    BY <1>1, <1>2 DEF Missed

\* A poll makes a subscriber miss what was first in its queue, and nothing else.
LEMMA PollMissed ==
    ASSUME TypeOK, NEW f \in Future, PollWhenReady(f), NEW s \in Subscriber,
           NEW h \in Missed(s)'
    PROVE  \/ h \in Missed(s)
           \/ waiting[s] # <<>> /\ waiting'[s] = Tail(waiting[s]) /\ h = waiting[s][1]
  <1>1. /\ future[f] = "waiting" /\ future'[f] \in {"waiting", "ready"}
        /\ \A g \in Future \ {f} : future'[g] = future[g] /\ audience'[g] = audience[g]
        /\ received' = received
        /\ \E R : ExpireOldest(R)
    BY PollEffects DEF ReservesRoom
  <1>2. h \in Future \ {f} /\ future[h] = "sent" /\ s \in audience[h] /\ ~Has(s, h)'
    BY <1>1 DEF Missed
  <1>3. waiting'[s] = waiting[s] \/ (waiting[s] # <<>> /\ waiting'[s] = Tail(waiting[s]))
    BY <1>1, ExpiryTypes
  <1>4. CASE ~Has(s, h)
    BY <1>2, <1>4 DEF Missed
  <1>5. CASE Has(s, h)
    <2> DEFINE r == received[s]
               w == waiting[s]
    <2>1. r \in Seq(Future) /\ w \in Seq(Future)
      BY DEF TypeOK
    <2>2. waiting'[s] # w
      BY <1>1, <1>2, <1>5 DEF Has, Delivered
    <2>3. w # <<>> /\ waiting'[s] = Tail(w)
      BY <1>3, <2>2
    <2>4. \A k \in DOMAIN (r \o Tail(w)) : (r \o Tail(w))[k] # h
      BY <1>1, <1>2, <2>3 DEF Has, Delivered
    <2>5. PICK i \in DOMAIN (r \o w) : (r \o w)[i] = h
      BY <1>5 DEF Has, Delivered
    <2>6. h = w[1]
      BY <2>1, <2>3, <2>4, <2>5, HeadTaken
    <2> QED
      BY <2>3, <2>6
  <1> QED
    BY <1>4, <1>5

\* What precedes a member of a sequence that the last one is appended to did so before.
LEMMA AppendPrecedes ==
    ASSUME NEW S, NEW q \in Seq(S), NEW f \in S, NEW g, NEW h, h # f, Precedes(g, h, Append(q, f))
    PROVE  Precedes(g, h, q) /\ (OnlyLast(f, q) => g # f)
  <1>1. /\ Len(q) \in Nat /\ DOMAIN q = 1 .. Len(q) /\ DOMAIN Append(q, f) = 1 .. Len(q) + 1
        /\ \A i \in 1 .. Len(q) : Append(q, f)[i] = q[i]
        /\ Append(q, f)[Len(q) + 1] = f
    BY AppendFacts
  <1>2. PICK i \in DOMAIN Append(q, f), j \in DOMAIN Append(q, f) :
          i < j /\ Append(q, f)[i] = g /\ Append(q, f)[j] = h
    BY DEF Precedes
  <1>3. j \in DOMAIN q /\ i \in DOMAIN q /\ i # Len(q)
    BY <1>1, <1>2
  <1>4. q[i] = g /\ q[j] = h
    BY <1>1, <1>2, <1>3
  <1> QED
    BY <1>2, <1>3, <1>4 DEF Precedes, OnlyLast


\* Every step keeps what was missed older than what waits.
LEMMA StepOldest == ServesInv /\ OldestInv /\ [Next]_vars => OldestInv'
  <1> SUFFICES ASSUME ServesInv, OldestInv, [Next]_vars
               PROVE  OldestInv'
    OBVIOUS
  <1>0. /\ TypeOK /\ Registry /\ SenderInv /\ OrderInv /\ AudienceInv
        /\ \A s \in Subscriber : Delivered(s) \in Seq(Future)
    BY DeliveredType DEF ServesInv, IInv
  <1>1. CASE Calm
    <2>1. \A s \in Subscriber : Missed(s)' \subseteq Missed(s) /\ Delivered(s)' = Delivered(s)
      BY <1>0, <1>1, CalmMissed DEF Calm
    <2>2. \A s \in Subscriber : \A g : InQueue(s, g)' => InQueue(s, g)
      BY <1>0, <1>1, TailInQueue DEF Calm
    <2> QED
      BY <2>1, <2>2 DEF OldestInv
  <1>2. ASSUME NEW u \in Subscriber, Clones(u)
        PROVE  OldestInv'
    <2> SUFFICES ASSUME NEW s \in Subscriber, NEW t \in Subscriber, NEW f \in Missed(s)',
                        NEW g \in Future, InQueue(s, g)', Precedes(g, f, Delivered(t)')
                 PROVE  FALSE
      BY DEF OldestInv
    <2>1. s # u /\ f \in Missed(s) /\ InQueue(s, g)
      BY <1>0, <1>2, ClonesMissed DEF Clones, InQueue
    <2>2. CASE t # u
      <3>1. Delivered(t)' = Delivered(t)
        BY <1>0, <1>2, <2>2, ClonesMissed
      <3> QED
        BY <2>1, <3>1 DEF OldestInv
    <2>3. CASE t = u
      <3>1. received[u] = <<>> /\ received'[u] = <<>>
        BY <1>0, <1>2 DEF Clones, OrderInv, NewIsEmpty
      <3>2. waiting'[u] # <<>>
        BY <2>3, <3>1 DEF Delivered, Precedes
      <3>3. PICK v \in Subscriber : waiting'[u] = waiting[v]
        BY <1>2, <3>2 DEF Clones
      <3>4. received[v] \in Seq(Future) /\ waiting[v] \in Seq(Future)
        BY <1>0 DEF TypeOK
      <3>5. Delivered(u)' = waiting[v]
        BY <3>1, <3>3, <3>4 DEF Delivered
      <3>6. Precedes(g, f, Delivered(v))
        BY <2>3, <3>4, <3>5, SuffixPrecedes DEF Delivered
      <3> QED
        BY <2>1, <3>6 DEF OldestInv
    <2> QED
      BY <2>2, <2>3
  <1>3. ASSUME NEW h \in Future, NEW u \in Subscriber, SendMessage(h, u)
        PROVE  OldestInv'
    <2> SUFFICES ASSUME NEW s \in Subscriber, NEW t \in Subscriber, NEW f \in Missed(s)',
                        NEW g \in Future, InQueue(s, g)', Precedes(g, f, Delivered(t)')
                 PROVE  FALSE
      BY DEF OldestInv
    <2>1. /\ future[h] = "sending" /\ waiting'[u] = Append(waiting[u], h)
          /\ \A v \in Subscriber \ {u} : waiting'[v] = waiting[v] /\ Delivered(v)' = Delivered(v)
          /\ Delivered(u)' = Append(Delivered(u), h)
      BY <1>0, <1>3, PushAppends
    <2>2. f \in Missed(s) /\ f # h
      BY <1>0, <1>3, <2>1, PushMissed DEF Missed
    <2>3. \A v \in Subscriber : OnlyLast(h, Delivered(v))
      BY <1>0, <2>1 DEF OrderInv, Newest
    <2>4. Precedes(g, f, Delivered(t)) /\ g # h
      <3>1. CASE t = u
        <4>1. Precedes(g, f, Append(Delivered(u), h))
          BY <2>1, <3>1
        <4>2. Delivered(u) \in Seq(Future) /\ OnlyLast(h, Delivered(u))
          BY <1>0, <2>3
        <4>3. Precedes(g, f, Delivered(u)) /\ g # h
          BY <2>2, <4>1, <4>2, AppendPrecedes
        <4> QED
          BY <3>1, <4>3
      <3>2. CASE t # u
        <4>1. Precedes(g, f, Delivered(t))
          BY <2>1, <3>2
        <4>2. DOMAIN Delivered(t) = 1 .. Len(Delivered(t)) /\ Len(Delivered(t)) \in Nat
          BY <1>0
        <4>3. g # h
          BY <2>3, <4>1, <4>2 DEF Precedes, OnlyLast
        <4> QED
          BY <4>1, <4>3
      <3> QED
        BY <3>1, <3>2
    <2>5. InQueue(s, g)
      <3>1. CASE s = u
        <4>1. waiting[s] \in Seq(Future) /\ waiting'[s] = Append(waiting[s], h)
          BY <1>0, <2>1, <3>1 DEF TypeOK
        <4>2. PICK i \in DOMAIN waiting'[s] : waiting'[s][i] = g
          BY DEF InQueue
        <4>3. i \in DOMAIN waiting[s] /\ waiting[s][i] = g
          BY <2>4, <4>1, <4>2, AppendFacts
        <4> QED
          BY <4>3 DEF InQueue
      <3>2. CASE s # u
        BY <2>1, <3>2 DEF InQueue
      <3> QED
        BY <3>1, <3>2
    <2> QED
      BY <2>2, <2>4, <2>5 DEF OldestInv
  <1>4. ASSUME NEW h \in Future, PollWhenReady(h)
        PROVE  OldestInv'
    <2> SUFFICES ASSUME NEW s \in Subscriber, NEW t \in Subscriber, NEW f \in Missed(s)',
                        NEW g \in Future, InQueue(s, g)', Precedes(g, f, Delivered(t)')
                 PROVE  FALSE
      BY DEF OldestInv
    <2>1. Precedes(g, f, Delivered(t))
      <3>1. Thinned(Delivered(t)', Delivered(t)) /\ Delivered(t)' \in Seq(Future)
        <4>1. TypeOK'
          BY StepIInv DEF ServesInv, IInv
        <4>2. received'[t] \in Seq(Future) /\ waiting'[t] \in Seq(Future)
          BY <4>1 DEF TypeOK
        <4>3. Delivered(t)' \in Seq(Future)
          BY <4>2, ConcatFacts DEF Delivered
        <4> QED
          BY <1>0, <1>4, <4>1, <4>3, PollOrder
      <3> QED
        BY <1>0, <3>1, ThinnedKeeps
    <2>2. waiting'[s] = waiting[s] \/ (waiting[s] # <<>> /\ waiting'[s] = Tail(waiting[s]))
      BY <1>0, <1>4, PollEffects, ExpiryTypes DEF ReservesRoom
    <2>3. InQueue(s, g)
      BY <1>0, <2>2, TailInQueue
    <2>4. CASE f \in Missed(s)
      BY <2>1, <2>3, <2>4 DEF OldestInv
    <2>5. CASE waiting[s] # <<>> /\ waiting'[s] = Tail(waiting[s]) /\ f = waiting[s][1]
      <3> DEFINE w == waiting[s]
      <3>1. received[s] \in Seq(Future) /\ w \in Seq(Future)
        BY <1>0 DEF TypeOK
      <3>2. PICK i \in DOMAIN Tail(w) : Tail(w)[i] = g
        BY <2>5 DEF InQueue
      <3>3. Precedes(f, g, w)
        <4> HIDE DEF w
        <4>1. /\ Len(w) \in Nat \ {0} /\ DOMAIN w = 1 .. Len(w)
              /\ DOMAIN Tail(w) = 1 .. Len(w) - 1
              /\ \A k \in 1 .. Len(w) - 1 : Tail(w)[k] = w[k + 1]
          BY <2>5, <3>1, TailFacts DEF w
        <4>2. 1 \in DOMAIN w /\ i + 1 \in DOMAIN w /\ 1 < i + 1 /\ w[i + 1] = g
          BY <3>2, <4>1
        <4>3. w[1] = f
          BY <2>5 DEF w
        <4> QED
          BY <4>2, <4>3 DEF Precedes
      <3>4. Precedes(f, g, Delivered(s))
        BY <3>1, <3>3, SuffixPrecedes DEF Delivered
      <3>5. Consistent(Delivered(s), Delivered(t))
        BY <1>0 DEF OrderInv, InOrder
      <3>6. ~Precedes(g, f, Delivered(t))
        BY <3>4, <3>5 DEF Consistent, Precedes
      <3> QED
        BY <2>1, <3>6
    <2> QED
      BY <1>0, <1>4, <2>4, <2>5, PollMissed
  <1> QED
    BY <1>0, <1>1, <1>2, <1>3, <1>4, StepEffects

\* What a subscriber lost to a full buffer is older than all that is left in it: the loop that makes
\* room takes the messages that were pushed first, and all subscribers get them in one order.
THEOREM TheOldestIsLost == Spec => []LosesTheOldest
  <1>1. Init => OldestInv
    <2>1. Init => \A s \in Subscriber : Missed(s) = {}
      BY DEF Init, Missed
    <2> QED
      BY <2>1 DEF OldestInv
  <1>2. ServesInv /\ OldestInv => LosesTheOldest
    <2> SUFFICES ASSUME ServesInv, OldestInv, NEW s \in Subscriber, NEW t \in Subscriber,
                        NEW f \in Lost(s), NEW g \in Future, Occurrences(g, waiting[s]) > 0
                 PROVE  ~Precedes(g, f, Delivered(t))
      BY DEF LosesTheOldest
    <2>1. f \in Missed(s)
      BY LostIsMissed DEF ServesInv, IInv
    <2>2. InQueue(s, g)
      <3> SUFFICES ASSUME ~InQueue(s, g)
                   PROVE  FALSE
        OBVIOUS
      <3>1. {i \in DOMAIN waiting[s] : waiting[s][i] = g} = {}
        BY DEF InQueue
      <3>2. Occurrences(g, waiting[s]) = 0
        BY <3>1, FS_EmptySet DEF Occurrences
      <3> QED
        BY <3>2
    <2> QED
      BY <2>1, <2>2 DEF OldestInv
  <1> QED
    BY <1>1, <1>2, InitServes, StepServes, StepOldest, PTL DEF Spec


-----------------------------------------------------------------------------
(* A subscriber that is kept loses only what does not fit *)

\* For each message it missed, a subscriber had to hold one slot more than its buffer has.
OverflowInv ==
    \A s \in Registered :
        Missed(s) # {} =>
            MaxQueueSize + Cardinality(Missed(s)) <= Cardinality(Counted(s))

\* There are finitely many messages.
LEMMA CountsFinite ==
    ASSUME NEW s
    PROVE  /\ IsFiniteSet(Missed(s)) /\ Cardinality(Missed(s)) \in Nat
           /\ IsFiniteSet(Counted(s)) /\ Cardinality(Counted(s)) \in Nat
  <1>1. Missed(s) \in SUBSET Future /\ Counted(s) \in SUBSET Future
    BY DEF Missed, Counted
  <1>2. IsFiniteSet(Missed(s)) /\ IsFiniteSet(Counted(s))
    BY <1>1, FutureAssumption, FS_Subset
  <1> QED
    BY <1>2, FS_CardinalityType

\* And of those a step adds.
LEMMA CountsFiniteNext ==
    ASSUME NEW s
    PROVE  /\ IsFiniteSet(Missed(s)') /\ Cardinality(Missed(s)') \in Nat
           /\ IsFiniteSet(Counted(s)') /\ Cardinality(Counted(s)') \in Nat
  <1>1. Missed(s)' \in SUBSET Future /\ Counted(s)' \in SUBSET Future
    BY DEF Missed, Counted
  <1>2. IsFiniteSet(Missed(s)') /\ IsFiniteSet(Counted(s)')
    BY <1>1, FutureAssumption, FS_Subset
  <1> QED
    BY <1>2, FS_CardinalityType

\* The bound stays where nothing is missed anew and no slot is forgotten.
LEMMA OverflowStays ==
    ASSUME OverflowInv, NEW s \in Registered,
           Missed(s)' \subseteq Missed(s), Counted(s) \subseteq Counted(s)'
    PROVE  Missed(s)' # {} =>
             MaxQueueSize + Cardinality(Missed(s)') <= Cardinality(Counted(s)')
  <1>1. Missed(s)' \in SUBSET Missed(s) /\ Counted(s) \in SUBSET Counted(s)'
    OBVIOUS
  <1>2. /\ Cardinality(Missed(s)') <= Cardinality(Missed(s))
        /\ Cardinality(Counted(s)) <= Cardinality(Counted(s)')
    BY <1>1, CountsFinite, CountsFiniteNext, FS_Subset
  <1>3. Missed(s)' # {} => MaxQueueSize + Cardinality(Missed(s)) <= Cardinality(Counted(s))
    BY DEF OverflowInv
  <1>4. /\ Cardinality(Missed(s)) \in Nat /\ Cardinality(Counted(s)) \in Nat
        /\ Cardinality(Missed(s)') \in Nat /\ Cardinality(Counted(s)') \in Nat
        /\ MaxQueueSize \in Nat
    BY CountsFinite, CountsFiniteNext, SizesAssumption
  <1> QED
    BY <1>2, <1>3, <1>4

\* A queue whose members differ has as many of them as places.
LEMMA RangeCounts ==
    ASSUME NEW S, NEW w \in Seq(S), NEW T, IsFiniteSet(T), \A i \in DOMAIN w : w[i] \in T,
           \A i, j \in DOMAIN w : w[i] = w[j] => i = j
    PROVE  Len(w) <= Cardinality(T)
  <1>1. Len(w) \in Nat /\ DOMAIN w = 1 .. Len(w)
    OBVIOUS
  <1> DEFINE h == [i \in 1 .. Len(w) |-> w[i]]
  <1>2. h \in Injection(1 .. Len(w), T)
    BY <1>1 DEF Injection, IsInjective
  <1> HIDE DEF h
  <1>3. Cardinality(1 .. Len(w)) <= Cardinality(T)
    BY <1>2, FS_Injection
  <1>4. Cardinality(1 .. Len(w)) = Len(w)
    <2>1. 1 \in Int /\ Len(w) \in Int
      BY <1>1
    <2>2. Cardinality(1 .. Len(w)) = IF 1 > Len(w) THEN 0 ELSE Len(w) - 1 + 1
      BY <2>1, FS_Interval
    <2> QED
      BY <1>1, <2>2
  <1> QED
    BY <1>3, <1>4

\* No message waits twice in a queue.
LEMMA WaitsOnce ==
    ASSUME TypeOK, NoneTwice, NEW s \in Subscriber
    PROVE  \A i, j \in DOMAIN waiting[s] : waiting[s][i] = waiting[s][j] => i = j
  <1> DEFINE r == received[s]
             w == waiting[s]
  <1>1. r \in Seq(Future) /\ w \in Seq(Future)
    BY DEF TypeOK
  <1>2. \A i, j \in DOMAIN (r \o w) : (r \o w)[i] = (r \o w)[j] => i = j
    BY DEF NoneTwice, Delivered
  <1> HIDE DEF r, w
  <1>3. /\ Len(r) \in Nat /\ Len(w) \in Nat
        /\ DOMAIN w = 1 .. Len(w) /\ DOMAIN (r \o w) = 1 .. Len(r) + Len(w)
        /\ \A i \in 1 .. Len(w) : (r \o w)[Len(r) + i] = w[i]
    BY <1>1, ConcatFacts
  <1> SUFFICES ASSUME NEW i \in DOMAIN w, NEW j \in DOMAIN w, w[i] = w[j]
               PROVE  i = j
    BY DEF w
  <1>4. Len(r) + i \in DOMAIN (r \o w) /\ Len(r) + j \in DOMAIN (r \o w)
    BY <1>3
  <1>5. Len(r) + i = Len(r) + j
    BY <1>2, <1>3, <1>4
  <1> QED
    BY <1>3, <1>5

\* A full queue that holds nothing but its own messages: its size is the number of messages that
\* had or have a slot of it.
LEMMA OwnAreCounted ==
    ASSUME TypeOK, SlotAccounting, OrderInv, AudienceInv, CoreUnlocked,
           NEW s \in Registered, \A i \in DOMAIN waiting[s] : s \in audience[waiting[s][i]]
    PROVE  QueueSize(s) <= Cardinality(Counted(s))
  <1> DEFINE W == {g \in Future : InQueue(s, g)}
  <1>1. s \in Subscriber
    BY DEF TypeOK
  <1>2. IsFiniteSet(W) /\ Cardinality(W) \in Nat
    <2>1. W \in SUBSET Future
      OBVIOUS
    <2> QED
      BY <2>1, FutureAssumption, FS_Subset, FS_CardinalityType
  <1>3. Len(waiting[s]) <= Cardinality(W)
    <2>1. waiting[s] \in Seq(Future) /\ \A i \in DOMAIN waiting[s] : waiting[s][i] \in W
      BY <1>1, WaitingHas DEF TypeOK, InQueue
    <2>2. \A i, j \in DOMAIN waiting[s] : waiting[s][i] = waiting[s][j] => i = j
      BY <1>1, WaitsOnce DEF OrderInv
    <2> QED
      BY <1>2, <2>1, <2>2, RangeCounts
  <1>4. reserved[s] = Cardinality(Holders(s))
    BY <1>1 DEF SlotAccounting
  <1>5. W \cap Holders(s) = {}
    <2> SUFFICES ASSUME NEW g \in Future, InQueue(s, g), s \in slots[g]
                 PROVE  FALSE
      BY DEF Holders
    <2>1. Has(s, g)
      BY <1>1, WaitingHas DEF InQueue
    <2>2. future[g] = "sent"
      BY <1>1, <2>1 DEF OrderInv, Newest, CoreUnlocked
    <2> QED
      BY <2>2 DEF AudienceInv
  <1>6. W \cup Holders(s) \in SUBSET Counted(s)
    BY DEF InQueue, Holders, Counted
  <1>7. Cardinality(W \cup Holders(s)) = Cardinality(W) + Cardinality(Holders(s))
    <2>1. Cardinality(W \cap Holders(s)) = 0
      BY <1>5, FS_EmptySet
    <2> HIDE DEF W
    <2>2. Cardinality(W \cup Holders(s)) =
            Cardinality(W) + Cardinality(Holders(s)) - Cardinality(W \cap Holders(s))
      BY <1>2, HoldersFinite, FS_Union
    <2> QED
      BY <1>2, <2>1, <2>2, HoldersFinite
  <1>8. Cardinality(W \cup Holders(s)) <= Cardinality(Counted(s))
    BY <1>6, CountsFinite, FS_Subset
  <1>9. Len(waiting[s]) \in Nat /\ Cardinality(Counted(s)) \in Nat /\ Cardinality(Holders(s)) \in Nat
    BY <1>1, CountsFinite, HoldersFinite DEF TypeOK
  <1> HIDE DEF W
  <1> QED
    BY <1>2, <1>3, <1>4, <1>7, <1>8, <1>9 DEF QueueSize


\* A calm step, a clone and a push forget no slot of a subscriber that is kept.
LEMMA CountedStay ==
    ASSUME TypeOK, AudienceInv, NEW s \in Subscriber,
           \/ Calm
           \/ \E u \in Subscriber : Clones(u)
           \/ \E f \in Future : \E u \in Subscriber : SendMessage(f, u)
    PROVE  Counted(s) \subseteq Counted(s)'
  <1>1. CASE Calm
    <2>1. audience' = audience /\ \A f \in Future : MovesOn(f)
      BY <1>1 DEF Calm
    <2> QED
      BY <2>1 DEF Counted, MovesOn, AudienceInv
  <1>2. ASSUME NEW u \in Subscriber, Clones(u)
        PROVE  Counted(s)' = Counted(s)
    BY <1>2 DEF Clones, Counted
  <1>3. ASSUME NEW f \in Future, NEW u \in Subscriber, SendMessage(f, u)
        PROVE  Counted(s) \subseteq Counted(s)'
    <2>1. /\ future[f] = "sending" /\ audience' = audience
          /\ \A g \in Future \ {f} : slots'[g] = slots[g]
      BY <1>3, PushAppends
    <2>2. slots[f] \subseteq audience[f]
      BY <2>1 DEF AudienceInv
    <2> QED
      BY <2>1, <2>2 DEF Counted
  <1> QED
    BY <1>1, <1>2, <1>3

\* A poll reserves a slot more where it makes room, and makes it in a full queue only.
LEMMA PollOverflow ==
    ASSUME ServesInv, OwnLast, OverflowInv, NEW f \in Future, PollWhenReady(f), NEW s \in Registered
    PROVE  Missed(s)' # {} =>
             MaxQueueSize + Cardinality(Missed(s)') <= Cardinality(Counted(s)')
  <1>0. /\ TypeOK /\ SlotAccounting /\ OrderInv /\ AudienceInv
        /\ s \in Subscriber
    BY DEF ServesInv, IInv, TypeOK
  <1>1. PICK R \in SUBSET Wanted(f) :
          /\ ReservesRoom(f, R, slots'[f])
          /\ CoreUnlocked /\ future[f] = "waiting"
          /\ future'[f] \in {"waiting", "ready"}
          /\ future'[f] = "waiting" => audience'[f] = audience[f]
          /\ future'[f] = "ready" => slots'[f] = Registered /\ audience'[f] = Registered
          /\ \A g \in Future \ {f} :
               future'[g] = future[g] /\ slots'[g] = slots[g] /\ audience'[g] = audience[g]
          /\ UNCHANGED <<received, stream, subscribers>>
    BY <1>0, PollEffects
  <1>2. audience[f] = {}
    BY <1>0, <1>1 DEF AudienceInv
  <1>3. R \subseteq Wanted(f) /\ R \subseteq slots'[f] /\ slots[f] \cap Registered \subseteq slots'[f]
    BY <1>1 DEF ReservesRoom, Reserves
  <1>4. Counted(s) \subseteq Counted(s)'
    BY <1>1, <1>2, <1>3 DEF Counted
  <1>5. CASE Missed(s)' \subseteq Missed(s)
    BY <1>4, <1>5, OverflowStays
  <1>6. CASE ~(Missed(s)' \subseteq Missed(s))
    <2>1. PICK h \in Missed(s)' : h \notin Missed(s)
      BY <1>6
    <2>2. /\ waiting[s] # <<>> /\ waiting'[s] = Tail(waiting[s])
          /\ \A g \in Missed(s)' : g \in Missed(s) \/ g = waiting[s][1]
          /\ h = waiting[s][1]
      BY <1>0, <2>1, PollMissed
    <2>3. s \in R /\ Full(s)
      <3>1. waiting'[s] # waiting[s]
        <4>1. waiting[s] \in Seq(Future)
          BY <1>0 DEF TypeOK
        <4>2. Len(Tail(waiting[s])) # Len(waiting[s])
          BY <2>2, <4>1
        <4> QED
          BY <2>2, <4>2
      <3> QED
        BY <1>0, <1>1, <3>1, ExpiryTypes DEF ReservesRoom
    <2>4. f \notin Counted(s) /\ f \in Counted(s)'
      BY <1>2, <1>3, <2>3 DEF Counted, Wanted
    <2>5. Cardinality(Counted(s)) + 1 <= Cardinality(Counted(s)')
      <3>1. Cardinality(Counted(s) \cup {f}) = Cardinality(Counted(s)) + 1
        BY <2>4, CountsFinite, FS_AddElement
      <3>2. Counted(s) \cup {f} \in SUBSET Counted(s)'
        BY <1>4, <2>4
      <3>3. Cardinality(Counted(s) \cup {f}) <= Cardinality(Counted(s)')
        BY <3>2, CountsFiniteNext, FS_Subset
      <3> QED
        BY <3>1, <3>3
    <2>6. Cardinality(Missed(s)') <= Cardinality(Missed(s)) + 1
      <3>1. Missed(s)' \in SUBSET (Missed(s) \cup {h})
        BY <2>2
      <3>2. IsFiniteSet(Missed(s) \cup {h}) /\
              Cardinality(Missed(s) \cup {h}) = Cardinality(Missed(s)) + 1
        BY <2>1, CountsFinite, FS_AddElement
      <3>3. Cardinality(Missed(s)') <= Cardinality(Missed(s) \cup {h})
        BY <3>1, <3>2, FS_Subset
      <3> QED
        BY <3>2, <3>3
    <2>7. MaxQueueSize + Cardinality(Missed(s)) <= Cardinality(Counted(s))
      <3>1. CASE Missed(s) # {}
        BY <3>1 DEF OverflowInv
      <3>2. CASE Missed(s) = {}
        <4>1. s \in audience[h]
          BY <1>1, <1>2, <2>1 DEF Missed
        <4>2. \A i \in DOMAIN waiting[s] : s \in audience[waiting[s][i]]
          <5>1. waiting[s] \in Seq(Future)
            BY <1>0 DEF TypeOK
          <5>2. Len(waiting[s]) \in Nat \ {0} /\ DOMAIN waiting[s] = 1 .. Len(waiting[s])
            BY <2>2, <5>1, TailFacts
          <5>3. \A i \in DOMAIN waiting[s] : i = 1 \/ 1 < i
            BY <5>2
          <5>4. \A i \in DOMAIN waiting[s] :
                  1 < i /\ s \in audience[waiting[s][1]] => s \in audience[waiting[s][i]]
            BY <1>0, <5>2 DEF OwnLast
          <5> QED
            BY <2>2, <4>1, <5>3, <5>4
        <4>3. QueueSize(s) <= Cardinality(Counted(s))
          BY <1>0, <1>1, <4>2, OwnAreCounted
        <4>4. Cardinality(Missed(s)) = 0
          BY <3>2, FS_EmptySet
        <4>5. QueueSize(s) \in Nat /\ MaxQueueSize <= QueueSize(s)
          <5>1. Len(waiting[s]) \in Nat /\ reserved[s] \in Nat
            BY <1>0 DEF TypeOK
          <5> QED
            BY <2>3, <5>1, SizesAssumption DEF Full, QueueSize
        <4> QED
          BY <4>3, <4>4, <4>5, CountsFinite, SizesAssumption
      <3> QED
        BY <3>1, <3>2
    <2> QED
      BY <2>5, <2>6, <2>7, CountsFinite, CountsFiniteNext, SizesAssumption
  <1> QED
    BY <1>5, <1>6

\* Every step keeps the bound on what was missed.
LEMMA StepOverflow == ServesInv /\ OwnLast /\ OverflowInv /\ [Next]_vars => OverflowInv'
  <1> SUFFICES ASSUME ServesInv, OwnLast, OverflowInv, [Next]_vars, NEW s \in Registered'
               PROVE  Missed(s)' # {} =>
                        MaxQueueSize + Cardinality(Missed(s)') <= Cardinality(Counted(s)')
    BY DEF OverflowInv
  <1>0. /\ TypeOK /\ Registry /\ SenderInv /\ OrderInv /\ AudienceInv
    BY DEF ServesInv, IInv
  <1>1. TypeOK'
    BY StepIInv DEF ServesInv, IInv
  <1>2. s \in Subscriber
    BY <1>1 DEF TypeOK
  <1>3. CASE Calm
    <2>1. s \in Registered
      BY <1>3 DEF Calm
    <2> QED
      BY <1>0, <1>2, <1>3, <2>1, CalmMissed, CountedStay, OverflowStays
  <1>4. ASSUME NEW u \in Subscriber, Clones(u)
        PROVE  Missed(s)' # {} =>
                 MaxQueueSize + Cardinality(Missed(s)') <= Cardinality(Counted(s)')
    <2>1. CASE s = u
      BY <1>0, <1>4, <2>1, ClonesMissed
    <2>2. CASE s # u
      <3>1. s \in Registered /\ Missed(s)' = Missed(s)
        BY <1>0, <1>2, <1>4, <2>2, ClonesMissed DEF Clones
      <3> QED
        BY <1>0, <1>2, <1>4, <3>1, CountedStay, OverflowStays
    <2> QED
      BY <2>1, <2>2
  <1>5. ASSUME NEW f \in Future, NEW u \in Subscriber, SendMessage(f, u), UNCHANGED subscribers
        PROVE  Missed(s)' # {} =>
                 MaxQueueSize + Cardinality(Missed(s)') <= Cardinality(Counted(s)')
    <2>1. s \in Registered
      BY <1>5 DEF Registered
    <2> QED
      BY <1>0, <1>2, <1>5, <2>1, PushMissed, CountedStay, OverflowStays
  <1>6. ASSUME NEW f \in Future, PollWhenReady(f)
        PROVE  Missed(s)' # {} =>
                 MaxQueueSize + Cardinality(Missed(s)') <= Cardinality(Counted(s)')
    <2>1. s \in Registered
      BY <1>0, <1>6, PollEffects DEF Registered
    <2> QED
      BY <1>6, <2>1, PollOverflow
  <1> QED
    BY <1>0, <1>3, <1>4, <1>5, <1>6, StepEffects

\* A subscriber that stays registered never loses a message that would have fitted: for every one
\* it lost, a slot more than buffer_size was reserved in its queue for a message or a publish.
THEOREM OnlyOverflowIsLost == Spec => []LosesOnlyOverflow
  <1>1. Init => OwnLast /\ OverflowInv
    <2> SUFFICES ASSUME Init
                 PROVE  OwnLast /\ OverflowInv
      OBVIOUS
    <2>1. \A s \in Subscriber : waiting[s] = <<>> /\ Missed(s) = {}
      BY DEF Init, Missed
    <2>2. Registered \subseteq Subscriber
      BY InitIInv DEF IInv, TypeOK
    <2> QED
      BY <2>1, <2>2 DEF OwnLast, OverflowInv
  <1>2. ServesInv /\ OwnLast /\ [Next]_vars => OwnLast'
    BY StepOwnLast DEF ServesInv, IInv
  <1>3. ServesInv /\ OverflowInv => LosesOnlyOverflow
    <2> SUFFICES ASSUME ServesInv, OverflowInv, NEW s \in Registered, Lost(s) # {}
                 PROVE  MaxQueueSize + Cardinality(Lost(s)) <=
                          Cardinality({f \in Future : s \in slots[f] \cup audience[f]})
      BY DEF LosesOnlyOverflow
    <2>1. s \in Subscriber
      BY DEF ServesInv, IInv, TypeOK
    <2>2. Lost(s) = Missed(s)
      BY <2>1, LostIsMissed DEF ServesInv, IInv
    <2> QED
      BY <2>2 DEF OverflowInv, Counted
  <1> QED
    BY <1>1, <1>2, <1>3, InitServes, StepServes, StepOverflow, PTL DEF Spec
=============================================================================
