---------------------------- MODULE SingleProofs ----------------------------
(***************************************************************************)
(* Proofs about PublishSingle, for any number of subscribers, futures,      *)
(* flushes and watchers, any queue size and any bound on the publishers.    *)
(***************************************************************************)
EXTENDS PublishSingle, Clients, CoreProofs, SequenceTheorems

SingleState == {"none", "waiting", "polling", "granted", "sent", "cancelled", "dropped"}

\* A future holds a slot while it has its sender, that of the subscriber it was granted; and it
\* sleeps, or has begun to, only while it has none.
GrantInv ==
    /\ \A f \in Future : future[f] \in SingleState
    /\ \A f \in Future :
         future[f] = "granted" => \E s \in Subscriber : slots[f] = {s} /\ audience[f] = {s}
    /\ \A f \in Future : future[f] # "granted" => slots[f] = {}
    /\ \A f \in Future : future[f] \in {"none", "waiting", "polling", "dropped"} => audience[f] = {}
    /\ \A f \in asleep \cap Future : future[f] \in {"waiting", "polling"}

\* No handle has two turns, and one future at most is in the middle of a poll.
PollInv ==
    /\ turns \in Seq(Subscriber)
    /\ \A i, j \in DOMAIN turns : turns[i] = turns[j] => i = j
    /\ refilled \in BOOLEAN /\ unregistered \subseteq Subscriber
    /\ \A f, g \in Future : future[f] = "polling" /\ future[g] = "polling" => f = g
    /\ refilled => \E f \in Future : future[f] = "polling"

-----------------------------------------------------------------------------
(* Turns *)

Due(queue, s) == IF \E i \in DOMAIN queue : queue[i] = s THEN 1 ELSE 0

\* What is left of a list of turns once the next one was popped
LEMMA PopFacts ==
    ASSUME NEW S, NEW q \in Seq(S), q # <<>>, NEW r, r = SubSeq(q, 1, Len(q) - 1),
           \A i, j \in DOMAIN q : q[i] = q[j] => i = j
    PROVE  /\ r \in Seq(S)
           /\ \A i, j \in DOMAIN r : r[i] = r[j] => i = j
           /\ q[Len(q)] \in S /\ Due(q, q[Len(q)]) = 1 /\ Due(r, q[Len(q)]) = 0
           /\ \A t : t # q[Len(q)] => Due(r, t) = Due(q, t)
  <1> DEFINE n == Len(q)
  <1>1. n \in Nat /\ DOMAIN q = 1 .. n /\ n \in 1 .. n
    OBVIOUS
  <1>2. 1 \in 1 .. n + 1 /\ n - 1 \in 0 .. n
    BY <1>1
  <1>3. r \in Seq(S) /\ DOMAIN r = 1 .. n - 1 /\ \A k \in 1 .. n - 1 : r[k] = q[k]
    <2>1. /\ r \in Seq(S)
          /\ Len(r) = IF 1 <= n - 1 THEN n - 1 - 1 + 1 ELSE 0
          /\ \A k \in 1 .. (n - 1) - 1 + 1 : r[k] = q[1 + k - 1]
      BY <1>2, SubSeqProperties
    <2>2. Len(r) = n - 1 /\ \A k \in 1 .. n - 1 : r[k] = q[k]
      BY <1>1, <2>1
    <2> QED
      BY <2>1, <2>2
  <1> HIDE DEF n
  <1>4. \A k \in 1 .. n : k = n \/ k \in 1 .. n - 1
    BY <1>1
  <1>5. \A k \in 1 .. n - 1 : k \in 1 .. n /\ k # n
    BY <1>1
  <1>6. q[n] \in S
    BY <1>1
  <1>7. Due(q, q[n]) = 1
    BY <1>1 DEF Due
  <1>8. Due(r, q[n]) = 0
    BY <1>1, <1>3, <1>5 DEF Due
  <1>9. \A t : t # q[n] => Due(r, t) = Due(q, t)
    BY <1>1, <1>3, <1>4, <1>5 DEF Due
  <1>10. \A i, j \in DOMAIN r : r[i] = r[j] => i = j
    BY <1>1, <1>3, <1>5
  <1> QED
    BY <1>3, <1>6, <1>7, <1>8, <1>9, <1>10 DEF n

\* A refilled list has every registered subscriber in it, once.
LEMMA RefillFacts ==
    ASSUME TypeOK, Registry, NEW queue \in AllTurns
    PROVE  /\ queue \in Seq(Subscriber)
           /\ \A i, j \in DOMAIN queue : queue[i] = queue[j] => i = j
           /\ \A s \in Registered : Due(queue, s) = 1
  <1> DEFINE n == Cardinality(Registered)
  <1>1. queue \in Injection(1 .. n, Registered)
    BY DEF AllTurns
  <1>2. n \in Nat
    BY FS_CardinalityType DEF Registry
  <1>3. Registered \subseteq Subscriber
    BY DEF TypeOK
  <1> HIDE DEF n
  <1>4. queue \in [1 .. n -> Registered] /\ \A i, j \in 1 .. n : queue[i] = queue[j] => i = j
    BY <1>1 DEF Injection, IsInjective
  <1>5. queue \in Seq(Subscriber)
    BY <1>2, <1>3, <1>4
  <1>6. Cardinality(1 .. n) = n
    <2>1. Cardinality(1 .. n) = IF 1 > n THEN 0 ELSE n - 1 + 1
      BY <1>2, FS_Interval
    <2> QED
      BY <1>2, <2>1
  <1>7. queue \in Surjection(1 .. n, Registered)
    BY <1>1, <1>6, FS_Injection DEF Registry, n
  <1>8. \A s \in Registered : Due(queue, s) = 1
    BY <1>4, <1>7 DEF Surjection, Due
  <1> QED
    BY <1>4, <1>5, <1>8

-----------------------------------------------------------------------------
(* The steps *)

\* The steps of a poll other than the one that gets a sender
Looks(f) ==
    \/ PollBegins(f) \/ Refills(f) \/ PollPends(f)
    \/ \E s \in Subscriber : PassesOver(f, s) \/ Registers(f, s)

\* They reserve nothing and read nothing.
LEMMA LooksOnly ==
    ASSUME TypeOK, NEW f \in Future, Looks(f)
    PROVE  /\ UNCHANGED <<coreVars, published, reserved, waiting, notify_waiting, stream, slots,
                          flush, watcher, wakers, history>>
           /\ future[f] \in {"waiting", "polling"} /\ future'[f] \in {"waiting", "polling"}
           /\ \A g \in Future \ {f} : future'[g] = future[g]
           /\ future' \in [Future -> FutureState]
           /\ asleep' = asleep \/ asleep' = asleep \cup {f}
           /\ notify_ready' \in [Subscriber -> SUBSET (Future \cup Flush)]
           /\ \A s \in Subscriber : notify_ready[s] \subseteq notify_ready'[s]
  <1>1. CASE PollBegins(f)
    BY <1>1 DEF PollBegins, BeginPoll, subVars, TypeOK, FutureState
  <1>2. CASE Refills(f) \/ \E s \in Subscriber : PassesOver(f, s)
    BY <1>2 DEF Refills, Refill, PassesOver, IsPopped, vars, subVars, taskVars, TypeOK
  <1>3. CASE PollPends(f)
    BY <1>3 DEF PollPends, subVars, TypeOK, FutureState
  <1>4. ASSUME NEW s \in Subscriber, Registers(f, s)
        PROVE  /\ UNCHANGED <<coreVars, published, reserved, waiting, notify_waiting, taskVars, history>>
               /\ future[f] = "polling"
               /\ notify_ready' = [notify_ready EXCEPT ![s] = @ \cup {f}]
    BY <1>4 DEF Registers, Register
  <1>5. ASSUME NEW s \in Subscriber, notify_ready' = [notify_ready EXCEPT ![s] = @ \cup {f}]
        PROVE  /\ notify_ready' \in [Subscriber -> SUBSET (Future \cup Flush)]
               /\ \A t \in Subscriber : notify_ready[t] \subseteq notify_ready'[t]
    BY <1>5 DEF TypeOK
  <1>6. CASE \E s \in Subscriber : Registers(f, s)
    BY <1>4, <1>5, <1>6 DEF taskVars, TypeOK
  <1> QED
    BY <1>1, <1>2, <1>3, <1>6 DEF Looks

\* A step is one of all kinds of publisher, or one of a poll or of a sender.
LEMMA StepCases ==
    ASSUME [SingleNext]_allVars
    PROVE  \/ (SharedNext \/ UNCHANGED vars) /\ UNCHANGED pollVars
           \/ \E f \in Future : Looks(f)
           \/ \E f \in Future : \E s \in Subscriber : TakesTurn(f, s)
           \/ \E f \in Future : \E s \in Subscriber : SendSingle(f, s) \/ CancelSingle(f, s)
  BY DEF SingleNext, PollGoesOn, Looks, allVars

\* What the shared steps do to the futures: they begin to wait, and are dropped.
LEMMA SharedFutures ==
    ASSUME TypeOK, SharedNext \/ UNCHANGED vars
    PROVE  /\ UNCHANGED <<slots, audience>>
           /\ \A f \in Future :
                \/ future'[f] = future[f] /\ (f \in asleep' => f \in asleep)
                \/ future[f] = "none" /\ future'[f] = "waiting" /\ (f \in asleep' => f \in asleep)
                \/ future[f] = "waiting" /\ future'[f] = "dropped" /\ f \notin asleep'
  <1>1. ASSUME UNCHANGED <<slots, audience, future>>, asleep' \cap Future \subseteq asleep
        PROVE  /\ UNCHANGED <<slots, audience>>
               /\ \A f \in Future :
                    \/ future'[f] = future[f] /\ (f \in asleep' => f \in asleep)
                    \/ future[f] = "none" /\ future'[f] = "waiting" /\ (f \in asleep' => f \in asleep)
                    \/ future[f] = "waiting" /\ future'[f] = "dropped" /\ f \notin asleep'
    BY <1>1
  <1>2. CASE Republish \/ DropPublisher \/ DropLastPublisher \/ ReleaseCore \/ UNCHANGED vars
    BY <1>1, <1>2 DEF Republish, DropPublisher, DropLastPublisher, CloseCore, ReleaseCore, vars,
       taskVars, history
  <1>3. ASSUME NEW s \in Subscriber, NEW t \in Subscriber,
               Subscribe(s) \/ Resubscribe(t, s) \/ ResubscribeClosed(t, s) \/ DropSubscriber(s)
        PROVE  UNCHANGED <<slots, audience, future>> /\ asleep' \cap Future \subseteq asleep
    BY <1>3 DEF Subscribe, Resubscribe, ResubscribeClosed, Attach, NewSubCore, DropSubscriber,
       Detach, history
  <1>4. ASSUME NEW s \in Subscriber, PollNext(s)
        PROVE  UNCHANGED <<slots, audience, future>> /\ asleep' \cap Future \subseteq asleep
    BY <1>4, TasksAssumption DEF PollNext, PollMessage, TakeMessage, PollEnded, PollPending, history
  <1>5. ASSUME NEW e \in Flush, WhenEmpty(e) \/ PollFlushed(e) \/ PollUnflushed(e) \/ DropFlush(e)
        PROVE  UNCHANGED <<slots, audience, future>> /\ asleep' \cap Future \subseteq asleep
    BY <1>5, TasksAssumption DEF WhenEmpty, StartFlush, PollFlushed, PollUnflushed, DropFlush,
       history
  <1>6. ASSUME NEW c \in Watcher, WhenClosed(c) \/ PollClosed(c) \/ PollOpen(c) \/ DropWatcher(c)
        PROVE  UNCHANGED <<slots, audience, future>> /\ asleep' \cap Future \subseteq asleep
    BY <1>6, TasksAssumption DEF WhenClosed, StartWatcher, PollClosed, PollOpen, DropWatcher,
       history
  <1>7. ASSUME NEW f \in Future, WhenReady(f)
        PROVE  /\ UNCHANGED <<slots, audience, asleep>>
               /\ future[f] = "none" /\ future'[f] = "waiting"
               /\ \A g \in Future \ {f} : future'[g] = future[g]
    BY <1>7 DEF WhenReady, StartFuture, history, TypeOK
  <1>8. ASSUME NEW f \in Future, DropFuture(f)
        PROVE  /\ UNCHANGED <<slots, audience>> /\ asleep' = asleep \ {f}
               /\ future[f] = "waiting" /\ future'[f] = "dropped"
               /\ \A g \in Future \ {f} : future'[g] = future[g]
    BY <1>8 DEF DropFuture, history, TypeOK
  <1> QED
    BY <1>1, <1>2, <1>3, <1>4, <1>5, <1>6, <1>7, <1>8 DEF SharedNext

\* While the core is locked nobody joins or leaves.
LEMMA SharedLocked ==
    ASSUME SharedNext \/ UNCHANGED vars, ~CoreUnlocked
    PROVE  subscribers' = subscribers
  <1>1. CASE Republish \/ DropPublisher \/ DropLastPublisher \/ ReleaseCore \/ UNCHANGED vars
    BY <1>1 DEF Republish, DropPublisher, DropLastPublisher, CloseCore, ReleaseCore, vars, coreVars
  <1>2. ASSUME NEW s \in Subscriber, NEW t \in Subscriber,
               Subscribe(s) \/ Resubscribe(t, s) \/ ResubscribeClosed(t, s) \/ DropSubscriber(s)
        PROVE  subscribers' = subscribers
    BY <1>2 DEF Subscribe, Resubscribe, ResubscribeClosed, Attach, DropSubscriber, Detach
  <1>3. ASSUME NEW s \in Subscriber, PollNext(s)
        PROVE  subscribers' = subscribers
    BY <1>3 DEF PollNext, PollMessage, TakeMessage, PollEnded, PollPending, coreVars
  <1>4. ASSUME NEW e \in Flush, WhenEmpty(e) \/ PollFlushed(e) \/ PollUnflushed(e) \/ DropFlush(e)
        PROVE  subscribers' = subscribers
    BY <1>4 DEF WhenEmpty, StartFlush, PollFlushed, PollUnflushed, DropFlush, coreVars
  <1>5. ASSUME NEW c \in Watcher, WhenClosed(c) \/ PollClosed(c) \/ PollOpen(c) \/ DropWatcher(c)
        PROVE  subscribers' = subscribers
    BY <1>5 DEF WhenClosed, StartWatcher, PollClosed, PollOpen, DropWatcher, coreVars
  <1>6. ASSUME NEW f \in Future, WhenReady(f) \/ DropFuture(f)
        PROVE  subscribers' = subscribers
    BY <1>6 DEF WhenReady, StartFuture, DropFuture, coreVars
  <1> QED
    BY <1>1, <1>2, <1>3, <1>4, <1>5, <1>6 DEF SharedNext

-----------------------------------------------------------------------------
(* Types, registry and accounting *)

\* A grant reserves a slot where there is room; a send or a cancellation releases it.
SingleReserves(f, s) == s \in Registered /\ Reserves(f, {s}, {s}) /\ ~Full(s) /\ waiting' = waiting

\* A grant is such a reservation: a future in its poll holds no slot.
LEMMA TakesReserves ==
    ASSUME TypeOK, GrantInv, NEW f \in Future, NEW s \in Subscriber, TakesTurn(f, s)
    PROVE  SingleReserves(f, s)
  <1>1. slots[f] = {}
    BY DEF TakesTurn, IsPopped, GrantInv
  <1>2. /\ s \in Registered /\ ~Full(s) /\ reserved' = [reserved EXCEPT ![s] = @ + 1]
        /\ slots' = [slots EXCEPT ![f] = {s}]
        /\ UNCHANGED <<subscribers, stream, waiting>>
    BY DEF TakesTurn, HasRoom, coreVars
  <1>3. Reserve({s})
    BY <1>1, <1>2 DEF Reserve, TypeOK
  <1> QED
    BY <1>1, <1>2, <1>3 DEF SingleReserves, Reserves, Wanted

\* Both ends of a sender give back the slot it holds.
LEMMA SenderReleases ==
    ASSUME TypeOK, GrantInv, NEW f \in Future, NEW s \in Subscriber,
           SendSingle(f, s) \/ CancelSingle(f, s)
    PROVE  /\ future[f] = "granted" /\ slots[f] = {s} /\ audience[f] = {s}
           /\ Releases(f, s)
  <1>1. future[f] = "granted" /\ s \in slots[f]
    BY DEF SendSingle, SendSingleTo, CancelSingle, GiveBackSingle
  <1>2. slots[f] = {s} /\ audience[f] = {s}
    BY <1>1 DEF GrantInv
  <1>3. slots' = [slots EXCEPT ![f] = @ \ {s}]
    BY <1>2 DEF SendSingle, SendSingleTo, CancelSingle, GiveBackSingle
  <1>4. /\ reserved' = [reserved EXCEPT ![s] = @ - 1]
        /\ waiting' = waiting \/ waiting' = [waiting EXCEPT ![s] = Append(@, f)]
        /\ UNCHANGED <<subscribers, stream>>
    BY DEF SendSingle, SendSingleTo, CancelSingle, GiveBackSingle, coreVars
  <1> QED
    BY <1>1, <1>2, <1>3, <1>4 DEF Releases

\* Every step keeps the slots, adds a subscriber, reserves one slot or releases one.
LEMMA StepKinds ==
    ASSUME TypeOK, Registry, GrantInv, [SingleNext]_allVars
    PROVE  \/ Keeps
           \/ \E s \in Subscriber : Joins(s)
           \/ \E f \in Future : \E s \in Subscriber : SingleReserves(f, s)
           \/ \E f \in Future : \E s \in Subscriber : Releases(f, s)
  <1>1. CASE SharedNext \/ UNCHANGED vars
    BY <1>1, SharedKinds
  <1>2. ASSUME NEW f \in Future, Looks(f)
        PROVE  Keeps
    <2>1. UNCHANGED <<subscribers, reserved, waiting, stream, slots>>
      BY <1>2, LooksOnly DEF coreVars
    <2> QED
      BY <2>1 DEF Keeps, Registered, Registry, TypeOK
  <1> QED
    BY <1>1, <1>2, StepCases, TakesReserves, SenderReleases

\* Every step keeps the types.
LEMMA StepTypes ==
    ASSUME IInv, GrantInv, [SingleNext]_allVars
    PROVE  TypeOK'
  <1>0. TypeOK /\ Registry /\ SlotAccounting
    BY DEF IInv
  <1>1. CASE SharedNext \/ UNCHANGED vars
    BY <1>0, <1>1, SharedTypes
  <1>2. ASSUME NEW f \in Future, NEW s \in Subscriber, TakesTurn(f, s)
        PROVE  TypeOK'
    <2>1. reserved' \in [Subscriber -> Nat]
      BY <1>0, <1>2 DEF TakesTurn, TypeOK
    <2>2. slots' \in [Future -> SUBSET Subscriber] /\ audience' \in [Future -> SUBSET Subscriber]
      BY <1>0, <1>2 DEF TakesTurn, TypeOK
    <2>3. future' \in [Future -> FutureState] /\ asleep' \subseteq asleep
      BY <1>0, <1>2 DEF TakesTurn, TypeOK, FutureState
    <2> QED
      BY <1>0, <1>2, <2>1, <2>2, <2>3 DEF TakesTurn, TypeOK, coreVars, Registered
  <1>3. ASSUME NEW f \in Future, Looks(f)
        PROVE  TypeOK'
    <2>1. /\ UNCHANGED <<coreVars, published, reserved, waiting, notify_waiting, stream, slots,
                         flush, watcher, wakers, history>>
          /\ future' \in [Future -> FutureState]
          /\ asleep' = asleep \/ asleep' = asleep \cup {f}
          /\ notify_ready' \in [Subscriber -> SUBSET (Future \cup Flush)]
      BY <1>0, <1>3, LooksOnly
    <2> QED
      BY <1>0, <2>1 DEF TypeOK, coreVars, history, Registered
  <1>4. ASSUME NEW f \in Future, NEW s \in Subscriber, SendSingle(f, s) \/ CancelSingle(f, s)
        PROVE  TypeOK'
    <2>1. future[f] = "granted" /\ s \in slots[f] /\ Releases(f, s)
      BY <1>0, <1>4, SenderReleases
    <2>2. reserved[s] >= 1
      BY <1>0, <2>1, HeldSlotCounts
    <2>3. reserved' \in [Subscriber -> Nat]
      <3>1. reserved[s] - 1 \in Nat
        BY <1>0, <2>2 DEF TypeOK
      <3> QED
        BY <1>0, <2>1, <3>1 DEF Releases, TypeOK
    <2>4. waiting' \in [Subscriber -> Seq(Future)]
      <3>1. Append(waiting[s], f) \in Seq(Future)
        BY <1>0 DEF TypeOK
      <3> QED
        BY <1>0, <2>1, <3>1 DEF Releases, TypeOK
    <2>5. slots' \in [Future -> SUBSET Subscriber]
      BY <1>0, <2>1 DEF Releases, TypeOK
    <2>6. future' \in [Future -> FutureState]
      BY <1>0, <1>4 DEF SendSingle, SendSingleTo, CancelSingle, GiveBackSingle, TypeOK, FutureState
    <2>7. /\ notify_waiting' \in [Subscriber -> SUBSET (Subscriber \cup Future)]
          /\ notify_ready' \in [Subscriber -> SUBSET (Future \cup Flush)]
          /\ asleep' \subseteq asleep
      BY <1>0, <1>4 DEF SendSingle, SendSingleTo, CancelSingle, GiveBackSingle, TypeOK
    <2>8. UNCHANGED <<coreVars, published, stream, flush, watcher, wakers, history>>
      BY <1>4 DEF SendSingle, SendSingleTo, CancelSingle, GiveBackSingle
    <2> QED
      BY <1>0, <2>3, <2>4, <2>5, <2>6, <2>7, <2>8 DEF TypeOK, coreVars, history, Registered
  <1> QED
    BY <1>1, <1>2, <1>3, <1>4, StepCases

\* Slots stay with those who have a sender.
LEMMA StepGrants ==
    ASSUME TypeOK, GrantInv, [SingleNext]_allVars
    PROVE  GrantInv'
  <1>1. CASE SharedNext \/ UNCHANGED vars
    <2>1. /\ UNCHANGED <<slots, audience>>
          /\ \A f \in Future :
               \/ future'[f] = future[f] /\ (f \in asleep' => f \in asleep)
               \/ future[f] = "none" /\ future'[f] = "waiting" /\ (f \in asleep' => f \in asleep)
               \/ future[f] = "waiting" /\ future'[f] = "dropped" /\ f \notin asleep'
      BY <1>1, SharedFutures
    <2> QED
      BY <2>1 DEF GrantInv, SingleState
  <1>2. ASSUME NEW f \in Future, NEW s \in Subscriber, TakesTurn(f, s)
        PROVE  GrantInv'
    <2>1. /\ future'[f] = "granted" /\ slots'[f] = {s} /\ audience'[f] = {s}
          /\ \A g \in Future \ {f} :
               future'[g] = future[g] /\ slots'[g] = slots[g] /\ audience'[g] = audience[g]
          /\ asleep' = asleep \ {f}
      BY <1>2 DEF TakesTurn, TypeOK
    <2> QED
      BY <2>1 DEF GrantInv, SingleState
  <1>3. ASSUME NEW f \in Future, Looks(f)
        PROVE  GrantInv'
    <2>1. /\ UNCHANGED <<slots, audience>>
          /\ future[f] \in {"waiting", "polling"} /\ future'[f] \in {"waiting", "polling"}
          /\ \A g \in Future \ {f} : future'[g] = future[g]
          /\ asleep' = asleep \/ asleep' = asleep \cup {f}
      BY <1>3, LooksOnly DEF history
    <2> QED
      BY <2>1 DEF GrantInv, SingleState
  <1>4. ASSUME NEW f \in Future, NEW s \in Subscriber, SendSingle(f, s) \/ CancelSingle(f, s)
        PROVE  GrantInv'
    <2>1. /\ future[f] = "granted" /\ slots'[f] = {} /\ future'[f] \in {"sent", "cancelled"}
          /\ \A g \in Future \ {f} : future'[g] = future[g] /\ slots'[g] = slots[g]
          /\ audience' = audience /\ asleep' \subseteq asleep
      BY <1>4 DEF SendSingle, SendSingleTo, CancelSingle, GiveBackSingle, history, TypeOK
    <2> QED
      BY <2>1 DEF GrantInv, SingleState
  <1> QED
    BY <1>1, <1>2, <1>3, <1>4, StepCases

\* Turns are popped, forgotten or given to all: no handle ever has two.  A poll begins when no other
\* one is seen, and forgets what it filled when it ends.
LEMMA StepPolls ==
    ASSUME TypeOK, Registry, GrantInv, PollInv, [SingleNext]_allVars
    PROVE  PollInv'
  <1>1. CASE (SharedNext \/ UNCHANGED vars) /\ UNCHANGED pollVars
    <2>1. \A f \in Future : future'[f] = "polling" <=> future[f] = "polling"
      BY <1>1, SharedFutures
    <2> QED
      BY <1>1, <2>1 DEF PollInv, pollVars
  <1>2. ASSUME NEW f \in Future, PollBegins(f)
        PROVE  PollInv'
    <2>1. /\ CoreUnlocked /\ future' = [future EXCEPT ![f] = "polling"]
          /\ UNCHANGED pollVars
      BY <1>2 DEF PollBegins, BeginPoll, pollVars
    <2>2. \A g \in Future : future'[g] = "polling" => g = f
      BY <2>1 DEF CoreUnlocked, TypeOK
    <2>3. ~refilled
      BY <2>1 DEF CoreUnlocked, PollInv
    <2> QED
      BY <2>1, <2>2, <2>3 DEF PollInv, pollVars
  <1>3. ASSUME NEW f \in Future, NEW s \in Subscriber, IsPopped(f, s)
        PROVE  turns' \in Seq(Subscriber) /\ \A i, j \in DOMAIN turns' : turns'[i] = turns'[j] => i = j
    BY <1>3, PopFacts DEF IsPopped, PollInv
  <1>4. ASSUME NEW f \in Future, NEW s \in Subscriber, PassesOver(f, s)
        PROVE  PollInv'
    <2>1. UNCHANGED <<future, refilled, unregistered>>
      BY <1>4 DEF PassesOver, vars, taskVars
    <2> QED
      BY <1>3, <1>4, <2>1 DEF PollInv, PassesOver
  <1>5. ASSUME NEW f \in Future, Refills(f)
        PROVE  PollInv'
    <2>1. /\ future[f] = "polling" /\ future' = future /\ turns' \in AllTurns
          /\ refilled' = TRUE /\ unregistered' = Registered
      BY <1>5 DEF Refills, Refill, vars, taskVars
    <2>2. Registered \subseteq Subscriber
      BY DEF TypeOK
    <2> QED
      BY <2>1, <2>2, RefillFacts DEF PollInv
  <1>6. ASSUME NEW f \in Future, NEW s \in Subscriber, Registers(f, s)
        PROVE  PollInv'
    BY <1>6 DEF Registers, Register, PollInv, taskVars
  <1>7. ASSUME NEW f \in Future, NEW state, state # "polling",
               future' = [future EXCEPT ![f] = state],
               refilled' = FALSE \/ (refilled' = refilled /\ future[f] # "polling")
        PROVE  /\ \A g, h \in Future : future'[g] = "polling" /\ future'[h] = "polling" => g = h
               /\ refilled' => \E g \in Future : future'[g] = "polling"
               /\ refilled' \in BOOLEAN
    <2>1. \A g \in Future : future'[g] = "polling" <=> future[g] = "polling" /\ g # f
      BY <1>7 DEF TypeOK
    <2>2. CASE refilled' = FALSE
      BY <2>1, <2>2 DEF PollInv
    <2>3. CASE refilled' = refilled /\ future[f] # "polling"
      <3>1. \A g \in Future : future'[g] = "polling" <=> future[g] = "polling"
        BY <2>1, <2>3
      <3> QED
        BY <2>3, <3>1 DEF PollInv
    <2> QED
      BY <1>7, <2>2, <2>3
  <1>8. ASSUME NEW f \in Future, PollPends(f)
        PROVE  PollInv'
    <2>1. /\ future' = [future EXCEPT ![f] = "waiting"] /\ refilled' = FALSE
          /\ UNCHANGED <<turns, unregistered>>
      BY <1>8 DEF PollPends
    <2> QED
      BY <1>7, <2>1 DEF PollInv
  <1>9. ASSUME NEW f \in Future, NEW s \in Subscriber, TakesTurn(f, s)
        PROVE  PollInv'
    <2>1. /\ future' = [future EXCEPT ![f] = "granted"] /\ refilled' = FALSE /\ unregistered' = {}
          /\ IsPopped(f, s)
      BY <1>9 DEF TakesTurn
    <2> QED
      BY <1>3, <1>7, <2>1 DEF PollInv
  <1>10. ASSUME NEW f \in Future, NEW s \in Subscriber, SendSingle(f, s) \/ CancelSingle(f, s)
         PROVE  PollInv'
    <2>1. /\ future[f] = "granted" /\ UNCHANGED pollVars
          /\ \E state \in {"sent", "cancelled"} : future' = [future EXCEPT ![f] = state]
      BY <1>10 DEF SendSingle, SendSingleTo, CancelSingle, GiveBackSingle
    <2> QED
      BY <1>7, <2>1 DEF PollInv, pollVars
  <1> QED
    BY <1>1, <1>2, <1>4, <1>5, <1>6, <1>8, <1>9, <1>10, StepCases DEF Looks

\* The inductive invariant of the single publisher
SingleInv == IInv /\ GrantInv /\ PollInv

\* It holds at the start.
LEMMA InitSingle == SingleInit => SingleInv
  <1> SUFFICES ASSUME SingleInit
               PROVE  GrantInv /\ PollInv
    BY InitIInv DEF SingleInv, SingleInit
  <1>1. GrantInv
    BY DEF SingleInit, Init, GrantInv, SingleState
  <1>2. /\ turns = <<>> /\ ~refilled /\ refilled \in BOOLEAN /\ unregistered = {}
        /\ \A f \in Future : future[f] = "none"
    BY DEF SingleInit, Init
  <1>3. turns \in Seq(Subscriber) /\ \A i, j \in DOMAIN turns : turns[i] = turns[j] => i = j
    BY <1>2
  <1> QED
    BY <1>1, <1>2, <1>3 DEF PollInv

\* Every step keeps it.
LEMMA StepSingle == SingleInv /\ [SingleNext]_allVars => SingleInv'
  <1> SUFFICES ASSUME SingleInv, [SingleNext]_allVars
               PROVE  SingleInv'
    OBVIOUS
  <1>0. TypeOK /\ Registry /\ SlotAccounting /\ GrantInv /\ PollInv
    BY DEF SingleInv, IInv
  <1>1. TypeOK' /\ GrantInv' /\ PollInv'
    BY <1>0, StepTypes, StepGrants, StepPolls DEF IInv
  <1>2. Registry' /\ SlotAccounting'
    BY <1>0, StepKinds, KindsRegistry, KindsAccounting DEF SingleReserves
  <1> QED
    BY <1>1, <1>2 DEF SingleInv, IInv

\* The types hold, the registry is that of live streams, and `reserved' counts the senders that hold
\* a slot, whoever is dropped before its message is sent; no handle has two turns; and one poll at
\* most is under way.
THEOREM InvariantHolds == Spec => []SingleInv
  <1> QED
    BY InitSingle, StepSingle, PTL DEF Spec

\* No queue holds more than max_queue_size messages and slots: send_single_subscriber reserves only
\* where there is room, and a send fills the slot that its sender holds.
THEOREM QueuesAreBounded == Spec => []QueueBound
  <1>1. SingleInit => QueueBound
    BY SizesAssumption DEF SingleInit, Init, QueueBound, QueueSize
  <1>2. SingleInv /\ QueueBound /\ [SingleNext]_allVars => QueueBound'
    <2> SUFFICES ASSUME SingleInv, QueueBound, [SingleNext]_allVars
                 PROVE  QueueBound'
      OBVIOUS
    <2>0. TypeOK /\ Registry /\ GrantInv /\ TypeOK'
      BY StepSingle DEF SingleInv, IInv
    <2>1. ASSUME NEW f \in Future, NEW s \in Subscriber, SingleReserves(f, s)
          PROVE  QueueBound'
      <3> SUFFICES ASSUME NEW t \in Subscriber
                   PROVE  Len(waiting[t]) + reserved'[t] <= MaxQueueSize
        BY <2>1 DEF QueueBound, QueueSize, SingleReserves
      <3>1. /\ Len(waiting[t]) \in Nat /\ reserved[t] \in Nat
            /\ Len(waiting[t]) + reserved[t] <= MaxQueueSize
        BY <2>0 DEF TypeOK, QueueBound, QueueSize
      <3>2. reserved'[t] = IF t = s THEN reserved[t] + 1 ELSE reserved[t]
        BY <2>1 DEF SingleReserves, Reserves, Reserve
      <3>3. t = s => ~(Len(waiting[t]) + reserved[t] >= MaxQueueSize)
        BY <2>1 DEF SingleReserves, Full, QueueSize
      <3> QED
        BY <3>1, <3>2, <3>3, SizesAssumption
    <2> QED
      BY <2>0, <2>1, StepKinds, KindsBound
  <1> QED
    BY <1>1, <1>2, InitSingle, StepSingle, PTL DEF Spec

-----------------------------------------------------------------------------
(* One subscriber reads a message *)

\* No stream is cloned with what waits for it.
UnclonedSpec == SingleInit /\ [][SingleNext /\ NoClones]_allVars

At(f, s, i) == i \in DOMAIN Delivered(s) /\ Delivered(s)[i] = f

\* A message that was sent has its place, no other, and no other message has one; new streams are
\* empty.
ReadInv ==
    /\ \A s \in Subscriber : stream[s] = "none" => received[s] = <<>> /\ Delivered(s) = <<>>
    /\ \A f \in Future : \A s \in Subscriber : \A i : At(f, s, i) => future[f] = "sent"
    /\ \A f \in Future : future[f] = "sent" => \E s \in Subscriber : \E i : At(f, s, i)
    /\ \A f \in Future : \A s, t \in Subscriber : \A i, j :
         At(f, s, i) /\ At(f, t, j) => s = t /\ i = j

\* Steps that put nothing into a queue and send nothing
LEMMA SameReads ==
    ASSUME ReadInv, \A s \in Subscriber : Delivered(s)' = Delivered(s),
           \A s \in Subscriber : stream'[s] = "none" => stream[s] = "none" /\ received'[s] = received[s],
           \A f \in Future : future'[f] = "sent" <=> future[f] = "sent"
    PROVE  ReadInv'
  <1>1. \A s \in Subscriber : \A f, i : At(f, s, i)' <=> At(f, s, i)
    BY DEF At
  <1> QED
    BY <1>1 DEF ReadInv

\* A send adds its message to the end of one queue.
LEMMA SendAppends ==
    ASSUME TypeOK, NEW f \in Future, NEW s \in Subscriber, SendSingle(f, s)
    PROVE  /\ Delivered(s)' = Append(Delivered(s), f)
           /\ \A t \in Subscriber \ {s} : Delivered(t)' = Delivered(t)
           /\ UNCHANGED <<stream, received>>
           /\ future[f] = "granted" /\ future'[f] = "sent"
           /\ \A g \in Future \ {f} : future'[g] = future[g]
  <1>1. /\ future[f] = "granted" /\ future' = [future EXCEPT ![f] = "sent"]
        /\ waiting' = [waiting EXCEPT ![s] = Append(@, f)]
        /\ UNCHANGED <<stream, received>>
    BY DEF SendSingle, SendSingleTo, history
  <1>2. received[s] \in Seq(Future) /\ waiting[s] \in Seq(Future)
    BY DEF TypeOK
  <1>3. waiting'[s] = Append(waiting[s], f) /\ \A t \in Subscriber \ {s} : waiting'[t] = waiting[t]
    BY <1>1 DEF TypeOK
  <1>4. received[s] \o Append(waiting[s], f) = Append(received[s] \o waiting[s], f)
    <2> DEFINE r == received[s]
               w == waiting[s]
    <2>1. r \in Seq(Future) /\ w \in Seq(Future)
      BY <1>2
    <2> HIDE DEF r, w
    <2>2. r \o Append(w, f) = Append(r \o w, f)
      BY <2>1, ConcatAppend
    <2> QED
      BY <2>2 DEF r, w
  <1>5. Delivered(s)' = Append(Delivered(s), f)
    BY <1>1, <1>3, <1>4 DEF Delivered
  <1>6. \A t \in Subscriber \ {s} : Delivered(t)' = Delivered(t)
    BY <1>1, <1>3 DEF Delivered
  <1> QED
    BY <1>1, <1>5, <1>6 DEF TypeOK

\* A send gives its message its place.
LEMMA SendReads ==
    ASSUME TypeOK, Registry, GrantInv, ReadInv, NEW f \in Future, NEW s \in Subscriber,
           SendSingle(f, s)
    PROVE  ReadInv'
  <1> DEFINE n == Len(Delivered(s)) + 1
  <1>1. /\ Delivered(s)' = Append(Delivered(s), f)
        /\ \A t \in Subscriber \ {s} : Delivered(t)' = Delivered(t)
        /\ UNCHANGED <<stream, received>>
        /\ future[f] = "granted" /\ future'[f] = "sent"
        /\ \A g \in Future \ {f} : future'[g] = future[g]
    BY SendAppends
  <1>2. /\ DOMAIN Delivered(s) = 1 .. n - 1 /\ n \in Nat \ {0}
        /\ DOMAIN Delivered(s)' = 1 .. n
        /\ \A i \in 1 .. n - 1 : Delivered(s)'[i] = Delivered(s)[i]
        /\ Delivered(s)'[n] = f
    <2>1. Delivered(s) \in Seq(Future)
      BY DeliveredType
    <2> QED
      BY <1>1, <2>1, AppendFacts
  <1> HIDE DEF n
  <1>3. \A t \in Subscriber : \A i : ~At(f, t, i)
    BY <1>1 DEF ReadInv
  <1>4. \A t \in Subscriber : \A i : At(f, t, i)' <=> t = s /\ i = n
    <2>1. \A i : At(f, s, i)' <=> i = n
      <3>1. \A i \in 1 .. n - 1 : Delivered(s)[i] # f
        BY <1>2, <1>3 DEF At
      <3>2. \A i \in 1 .. n : i = n \/ i \in 1 .. n - 1
        BY <1>2
      <3>3. n \in 1 .. n
        BY <1>2
      <3> QED
        BY <1>2, <3>1, <3>2, <3>3 DEF At
    <2>2. \A t \in Subscriber \ {s} : \A i : ~At(f, t, i)'
      BY <1>1, <1>3 DEF At
    <2> QED
      BY <2>1, <2>2
  <1>5. \A g \in Future \ {f} : \A t \in Subscriber : \A i : At(g, t, i)' <=> At(g, t, i)
    <2>1. ASSUME NEW g \in Future \ {f}, NEW i
          PROVE  At(g, s, i)' <=> At(g, s, i)
      <3>1. i \in 1 .. n <=> i = n \/ i \in 1 .. n - 1
        BY <1>2
      <3> QED
        BY <1>2, <3>1 DEF At
    <2>2. \A g \in Future \ {f} : \A t \in Subscriber \ {s} : \A i : At(g, t, i)' <=> At(g, t, i)
      BY <1>1 DEF At
    <2> QED
      BY <2>1, <2>2
  <1>6. \A t \in Subscriber : stream'[t] = "none" => received'[t] = <<>> /\ Delivered(t)' = <<>>
    <2>1. stream[s] # "none"
      <3>1. s \in slots[f]
        BY SenderReleases
      <3> QED
        BY <3>1 DEF Registry
    <2> QED
      BY <1>1, <2>1 DEF ReadInv
  <1> QED
    BY <1>1, <1>4, <1>5, <1>6 DEF ReadInv

\* Every step keeps the places, unless it clones a queue.
LEMMA StepReads == SingleInv /\ ReadInv /\ [SingleNext /\ NoClones]_allVars => ReadInv'
  <1> SUFFICES ASSUME SingleInv, ReadInv, [SingleNext /\ NoClones]_allVars
               PROVE  ReadInv'
    OBVIOUS
  <1>0. /\ TypeOK /\ Registry /\ GrantInv /\ [SingleNext]_allVars
        /\ NoClones \/ UNCHANGED vars
    BY DEF SingleInv, IInv, allVars
  <1>1. CASE SharedNext \/ UNCHANGED vars
    <2>1. \A f \in Future : future'[f] = "sent" <=> future[f] = "sent"
      BY <1>0, <1>1, SharedFutures
    <2>2. CASE DeliversNothing
      BY <2>1, <2>2, SameReads DEF DeliversNothing, KeepsStreamsMade
    <2>3. ASSUME NEW s \in Subscriber, JoinsIdle(s)
          PROVE  ReadInv'
      <3>1. /\ stream[s] = "none" /\ stream'[s] = "live"
            /\ \A t \in Subscriber \ {s} : waiting'[t] = waiting[t] /\ stream'[t] = stream[t]
            /\ received' = received
        BY <1>0, <2>3 DEF JoinsIdle, NewSubCore, history, TypeOK
      <3>2. waiting'[s] = <<>>
        <4>1. CASE NoClones
          BY <3>1, <4>1 DEF NoClones
        <4>2. CASE UNCHANGED vars
          BY <3>1, <4>2 DEF vars, taskVars
        <4> QED
          BY <1>0, <4>1, <4>2
      <3>3. received[s] = <<>> /\ Delivered(s) = <<>>
        BY <3>1 DEF ReadInv
      <3>4. Delivered(s)' = Delivered(s)
        BY <3>1, <3>2, <3>3 DEF Delivered
      <3>5. \A t \in Subscriber : Delivered(t)' = Delivered(t)
        BY <3>1, <3>4 DEF Delivered
      <3> QED
        BY <2>1, <3>1, <3>5, SameReads
    <2> QED
      BY <1>0, <1>1, <2>2, <2>3, SharedDeliveries
  <1>2. ASSUME NEW f \in Future, NEW s \in Subscriber, TakesTurn(f, s) \/ CancelSingle(f, s)
        PROVE  ReadInv'
    <2>1. /\ future[f] \in {"polling", "granted"}
          /\ \E state \in {"granted", "cancelled"} : future' = [future EXCEPT ![f] = state]
          /\ UNCHANGED <<waiting, received, stream>>
      BY <1>2 DEF TakesTurn, IsPopped, CancelSingle, GiveBackSingle, history
    <2>2. \A g \in Future : future'[g] = "sent" <=> future[g] = "sent"
      BY <1>0, <2>1 DEF TypeOK
    <2> QED
      BY <2>1, <2>2, SameReads DEF Delivered
  <1>3. ASSUME NEW f \in Future, Looks(f)
        PROVE  ReadInv'
    <2>1. /\ UNCHANGED <<waiting, received, stream>>
          /\ future[f] # "sent" /\ future'[f] # "sent"
          /\ \A g \in Future \ {f} : future'[g] = future[g]
      BY <1>0, <1>3, LooksOnly DEF history
    <2> QED
      BY <2>1, SameReads DEF Delivered
  <1>4. ASSUME NEW f \in Future, NEW s \in Subscriber, SendSingle(f, s)
        PROVE  ReadInv'
    BY <1>0, <1>4, SendReads
  <1> QED
    BY <1>0, <1>1, <1>2, <1>3, <1>4, StepCases

\* A message that was sent is in one queue, once, and no other message is anywhere: the sender owns
\* the only slot that send_single_subscriber reserved for it.  Only a clone of a queue copies it.
THEOREM OneSubscriberReads == UnclonedSpec => []OneReader
  <1>1. SingleInit => ReadInv
    <2> SUFFICES ASSUME SingleInit
                 PROVE  ReadInv
      OBVIOUS
    <2>1. \A s \in Subscriber : received[s] = <<>> /\ Delivered(s) = <<>>
      BY DEF SingleInit, Init, Delivered
    <2>2. \A f \in Future : future[f] = "none"
      BY DEF SingleInit, Init
    <2> QED
      BY <2>1, <2>2 DEF ReadInv, At
  <1>2. SingleInv /\ [SingleNext /\ NoClones]_allVars => SingleInv'
    BY StepSingle
  <1>3. ReadInv => OneReader
    <2> SUFFICES ASSUME ReadInv, NEW f \in Future
                 PROVE  Cardinality(Places(f)) = IF future[f] = "sent" THEN 1 ELSE 0
      BY DEF OneReader
    <2>1. \A p : p \in Places(f) <=> \E s \in Subscriber : \E i : p = <<s, i>> /\ At(f, s, i)
      BY DEF Places, At
    <2>2. CASE future[f] = "sent"
      <3>0. PICK s \in Subscriber : \E i : At(f, s, i)
        BY <2>2 DEF ReadInv
      <3>1. PICK i : At(f, s, i)
        BY <3>0
      <3>2. \A t \in Subscriber : \A j : At(f, t, j) => t = s /\ j = i
        BY <3>1 DEF ReadInv
      <3>3. Places(f) = {<<s, i>>}
        BY <2>1, <3>1, <3>2
      <3> QED
        BY <2>2, <3>3, FS_Singleton
    <2>3. CASE future[f] # "sent"
      <3>1. Places(f) = {}
        BY <2>1, <2>3 DEF ReadInv
      <3> QED
        BY <2>3, <3>1, FS_EmptySet
    <2> QED
      BY <2>2, <2>3
  <1> QED
    BY <1>1, <1>2, <1>3, InitSingle, StepReads, PTL DEF UnclonedSpec

-----------------------------------------------------------------------------
(* Who makes room is heard *)

\* No subscriber joins while a publish waits.
OrderedSpec == SingleInit /\ [][SingleNext /\ JoinsBetweenPublishes]_allVars

\* A poll registers after its last turn only, and leaves its waker behind with each subscriber.
HeardInv ==
    /\ refilled /\ turns # <<>> => Registered \subseteq unregistered
    /\ publisher_count > 0 =>
         \A f \in Future : \A s \in Registered : Awaits(f, s) => f \in notify_ready[s]

\* What f sleeps for is still to come, and f is still registered for it.
Kept(f, s) ==
    /\ Len(waiting'[s]) + reserved'[s] = Len(waiting[s]) + reserved[s]
    /\ publisher_count' > 0 => f \in notify_ready'[s]

\* A shared step takes nothing out of a queue without waking who registered there, and only the last
\* Drop forgets them.
LEMMA SharedAwaits ==
    ASSUME TypeOK, Registry, SharedNext \/ UNCHANGED vars,
           NEW f \in Future, f \in asleep', NEW s \in Registered, f \in notify_ready[s]
    PROVE  Kept(f, s)
  <1>0. s \in Subscriber /\ stream[s] = "live"
    BY DEF TypeOK, Registry
  <1>1. ASSUME waiting'[s] = waiting[s], reserved'[s] = reserved[s],
               notify_ready[s] \subseteq notify_ready'[s]
        PROVE  Kept(f, s)
    BY <1>1 DEF Kept, QueueSize
  <1>2. CASE Republish \/ DropPublisher \/ ReleaseCore \/ UNCHANGED vars
    BY <1>1, <1>2 DEF Republish, DropPublisher, ReleaseCore, vars, subVars
  <1>3. CASE DropLastPublisher
    BY <1>0, <1>3 DEF DropLastPublisher, CloseCore, Kept, QueueSize, TypeOK
  <1>4. ASSUME NEW t \in Subscriber, NEW u \in Subscriber,
               Subscribe(t) \/ Resubscribe(u, t) \/ ResubscribeClosed(u, t)
        PROVE  Kept(f, s)
    <2>1. \E b, q : NewSubCore(t, b, q)
      BY <1>4 DEF Subscribe, Resubscribe, Attach, ResubscribeClosed
    <2>2. t # s
      BY <1>0, <2>1 DEF NewSubCore
    <2>3. /\ waiting'[s] = waiting[s] /\ reserved'[s] = reserved[s]
          /\ notify_ready'[s] = notify_ready[s]
      BY <1>0, <2>1, <2>2 DEF NewSubCore, TypeOK
    <2> QED
      BY <1>1, <2>3
  <1>5. ASSUME NEW t \in Subscriber, DropSubscriber(t)
        PROVE  Kept(f, s)
    <2>1. /\ asleep' = asleep \ (notify_ready[t] \cup {t})
          /\ waiting' = waiting /\ reserved' = reserved
          /\ notify_ready' = [notify_ready EXCEPT ![t] = {}]
      BY <1>5 DEF DropSubscriber, Detach
    <2>2. t # s
      BY <2>1
    <2>3. notify_ready'[s] = notify_ready[s]
      BY <1>0, <2>1, <2>2 DEF TypeOK
    <2> QED
      BY <1>1, <2>1, <2>3
  <1>6. ASSUME NEW t \in Subscriber, PollNext(t)
        PROVE  Kept(f, s)
    <2>1. t = s => PollEnded(t)
      BY <1>6, TasksAssumption DEF PollNext, PollMessage, TakeMessage, PollPending
    <2>2. CASE PollEnded(t)
      BY <1>1, <2>2 DEF PollEnded, subVars
    <2>3. CASE t # s
      <3>1. /\ waiting'[s] = waiting[s] /\ reserved'[s] = reserved[s]
            /\ notify_ready'[s] = notify_ready[s]
        BY <1>0, <1>6, <2>3 DEF PollNext, PollMessage, TakeMessage, PollPending, PollEnded, subVars,
           TypeOK
      <3> QED
        BY <1>1, <3>1
    <2> QED
      BY <2>1, <2>2, <2>3
  <1>7. ASSUME NEW g \in Future, WhenReady(g) \/ DropFuture(g)
        PROVE  Kept(f, s)
    BY <1>1, <1>7 DEF WhenReady, StartFuture, DropFuture, subVars
  <1>8. ASSUME NEW e \in Flush, WhenEmpty(e) \/ PollFlushed(e) \/ PollUnflushed(e) \/ DropFlush(e)
        PROVE  Kept(f, s)
    <2>1. waiting' = waiting /\ reserved' = reserved /\ notify_ready[s] \subseteq notify_ready'[s]
      BY <1>0, <1>8 DEF WhenEmpty, StartFlush, PollFlushed, PollUnflushed, DropFlush, subVars, TypeOK
    <2> QED
      BY <1>1, <2>1
  <1>9. ASSUME NEW c \in Watcher, WhenClosed(c) \/ PollClosed(c) \/ PollOpen(c) \/ DropWatcher(c)
        PROVE  Kept(f, s)
    BY <1>1, <1>9 DEF WhenClosed, StartWatcher, PollClosed, PollOpen, DropWatcher, subVars
  <1> QED
    BY <1>2, <1>3, <1>4, <1>5, <1>6, <1>7, <1>8, <1>9 DEF SharedNext

\* Nor do the steps of polls and senders.
LEMMA StepAwaits ==
    ASSUME SingleInv, [SingleNext]_allVars,
           NEW f \in Future, f \in asleep', NEW s \in Registered, f \in notify_ready[s]
    PROVE  /\ ~(QueueSize(s)' < QueueSize(s))
           /\ publisher_count' > 0 => f \in notify_ready'[s]
  <1>0. /\ TypeOK /\ Registry /\ GrantInv /\ s \in Subscriber
        /\ waiting[s] \in Seq(Future) /\ Len(waiting[s]) \in Nat /\ reserved[s] \in Nat
    BY DEF SingleInv, IInv, TypeOK
  <1>1. CASE SharedNext \/ UNCHANGED vars
    BY <1>0, <1>1, SharedAwaits DEF Kept, QueueSize
  <1>2. ASSUME NEW g \in Future, Looks(g)
        PROVE  QueueSize(s)' = QueueSize(s) /\ f \in notify_ready'[s]
    BY <1>0, <1>2, LooksOnly DEF QueueSize
  <1>3. ASSUME NEW g \in Future, NEW t \in Subscriber, TakesTurn(g, t)
        PROVE  ~(QueueSize(s)' < QueueSize(s)) /\ f \in notify_ready'[s]
    <2>1. /\ reserved' = [reserved EXCEPT ![t] = @ + 1]
          /\ UNCHANGED <<waiting, notify_ready>>
      BY <1>3 DEF TakesTurn
    <2>2. reserved'[s] = reserved[s] \/ reserved'[s] = reserved[s] + 1
      BY <1>0, <2>1 DEF TypeOK
    <2> QED
      BY <1>0, <2>1, <2>2 DEF QueueSize
  <1>4. ASSUME NEW g \in Future, NEW t \in Subscriber, SendSingle(g, t)
        PROVE  ~(QueueSize(s)' < QueueSize(s)) /\ f \in notify_ready'[s]
    <2>1. /\ reserved' = [reserved EXCEPT ![t] = @ - 1]
          /\ waiting' = [waiting EXCEPT ![t] = Append(@, g)]
          /\ notify_ready' = notify_ready
      BY <1>4 DEF SendSingle, SendSingleTo
    <2>2. CASE t = s
      <3>1. waiting'[s] = Append(waiting[s], g) /\ reserved'[s] = reserved[s] - 1
        BY <1>0, <2>1, <2>2 DEF TypeOK
      <3>2. Len(Append(waiting[s], g)) = Len(waiting[s]) + 1
        BY <1>0
      <3> QED
        BY <1>0, <2>1, <3>1, <3>2 DEF QueueSize
    <2>3. CASE t # s
      <3>1. waiting'[s] = waiting[s] /\ reserved'[s] = reserved[s]
        BY <1>0, <2>1, <2>3 DEF TypeOK
      <3> QED
        BY <1>0, <2>1, <3>1 DEF QueueSize
    <2> QED
      BY <2>2, <2>3
  <1>5. ASSUME NEW g \in Future, NEW t \in Subscriber, CancelSingle(g, t)
        PROVE  ~(QueueSize(s)' < QueueSize(s)) /\ f \in notify_ready'[s]
    <2>1. /\ reserved' = [reserved EXCEPT ![t] = @ - 1]
          /\ notify_ready' = [notify_ready EXCEPT ![t] = {}]
          /\ asleep' = asleep \ notify_ready[t]
          /\ waiting' = waiting
      BY <1>5 DEF CancelSingle, GiveBackSingle
    <2>2. t # s
      BY <2>1
    <2>3. reserved'[s] = reserved[s] /\ notify_ready'[s] = notify_ready[s]
      BY <1>0, <2>1, <2>2 DEF TypeOK
    <2> QED
      BY <1>0, <2>1, <2>3 DEF QueueSize
  <1> QED
    BY <1>1, <1>2, <1>3, <1>4, <1>5, <1>0, StepCases DEF QueueSize

\* Every step keeps the wakers of those who sleep, unless it wakes them.
LEMMA StepHeard ==
    SingleInv /\ HeardInv /\ [SingleNext /\ JoinsBetweenPublishes]_allVars => HeardInv'
  <1> SUFFICES ASSUME SingleInv, HeardInv, [SingleNext /\ JoinsBetweenPublishes]_allVars
               PROVE  HeardInv'
    OBVIOUS
  <1>0. /\ TypeOK /\ Registry /\ GrantInv /\ PollInv /\ [SingleNext]_allVars
        /\ JoinsBetweenPublishes \/ UNCHANGED vars
    BY DEF SingleInv, IInv, allVars
  <1>1. CASE (SharedNext \/ UNCHANGED vars) /\ UNCHANGED pollVars
    <2>1. ~CoreUnlocked => Registered' = Registered
      BY <1>1, SharedLocked DEF Registered
    <2>2. refilled' /\ turns' # <<>> => Registered' \subseteq unregistered'
      <3>1. refilled => ~CoreUnlocked
        BY <1>0 DEF PollInv, CoreUnlocked
      <3> QED
        BY <1>1, <2>1, <3>1 DEF HeardInv, pollVars
    <2>3. ASSUME publisher_count' > 0, NEW f \in Future, NEW s \in Registered', Awaits(f, s)'
          PROVE  f \in notify_ready'[s]
      <3>1. f \in asleep' /\ f \in asleep /\ future'[f] = future[f]
        BY <1>0, <1>1, <2>3, SharedFutures DEF Awaits, GrantInv
      <3>2. Awaits(f, s)
        BY <1>1, <2>3, <3>1 DEF Awaits, pollVars
      <3>3. publisher_count > 0
        BY <1>0, <1>1, <2>3, SharedPublishersGo
      <3>4. s \in Registered
        <4>1. CASE future[f] = "polling"
          BY <2>1, <4>1 DEF CoreUnlocked
        <4>2. CASE future[f] = "waiting"
          <5>1. Registered' \subseteq Registered
            BY <1>0, <4>2 DEF JoinsBetweenPublishes, NoPublishWaits, vars, coreVars, Registered
          <5> QED
            BY <5>1
        <4> QED
          BY <3>2, <4>1, <4>2 DEF Awaits
      <3> QED
        BY <1>0, <2>3, <3>1, <3>2, <3>3, <3>4, StepAwaits DEF HeardInv
    <2> QED
      BY <2>2, <2>3 DEF HeardInv
  <1>2. ASSUME UNCHANGED <<publisher_count, subscribers>>,
               refilled' /\ turns' # <<>> => Registered \subseteq unregistered',
               \A f \in Future : \A s \in Registered :
                 Awaits(f, s)' => Awaits(f, s) \/ f \in notify_ready'[s]
        PROVE  HeardInv'
    <2> SUFFICES ASSUME publisher_count' > 0, NEW f \in Future, NEW s \in Registered,
                        Awaits(f, s)', Awaits(f, s)
                 PROVE  f \in notify_ready'[s]
      BY <1>2 DEF HeardInv, Registered
    <2>1. f \in asleep' /\ f \in notify_ready[s]
      BY <1>2 DEF Awaits, HeardInv
    <2> QED
      BY <1>0, <2>1, StepAwaits
  <1>3. \A f, g \in Future : future[f] = "polling" /\ future[g] = "polling" => f = g
    BY <1>0 DEF PollInv
  <1>4. ASSUME NEW g \in Future, PollBegins(g)
        PROVE  HeardInv'
    <2>1. /\ \A f \in Future : future[f] # "polling"
          /\ future'[g] = "polling" /\ \A f \in Future \ {g} : future'[f] = future[f]
          /\ asleep' = asleep \cup {g}
          /\ UNCHANGED <<publisher_count, subscribers, turns, refilled, unregistered>>
      BY <1>0, <1>4 DEF PollBegins, BeginPoll, CoreUnlocked, coreVars, TypeOK
    <2>2. ~refilled
      BY <1>0, <2>1 DEF PollInv
    <2> QED
      BY <1>2, <2>1, <2>2 DEF Awaits
  <1>5. ASSUME NEW g \in Future, NEW t \in Subscriber, PassesOver(g, t)
        PROVE  HeardInv'
    <2>1. /\ turns # <<>>
          /\ UNCHANGED <<publisher_count, subscribers, future, asleep, refilled, unregistered>>
      BY <1>5 DEF PassesOver, IsPopped, vars, coreVars, taskVars
    <2>2. refilled => Registered \subseteq unregistered
      BY <2>1 DEF HeardInv
    <2> QED
      BY <1>2, <2>1, <2>2 DEF Awaits
  <1>6. ASSUME NEW g \in Future, NEW t \in Subscriber, TakesTurn(g, t)
        PROVE  HeardInv'
    <2>1. /\ future'[g] = "granted" /\ \A f \in Future \ {g} : future'[f] = future[f]
          /\ asleep' = asleep \ {g} /\ ~refilled'
          /\ UNCHANGED <<publisher_count, subscribers>>
      BY <1>0, <1>6 DEF TakesTurn, coreVars, TypeOK
    <2> QED
      BY <1>2, <2>1 DEF Awaits
  <1>7. ASSUME NEW g \in Future, Refills(g)
        PROVE  HeardInv'
    <2>1. /\ unregistered' = Registered
          /\ UNCHANGED <<publisher_count, subscribers, future, asleep>>
      BY <1>7 DEF Refills, Refill, vars, coreVars, taskVars
    <2> QED
      BY <1>2, <2>1 DEF Awaits
  <1>8. ASSUME NEW g \in Future, NEW t \in Subscriber, Registers(g, t)
        PROVE  HeardInv'
    <2>1. /\ future[g] = "polling" /\ turns = <<>>
          /\ notify_ready' = [notify_ready EXCEPT ![t] = @ \cup {g}]
          /\ unregistered' = unregistered \ {t}
          /\ UNCHANGED <<publisher_count, subscribers, future, asleep, turns, refilled>>
      BY <1>8 DEF Registers, Register, coreVars, taskVars
    <2>2. g \in notify_ready'[t]
      BY <1>0, <2>1 DEF TypeOK
    <2>3. ASSUME NEW f \in Future, NEW s \in Registered, Awaits(f, s)'
          PROVE  Awaits(f, s) \/ f \in notify_ready'[s]
      <3>1. CASE s = t /\ future[f] = "polling"
        BY <1>3, <2>1, <2>2, <3>1
      <3>2. CASE s # t \/ future[f] # "polling"
        BY <2>1, <2>3, <3>2 DEF Awaits
      <3> QED
        BY <3>1, <3>2
    <2> QED
      BY <1>2, <2>1, <2>3
  <1>9. ASSUME NEW g \in Future, PollPends(g)
        PROVE  HeardInv'
    <2>1. /\ future[g] = "polling" /\ turns = <<>> /\ refilled /\ unregistered = {} /\ ~refilled'
          /\ \A f \in Future \ {g} : future'[f] = future[f]
          /\ UNCHANGED <<publisher_count, subscribers, asleep>>
      BY <1>0, <1>9 DEF PollPends, coreVars, TypeOK
    <2> QED
      BY <1>2, <2>1 DEF Awaits
  <1>10. ASSUME NEW g \in Future, NEW t \in Subscriber, SendSingle(g, t) \/ CancelSingle(g, t)
         PROVE  HeardInv'
    <2>1. /\ future'[g] \in {"sent", "cancelled"} /\ \A f \in Future \ {g} : future'[f] = future[f]
          /\ asleep' \subseteq asleep
          /\ UNCHANGED <<publisher_count, subscribers, turns, refilled, unregistered>>
      BY <1>0, <1>10 DEF SendSingle, SendSingleTo, CancelSingle, GiveBackSingle, coreVars, pollVars,
         TypeOK
    <2> QED
      BY <1>2, <2>1 DEF Awaits, HeardInv
  <1> QED
    BY <1>0, <1>1, <1>4, <1>5, <1>6, <1>7, <1>8, <1>9, <1>10, StepCases DEF Looks

\* While a publisher exists, a read or a cancellation that makes room wakes every publish that sleeps,
\* and every one that is still in its poll but has registered there: its waker is in notify_ready, and
\* whoever makes room drains it.  Subscribe brings room and drains nothing, hence the discipline.  That
\* the publish then finds no room left unseen is not said: it may have looked too early.
THEOREM WhoMakesRoomIsHeard == OrderedSpec => RoomIsHeard
  <1>1. SingleInit => HeardInv
    BY DEF SingleInit, Init, HeardInv, Awaits
  <1>2. SingleInv /\ [SingleNext /\ JoinsBetweenPublishes]_allVars => SingleInv'
    BY StepSingle
  <1>3. SingleInv /\ HeardInv /\ [SingleNext /\ JoinsBetweenPublishes]_allVars =>
          [\A f \in Future, s \in Registered :
             publisher_count > 0 /\ Awaits(f, s) /\ QueueSize(s)' < QueueSize(s) => f \notin asleep']_allVars
    BY StepAwaits DEF HeardInv
  <1> QED
    BY <1>1, <1>2, <1>3, InitSingle, StepHeard, PTL DEF OrderedSpec, RoomIsHeard

-----------------------------------------------------------------------------
(* Turns are even *)

\* All subscribers join before the first publish.
EarlySpec == SingleInit /\ [][SingleNext /\ JoinsFirst]_allVars

NothingBegun == \A f \in Future : future[f] = "none"

\* Before the first publish, nothing waits and nobody has a turn.
FreshInv == NothingBegun => turns = <<>> /\ \A s \in Subscriber : waiting[s] = <<>>

\* What is in a queue was granted to its subscriber.
SizeInv == \A s \in Registered : QueueSize(s) <= Grants(s)

\* There were as many rounds as a subscriber has grants and turns, unless it was full in one.
EvenWith(queue, R) ==
    \A s \in Registered :
        /\ Grants(s) + Due(queue, s) <= R
        /\ Grants(s) < MaxQueueSize => Grants(s) + Due(queue, s) = R

RoundInv == \E R \in Nat : EvenWith(turns, R)

\* Grants are counted.
LEMMA GrantsFinite ==
    \A s : /\ IsFiniteSet({f \in Future : s \in audience[f]}) /\ Grants(s) \in Nat
           /\ Grants(s)' \in Nat
  <1> SUFFICES ASSUME NEW s
               PROVE  /\ IsFiniteSet({f \in Future : s \in audience[f]}) /\ Grants(s) \in Nat
                      /\ Grants(s)' \in Nat
    OBVIOUS
  <1>1. {f \in Future : s \in audience[f]} \in SUBSET Future
    OBVIOUS
  <1>2. {f \in Future : s \in audience'[f]} \in SUBSET Future
    OBVIOUS
  <1>3. /\ IsFiniteSet({f \in Future : s \in audience[f]})
        /\ IsFiniteSet({f \in Future : s \in audience'[f]})
    BY <1>1, <1>2, FutureAssumption, FS_Subset
  <1> QED
    BY <1>3, FS_CardinalityType DEF Grants

\* A poll that gets its sender grants once more.
LEMMA TakesGrants ==
    ASSUME TypeOK, GrantInv, NEW f \in Future, NEW s \in Subscriber, TakesTurn(f, s)
    PROVE  /\ Grants(s)' = Grants(s) + 1
           /\ \A t \in Subscriber \ {s} : Grants(t)' = Grants(t)
  <1>1. audience[f] = {} /\ audience' = [audience EXCEPT ![f] = {s}]
    BY DEF TakesTurn, IsPopped, GrantInv
  <1>2. \A t : {g \in Future : t \in audience'[g]} =
                 IF t = s THEN {g \in Future : t \in audience[g]} \cup {f}
                          ELSE {g \in Future : t \in audience[g]}
    BY <1>1 DEF TypeOK
  <1>3. f \notin {g \in Future : s \in audience[g]}
    BY <1>1
  <1>4. Cardinality({g \in Future : s \in audience[g]} \cup {f}) =
          Cardinality({g \in Future : s \in audience[g]}) + 1
    BY <1>3, GrantsFinite, FS_AddElement
  <1> QED
    BY <1>2, <1>4 DEF Grants

\* A full queue takes as many grants as it has places.
LEMMA FullGrants ==
    ASSUME TypeOK, SizeInv, NEW s \in Registered
    PROVE  ~HasRoom(s) => ~(Grants(s) < MaxQueueSize)
  <1>0. s \in Subscriber /\ Grants(s) \in Nat
    BY GrantsFinite DEF TypeOK
  <1>1. Len(waiting[s]) \in Nat /\ reserved[s] \in Nat
    BY <1>0 DEF TypeOK
  <1>2. Len(waiting[s]) + reserved[s] <= Grants(s)
    BY DEF SizeInv, QueueSize
  <1> QED
    BY <1>0, <1>1, <1>2, SizesAssumption DEF HasRoom, Full, QueueSize

\* Who takes a turn has one turn less and one grant more; who is passed over loses a turn, but was full.
LEMMA PoppedRound ==
    ASSUME TypeOK, GrantInv, PollInv, SizeInv, RoundInv, NEW f \in Future, NEW s \in Subscriber,
           TakesTurn(f, s) \/ PassesOver(f, s)
    PROVE  RoundInv'
  <1>1. PICK R \in Nat : EvenWith(turns, R)
    BY DEF RoundInv
  <1>2. Due(turns, s) = 1 /\ Due(turns', s) = 0 /\ \A t : t # s => Due(turns', t) = Due(turns, t)
    BY PopFacts DEF TakesTurn, PassesOver, IsPopped, PollInv
  <1>3. Registered' = Registered
    BY DEF TakesTurn, PassesOver, coreVars, vars, Registered
  <1> SUFFICES ASSUME NEW t \in Registered
               PROVE  /\ Grants(t)' + Due(turns', t) <= R
                      /\ Grants(t)' < MaxQueueSize => Grants(t)' + Due(turns', t) = R
    BY <1>3 DEF RoundInv, EvenWith
  <1>4. t \in Subscriber
    BY DEF TypeOK
  <1>5. /\ Grants(t) + Due(turns, t) <= R
        /\ Grants(t) < MaxQueueSize => Grants(t) + Due(turns, t) = R
        /\ Grants(t) \in Nat /\ Grants(t)' \in Nat
        /\ Due(turns, t) \in {0, 1}
    BY <1>1, GrantsFinite DEF EvenWith, Due
  <1>6. CASE TakesTurn(f, s)
    <2>1. t = s => Grants(t)' = Grants(t) + 1
      BY <1>6, TakesGrants
    <2>2. t # s => Grants(t)' = Grants(t)
      BY <1>4, <1>6, TakesGrants
    <2> QED
      BY <1>2, <1>5, <2>1, <2>2, SizesAssumption
  <1>7. CASE PassesOver(f, s)
    <2>1. Grants(t)' = Grants(t)
      BY <1>7 DEF PassesOver, Grants, vars, history
    <2>2. t = s => ~(Grants(t) < MaxQueueSize)
      BY <1>7, FullGrants DEF PassesOver
    <2> QED
      BY <1>2, <1>5, <2>1, <2>2
  <1> QED
    BY <1>6, <1>7

\* A refill begins a round.
LEMMA RefillRound ==
    ASSUME TypeOK, Registry, RoundInv, NEW f \in Future, Refills(f)
    PROVE  RoundInv'
  <1>1. PICK R \in Nat : EvenWith(turns, R)
    BY DEF RoundInv
  <1>2. /\ turns = <<>> /\ turns' \in AllTurns
        /\ Registered' = Registered /\ audience' = audience
    BY DEF Refills, Refill, vars, coreVars, history, Registered
  <1>3. EvenWith(turns, R + 1)'
    <2> SUFFICES ASSUME NEW t \in Registered
                 PROVE  /\ Grants(t)' + Due(turns', t) <= R + 1
                        /\ Grants(t)' < MaxQueueSize => Grants(t)' + Due(turns', t) = R + 1
      BY <1>2 DEF EvenWith
    <2>1. Due(turns', t) = 1 /\ Due(turns, t) = 0
      BY <1>2, RefillFacts DEF Due
    <2>2. Grants(t)' = Grants(t) /\ Grants(t) \in Nat
      BY <1>2, GrantsFinite DEF Grants
    <2>3. /\ Grants(t) + Due(turns, t) <= R
          /\ Grants(t) < MaxQueueSize => Grants(t) + Due(turns, t) = R
      BY <1>1 DEF EvenWith
    <2> QED
      BY <2>1, <2>2, <2>3
  <1> QED
    BY <1>3 DEF RoundInv

\* The shared steps take nobody's grants or turns and fill no queue; who joins finds that nothing
\* has begun.
LEMMA SharedRounds ==
    ASSUME SingleInv, FreshInv, SizeInv, RoundInv,
           SharedNext \/ UNCHANGED vars, JoinsFirst \/ UNCHANGED vars, UNCHANGED pollVars
    PROVE  FreshInv' /\ SizeInv' /\ RoundInv'
  <1>0. TypeOK /\ Registry /\ SlotAccounting /\ GrantInv /\ TypeOK'
    BY SharedTypes DEF SingleInv, IInv
  <1>1. turns' = turns /\ (SharedNext \/ UNCHANGED vars) /\ (JoinsFirst \/ UNCHANGED vars)
    BY DEF pollVars
  <1>2. /\ audience' = audience /\ slots' = slots
        /\ \A f \in Future : future'[f] = "none" => future[f] = "none"
    BY <1>0, <1>1, SharedFutures
  <1>3. \A s : Grants(s)' = Grants(s) /\ Due(turns', s) = Due(turns, s)
    BY <1>1, <1>2 DEF Grants
  <1>4. \A s \in Subscriber : /\ waiting[s] \in Seq(Future) /\ waiting'[s] \in Seq(Future)
                              /\ Len(waiting[s]) \in Nat /\ Len(waiting'[s]) \in Nat
                              /\ reserved[s] \in Nat /\ reserved'[s] \in Nat
    BY <1>0 DEF TypeOK
  <1>5. CASE Keeps
    <2>1. /\ Registered' \subseteq Registered
          /\ \A s \in Subscriber :
               reserved'[s] = reserved[s] /\ Len(waiting'[s]) <= Len(waiting[s])
      BY <1>5 DEF Keeps
    <2>2. FreshInv'
      <3> SUFFICES ASSUME NothingBegun'
                   PROVE  turns' = <<>> /\ \A s \in Subscriber : waiting'[s] = <<>>
        BY DEF FreshInv
      <3>1. turns = <<>> /\ \A s \in Subscriber : waiting[s] = <<>>
        BY <1>2 DEF FreshInv, NothingBegun
      <3>2. ASSUME NEW s \in Subscriber
            PROVE  waiting'[s] = <<>>
        <4>1. Len(waiting[s]) = 0
          BY <3>1
        <4>2. Len(waiting'[s]) = 0
          BY <1>4, <2>1, <4>1
        <4> QED
          BY <1>4, <4>2
      <3> QED
        BY <1>1, <3>1, <3>2
    <2>3. SizeInv'
      <3> SUFFICES ASSUME NEW s \in Registered'
                   PROVE  Len(waiting'[s]) + reserved'[s] <= Grants(s)'
        BY DEF SizeInv, QueueSize
      <3>1. s \in Registered /\ s \in Subscriber
        BY <1>0, <2>1 DEF TypeOK
      <3>2. Len(waiting[s]) + reserved[s] <= Grants(s) /\ Grants(s) \in Nat
        BY <3>1, GrantsFinite DEF SizeInv, QueueSize
      <3> QED
        BY <1>3, <1>4, <2>1, <3>1, <3>2
    <2>4. RoundInv'
      <3>1. PICK R \in Nat : EvenWith(turns, R)
        BY DEF RoundInv
      <3>2. EvenWith(turns, R)'
        BY <1>1, <1>3, <2>1, <3>1 DEF EvenWith
      <3> QED
        BY <3>2 DEF RoundInv
    <2> QED
      BY <2>2, <2>3, <2>4
  <1>6. ASSUME NEW s \in Subscriber, Joins(s), ~Keeps
        PROVE  FreshInv' /\ SizeInv' /\ RoundInv'
    <2>1. PICK q \in Seq(Future) :
            /\ q = <<>> \/ \E t \in Subscriber : q = waiting[t]
            /\ stream[s] = "none" /\ future' = future
            /\ reserved' = [reserved EXCEPT ![s] = 0] /\ waiting' = [waiting EXCEPT ![s] = q]
      BY <1>6 DEF Joins, NewSubCore
    <2>2. Registered' \subseteq Registered \cup {s}
      BY <1>6 DEF Joins
    <2>3. \A t \in Subscriber \ {s} : waiting'[t] = waiting[t] /\ reserved'[t] = reserved[t]
      BY <1>0, <2>1 DEF TypeOK
    <2>4. waiting'[s] = q /\ reserved'[s] = 0
      BY <1>0, <2>1 DEF TypeOK
    <2>5. s \notin Registered
      BY <1>0, <2>1 DEF Registry
    <2>6. FreshInv'
      <3>1. NothingBegun => \A t \in Subscriber : waiting'[t] = <<>>
        BY <2>1, <2>3, <2>4 DEF FreshInv
      <3> QED
        BY <1>1, <2>1, <3>1 DEF FreshInv, NothingBegun
    <2>7. s \in Registered' => NothingBegun
      <3>1. Registered' = Registered \/ ~UNCHANGED vars
        BY DEF vars, coreVars, Registered
      <3> QED
        BY <1>1, <2>5, <3>1 DEF JoinsFirst, NothingBegun
    <2>8. SizeInv'
      <3> SUFFICES ASSUME NEW t \in Registered'
                   PROVE  Len(waiting'[t]) + reserved'[t] <= Grants(t)'
        BY DEF SizeInv, QueueSize
      <3>1. CASE t # s
        <4>1. t \in Registered /\ t \in Subscriber
          BY <1>0, <2>2, <3>1 DEF TypeOK
        <4> QED
          BY <1>3, <2>3, <3>1, <4>1 DEF SizeInv, QueueSize
      <3>2. CASE t = s
        <4>1. waiting'[s] = <<>>
          BY <2>1, <2>4, <2>7, <3>2 DEF FreshInv
        <4>2. Len(waiting'[s]) = 0 /\ Grants(s)' \in Nat
          BY <4>1, GrantsFinite
        <4> QED
          BY <2>4, <3>2, <4>2
      <3> QED
        BY <3>1, <3>2
    <2>9. RoundInv'
      <3>1. CASE s \in Registered'
        <4>1. turns' = <<>>
          BY <1>1, <2>7, <3>1 DEF FreshInv
        <4>2. \A t : Due(turns', t) = 0
          BY <4>1 DEF Due
        <4>3. \A f \in Future : audience[f] = {}
          BY <1>0, <2>7, <3>1 DEF NothingBegun, GrantInv
        <4>4. ASSUME NEW t
              PROVE  Grants(t) = 0
          <5>1. {f \in Future : t \in audience[f]} = {}
            BY <4>3
          <5> QED
            BY <5>1, FS_EmptySet DEF Grants
        <4>5. EvenWith(turns, 0)'
          BY <1>3, <4>2, <4>4 DEF EvenWith
        <4>6. 0 \in Nat
          OBVIOUS
        <4> QED
          BY <4>5, <4>6 DEF RoundInv
      <3>2. CASE s \notin Registered'
        <4>1. Registered' \subseteq Registered
          BY <2>2, <3>2
        <4>2. PICK R \in Nat : EvenWith(turns, R)
          BY DEF RoundInv
        <4>3. EvenWith(turns, R)'
          BY <1>1, <1>3, <4>1, <4>2 DEF EvenWith
        <4> QED
          BY <4>3 DEF RoundInv
      <3> QED
        BY <3>1, <3>2
    <2> QED
      BY <2>6, <2>8, <2>9
  <1> QED
    BY <1>0, <1>1, <1>5, <1>6, SharedKinds

\* Every step keeps the turns even.
LEMMA StepRounds ==
    SingleInv /\ FreshInv /\ SizeInv /\ RoundInv /\ [SingleNext /\ JoinsFirst]_allVars
        => FreshInv' /\ SizeInv' /\ RoundInv'
  <1> SUFFICES ASSUME SingleInv, FreshInv, SizeInv, RoundInv, [SingleNext /\ JoinsFirst]_allVars
               PROVE  FreshInv' /\ SizeInv' /\ RoundInv'
    OBVIOUS
  <1>0. /\ TypeOK /\ Registry /\ SlotAccounting /\ GrantInv /\ PollInv /\ [SingleNext]_allVars
        /\ JoinsFirst \/ UNCHANGED vars
    BY DEF SingleInv, IInv, allVars
  <1>1. \A s \in Subscriber : /\ waiting[s] \in Seq(Future) /\ Len(waiting[s]) \in Nat
                              /\ reserved[s] \in Nat
    BY <1>0 DEF TypeOK
  <1>2. \A s \in Registered : s \in Subscriber /\ Len(waiting[s]) + reserved[s] <= Grants(s)
    BY <1>0 DEF TypeOK, SizeInv, QueueSize
  <1>3. ASSUME NEW f \in Future, NEW s \in Subscriber, TakesTurn(f, s)
        PROVE  FreshInv' /\ SizeInv' /\ RoundInv'
    <2>1. /\ future'[f] # "none" /\ Registered' = Registered /\ waiting' = waiting
          /\ reserved' = [reserved EXCEPT ![s] = @ + 1]
      BY <1>0, <1>3 DEF TakesTurn, coreVars, Registered, TypeOK
    <2>2. FreshInv'
      BY <2>1 DEF FreshInv, NothingBegun
    <2>3. RoundInv'
      BY <1>0, <1>3, PoppedRound
    <2>4. SizeInv'
      <3> SUFFICES ASSUME NEW t \in Registered
                   PROVE  Len(waiting[t]) + reserved'[t] <= Grants(t)'
        BY <2>1 DEF SizeInv, QueueSize
      <3>1. /\ Grants(t)' = IF t = s THEN Grants(t) + 1 ELSE Grants(t)
            /\ Grants(t) \in Nat
        BY <1>0, <1>2, <1>3, TakesGrants, GrantsFinite
      <3>2. reserved'[t] = IF t = s THEN reserved[t] + 1 ELSE reserved[t]
        BY <1>0, <1>2, <2>1 DEF TypeOK
      <3> QED
        BY <1>1, <1>2, <3>1, <3>2
    <2> QED
      BY <2>2, <2>3, <2>4
  <1>4. ASSUME NEW f \in Future, Looks(f)
        PROVE  FreshInv' /\ SizeInv' /\ RoundInv'
    <2>1. /\ future'[f] # "none" /\ Registered' = Registered /\ audience' = audience
          /\ UNCHANGED <<waiting, reserved>>
      BY <1>0, <1>4, LooksOnly DEF coreVars, history, Registered
    <2>2. FreshInv' /\ SizeInv'
      BY <2>1 DEF FreshInv, NothingBegun, SizeInv, QueueSize, Grants
    <2>3. ASSUME turns' = turns
          PROVE  RoundInv'
      BY <2>1, <2>3 DEF RoundInv, EvenWith, Grants
    <2>4. ASSUME Refills(f) \/ \E s \in Subscriber : PassesOver(f, s)
          PROVE  RoundInv'
      BY <1>0, <2>4, RefillRound, PoppedRound
    <2>5. turns' = turns \/ Refills(f) \/ \E s \in Subscriber : PassesOver(f, s)
      BY <1>4 DEF Looks, PollBegins, BeginPoll, PollPends, Registers, Register
    <2> QED
      BY <2>2, <2>3, <2>4, <2>5
  <1>5. ASSUME NEW f \in Future, NEW s \in Subscriber, SendSingle(f, s) \/ CancelSingle(f, s)
        PROVE  FreshInv' /\ SizeInv' /\ RoundInv'
    <2>1. /\ future'[f] # "none"
          /\ reserved' = [reserved EXCEPT ![s] = @ - 1]
          /\ waiting' = waiting \/ waiting' = [waiting EXCEPT ![s] = Append(@, f)]
          /\ UNCHANGED <<subscribers, audience, turns>>
      BY <1>0, <1>5 DEF SendSingle, SendSingleTo, CancelSingle, GiveBackSingle, coreVars, history,
         pollVars, TypeOK
    <2>2. Registered' = Registered /\ \A t : Grants(t)' = Grants(t)
      BY <2>1 DEF Registered, Grants
    <2>3. FreshInv'
      BY <2>1 DEF FreshInv, NothingBegun
    <2>4. RoundInv'
      BY <2>1, <2>2 DEF RoundInv, EvenWith
    <2>5. SizeInv'
      <3> SUFFICES ASSUME NEW t \in Registered
                   PROVE  Len(waiting'[t]) + reserved'[t] <= Grants(t)
        BY <2>2 DEF SizeInv, QueueSize
      <3>1. t \in Subscriber /\ Grants(t) \in Nat
        BY <1>2, GrantsFinite
      <3>2. CASE t = s
        <4>1. waiting'[s] = waiting[s] \/ waiting'[s] = Append(waiting[s], f)
          BY <1>0, <2>1 DEF TypeOK
        <4>2. Len(Append(waiting[s], f)) = Len(waiting[s]) + 1
          BY <1>1
        <4>3. Len(waiting'[s]) \in {Len(waiting[s]), Len(waiting[s]) + 1}
          BY <4>1, <4>2
        <4>4. reserved'[s] = reserved[s] - 1
          BY <1>0, <2>1 DEF TypeOK
        <4> QED
          BY <1>1, <1>2, <3>1, <3>2, <4>3, <4>4
      <3>3. CASE t # s
        <4>1. waiting'[t] = waiting[t] /\ reserved'[t] = reserved[t]
          BY <1>0, <2>1, <3>1, <3>3 DEF TypeOK
        <4> QED
          BY <1>2, <4>1
      <3> QED
        BY <3>2, <3>3
    <2> QED
      BY <2>3, <2>4, <2>5
  <1> QED
    BY <1>0, <1>3, <1>4, <1>5, SharedRounds, StepCases

\* The turns of subscribers that were there before the first publish are even: poll_waiting_subscribers
\* uses up all turns before fill_waiting_subscribers gives new ones to all, and skips only who is full.
THEOREM TurnsAreEven == EarlySpec => []EvenTurns
  <1>1. SingleInit => FreshInv /\ SizeInv /\ RoundInv
    <2> SUFFICES ASSUME SingleInit
                 PROVE  FreshInv /\ SizeInv /\ RoundInv
      OBVIOUS
    <2>1. Registered = {} /\ turns = <<>> /\ \A s \in Subscriber : waiting[s] = <<>>
      BY DEF SingleInit, Init, Registered
    <2>2. EvenWith(turns, 0) /\ 0 \in Nat
      BY <2>1 DEF EvenWith
    <2> QED
      BY <2>1, <2>2 DEF FreshInv, SizeInv, RoundInv
  <1>2. SingleInv /\ [SingleNext /\ JoinsFirst]_allVars => SingleInv'
    BY StepSingle
  <1>3. RoundInv => EvenTurns
    <2> SUFFICES ASSUME RoundInv, NEW s \in Registered, NEW t \in Registered,
                        Grants(t) < MaxQueueSize
                 PROVE  Grants(s) <= Grants(t) + 1
      BY DEF EvenTurns
    <2>1. PICK R \in Nat : EvenWith(turns, R)
      BY DEF RoundInv
    <2>2. Due(turns, s) \in {0, 1} /\ Due(turns, t) \in {0, 1}
      BY DEF Due
    <2>3. Grants(s) + Due(turns, s) <= R /\ Grants(t) + Due(turns, t) = R
      BY <2>1 DEF EvenWith
    <2>4. Grants(s) \in Nat /\ Grants(t) \in Nat
      BY GrantsFinite
    <2> QED
      BY <2>2, <2>3, <2>4
  <1> QED
    BY <1>1, <1>2, <1>3, InitSingle, StepRounds, PTL DEF EarlySpec
=============================================================================
