----------------------------- MODULE CoreProofs -----------------------------
(***************************************************************************)
(* What holds of every kind of publisher, for any number of subscribers,    *)
(* futures, flushes and watchers, any queue size and any bound on the       *)
(* publishers: lemmas about the actions of PubSubCore, WeakPublisher and    *)
(* SendAll, for the theorems about PublishAll, PublishExpiring and          *)
(* PublishSingle.                                                           *)
(*                                                                          *)
(* TypeOK is not inductive by itself: a send and a cancellation subtract    *)
(* one from `reserved', which stays in Nat because SlotAccounting makes the *)
(* slot they give back count; and SlotAccounting survives a new subscriber, *)
(* whose count starts at zero, because no future holds a slot of a handle   *)
(* that was never given out (Registry).  IInv is the three together.        *)
(***************************************************************************)
EXTENDS SendAll, WeakPublisher, FiniteSetTheorems, TLAPS

\* The map holds live streams only, and slots are those of handles that were given out.
Registry ==
    /\ IsFiniteSet(Registered)
    /\ \A s \in Registered : stream[s] = "live"
    /\ \A f \in Future : \A s \in slots[f] : stream[s] # "none"

IInv == TypeOK /\ Registry /\ SlotAccounting

-----------------------------------------------------------------------------
(* The futures that hold a slot of a subscriber *)

\* There are finitely many of them, as there are futures.
LEMMA HoldersFinite ==
    \A s : IsFiniteSet(Holders(s)) /\ Cardinality(Holders(s)) \in Nat
  <1> SUFFICES ASSUME NEW s
               PROVE  IsFiniteSet(Holders(s)) /\ Cardinality(Holders(s)) \in Nat
    OBVIOUS
  <1>1. Holders(s) \in SUBSET Future
    BY DEF Holders
  <1>2. IsFiniteSet(Holders(s))
    BY <1>1, FutureAssumption, FS_Subset
  <1> QED
    BY <1>2, FS_CardinalityType

\* A slot that some future holds is counted: it can be given back.
LEMMA HeldSlotCounts ==
    ASSUME TypeOK, SlotAccounting, NEW f \in Future, NEW s \in slots[f]
    PROVE  s \in Subscriber /\ reserved[s] >= 1
  <1>1. s \in Subscriber
    BY DEF TypeOK
  <1>2. f \in Holders(s)
    BY DEF Holders
  <1>3. Cardinality(Holders(s)) \in Nat /\ Cardinality(Holders(s)) # 0
    BY <1>2, HoldersFinite, FS_EmptySet
  <1>4. Cardinality(Holders(s)) <= reserved[s] /\ reserved[s] \in Nat
    BY <1>1 DEF SlotAccounting, TypeOK
  <1> QED
    BY <1>1, <1>3, <1>4

-----------------------------------------------------------------------------
(* Type correctness, action by action *)

\* A new sub_core is empty or a copy of a queue.
LEMMA NewSubCoreTypes ==
    ASSUME TypeOK, NEW s \in Subscriber, NEW b \in BOOLEAN, NEW q \in Seq(Future),
           NewSubCore(s, b, q),
           Registered' \subseteq Subscriber, subscribers' \in [Registered' -> Nat]
    PROVE  TypeOK'
  BY DEF TypeOK, NewSubCore, history, Registered

\* An insertion adds the one handle and leaves places that are numbers.
LEMMA LayoutTypes ==
    ASSUME Registry, NEW s, subscribers' \in Layouts(Registered \cup {s})
    PROVE  /\ Registered' = Registered \cup {s}
           /\ subscribers' \in [Registered' -> Nat]
           /\ IsFiniteSet(Registered')
  <1>1. /\ IsFiniteSet(Registered \cup {s})
        /\ Cardinality(Registered \cup {s}) \in Nat
    BY FS_AddElement, FS_CardinalityType DEF Registry
  <1>2. subscribers' \in [Registered \cup {s} -> 1 .. Cardinality(Registered \cup {s})]
    BY DEF Layouts, Injection
  <1>3. Registered' = Registered \cup {s}
    BY <1>2 DEF Registered
  <1> QED
    BY <1>1, <1>2, <1>3

\* Whoever subscribes, with whatever queue, the types are kept.
LEMMA AttachTypes ==
    ASSUME TypeOK, Registry, NEW s \in Subscriber, NEW q \in Seq(Future), Attach(s, q)
    PROVE  TypeOK'
  <1>1. Registered' = Registered \cup {s} /\ subscribers' \in [Registered' -> Nat]
    BY LayoutTypes DEF Attach
  <1>2. Registered' \subseteq Subscriber
    BY <1>1 DEF TypeOK
  <1> QED
    BY <1>1, <1>2, NewSubCoreTypes DEF Attach

\* The operations on publishers keep the types.
LEMMA PublisherTypes ==
    ASSUME TypeOK, Republish \/ DropPublisher \/ DropLastPublisher \/ ReleaseCore
    PROVE  TypeOK'
  <1>1. CASE Republish
    BY <1>1, SizesAssumption DEF TypeOK, Republish, Registered, subVars, taskVars, history
  <1>2. CASE DropPublisher
    BY <1>2, SizesAssumption DEF TypeOK, DropPublisher, Registered, subVars, taskVars, history
  <1>3. CASE DropLastPublisher
    <2>1. /\ publisher_count' \in 0 .. MaxPublishers /\ closing' \in BOOLEAN
          /\ notify_closed' \subseteq Watcher
          /\ published' \in [Subscriber -> BOOLEAN]
          /\ asleep' \subseteq asleep
      BY <1>3, SizesAssumption DEF TypeOK, DropLastPublisher, CloseCore
    <2>2. notify_ready' \in [Subscriber -> SUBSET (Future \cup Flush)]
      BY <1>3 DEF TypeOK, DropLastPublisher, CloseCore
    <2>3. notify_waiting' \in [Subscriber -> SUBSET (Subscriber \cup Future)]
      BY <1>3 DEF TypeOK, DropLastPublisher, CloseCore
    <2> QED
      BY <1>3, <2>1, <2>2, <2>3 DEF TypeOK, DropLastPublisher, CloseCore, Registered, history
  <1>4. CASE ReleaseCore
    BY <1>4 DEF TypeOK, ReleaseCore, Registered, subVars, taskVars, history
  <1> QED
    BY <1>1, <1>2, <1>3, <1>4

\* So do the operations on subscribers.
LEMMA SubscriberTypes ==
    ASSUME TypeOK, Registry, NEW s \in Subscriber, NEW t \in Subscriber,
           \/ Subscribe(s) \/ DropSubscriber(s) \/ PollNext(s)
           \/ Resubscribe(s, t) \/ ResubscribeClosed(s, t)
           \/ WeakSubscribe(s) \/ WeakSubscribeClosed(s)
    PROVE  TypeOK'
  <1>1. <<>> \in Seq(Future) /\ waiting[s] \in Seq(Future)
    BY DEF TypeOK
  <1>2. CASE Subscribe(s) \/ Resubscribe(s, t) \/ WeakSubscribe(s)
    BY <1>1, <1>2, AttachTypes DEF Subscribe, Resubscribe, WeakSubscribe
  <1>3. CASE ResubscribeClosed(s, t) \/ WeakSubscribeClosed(s)
    <2>1. Registered' \subseteq Subscriber /\ subscribers' \in [Registered' -> Nat]
      BY <1>3 DEF TypeOK, ResubscribeClosed, WeakSubscribeClosed, Registered
    <2> QED
      BY <1>1, <1>3, <2>1, NewSubCoreTypes DEF ResubscribeClosed, WeakSubscribeClosed
  <1>4. CASE DropSubscriber(s)
    <2>1. Registered' \subseteq Subscriber /\ subscribers' \in [Registered' -> Nat]
      BY <1>4 DEF TypeOK, DropSubscriber, Detach, Registered, Restrict
    <2> QED
      BY <1>4, <2>1 DEF TypeOK, DropSubscriber, Detach, history
  <1>5. CASE PollMessage(s)
    <2>1. /\ Tail(waiting[s]) \in Seq(Future)
          /\ Append(received[s], Head(waiting[s])) \in Seq(Future)
      BY <1>5 DEF TypeOK, PollMessage, TakeMessage
    <2> QED
      BY <1>5, <2>1 DEF TypeOK, PollMessage, TakeMessage, coreVars, Registered
  <1>6. CASE PollEnded(s)
    BY <1>6 DEF TypeOK, PollEnded, coreVars, subVars, Registered
  <1>7. CASE PollPending(s)
    BY <1>7 DEF TypeOK, PollPending, coreVars, history, Registered
  <1> QED
    BY <1>2, <1>3, <1>4, <1>5, <1>6, <1>7 DEF PollNext

\* So do those on futures, however they come by their slots.
LEMMA FutureTypes ==
    ASSUME TypeOK, NEW f \in Future,
           \/ WhenReady(f) \/ WeakWhenReady(f) \/ WeakWhenReadyClosed(f)
           \/ DropFuture(f)
    PROVE  TypeOK'
  <1>1. CASE WhenReady(f) \/ WeakWhenReady(f)
    BY <1>1 DEF TypeOK, WhenReady, WeakWhenReady, StartFuture, FutureState, coreVars, subVars,
                history, Registered
  <1>2. CASE WeakWhenReadyClosed(f)
    BY <1>2 DEF TypeOK, WeakWhenReadyClosed, FutureState, coreVars, subVars, history, Registered
  <1>3. CASE DropFuture(f)
    BY <1>3 DEF TypeOK, DropFuture, FutureState, coreVars, subVars, history, Registered
  <1> QED
    BY <1>1, <1>2, <1>3

\* The sender returns slots one by one, each of which is still counted.
LEMMA SenderTypes ==
    ASSUME TypeOK, SlotAccounting, NEW f \in Future,
           Sending(f) \/ CancelStart(f) \/ Cancelling(f)
    PROVE  TypeOK'
  <1>1. CASE SendLock(f)
    BY <1>1 DEF TypeOK, SendLock, SendStart, FutureState, coreVars, subVars, history, Registered
  <1>2. CASE \E s \in Subscriber : SendMessage(f, s)
    <2>1. PICK s \in Subscriber : SendMessage(f, s)
      BY <1>2
    <2>2. reserved[s] - 1 \in Nat
      BY <2>1, HeldSlotCounts DEF TypeOK, SendMessage, Push
    <2>3. Append(waiting[s], f) \in Seq(Future)
      BY DEF TypeOK
    <2> QED
      BY <2>1, <2>2, <2>3 DEF TypeOK, SendMessage, Push, coreVars, history, Registered
  <1>3. CASE SendUnlock(f)
    BY <1>3 DEF TypeOK, SendUnlock, SendEnd, FutureState, coreVars, subVars, history, Registered
  <1>4. CASE CancelStart(f)
    BY <1>4 DEF TypeOK, CancelStart, FutureState, coreVars, subVars, history, Registered
  <1>5. CASE \E s \in Subscriber : CancelSend(f, s)
    <2>1. PICK s \in Subscriber : CancelSend(f, s)
      BY <1>5
    <2>2. reserved[s] - 1 \in Nat
      BY <2>1, HeldSlotCounts DEF TypeOK, CancelSend, GiveBack
    <2> QED
      BY <2>1, <2>2 DEF TypeOK, CancelSend, GiveBack, coreVars, history, Registered
  <1>6. CASE CancelEnd(f)
    BY <1>6 DEF TypeOK, CancelEnd, FutureState, coreVars, subVars, history, Registered
  <1> QED
    BY <1>1, <1>2, <1>3, <1>4, <1>5, <1>6 DEF Sending, Cancelling

\* And so do those on when_empty and when_closed futures.
LEMMA FlushTypes ==
    ASSUME TypeOK, NEW e \in Flush,
           \/ WhenEmpty(e) \/ WeakWhenEmpty(e) \/ WeakWhenEmptyClosed(e)
           \/ PollFlushed(e) \/ PollUnflushed(e) \/ DropFlush(e)
    PROVE  TypeOK'
  <1>1. CASE WhenEmpty(e) \/ WeakWhenEmpty(e)
    BY <1>1 DEF TypeOK, WhenEmpty, WeakWhenEmpty, StartFlush, TaskState, coreVars, subVars,
                history, Registered
  <1>2. CASE WeakWhenEmptyClosed(e) \/ PollFlushed(e) \/ DropFlush(e)
    BY <1>2 DEF TypeOK, WeakWhenEmptyClosed, PollFlushed, DropFlush, TaskState, coreVars,
                subVars, history, Registered
  <1>3. CASE PollUnflushed(e)
    <2>1. PICK s : notify_ready' = [notify_ready EXCEPT ![s] = @ \cup {e}]
      BY <1>3 DEF PollUnflushed
    <2>3. notify_ready' \in [Subscriber -> SUBSET (Future \cup Flush)]
      BY <2>1 DEF TypeOK
    <2>2. asleep' \subseteq Subscriber \cup Future \cup Flush \cup Watcher
      BY <1>3 DEF TypeOK, PollUnflushed
    <2> QED
      BY <1>3, <2>2, <2>3 DEF TypeOK, PollUnflushed, coreVars, history, Registered
  <1> QED
    BY <1>1, <1>2, <1>3

\* The when_closed futures only touch their own lists.
LEMMA WatcherTypes ==
    ASSUME TypeOK, NEW c \in Watcher,
           \/ WhenClosed(c) \/ WeakWhenClosed(c) \/ WeakWhenClosedClosed(c)
           \/ PollClosed(c) \/ PollOpen(c) \/ DropWatcher(c)
    PROVE  TypeOK'
  <1>1. CASE WhenClosed(c) \/ WeakWhenClosed(c)
    BY <1>1 DEF TypeOK, WhenClosed, WeakWhenClosed, StartWatcher, TaskState, coreVars, subVars,
                history, Registered
  <1>2. CASE WeakWhenClosedClosed(c) \/ PollClosed(c)
    BY <1>2 DEF TypeOK, WeakWhenClosedClosed, PollClosed, TaskState, coreVars, subVars,
                history, Registered
  <1>3. CASE PollOpen(c) \/ DropWatcher(c)
    BY <1>3 DEF TypeOK, PollOpen, DropWatcher, TaskState, subVars, history, Registered
  <1> QED
    BY <1>1, <1>2, <1>3

\* Every step that does not depend on the kind of publisher is one of these.
LEMMA SharedTypes ==
    ASSUME TypeOK, Registry, SharedNext \/ WeakNext \/ UNCHANGED vars
    PROVE  TypeOK'
  <1>1. CASE SharedNext
    BY <1>1, PublisherTypes, SubscriberTypes, FutureTypes, FlushTypes, WatcherTypes
       DEF SharedNext
  <1>2. CASE WeakNext
    BY <1>2, SubscriberTypes, FutureTypes, FlushTypes, WatcherTypes DEF WeakNext
  <1>3. CASE UNCHANGED vars
    BY <1>3 DEF vars, coreVars, subVars, taskVars, history, TypeOK, Registered
  <1> QED
    BY <1>1, <1>2, <1>3

-----------------------------------------------------------------------------
(* What a step does to the subscribers and their slots: one of four things *)

Keeps ==
    /\ UNCHANGED <<reserved, slots>>
    /\ IsFiniteSet(Registered') /\ Registered' \subseteq Registered
    /\ \A s \in Registered' : stream'[s] = stream[s]
    /\ \A s \in Subscriber : stream[s] # "none" => stream'[s] # "none"
    /\ \A s \in Subscriber : Len(waiting'[s]) <= Len(waiting[s])

Joins(s) ==
    \E b \in BOOLEAN : \E q \in Seq(Future) :
        /\ q = <<>> \/ \E t \in Subscriber : q = waiting[t]
        /\ NewSubCore(s, b, q)
        /\ IsFiniteSet(Registered') /\ Registered' \subseteq Registered \cup {s}

\* f comes to hold the slots of K: those in R are new, those of dropped subscribers may go.
Reserves(f, R, K) ==
    /\ R \subseteq Wanted(f) /\ R \subseteq K /\ K \subseteq slots[f] \cup R
    /\ slots[f] \cap Registered \subseteq K
    /\ Reserve(R)
    /\ slots' = [slots EXCEPT ![f] = K]
    /\ UNCHANGED <<subscribers, stream>>

\* f returns the slot of s, with its message or without.
Releases(f, s) ==
    /\ s \in slots[f]
    /\ reserved' = [reserved EXCEPT ![s] = @ - 1]
    /\ slots' = [slots EXCEPT ![f] = @ \ {s}]
    /\ waiting' = waiting \/ waiting' = [waiting EXCEPT ![s] = Append(@, f)]
    /\ UNCHANGED <<subscribers, stream>>

\* The steps that do not depend on the kind of publisher keep the slots or add a subscriber.
LEMMA SharedKinds ==
    ASSUME TypeOK, Registry, SharedNext \/ WeakNext \/ UNCHANGED vars
    PROVE  Keeps \/ \E s \in Subscriber : Joins(s)
  <1>1. ASSUME UNCHANGED <<reserved, slots, subscribers, stream, waiting>>
        PROVE  Keeps
    BY <1>1 DEF Keeps, Registered, Registry, TypeOK
  <1>2. ASSUME NEW s \in Subscriber, NEW t \in Subscriber,
               \/ Subscribe(s) \/ WeakSubscribe(s) \/ Resubscribe(t, s)
               \/ ResubscribeClosed(t, s) \/ WeakSubscribeClosed(s)
        PROVE  Joins(s)
    <2>1. <<>> \in Seq(Future) /\ waiting[t] \in Seq(Future)
      BY DEF TypeOK
    <2>2. CASE Subscribe(s) \/ WeakSubscribe(s) \/ Resubscribe(t, s)
      BY <2>1, <2>2, LayoutTypes DEF Subscribe, WeakSubscribe, Resubscribe, Attach, Joins
    <2>3. CASE ResubscribeClosed(t, s) \/ WeakSubscribeClosed(s)
      BY <2>1, <2>3 DEF ResubscribeClosed, WeakSubscribeClosed, Joins, Registered, Registry
    <2> QED
      BY <1>2, <2>2, <2>3
  <1>3. ASSUME NEW s \in Subscriber, DropSubscriber(s)
        PROVE  Keeps
    <2>1. Registered' = Registered \ {s}
      BY <1>3 DEF DropSubscriber, Detach, Restrict, Registered
    <2>2. IsFiniteSet(Registered')
      BY <2>1, FS_RemoveElement DEF Registry
    <2> QED
      BY <1>3, <2>1, <2>2 DEF DropSubscriber, Detach, Keeps, TypeOK
  <1>4. ASSUME NEW s \in Subscriber, PollMessage(s)
        PROVE  Keeps
    <2>1. \A t \in Subscriber : Len(waiting'[t]) <= Len(waiting[t])
      BY <1>4 DEF PollMessage, TakeMessage, TypeOK
    <2> QED
      BY <1>4, <2>1 DEF PollMessage, TakeMessage, coreVars, Keeps, Registered, Registry
  <1>5. ASSUME NEW s \in Subscriber, PollEnded(s) \/ PollPending(s)
        PROVE  Keeps
    BY <1>1, <1>5 DEF PollEnded, PollPending, coreVars, subVars
  <1>6. CASE Republish \/ DropPublisher \/ DropLastPublisher \/ ReleaseCore
    BY <1>1, <1>6 DEF Republish, DropPublisher, DropLastPublisher, CloseCore, ReleaseCore,
       subVars, taskVars
  <1>7. ASSUME NEW f \in Future,
               WhenReady(f) \/ WeakWhenReady(f) \/ WeakWhenReadyClosed(f) \/ DropFuture(f)
        PROVE  Keeps
    BY <1>1, <1>7 DEF WhenReady, WeakWhenReady, StartFuture, WeakWhenReadyClosed, DropFuture,
       coreVars, subVars
  <1>8. ASSUME NEW e \in Flush,
               \/ WhenEmpty(e) \/ WeakWhenEmpty(e) \/ WeakWhenEmptyClosed(e)
               \/ PollFlushed(e) \/ PollUnflushed(e) \/ DropFlush(e)
        PROVE  Keeps
    BY <1>1, <1>8 DEF WhenEmpty, WeakWhenEmpty, StartFlush, WeakWhenEmptyClosed, PollFlushed,
       PollUnflushed, DropFlush, coreVars, subVars
  <1>9. ASSUME NEW c \in Watcher,
               \/ WhenClosed(c) \/ WeakWhenClosed(c) \/ WeakWhenClosedClosed(c)
               \/ PollClosed(c) \/ PollOpen(c) \/ DropWatcher(c)
        PROVE  Keeps
    BY <1>1, <1>9 DEF WhenClosed, WeakWhenClosed, StartWatcher, WeakWhenClosedClosed, PollClosed,
       PollOpen, DropWatcher, coreVars, subVars
  <1>10. CASE SharedNext
    BY <1>2, <1>3, <1>4, <1>5, <1>6, <1>7, <1>8, <1>9, <1>10 DEF SharedNext, PollNext
  <1>11. CASE WeakNext
    BY <1>2, <1>7, <1>8, <1>9, <1>11 DEF WeakNext
  <1>12. CASE UNCHANGED vars
    BY <1>1, <1>12 DEF vars, coreVars, subVars, taskVars
  <1> QED
    BY <1>10, <1>11, <1>12

\* A sender keeps its slots or returns one, at a push as at a cancellation.
LEMMA SenderKinds ==
    ASSUME TypeOK, Registry, NEW f \in Future, Sending(f) \/ CancelStart(f) \/ Cancelling(f)
    PROVE  Keeps \/ \E s \in Subscriber : Releases(f, s)
  <1>1. CASE SendLock(f) \/ SendUnlock(f) \/ CancelStart(f) \/ CancelEnd(f)
    <2>1. UNCHANGED <<reserved, slots, subscribers, stream, waiting>>
      BY <1>1 DEF SendLock, SendStart, SendUnlock, SendEnd, CancelStart, CancelEnd, coreVars, subVars
    <2> QED
      BY <2>1 DEF Keeps, Registered, Registry, TypeOK
  <1>2. ASSUME NEW s \in Subscriber, SendMessage(f, s) \/ CancelSend(f, s)
        PROVE  Releases(f, s)
    BY <1>2 DEF SendMessage, Push, CancelSend, GiveBack, Releases, coreVars
  <1> QED
    BY <1>1, <1>2 DEF Sending, Cancelling

-----------------------------------------------------------------------------
(* The inductive invariant *)

\* No kind of step takes a stream back to "none" or maps one that is not alive.
LEMMA KindsRegistry ==
    ASSUME TypeOK, Registry,
           \/ Keeps
           \/ \E s \in Subscriber : Joins(s)
           \/ \E f \in Future : \E R, K : Reserves(f, R, K)
           \/ \E f \in Future : \E s \in Subscriber : Releases(f, s)
    PROVE  Registry'
  <1>1. CASE Keeps
    BY <1>1 DEF Keeps, Registry, TypeOK
  <1>2. ASSUME NEW s \in Subscriber, Joins(s)
        PROVE  Registry'
    <2>1. stream' = [stream EXCEPT ![s] = "live"] /\ slots' = slots
      BY <1>2 DEF Joins, NewSubCore
    <2>2. IsFiniteSet(Registered') /\ Registered' \subseteq Registered \cup {s}
      BY <1>2 DEF Joins
    <2> QED
      BY <2>1, <2>2 DEF Registry, TypeOK
  <1>3. ASSUME NEW f \in Future, NEW R, NEW K, Reserves(f, R, K)
        PROVE  Registry'
    <2>1. Registered' = Registered /\ stream' = stream /\ K \subseteq slots[f] \cup Registered
      BY <1>3 DEF Reserves, Wanted, Registered
    <2>2. slots' = [slots EXCEPT ![f] = K]
      BY <1>3 DEF Reserves
    <2>3. \A g \in Future : \A s \in slots'[g] : s \in slots[g] \/ s \in Registered
      BY <2>1, <2>2 DEF TypeOK
    <2> QED
      BY <2>1, <2>3 DEF Registry
  <1>4. ASSUME NEW f \in Future, NEW s \in Subscriber, Releases(f, s)
        PROVE  Registry'
    <2>1. Registered' = Registered /\ stream' = stream /\ slots' = [slots EXCEPT ![f] = @ \ {s}]
      BY <1>4 DEF Releases, Registered
    <2> QED
      BY <2>1 DEF Registry, TypeOK
  <1> QED
    BY <1>1, <1>2, <1>3, <1>4

\* Every kind of step changes `reserved' by as much as it changes the set of holders.
LEMMA KindsAccounting ==
    ASSUME TypeOK, Registry, SlotAccounting,
           \/ Keeps
           \/ \E s \in Subscriber : Joins(s)
           \/ \E f \in Future : \E R, K : Reserves(f, R, K)
           \/ \E f \in Future : \E s \in Subscriber : Releases(f, s)
    PROVE  SlotAccounting'
  <1> DEFINE Accounted(s) == /\ Cardinality(Holders(s)) <= reserved[s]
                             /\ s \in Registered => reserved[s] = Cardinality(Holders(s))
  <1>1. CASE Keeps
    <2>1. \A s \in Subscriber : Holders(s)' = Holders(s) /\ reserved'[s] = reserved[s]
      BY <1>1 DEF Keeps, Holders
    <2> QED
      BY <1>1, <2>1 DEF Keeps, SlotAccounting
  <1>2. ASSUME NEW s \in Subscriber, Joins(s)
        PROVE  SlotAccounting'
    <2>1. reserved' = [reserved EXCEPT ![s] = 0] /\ slots' = slots /\ stream[s] = "none"
      BY <1>2 DEF Joins, NewSubCore
    <2>2. \A t \in Subscriber : Holders(t)' = Holders(t)
      BY <2>1 DEF Holders
    <2>3. Cardinality(Holders(s)') = 0 /\ reserved'[s] = 0
      <3>1. Holders(s)' = {}
        BY <2>1, <2>2 DEF Registry, Holders
      <3> QED
        BY <2>1, <3>1, FS_EmptySet DEF TypeOK
    <2>4. ASSUME NEW t \in Subscriber, t # s
          PROVE  Accounted(t)'
      <3>1. reserved'[t] = reserved[t] /\ (t \in Registered' => t \in Registered)
        BY <1>2, <2>1, <2>4 DEF Joins, TypeOK
      <3> QED
        BY <2>2, <3>1 DEF SlotAccounting
    <2>5. Accounted(s)'
      BY <2>3
    <2> QED
      BY <2>4, <2>5 DEF SlotAccounting
  <1>3. ASSUME NEW f \in Future, NEW R, NEW K, Reserves(f, R, K)
        PROVE  SlotAccounting'
    <2>1. /\ R \subseteq Wanted(f) /\ R \subseteq K /\ K \subseteq slots[f] \cup R
          /\ slots[f] \cap Registered \subseteq K
          /\ Registered' = Registered
          /\ slots' = [slots EXCEPT ![f] = K]
          /\ reserved' = [s \in Subscriber |-> IF s \in R THEN reserved[s] + 1 ELSE reserved[s]]
      BY <1>3 DEF Reserves, Reserve, Registered
    <2> SUFFICES ASSUME NEW s \in Subscriber
                 PROVE  Accounted(s)'
      BY DEF SlotAccounting
    <2>2. /\ Accounted(s) /\ reserved[s] \in Nat
          /\ IsFiniteSet(Holders(s)) /\ Cardinality(Holders(s)) \in Nat
      BY HoldersFinite DEF SlotAccounting, TypeOK
    <2>3. CASE s \in R
      <3>1. Holders(s)' = Holders(s) \cup {f} /\ f \notin Holders(s)
        BY <2>1, <2>3 DEF Holders, Wanted, TypeOK
      <3>2. Cardinality(Holders(s)') = Cardinality(Holders(s)) + 1
        BY <2>2, <3>1, FS_AddElement
      <3>3. s \in Registered /\ reserved'[s] = reserved[s] + 1
        BY <2>1, <2>3 DEF Wanted
      <3> QED
        BY <2>1, <2>2, <3>2, <3>3
    <2>4. CASE s \notin R /\ s \in Registered
      <3>1. Holders(s)' = Holders(s) /\ reserved'[s] = reserved[s]
        BY <2>1, <2>4 DEF Holders, TypeOK
      <3> QED
        BY <2>1, <2>2, <3>1
    <2>5. CASE s \notin Registered
      <3>1. s \notin R /\ Holders(s)' \in SUBSET Holders(s) /\ reserved'[s] = reserved[s]
        BY <2>1, <2>5 DEF Holders, Wanted, TypeOK
      <3>2. Cardinality(Holders(s)') <= Cardinality(Holders(s)) /\ Cardinality(Holders(s)') \in Nat
        BY <2>2, <3>1, FS_Subset, FS_CardinalityType
      <3> QED
        BY <2>1, <2>2, <2>5, <3>1, <3>2
    <2> QED
      BY <2>3, <2>4, <2>5
  <1>4. ASSUME NEW f \in Future, NEW s \in Subscriber, Releases(f, s)
        PROVE  SlotAccounting'
    <2>1. /\ s \in slots[f] /\ Registered' = Registered
          /\ slots' = [slots EXCEPT ![f] = @ \ {s}]
          /\ reserved' = [reserved EXCEPT ![s] = @ - 1]
      BY <1>4 DEF Releases, Registered
    <2> SUFFICES ASSUME NEW t \in Subscriber
                 PROVE  Accounted(t)'
      BY DEF SlotAccounting
    <2>2. /\ Accounted(t) /\ reserved[t] \in Nat
          /\ IsFiniteSet(Holders(t)) /\ Cardinality(Holders(t)) \in Nat
      BY HoldersFinite DEF SlotAccounting, TypeOK
    <2>3. CASE t = s
      <3>1. Holders(s)' = Holders(s) \ {f} /\ f \in Holders(s)
        BY <2>1 DEF Holders, TypeOK
      <3>2. Cardinality(Holders(s)') = Cardinality(Holders(s)) - 1
        BY <2>2, <2>3, <3>1, FS_RemoveElement
      <3>3. reserved'[s] = reserved[s] - 1
        BY <2>1 DEF TypeOK
      <3> QED
        BY <2>1, <2>2, <2>3, <3>2, <3>3
    <2>4. CASE t # s
      <3>1. Holders(t)' = Holders(t) /\ reserved'[t] = reserved[t]
        BY <2>1, <2>4 DEF Holders, TypeOK
      <3> QED
        BY <2>1, <2>2, <3>1
    <2> QED
      BY <2>3, <2>4
  <1> QED
    BY <1>1, <1>2, <1>3, <1>4

\* At the start nothing is registered and nothing is reserved.
LEMMA InitIInv == Init => IInv
  <1> SUFFICES ASSUME Init
               PROVE  IInv
    OBVIOUS
  <1>1. Registered = {}
    BY DEF Init, Registered
  <1>2. TypeOK
    <2>1. Registered \subseteq Subscriber /\ subscribers \in [Registered -> Nat]
      BY <1>1 DEF Init, Registered
    <2>2. publisher_count \in 0 .. MaxPublishers
      BY SizesAssumption DEF Init
    <2>3. /\ published \in [Subscriber -> BOOLEAN]
          /\ reserved \in [Subscriber -> Nat]
          /\ waiting \in [Subscriber -> Seq(Future)]
          /\ received \in [Subscriber -> Seq(Future)]
      BY DEF Init
    <2>4. /\ notify_waiting \in [Subscriber -> SUBSET (Subscriber \cup Future)]
          /\ notify_ready \in [Subscriber -> SUBSET (Future \cup Flush)]
          /\ slots \in [Future -> SUBSET Subscriber]
          /\ audience \in [Future -> SUBSET Subscriber]
      BY DEF Init
    <2>5. /\ stream \in [Subscriber -> {"none", "live", "dropped"}]
          /\ future \in [Future -> FutureState]
          /\ flush \in [Flush -> TaskState]
          /\ watcher \in [Watcher -> TaskState]
      BY DEF Init, FutureState, TaskState
    <2> QED
      BY <2>1, <2>2, <2>3, <2>4, <2>5 DEF Init, TypeOK
  <1>3. Registry
    BY <1>1, FS_EmptySet DEF Init, Registry
  <1>4. \A s \in Subscriber : Holders(s) = {}
    BY DEF Init, Holders
  <1>5. \A s \in Subscriber : Cardinality(Holders(s)) = 0 /\ reserved[s] = 0
    BY <1>4, FS_EmptySet DEF Init
  <1>6. SlotAccounting
    BY <1>5 DEF SlotAccounting
  <1> QED
    BY <1>2, <1>3, <1>6 DEF IInv

\* Only a reservation lets a count grow: a push fills a slot that was counted.
LEMMA KindsBound ==
    ASSUME TypeOK, Registry, TypeOK', QueueBound,
           \/ Keeps
           \/ \E s \in Subscriber : Joins(s)
           \/ \E f \in Future : \E s \in Subscriber : Releases(f, s)
    PROVE  QueueBound'
  <1>1. TypeOK /\ Registry /\ TypeOK'
    OBVIOUS
  <1>2. \A s \in Subscriber : /\ Len(waiting[s]) \in Nat /\ reserved[s] \in Nat
                              /\ Len(waiting[s]) + reserved[s] <= MaxQueueSize
                              /\ Len(waiting'[s]) \in Nat /\ reserved'[s] \in Nat
    BY <1>1 DEF TypeOK, QueueBound, QueueSize
  <1>3. CASE Keeps
    <2>1. ASSUME NEW t \in Subscriber
          PROVE  Len(waiting'[t]) + reserved'[t] <= MaxQueueSize
      <3>1. reserved'[t] = reserved[t] /\ Len(waiting'[t]) <= Len(waiting[t])
        BY <1>3 DEF Keeps
      <3> QED
        BY <1>2, <3>1, SizesAssumption
    <2> QED
      BY <2>1 DEF QueueBound, QueueSize
  <1>4. ASSUME NEW s \in Subscriber, Joins(s)
        PROVE  QueueBound'
    <2>1. PICK q \in Seq(Future) :
            /\ q = <<>> \/ \E t \in Subscriber : q = waiting[t]
            /\ reserved' = [reserved EXCEPT ![s] = 0] /\ waiting' = [waiting EXCEPT ![s] = q]
      BY <1>4 DEF Joins, NewSubCore
    <2>2. Len(q) <= MaxQueueSize
      BY <1>2, <2>1, SizesAssumption
    <2>3. ASSUME NEW t \in Subscriber
          PROVE  Len(waiting'[t]) + reserved'[t] <= MaxQueueSize
      BY <1>1, <1>2, <2>1, <2>2 DEF TypeOK
    <2> QED
      BY <2>3 DEF QueueBound, QueueSize
  <1>5. ASSUME NEW f \in Future, NEW s \in Subscriber, Releases(f, s)
        PROVE  QueueBound'
    <2>1. /\ reserved' = [reserved EXCEPT ![s] = @ - 1]
          /\ waiting' = waiting \/ waiting' = [waiting EXCEPT ![s] = Append(@, f)]
      BY <1>5 DEF Releases
    <2>2. ASSUME NEW t \in Subscriber
          PROVE  Len(waiting'[t]) + reserved'[t] <= MaxQueueSize
      <3>1. CASE t # s
        BY <1>1, <1>2, <2>1, <3>1 DEF TypeOK
      <3>2. CASE t = s
        <4>1. reserved'[s] = reserved[s] - 1 /\ waiting[s] \in Seq(Future)
          BY <1>1, <2>1 DEF TypeOK
        <4>2. Len(waiting'[s]) <= Len(waiting[s]) + 1
          BY <1>1, <1>2, <2>1, <4>1 DEF TypeOK
        <4> QED
          BY <1>2, <3>2, <4>1, <4>2, SizesAssumption
      <3> QED
        BY <3>1, <3>2
    <2> QED
      BY <2>2 DEF QueueBound, QueueSize
  <1> QED
    BY <1>3, <1>4, <1>5

-----------------------------------------------------------------------------
(* Publishers *)

\* No step that does not depend on the kind of publisher brings one back.
LEMMA SharedPublishersGo ==
    ASSUME TypeOK, SharedNext \/ WeakNext \/ UNCHANGED vars, publisher_count' > 0
    PROVE  publisher_count > 0
  <1> SUFFICES publisher_count > 0 \/ UNCHANGED publisher_count
    OBVIOUS
  <1>1. CASE Republish \/ DropPublisher \/ DropLastPublisher
    <2>1. publisher_count \in Nat
      BY SizesAssumption DEF TypeOK
    <2>2. CASE Republish
      BY <2>2, SizesAssumption DEF Republish
    <2>3. CASE DropPublisher \/ DropLastPublisher
      BY <2>1, <2>3 DEF DropPublisher, DropLastPublisher
    <2> QED
      BY <1>1, <2>2, <2>3
  <1>2. CASE ReleaseCore \/ UNCHANGED vars
    BY <1>2 DEF ReleaseCore, vars, coreVars
  <1>3. ASSUME NEW s \in Subscriber, NEW t \in Subscriber,
               \/ Subscribe(s) \/ WeakSubscribe(s) \/ Resubscribe(t, s)
               \/ ResubscribeClosed(t, s) \/ WeakSubscribeClosed(s)
        PROVE  UNCHANGED publisher_count
    BY <1>3 DEF Subscribe, WeakSubscribe, Resubscribe, Attach, ResubscribeClosed,
       WeakSubscribeClosed, NewSubCore
  <1>4. ASSUME NEW s \in Subscriber, DropSubscriber(s) \/ PollNext(s)
        PROVE  UNCHANGED publisher_count
    BY <1>4 DEF DropSubscriber, Detach, PollNext, PollMessage, TakeMessage, PollEnded,
       PollPending, coreVars
  <1>5. ASSUME NEW f \in Future,
               \/ WhenReady(f) \/ WeakWhenReady(f) \/ WeakWhenReadyClosed(f) \/ DropFuture(f)
        PROVE  UNCHANGED publisher_count
    BY <1>5 DEF WhenReady, WeakWhenReady, StartFuture, WeakWhenReadyClosed, DropFuture, coreVars
  <1>6. ASSUME NEW e \in Flush,
               \/ WhenEmpty(e) \/ WeakWhenEmpty(e) \/ WeakWhenEmptyClosed(e)
               \/ PollFlushed(e) \/ PollUnflushed(e) \/ DropFlush(e)
        PROVE  UNCHANGED publisher_count
    BY <1>6 DEF WhenEmpty, WeakWhenEmpty, StartFlush, WeakWhenEmptyClosed, PollFlushed,
       PollUnflushed, DropFlush, coreVars
  <1>7. ASSUME NEW c \in Watcher,
               \/ WhenClosed(c) \/ WeakWhenClosed(c) \/ WeakWhenClosedClosed(c)
               \/ PollClosed(c) \/ PollOpen(c) \/ DropWatcher(c)
        PROVE  UNCHANGED publisher_count
    BY <1>7 DEF WhenClosed, WeakWhenClosed, StartWatcher, WeakWhenClosedClosed, PollClosed,
       PollOpen, DropWatcher, coreVars
  <1> QED
    BY <1>1, <1>2, <1>3, <1>4, <1>5, <1>6, <1>7 DEF SharedNext, WeakNext

\* Nor does a sender.
LEMMA SenderPublishersGo ==
    ASSUME NEW f \in Future, Sending(f) \/ CancelStart(f) \/ Cancelling(f)
    PROVE  UNCHANGED publisher_count
  BY DEF Sending, SendLock, SendStart, SendMessage, Push, SendUnlock, SendEnd, CancelStart, Cancelling,
     CancelSend, GiveBack, CancelEnd, coreVars

-----------------------------------------------------------------------------
(* Senders *)

\* One future is sending at most, and no poll is ever seen with the core's lock; a sender that has not
\* begun holds a slot of all it is for.
SenderInv ==
    /\ \A f \in Future : future[f] # "polling"
    /\ \A f, g \in Future : future[f] = "sending" /\ future[g] = "sending" => f = g
    /\ \A f \in Future : future[f] = "ready" => slots[f] = audience[f]

-----------------------------------------------------------------------------
(* Sequences *)

\* No two messages of q1 are in the other order in q2.
Consistent(q1, q2) ==
    \A i, j \in DOMAIN q1 : i < j => ~Precedes(q1[j], q1[i], q2)

\* f is nowhere but at the end.
OnlyLast(f, q) == \A i \in DOMAIN q : q[i] = f => i = Len(q)

\* An append in terms of its members.
LEMMA AppendFacts ==
    ASSUME NEW S, NEW q \in Seq(S), NEW f \in S
    PROVE  /\ Append(q, f) \in Seq(S)
           /\ Len(q) \in Nat /\ Len(Append(q, f)) = Len(q) + 1
           /\ DOMAIN q = 1 .. Len(q) /\ DOMAIN Append(q, f) = 1 .. Len(q) + 1
           /\ \A i \in 1 .. Len(q) : Append(q, f)[i] = q[i]
           /\ Append(q, f)[Len(q) + 1] = f
  OBVIOUS

\* A concatenation in terms of its members.
LEMMA ConcatFacts ==
    ASSUME NEW S, NEW r \in Seq(S), NEW w \in Seq(S)
    PROVE  /\ r \o w \in Seq(S)
           /\ Len(r) \in Nat /\ Len(w) \in Nat
           /\ DOMAIN w = 1 .. Len(w) /\ DOMAIN (r \o w) = 1 .. Len(r) + Len(w)
           /\ Len(r \o w) = Len(r) + Len(w)
           /\ \A i \in 1 .. Len(w) : (r \o w)[Len(r) + i] = w[i]
           /\ \A i \in 1 .. Len(r) : (r \o w)[i] = r[i]
  OBVIOUS

\* What is pushed to the queue is pushed to all that was delivered.
LEMMA ConcatAppend ==
    ASSUME NEW S, NEW r \in Seq(S), NEW w \in Seq(S), NEW f \in S
    PROVE  r \o Append(w, f) = Append(r \o w, f)
  OBVIOUS

\* A message that is read is only moved.
LEMMA ConcatTake ==
    ASSUME NEW S, NEW r \in Seq(S), NEW w \in Seq(S), w # <<>>
    PROVE  Append(r, Head(w)) \o Tail(w) = r \o w
  OBVIOUS

\* What follows in the end of a sequence follows in all of it.
LEMMA SuffixPrecedes ==
    ASSUME NEW S, NEW r \in Seq(S), NEW w \in Seq(S), NEW f, NEW g, Precedes(f, g, w)
    PROVE  Precedes(f, g, r \o w)
  <1>1. /\ Len(r) \in Nat /\ Len(w) \in Nat
        /\ DOMAIN w = 1 .. Len(w) /\ DOMAIN (r \o w) = 1 .. Len(r) + Len(w)
        /\ \A i \in 1 .. Len(w) : (r \o w)[Len(r) + i] = w[i]
    BY ConcatFacts
  <1>2. PICK i \in DOMAIN w, j \in DOMAIN w : i < j /\ w[i] = f /\ w[j] = g
    BY DEF Precedes
  <1>3. \A k \in DOMAIN w : Len(r) + k \in DOMAIN (r \o w) /\ (r \o w)[Len(r) + k] = w[k]
    BY <1>1
  <1>4. Len(r) + i < Len(r) + j
    BY <1>1, <1>2
  <1> QED
    BY <1>2, <1>3, <1>4 DEF Precedes

\* The end of an order is in order.
LEMMA SuffixConsistent ==
    ASSUME NEW S, NEW r \in Seq(S), NEW w \in Seq(S), NEW q \in Seq(S)
    PROVE  /\ Consistent(r \o w, q) => Consistent(w, q)
           /\ Consistent(q, r \o w) => Consistent(q, w)
  <1>1. /\ Len(r) \in Nat /\ Len(w) \in Nat
        /\ DOMAIN w = 1 .. Len(w) /\ DOMAIN (r \o w) = 1 .. Len(r) + Len(w)
        /\ \A i \in 1 .. Len(w) : (r \o w)[Len(r) + i] = w[i]
    BY ConcatFacts
  <1>2. ASSUME Consistent(r \o w, q)
        PROVE  Consistent(w, q)
    <2> SUFFICES ASSUME NEW i \in DOMAIN w, NEW j \in DOMAIN w, i < j
                 PROVE  ~Precedes(w[j], w[i], q)
      BY DEF Consistent
    <2>1. /\ Len(r) + i \in DOMAIN (r \o w) /\ Len(r) + j \in DOMAIN (r \o w)
          /\ Len(r) + i < Len(r) + j
          /\ (r \o w)[Len(r) + i] = w[i] /\ (r \o w)[Len(r) + j] = w[j]
      BY <1>1
    <2> QED
      BY <1>2, <2>1 DEF Consistent
  <1> QED
    BY <1>2, SuffixPrecedes DEF Consistent

\* A message that is the last one, if it is there at all, may be appended on either side.
LEMMA AppendConsistent ==
    ASSUME NEW S, NEW p \in Seq(S), NEW q \in Seq(S), NEW f \in S, Consistent(p, q)
    PROVE  /\ OnlyLast(f, q) => Consistent(Append(p, f), q)
           /\ OnlyLast(f, p) => Consistent(p, Append(q, f))
  <1>1. /\ Len(p) \in Nat /\ DOMAIN p = 1 .. Len(p) /\ DOMAIN Append(p, f) = 1 .. Len(p) + 1
        /\ \A i \in 1 .. Len(p) : Append(p, f)[i] = p[i]
        /\ Append(p, f)[Len(p) + 1] = f
    BY AppendFacts
  <1>2. /\ Len(q) \in Nat /\ DOMAIN q = 1 .. Len(q) /\ DOMAIN Append(q, f) = 1 .. Len(q) + 1
        /\ \A i \in 1 .. Len(q) : Append(q, f)[i] = q[i]
        /\ Append(q, f)[Len(q) + 1] = f
    BY AppendFacts
  <1>3. ASSUME OnlyLast(f, q)
        PROVE  Consistent(Append(p, f), q)
    <2> SUFFICES ASSUME NEW i \in 1 .. Len(p) + 1, NEW j \in 1 .. Len(p) + 1, i < j
                 PROVE  ~Precedes(Append(p, f)[j], Append(p, f)[i], q)
      BY <1>1 DEF Consistent
    <2>1. CASE j \in 1 .. Len(p)
      <3>1. i \in 1 .. Len(p)
        BY <1>1, <2>1
      <3> QED
        BY <1>1, <2>1, <3>1 DEF Consistent
    <2>2. CASE j = Len(p) + 1
      <3>1. ~Precedes(f, Append(p, f)[i], q)
        BY <1>2, <1>3 DEF Precedes, OnlyLast
      <3> QED
        BY <1>1, <2>2, <3>1
    <2> QED
      BY <1>1, <2>1, <2>2
  <1>4. ASSUME OnlyLast(f, p)
        PROVE  Consistent(p, Append(q, f))
    <2> SUFFICES ASSUME NEW i \in 1 .. Len(p), NEW j \in 1 .. Len(p), i < j,
                        NEW a \in 1 .. Len(q) + 1, NEW b \in 1 .. Len(q) + 1, a < b,
                        Append(q, f)[a] = p[j], Append(q, f)[b] = p[i]
                 PROVE  FALSE
      BY <1>1, <1>2 DEF Consistent, Precedes
    <2>1. CASE b \in 1 .. Len(q)
      <3>1. a \in 1 .. Len(q) /\ q[a] = p[j] /\ q[b] = p[i]
        BY <1>2, <2>1
      <3>2. ~Precedes(p[j], p[i], q)
        BY <1>1 DEF Consistent
      <3> QED
        BY <1>2, <2>1, <3>1, <3>2 DEF Precedes
    <2>2. CASE b = Len(q) + 1
      <3>1. i = Len(p)
        BY <1>1, <1>2, <1>4, <2>2 DEF OnlyLast
      <3> QED
        BY <1>1, <3>1
    <2> QED
      BY <1>2, <2>1, <2>2
  <1> QED
    BY <1>3, <1>4

\* p is what is left of q when members are taken out.
Thinned(p, q) ==
    \E h \in [DOMAIN p -> DOMAIN q] :
        /\ \A i, j \in DOMAIN p : i < j => h[i] < h[j]
        /\ \A i \in DOMAIN p : p[i] = q[h[i]]

\* Nothing is taken out, or the first one, or the first one of the second part.
LEMMA ThinnedFacts ==
    ASSUME NEW S, NEW r \in Seq(S), NEW w \in Seq(S)
    PROVE  Thinned(r, r) /\ (w # <<>> => Thinned(r \o Tail(w), r \o w))
  <1>1. Thinned(r, r)
    <2> DEFINE h == [i \in DOMAIN r |-> i]
    <2>1. h \in [DOMAIN r -> DOMAIN r] /\ \A i \in DOMAIN r : h[i] = i
      OBVIOUS
    <2> QED
      BY <2>1 DEF Thinned
  <1>2. ASSUME w # <<>>
        PROVE  Thinned(r \o Tail(w), r \o w)
    <2> DEFINE p == r \o Tail(w)
               q == r \o w
               h == [i \in DOMAIN p |-> IF i <= Len(r) THEN i ELSE i + 1]
    <2>1. /\ Tail(w) \in Seq(S) /\ Len(w) \in Nat /\ Len(w) >= 1 /\ Len(Tail(w)) = Len(w) - 1
          /\ \A i \in 1 .. Len(w) - 1 : Tail(w)[i] = w[i + 1]
      BY <1>2
    <2>2. /\ Len(r) \in Nat /\ DOMAIN q = 1 .. Len(r) + Len(w)
          /\ \A i \in 1 .. Len(w) : q[Len(r) + i] = w[i]
          /\ \A i \in 1 .. Len(r) : q[i] = r[i]
      BY ConcatFacts
    <2>3. /\ DOMAIN p = 1 .. Len(r) + (Len(w) - 1)
          /\ \A i \in 1 .. Len(w) - 1 : p[Len(r) + i] = Tail(w)[i]
          /\ \A i \in 1 .. Len(r) : p[i] = r[i]
      BY <2>1, ConcatFacts
    <2> HIDE DEF p, q
    <2>4. \A i \in DOMAIN p : h[i] \in DOMAIN q
      BY <2>1, <2>2, <2>3
    <2>5. \A i, j \in DOMAIN p : i < j => h[i] < h[j]
      BY <2>1, <2>2, <2>3
    <2>6. ASSUME NEW i \in DOMAIN p
          PROVE  p[i] = q[h[i]]
      <3>1. CASE i <= Len(r)
        BY <2>2, <2>3, <3>1
      <3>2. CASE i > Len(r)
        <4>1. PICK j \in 1 .. Len(w) - 1 : i = Len(r) + j
          <5>1. i - Len(r) \in 1 .. Len(w) - 1 /\ i = Len(r) + (i - Len(r))
            BY <2>1, <2>2, <2>3, <3>2
          <5> QED
            BY <5>1
        <4>2. p[i] = w[j + 1]
          BY <2>1, <2>3, <4>1
        <4>3. j + 1 \in 1 .. Len(w) /\ h[i] = Len(r) + (j + 1)
          BY <2>1, <2>2, <3>2, <4>1
        <4> QED
          BY <2>2, <4>2, <4>3
      <3> QED
        BY <2>2, <2>3, <3>1, <3>2
    <2>7. h \in [DOMAIN p -> DOMAIN q]
      BY <2>4
    <2> HIDE DEF h
    <2>8. Thinned(p, q)
      BY <2>5, <2>6, <2>7 DEF Thinned
    <2> QED
      BY <2>8 DEF p, q
  <1> QED
    BY <1>1, <1>2

\* What is taken out leaves the rest in order, and at its end what was there.
LEMMA ThinnedKeeps ==
    ASSUME NEW S, NEW p \in Seq(S), NEW q \in Seq(S), Thinned(p, q)
    PROVE  /\ \A i \in DOMAIN p : \E j \in DOMAIN q : p[i] = q[j]
           /\ (\A i, j \in DOMAIN q : q[i] = q[j] => i = j) =>
                \A i, j \in DOMAIN p : p[i] = p[j] => i = j
           /\ \A f : OnlyLast(f, q) => OnlyLast(f, p)
           /\ \A f, g : Precedes(f, g, p) => Precedes(f, g, q)
  <1>1. PICK h \in [DOMAIN p -> DOMAIN q] : /\ \A i, j \in DOMAIN p : i < j => h[i] < h[j]
                                           /\ \A i \in DOMAIN p : p[i] = q[h[i]]
    BY DEF Thinned
  <1>2. \A i \in DOMAIN p : h[i] \in DOMAIN q /\ p[i] = q[h[i]]
    BY <1>1
  <1>3. /\ DOMAIN p = 1 .. Len(p) /\ Len(p) \in Nat
        /\ DOMAIN q = 1 .. Len(q) /\ Len(q) \in Nat
    OBVIOUS
  <1>4. ASSUME NEW i \in DOMAIN p, NEW j \in DOMAIN p, h[i] = h[j]
        PROVE  i = j
    <2>1. i < j \/ j < i \/ i = j
      BY <1>3
    <2>2. ~(h[i] < h[j]) /\ ~(h[j] < h[i])
      BY <1>2, <1>3, <1>4
    <2> QED
      BY <1>1, <2>1, <2>2
  <1>5. ASSUME NEW f, OnlyLast(f, q), NEW i \in DOMAIN p, p[i] = f
        PROVE  i = Len(p)
    <2>1. h[i] = Len(q)
      BY <1>2, <1>5 DEF OnlyLast
    <2>2. CASE i < Len(p)
      <3>1. Len(p) \in DOMAIN p
        BY <1>3, <2>2
      <3>2. h[i] < h[Len(p)] /\ h[Len(p)] \in DOMAIN q
        BY <1>1, <1>2, <2>2, <3>1
      <3> QED
        BY <1>3, <2>1, <3>2
    <2> QED
      BY <1>3, <2>2
  <1>6. ASSUME NEW f, NEW g, Precedes(f, g, p)
        PROVE  Precedes(f, g, q)
    <2>1. PICK i \in DOMAIN p, j \in DOMAIN p : i < j /\ p[i] = f /\ p[j] = g
      BY <1>6 DEF Precedes
    <2>2. h[i] \in DOMAIN q /\ h[j] \in DOMAIN q /\ h[i] < h[j] /\ q[h[i]] = f /\ q[h[j]] = g
      BY <1>1, <1>2, <2>1
    <2> QED
      BY <2>2 DEF Precedes
  <1>7. ASSUME \A i, j \in DOMAIN q : q[i] = q[j] => i = j,
               NEW i \in DOMAIN p, NEW j \in DOMAIN p, p[i] = p[j]
        PROVE  i = j
    <2>1. h[i] = h[j]
      BY <1>2, <1>7
    <2> QED
      BY <1>4, <2>1
  <1>8. \A f : OnlyLast(f, q) => OnlyLast(f, p)
    BY <1>5 DEF OnlyLast
  <1> QED
    BY <1>2, <1>6, <1>7, <1>8

-----------------------------------------------------------------------------
(* What the subscribers got, and in which order *)

Has(s, f) == \E i \in DOMAIN Delivered(s) : Delivered(s)[i] = f

NoneTwice ==
    \A s \in Subscriber : \A i, j \in DOMAIN Delivered(s) :
        Delivered(s)[i] = Delivered(s)[j] => i = j

InOrder == \A s, t \in Subscriber : Consistent(Delivered(s), Delivered(t))

\* Only what was sent is there, and what is being sent comes last where it is.
Newest ==
    \A f \in Future : \A s \in Subscriber :
        /\ Has(s, f) => future[f] \in {"sending", "sent"}
        /\ future[f] = "sending" =>
             OnlyLast(f, Delivered(s)) /\ (s \in slots[f] => ~Has(s, f))

NewIsEmpty == \A s \in Subscriber : stream[s] = "none" => received[s] = <<>>

OrderInv == NoneTwice /\ InOrder /\ Newest /\ NewIsEmpty

\* What was delivered is a sequence of messages.
LEMMA DeliveredType ==
    ASSUME TypeOK, NEW s \in Subscriber
    PROVE  Delivered(s) \in Seq(Future) /\ DOMAIN Delivered(s) = 1 .. Len(Delivered(s))
  <1>1. received[s] \in Seq(Future) /\ waiting[s] \in Seq(Future)
    BY DEF TypeOK
  <1>2. received[s] \o waiting[s] \in Seq(Future)
    BY <1>1, ConcatFacts
  <1> QED
    BY <1>2 DEF Delivered

\* A message is there once or not at all.
LEMMA OccursOnce ==
    ASSUME TypeOK, NoneTwice, NEW f \in Future, NEW s \in Subscriber
    PROVE  Occurrences(f, Delivered(s)) = IF Has(s, f) THEN 1 ELSE 0
  <1> DEFINE places == {i \in DOMAIN Delivered(s) : Delivered(s)[i] = f}
  <1>1. CASE Has(s, f)
    <2>1. PICK i \in DOMAIN Delivered(s) : Delivered(s)[i] = f
      BY <1>1 DEF Has
    <2>2. places = {i}
      BY <2>1 DEF NoneTwice
    <2> QED
      BY <1>1, <2>2, FS_Singleton DEF Occurrences
  <1>2. CASE ~Has(s, f)
    <2>1. places = {}
      BY <1>2 DEF Has
    <2> QED
      BY <1>2, <2>1, FS_EmptySet DEF Occurrences
  <1> QED
    BY <1>1, <1>2

\* What waits was delivered.
LEMMA WaitingHas ==
    ASSUME TypeOK, NEW s \in Subscriber
    PROVE  \A i \in DOMAIN waiting[s] : waiting[s][i] \in Future /\ Has(s, waiting[s][i])
  <1> DEFINE r == received[s]
             w == waiting[s]
  <1>1. r \in Seq(Future) /\ w \in Seq(Future)
    BY DEF TypeOK
  <1> HIDE DEF r, w
  <1>2. /\ Len(r) \in Nat /\ Len(w) \in Nat
        /\ DOMAIN w = 1 .. Len(w) /\ DOMAIN (r \o w) = 1 .. Len(r) + Len(w)
        /\ \A i \in 1 .. Len(w) : (r \o w)[Len(r) + i] = w[i]
    BY <1>1, ConcatFacts
  <1> SUFFICES ASSUME NEW i \in DOMAIN w
               PROVE  w[i] \in Future /\ \E k \in DOMAIN (r \o w) : (r \o w)[k] = w[i]
    BY DEF Has, Delivered, r, w
  <1>3. w[i] \in Future
    BY <1>1
  <1>4. Len(r) + i \in DOMAIN (r \o w)
    BY <1>2
  <1> QED
    BY <1>2, <1>3, <1>4

\* A step that delivers nothing moves a future on, and is done with it, or takes the lock for it,
\* or releases the lock with everyone served.
Proceeds(f) ==
    \/ /\ future'[f] = future[f] /\ audience'[f] = audience[f]
       /\ future[f] = "sending" => slots'[f] = slots[f]
    \/ /\ {future[f], future'[f]} \cap {"sending", "sent"} = {}
       /\ audience'[f] = audience[f] \/ audience'[f] = Registered
    \/ /\ future[f] = "ready" /\ future'[f] = "sending"
       /\ audience'[f] = audience[f] /\ slots'[f] = audience[f]
    \/ /\ future[f] = "sending" /\ future'[f] = "sent"
       /\ audience'[f] = audience[f] /\ slots[f] = {}

KeepsStreamsMade ==
    \A s \in Subscriber : stream'[s] = "none" => stream[s] = "none" /\ received'[s] = received[s]

DeliversNothing ==
    /\ \A s \in Subscriber : Delivered(s)' = Delivered(s)
    /\ \A f \in Future : Proceeds(f)
    /\ KeepsStreamsMade

\* Who joins has nothing, or what waits for another one, and no message is being sent.
JoinsIdle(s) ==
    /\ CoreUnlocked
    /\ \E b, q : NewSubCore(s, b, q) /\ (q = <<>> \/ \E t \in Subscriber : q = waiting[t])

\* Steps that deliver nothing, and may take out what was delivered, keep the order.
LEMMA ThinnedOrder ==
    ASSUME TypeOK, TypeOK', OrderInv, \A s \in Subscriber : Thinned(Delivered(s)', Delivered(s)),
           \A f \in Future : Proceeds(f), KeepsStreamsMade
    PROVE  OrderInv'
  <1>1. \A s \in Subscriber : Delivered(s) \in Seq(Future)
    BY DeliveredType
  <1>2. \A s \in Subscriber : Delivered(s)' \in Seq(Future)
    BY ConcatFacts DEF TypeOK, Delivered
  <1>3. NoneTwice'
    BY <1>1, <1>2, ThinnedKeeps DEF OrderInv, NoneTwice
  <1>4. \A s \in Subscriber : \A f : Has(s, f)' => Has(s, f)
    <2> TAKE s \in Subscriber
    <2>1. \A i \in DOMAIN Delivered(s)' : \E j \in DOMAIN Delivered(s) : Delivered(s)'[i] = Delivered(s)[j]
      BY <1>1, <1>2, ThinnedKeeps
    <2> QED
      BY <2>1 DEF Has
  <1>5. InOrder'
    <2> SUFFICES ASSUME NEW s \in Subscriber, NEW t \in Subscriber,
                        NEW i \in DOMAIN Delivered(s)', NEW j \in DOMAIN Delivered(s)', i < j,
                        Precedes(Delivered(s)'[j], Delivered(s)'[i], Delivered(t)')
                 PROVE  FALSE
      BY DEF InOrder, Consistent
    <2>1. Precedes(Delivered(s)'[j], Delivered(s)'[i], Delivered(t))
      BY <1>1, <1>2, ThinnedKeeps
    <2>2. Precedes(Delivered(s)'[i], Delivered(s)'[j], Delivered(s)')
      BY DEF Precedes
    <2>3. Precedes(Delivered(s)'[i], Delivered(s)'[j], Delivered(s))
      BY <1>1, <1>2, <2>2, ThinnedKeeps
    <2> QED
      BY <2>1, <2>3 DEF OrderInv, InOrder, Consistent, Precedes
  <1>6. NewIsEmpty'
    BY DEF OrderInv, NewIsEmpty, KeepsStreamsMade
  <1>7. Newest'
    <2> SUFFICES ASSUME NEW f \in Future, NEW s \in Subscriber
                 PROVE  /\ Has(s, f)' => future'[f] \in {"sending", "sent"}
                        /\ future'[f] = "sending" =>
                             OnlyLast(f, Delivered(s)') /\ (s \in slots'[f] => ~Has(s, f)')
      BY DEF Newest
    <2>1. /\ Has(s, f) => future[f] \in {"sending", "sent"}
          /\ future[f] = "sending" =>
               OnlyLast(f, Delivered(s)) /\ (s \in slots[f] => ~Has(s, f))
      BY DEF OrderInv, Newest
    <2>2. ~Has(s, f)' => OnlyLast(f, Delivered(s)')
      BY DEF Has, OnlyLast
    <2>3. OnlyLast(f, Delivered(s)) => OnlyLast(f, Delivered(s)')
      BY <1>1, <1>2, ThinnedKeeps
    <2>4. Has(s, f)' => Has(s, f)
      BY <1>4
    <2>5. Proceeds(f)
      OBVIOUS
    <2> QED
      BY <2>1, <2>2, <2>3, <2>4, <2>5 DEF Proceeds
  <1> QED
    BY <1>3, <1>5, <1>6, <1>7 DEF OrderInv

\* Others keep what they have when one joins.
LEMMA JoinKeepsOthers ==
    ASSUME TypeOK, NEW s \in Subscriber, JoinsIdle(s)
    PROVE  /\ stream[s] = "none" /\ stream'[s] = "live"
           /\ UNCHANGED <<received, future, slots, audience>>
           /\ \A t \in Subscriber \ {s} :
                Delivered(t)' = Delivered(t) /\ stream'[t] = stream[t] /\ waiting'[t] = waiting[t]
  BY DEF JoinsIdle, NewSubCore, history, Delivered, TypeOK

\* Who joins has nothing, or the end of what another one has: the order is kept.
LEMMA JoinOrder ==
    ASSUME TypeOK, OrderInv, NEW s \in Subscriber, JoinsIdle(s)
    PROVE  OrderInv'
  <1> CoreUnlocked
    BY DEF JoinsIdle
  <1> PICK b, q : NewSubCore(s, b, q) /\ (q = <<>> \/ \E t \in Subscriber : q = waiting[t])
    BY DEF JoinsIdle
  <1>1. /\ stream[s] = "none" /\ stream' = [stream EXCEPT ![s] = "live"]
        /\ waiting' = [waiting EXCEPT ![s] = q]
        /\ UNCHANGED <<received, future, slots, audience>>
    BY DEF NewSubCore, history
  <1>2. received[s] = <<>> /\ q \in Seq(Future)
    BY <1>1 DEF OrderInv, NewIsEmpty, TypeOK
  <1>3. Delivered(s)' = q
    BY <1>1, <1>2 DEF Delivered, TypeOK
  <1>4. \A t \in Subscriber \ {s} : Delivered(t)' = Delivered(t)
    BY <1>1 DEF Delivered, TypeOK
  <1>5. \/ q = <<>>
        \/ \E t \in Subscriber : \E r \in Seq(Future) : Delivered(t) = r \o q
    BY DEF Delivered, TypeOK
  <1>6. \A t \in Subscriber : Delivered(t) \in Seq(Future)
    BY DeliveredType
  <1>7. /\ \A i, j \in DOMAIN q : q[i] = q[j] => i = j
        /\ \A p \in Seq(Future) :
             (\A t \in Subscriber : Consistent(p, Delivered(t))) => Consistent(p, q)
        /\ \A p \in Seq(Future) :
             (\A t \in Subscriber : Consistent(Delivered(t), p)) => Consistent(q, p)
        /\ \A f : (\E i \in DOMAIN q : q[i] = f) => \E t \in Subscriber : Has(t, f)
    <2>1. CASE q = <<>>
      BY <2>1 DEF Consistent, Precedes
    <2>2. CASE q # <<>>
      <3>1. PICK t \in Subscriber, r \in Seq(Future) : Delivered(t) = r \o q
        BY <1>5, <2>2
      <3>2. /\ Len(r) \in Nat /\ Len(q) \in Nat
            /\ DOMAIN q = 1 .. Len(q) /\ DOMAIN (r \o q) = 1 .. Len(r) + Len(q)
            /\ \A i \in 1 .. Len(q) : (r \o q)[Len(r) + i] = q[i]
        BY <1>2, ConcatFacts
      <3>3. \A i \in DOMAIN q : Len(r) + i \in DOMAIN Delivered(t) /\ Delivered(t)[Len(r) + i] = q[i]
        BY <3>1, <3>2
      <3>4. \A i, j \in DOMAIN q : q[i] = q[j] => i = j
        <4> SUFFICES ASSUME NEW i \in DOMAIN q, NEW j \in DOMAIN q, q[i] = q[j]
                     PROVE  i = j
          OBVIOUS
        <4>1. Len(r) + i = Len(r) + j
          BY <3>3 DEF OrderInv, NoneTwice
        <4> QED
          BY <3>2, <4>1
      <3>5. \A f : (\E i \in DOMAIN q : q[i] = f) => Has(t, f)
        BY <3>3 DEF Has
      <3>6. \A p \in Seq(Future) : /\ Consistent(p, Delivered(t)) => Consistent(p, q)
                                   /\ Consistent(Delivered(t), p) => Consistent(q, p)
        BY <1>2, <3>1, SuffixConsistent
      <3> QED
        BY <3>4, <3>5, <3>6
    <2> QED
      BY <2>1, <2>2
  <1>8. \A t \in Subscriber : \A f \in Future : Has(t, f)' => \E u \in Subscriber : Has(u, f)
    BY <1>3, <1>4, <1>7 DEF Has
  <1>9. NoneTwice'
    BY <1>3, <1>4, <1>7 DEF OrderInv, NoneTwice
  <1>10. InOrder'
    <2>1. \A t, u \in Subscriber : Consistent(Delivered(t), Delivered(u))
      BY DEF OrderInv, InOrder
    <2>2. \A t \in Subscriber : Consistent(Delivered(t), q) /\ Consistent(q, Delivered(t))
      BY <1>6, <1>7, <2>1
    <2>3. Consistent(q, q)
      BY <1>2, <1>7, <2>2
    <2> QED
      BY <1>3, <1>4, <2>1, <2>2, <2>3 DEF InOrder
  <1>11. Newest'
    <2>1. \A f \in Future : future'[f] # "sending"
      BY <1>1 DEF CoreUnlocked
    <2> QED
      BY <1>1, <1>8, <2>1 DEF OrderInv, Newest
  <1>12. NewIsEmpty'
    BY <1>1 DEF OrderInv, NewIsEmpty, TypeOK
  <1> QED
    BY <1>9, <1>10, <1>11, <1>12 DEF OrderInv

\* A push adds the message to what one subscriber got.
LEMMA PushAppends ==
    ASSUME TypeOK, NEW f \in Future, NEW s \in Subscriber, SendMessage(f, s)
    PROVE  /\ future[f] = "sending" /\ s \in slots[f]
           /\ UNCHANGED <<received, stream, future, audience>>
           /\ slots'[f] = slots[f] \ {s} /\ \A g \in Future \ {f} : slots'[g] = slots[g]
           /\ waiting'[s] = Append(waiting[s], f)
           /\ \A t \in Subscriber \ {s} : waiting'[t] = waiting[t]
           /\ Delivered(s)' = Append(Delivered(s), f)
           /\ \A t \in Subscriber \ {s} : Delivered(t)' = Delivered(t)
  <1>1. /\ future[f] = "sending" /\ s \in slots[f]
        /\ slots' = [slots EXCEPT ![f] = @ \ {s}]
        /\ waiting' = [waiting EXCEPT ![s] = Append(@, f)]
        /\ UNCHANGED <<received, stream, future, audience>>
    BY DEF SendMessage, Push, history
  <1>2. /\ slots'[f] = slots[f] \ {s} /\ \A g \in Future \ {f} : slots'[g] = slots[g]
        /\ waiting'[s] = Append(waiting[s], f)
        /\ \A t \in Subscriber \ {s} : waiting'[t] = waiting[t]
    BY <1>1 DEF TypeOK
  <1>3. Delivered(s)' = Append(Delivered(s), f)
    <2>1. received[s] \in Seq(Future) /\ waiting[s] \in Seq(Future)
      BY DEF TypeOK
    <2>2. received[s] \o Append(waiting[s], f) = Append(received[s] \o waiting[s], f)
      <3> DEFINE r == received[s]
                 w == waiting[s]
      <3>1. r \in Seq(Future) /\ w \in Seq(Future)
        BY <2>1
      <3> HIDE DEF r, w
      <3>2. r \o Append(w, f) = Append(r \o w, f)
        BY <3>1, ConcatAppend
      <3> QED
        BY <3>2 DEF r, w
    <2>3. received'[s] = received[s] /\ waiting'[s] = Append(waiting[s], f)
      BY <1>1, <1>2
    <2> QED
      BY <2>2, <2>3 DEF Delivered
  <1>4. \A t \in Subscriber \ {s} : Delivered(t)' = Delivered(t)
    BY <1>1, <1>2 DEF Delivered
  <1> QED
    BY <1>1, <1>2, <1>3, <1>4

\* A push is to a subscriber that has not got the message, which is the last one of all others.
LEMMA PushOrder ==
    ASSUME TypeOK, SenderInv, OrderInv, NEW f \in Future, NEW s \in Subscriber, SendMessage(f, s)
    PROVE  OrderInv'
  <1>1. /\ future[f] = "sending" /\ s \in slots[f]
        /\ UNCHANGED <<received, stream, future, audience>>
    BY PushAppends
  <1>2. /\ slots'[f] = slots[f] \ {s} /\ \A g \in Future \ {f} : slots'[g] = slots[g]
        /\ waiting'[s] = Append(waiting[s], f)
        /\ \A t \in Subscriber \ {s} : waiting'[t] = waiting[t]
    BY PushAppends
  <1>3. Delivered(s)' = Append(Delivered(s), f)
    BY PushAppends
  <1>4. \A t \in Subscriber \ {s} : Delivered(t)' = Delivered(t)
    BY PushAppends
  <1>5. \A t \in Subscriber : Delivered(t) \in Seq(Future)
    BY DeliveredType
  <1>6. /\ Len(Delivered(s)) \in Nat /\ DOMAIN Delivered(s) = 1 .. Len(Delivered(s))
        /\ DOMAIN Delivered(s)' = 1 .. Len(Delivered(s)) + 1
        /\ Len(Delivered(s)') = Len(Delivered(s)) + 1
        /\ \A i \in 1 .. Len(Delivered(s)) : Delivered(s)'[i] = Delivered(s)[i]
        /\ Delivered(s)'[Len(Delivered(s)) + 1] = f
    BY <1>3, <1>5, AppendFacts
  <1>7. ~Has(s, f) /\ \A t \in Subscriber : OnlyLast(f, Delivered(t))
    BY <1>1 DEF OrderInv, Newest
  <1>8. \A g \in Future \ {f} : future[g] # "sending"
    BY <1>1 DEF SenderInv
  <1>9. Has(s, f)' /\ \A g \in Future \ {f} : Has(s, g)' => Has(s, g)
    <2>1. Has(s, f)'
      BY <1>6 DEF Has
    <2>2. ASSUME NEW g \in Future \ {f}, NEW i \in DOMAIN Delivered(s)', Delivered(s)'[i] = g
          PROVE  Has(s, g)
      <3>1. i \in 1 .. Len(Delivered(s))
        BY <1>6, <2>2
      <3> QED
        BY <1>6, <2>2, <3>1 DEF Has
    <2> QED
      BY <2>1, <2>2 DEF Has
  <1>10. \A g \in Future : Has(s, g) => Has(s, g)'
    BY <1>6 DEF Has
  <1>11. \A t \in Subscriber \ {s} : \A g \in Future : Has(t, g)' <=> Has(t, g)
    BY <1>4 DEF Has
  <1>12. NoneTwice'
    <2>1. ASSUME NEW i \in DOMAIN Delivered(s)', NEW j \in DOMAIN Delivered(s)',
                 Delivered(s)'[i] = Delivered(s)'[j]
          PROVE  i = j
      <3>1. CASE i \in 1 .. Len(Delivered(s)) /\ j \in 1 .. Len(Delivered(s))
        BY <1>6, <2>1, <3>1 DEF OrderInv, NoneTwice
      <3>2. ASSUME NEW k \in 1 .. Len(Delivered(s))
            PROVE  Delivered(s)'[k] # f
        BY <1>6, <1>7 DEF Has
      <3> QED
        BY <1>6, <2>1, <3>1, <3>2
    <2>2. ASSUME NEW t \in Subscriber \ {s}
          PROVE  \A i, j \in DOMAIN Delivered(t)' : Delivered(t)'[i] = Delivered(t)'[j] => i = j
      BY <1>4 DEF OrderInv, NoneTwice
    <2> QED
      BY <2>1, <2>2 DEF NoneTwice
  <1>13. \A t \in Subscriber : OnlyLast(f, Delivered(t)')
    <2>1. OnlyLast(f, Delivered(s)')
      <3> SUFFICES ASSUME NEW i \in 1 .. Len(Delivered(s)) + 1, Delivered(s)'[i] = f
                   PROVE  i = Len(Delivered(s)) + 1
        BY <1>6 DEF OnlyLast
      <3>1. i \notin 1 .. Len(Delivered(s))
        BY <1>6, <1>7 DEF Has
      <3> QED
        BY <1>6, <3>1
    <2> QED
      BY <1>4, <1>7, <2>1
  <1>14. InOrder'
    <2>1. \A t, u \in Subscriber : Consistent(Delivered(t), Delivered(u))
      BY DEF OrderInv, InOrder
    <2>2. \A t, u \in Subscriber : Consistent(Delivered(t), Delivered(u)')
      <3> TAKE t, u \in Subscriber
      <3>1. CASE u = s
        BY <1>3, <1>5, <1>7, <2>1, <3>1, AppendConsistent
      <3> QED
        BY <1>4, <2>1, <3>1
    <2>3. \A u \in Subscriber : Delivered(u)' \in Seq(Future)
      BY <1>3, <1>4, <1>5, AppendFacts
    <2>4. \A t, u \in Subscriber : Consistent(Delivered(t)', Delivered(u)')
      <3> TAKE t, u \in Subscriber
      <3>1. CASE t = s
        <4>1. Consistent(Append(Delivered(s), f), Delivered(u)')
          BY <1>5, <1>13, <2>2, <2>3, AppendConsistent
        <4> QED
          BY <1>3, <3>1, <4>1
      <3> QED
        BY <1>4, <2>2, <3>1
    <2> QED
      BY <2>4 DEF InOrder
  <1>15. Newest'
    <2> SUFFICES ASSUME NEW g \in Future, NEW t \in Subscriber
                 PROVE  /\ Has(t, g)' => future[g] \in {"sending", "sent"}
                        /\ future[g] = "sending" =>
                             OnlyLast(g, Delivered(t)') /\ (t \in slots'[g] => ~Has(t, g)')
      BY <1>1 DEF Newest
    <2>1. CASE g = f
      <3>1. t \in slots'[f] => ~Has(t, f)'
        BY <1>1, <1>2, <1>11 DEF OrderInv, Newest
      <3> QED
        BY <1>1, <1>13, <2>1, <3>1
    <2>2. CASE g # f
      <3>1. Has(t, g)' => Has(t, g)
        BY <1>9, <1>11, <2>2
      <3> QED
        BY <1>8, <2>2, <3>1 DEF OrderInv, Newest
    <2> QED
      BY <2>1, <2>2
  <1>16. NewIsEmpty'
    BY <1>1 DEF OrderInv, NewIsEmpty
  <1> QED
    BY <1>12, <1>14, <1>15, <1>16 DEF OrderInv

\* The steps that change no queue and no future deliver nothing.
LEMMA NothingProceeds ==
    ASSUME UNCHANGED <<waiting, received, stream, future, slots, audience>>
    PROVE  DeliversNothing
  BY DEF DeliversNothing, Delivered, Proceeds, KeepsStreamsMade

\* Nor do those that only take one future on.
LEMMA OneProceeds ==
    ASSUME NEW f \in Future, Proceeds(f),
           \A g \in Future \ {f} :
             future'[g] = future[g] /\ audience'[g] = audience[g] /\ slots'[g] = slots[g],
           UNCHANGED <<waiting, received, stream>>
    PROVE  DeliversNothing
  <1>1. \A g \in Future : Proceeds(g)
    BY DEF Proceeds
  <1> QED
    BY <1>1 DEF DeliversNothing, Delivered, KeepsStreamsMade

\* A future that is neither sending nor sent, before or after, proceeds.
LEMMA OutsideProceeds ==
    ASSUME TypeOK, NEW f \in Future, NEW state, future' = [future EXCEPT ![f] = state],
           {future[f], state} \cap {"sending", "sent"} = {},
           audience' = audience \/ audience' = [audience EXCEPT ![f] = Registered],
           \A g \in Future \ {f} : slots'[g] = slots[g]
    PROVE  /\ Proceeds(f)
           /\ \A g \in Future \ {f} :
                future'[g] = future[g] /\ audience'[g] = audience[g] /\ slots'[g] = slots[g]
  <1>1. /\ future'[f] = state /\ \A g \in Future \ {f} : future'[g] = future[g]
        /\ audience'[f] = audience[f] \/ audience'[f] = Registered
        /\ \A g \in Future \ {f} : audience'[g] = audience[g]
    BY DEF TypeOK
  <1> QED
    BY <1>1 DEF Proceeds

\* A message that is read was delivered before.
LEMMA ReadDelivers ==
    ASSUME TypeOK, NEW s \in Subscriber, PollMessage(s)
    PROVE  DeliversNothing
  <1>1. /\ stream[s] = "live" /\ waiting[s] # <<>>
        /\ waiting' = [waiting EXCEPT ![s] = Tail(@)]
        /\ received' = [received EXCEPT ![s] = Append(@, Head(waiting[s]))]
        /\ UNCHANGED <<stream, future, slots, audience>>
    BY DEF PollMessage, TakeMessage
  <1>2. received[s] \in Seq(Future) /\ waiting[s] \in Seq(Future)
    BY DEF TypeOK
  <1>3. waiting'[s] = Tail(waiting[s]) /\ received'[s] = Append(received[s], Head(waiting[s]))
    BY <1>1 DEF TypeOK
  <1>4. Delivered(s)' = Delivered(s)
    BY <1>1, <1>2, <1>3, ConcatTake DEF Delivered
  <1>5. \A t \in Subscriber \ {s} : waiting'[t] = waiting[t] /\ received'[t] = received[t]
    BY <1>1 DEF TypeOK
  <1>6. \A t \in Subscriber : Delivered(t)' = Delivered(t)
    BY <1>4, <1>5 DEF Delivered
  <1> QED
    BY <1>1, <1>5, <1>6 DEF DeliversNothing, Proceeds, KeepsStreamsMade

\* The steps that do not depend on the kind of publisher deliver nothing or add a subscriber.
LEMMA SharedDeliveries ==
    ASSUME TypeOK, SharedNext \/ WeakNext \/ UNCHANGED vars
    PROVE  DeliversNothing \/ \E s \in Subscriber : JoinsIdle(s)
  <1>1. ASSUME NEW s \in Subscriber, NEW t \in Subscriber,
               \/ Subscribe(s) \/ WeakSubscribe(s) \/ WeakSubscribeClosed(s)
               \/ Resubscribe(t, s) \/ ResubscribeClosed(t, s)
        PROVE  JoinsIdle(s)
    <2>1. CoreUnlocked
      BY <1>1 DEF Subscribe, WeakSubscribe, Resubscribe, Attach, WeakSubscribeClosed,
         ResubscribeClosed, CoreAlive, CoreUnlocked
    <2>2. \E b, q : NewSubCore(s, b, q) /\ (q = <<>> \/ q = waiting[t])
      BY <1>1 DEF Subscribe, WeakSubscribe, Resubscribe, Attach, WeakSubscribeClosed,
         ResubscribeClosed
    <2> QED
      BY <2>1, <2>2 DEF JoinsIdle
  <1>2. ASSUME NEW s \in Subscriber, DropSubscriber(s)
        PROVE  DeliversNothing
    <2>1. /\ stream' = [stream EXCEPT ![s] = "dropped"]
          /\ UNCHANGED <<waiting, received, future, slots, audience>>
      BY <1>2 DEF DropSubscriber, Detach, history
    <2> QED
      BY <2>1 DEF DeliversNothing, Delivered, Proceeds, KeepsStreamsMade, TypeOK
  <1>3. ASSUME NEW s \in Subscriber, PollNext(s)
        PROVE  DeliversNothing
    BY <1>3, ReadDelivers, NothingProceeds
       DEF PollNext, PollEnded, PollPending, subVars, history
  <1>4. CASE Republish \/ DropPublisher \/ DropLastPublisher \/ ReleaseCore
    BY <1>4, NothingProceeds DEF Republish, DropPublisher, DropLastPublisher, CloseCore, ReleaseCore,
       subVars, taskVars, history
  <1>5. ASSUME NEW e \in Flush,
               \/ WhenEmpty(e) \/ WeakWhenEmpty(e) \/ WeakWhenEmptyClosed(e)
               \/ PollFlushed(e) \/ PollUnflushed(e) \/ DropFlush(e)
        PROVE  DeliversNothing
    BY <1>5, NothingProceeds DEF WhenEmpty, WeakWhenEmpty, StartFlush, WeakWhenEmptyClosed,
       PollFlushed, PollUnflushed, DropFlush, subVars, history
  <1>6. ASSUME NEW c \in Watcher,
               \/ WhenClosed(c) \/ WeakWhenClosed(c) \/ WeakWhenClosedClosed(c)
               \/ PollClosed(c) \/ PollOpen(c) \/ DropWatcher(c)
        PROVE  DeliversNothing
    BY <1>6, NothingProceeds DEF WhenClosed, WeakWhenClosed, StartWatcher, WeakWhenClosedClosed,
       PollClosed, PollOpen, DropWatcher, subVars, history
  <1>7. ASSUME NEW f \in Future,
               WhenReady(f) \/ WeakWhenReady(f) \/ WeakWhenReadyClosed(f) \/ DropFuture(f)
        PROVE  DeliversNothing
    <2>1. PICK state \in {"waiting", "void", "dropped"} : future' = [future EXCEPT ![f] = state]
      BY <1>7 DEF WhenReady, WeakWhenReady, StartFuture, WeakWhenReadyClosed, DropFuture
    <2>2. /\ future[f] \in {"none", "waiting"}
          /\ UNCHANGED <<waiting, received, stream, slots, audience>>
      BY <1>7 DEF WhenReady, WeakWhenReady, StartFuture, WeakWhenReadyClosed, DropFuture, subVars,
         history
    <2> QED
      BY <2>1, <2>2, OutsideProceeds, OneProceeds
  <1>8. CASE UNCHANGED vars
    BY <1>8, NothingProceeds DEF vars, subVars, taskVars, history
  <1> QED
    BY <1>1, <1>2, <1>3, <1>4, <1>5, <1>6, <1>7, <1>8 DEF SharedNext, WeakNext

\* A sender delivers nothing but its pushes.
LEMMA SenderDeliveries ==
    ASSUME TypeOK, SenderInv, NEW f \in Future, Sending(f) \/ CancelStart(f) \/ Cancelling(f)
    PROVE  DeliversNothing \/ \E s \in Subscriber : SendMessage(f, s)
  <1>1. CASE CancelStart(f) \/ CancelEnd(f)
    <2>1. PICK state \in {"cancelling", "cancelled"} : future' = [future EXCEPT ![f] = state]
      BY <1>1 DEF CancelStart, CancelEnd
    <2>2. /\ future[f] \in {"ready", "cancelling"}
          /\ UNCHANGED <<waiting, received, stream, slots, audience>>
      BY <1>1 DEF CancelStart, CancelEnd, subVars, history
    <2> QED
      BY <2>1, <2>2, OutsideProceeds, OneProceeds
  <1>2. CASE \E s \in Subscriber : CancelSend(f, s)
    <2>1. /\ future[f] = "cancelling" /\ future' = future
          /\ UNCHANGED <<waiting, received, stream, audience>>
          /\ \E K : slots' = [slots EXCEPT ![f] = K]
      BY <1>2 DEF CancelSend, GiveBack, history
    <2>2. future' = [future EXCEPT ![f] = future[f]]
      BY <2>1 DEF TypeOK
    <2>3. \A g \in Future \ {f} : slots'[g] = slots[g]
      BY <2>1 DEF TypeOK
    <2> QED
      BY <2>1, <2>2, <2>3, OutsideProceeds, OneProceeds
  <1>3. CASE SendLock(f) \/ SendUnlock(f)
    <2>1. PICK state \in {"sending", "sent"} :
            /\ future' = [future EXCEPT ![f] = state]
            /\ \/ state = "sending" /\ future[f] = "ready"
               \/ state = "sent" /\ future[f] = "sending" /\ slots[f] = {}
      BY <1>3 DEF SendLock, SendStart, SendUnlock, SendEnd
    <2>2. UNCHANGED <<waiting, received, stream, slots, audience>>
      BY <1>3 DEF SendLock, SendStart, SendUnlock, SendEnd, subVars, history
    <2>3. future'[f] = state /\ \A g \in Future \ {f} : future'[g] = future[g]
      BY <2>1 DEF TypeOK
    <2>4. future[f] = "ready" => slots[f] = audience[f]
      BY DEF SenderInv
    <2>5. Proceeds(f)
      BY <2>1, <2>2, <2>3, <2>4 DEF Proceeds
    <2> QED
      BY <2>2, <2>3, <2>5, OneProceeds
  <1> QED
    BY <1>1, <1>2, <1>3 DEF Sending, Cancelling

\* A step of either kind keeps the order.
LEMMA KindsOrder ==
    ASSUME TypeOK, TypeOK', SenderInv, OrderInv,
           \/ DeliversNothing
           \/ \E s \in Subscriber : JoinsIdle(s)
           \/ \E f \in Future : \E s \in Subscriber : SendMessage(f, s)
    PROVE  OrderInv'
  <1>1. CASE DeliversNothing
    <2>1. \A s \in Subscriber : Thinned(Delivered(s), Delivered(s))
      BY DeliveredType, ThinnedFacts
    <2>2. \A s \in Subscriber : Thinned(Delivered(s)', Delivered(s))
      BY <1>1, <2>1 DEF DeliversNothing
    <2> QED
      BY <1>1, <2>2, ThinnedOrder DEF DeliversNothing
  <1> QED
    BY <1>1, JoinOrder, PushOrder

\* The lock has one holder, whatever the steps that do not depend on the kind of publisher.
LEMMA SharedSenderInv ==
    ASSUME TypeOK, SenderInv, SharedNext \/ WeakNext \/ UNCHANGED vars
    PROVE  SenderInv'
  <1>1. ASSUME UNCHANGED <<future, slots, audience>>
        PROVE  SenderInv'
    BY <1>1 DEF SenderInv
  <1>2. ASSUME NEW f \in Future,
               WhenReady(f) \/ WeakWhenReady(f) \/ WeakWhenReadyClosed(f) \/ DropFuture(f)
        PROVE  SenderInv'
    <2>1. PICK state \in {"waiting", "void", "dropped"} : future' = [future EXCEPT ![f] = state]
      BY <1>2 DEF WhenReady, WeakWhenReady, StartFuture, WeakWhenReadyClosed, DropFuture
    <2>2. UNCHANGED <<slots, audience>>
      BY <1>2 DEF WhenReady, WeakWhenReady, StartFuture, WeakWhenReadyClosed, DropFuture, history
    <2> QED
      BY <2>1, <2>2 DEF SenderInv, TypeOK
  <1>3. ASSUME NEW s \in Subscriber, NEW t \in Subscriber,
               \/ Subscribe(s) \/ WeakSubscribe(s) \/ WeakSubscribeClosed(s)
               \/ Resubscribe(t, s) \/ ResubscribeClosed(t, s)
        PROVE  SenderInv'
    BY <1>1, <1>3 DEF Subscribe, WeakSubscribe, Resubscribe, Attach, WeakSubscribeClosed,
       ResubscribeClosed, NewSubCore, history
  <1>4. ASSUME NEW s \in Subscriber, DropSubscriber(s) \/ PollNext(s)
        PROVE  SenderInv'
    BY <1>1, <1>4 DEF DropSubscriber, Detach, PollNext, PollMessage, TakeMessage, PollEnded,
       PollPending, history
  <1>5. CASE Republish \/ DropPublisher \/ DropLastPublisher \/ ReleaseCore \/ UNCHANGED vars
    BY <1>1, <1>5 DEF Republish, DropPublisher, DropLastPublisher, CloseCore, ReleaseCore, taskVars,
       history, vars
  <1>6. ASSUME NEW e \in Flush,
               \/ WhenEmpty(e) \/ WeakWhenEmpty(e) \/ WeakWhenEmptyClosed(e)
               \/ PollFlushed(e) \/ PollUnflushed(e) \/ DropFlush(e)
        PROVE  SenderInv'
    BY <1>1, <1>6 DEF WhenEmpty, WeakWhenEmpty, StartFlush, WeakWhenEmptyClosed,
       PollFlushed, PollUnflushed, DropFlush, history
  <1>7. ASSUME NEW c \in Watcher,
               \/ WhenClosed(c) \/ WeakWhenClosed(c) \/ WeakWhenClosedClosed(c)
               \/ PollClosed(c) \/ PollOpen(c) \/ DropWatcher(c)
        PROVE  SenderInv'
    BY <1>1, <1>7 DEF WhenClosed, WeakWhenClosed, StartWatcher, WeakWhenClosedClosed,
       PollClosed, PollOpen, DropWatcher, history
  <1> QED
    BY <1>2, <1>3, <1>4, <1>5, <1>6, <1>7 DEF SharedNext, WeakNext

\* Nor does a sender take the lock from another, or start with a slot less.
LEMMA SenderSenderInv ==
    ASSUME TypeOK, SenderInv, NEW f \in Future, Sending(f) \/ CancelStart(f) \/ Cancelling(f)
    PROVE  SenderInv'
  <1>1. CASE SendLock(f) \/ SendUnlock(f) \/ CancelStart(f) \/ CancelEnd(f)
    <2>1. PICK state \in {"sending", "sent", "cancelling", "cancelled"} :
            /\ future' = [future EXCEPT ![f] = state]
            /\ state = "sending" => CoreUnlocked
      BY <1>1 DEF SendLock, SendStart, SendUnlock, SendEnd, CancelStart, CancelEnd
    <2>2. UNCHANGED <<slots, audience>>
      BY <1>1 DEF SendLock, SendStart, SendUnlock, SendEnd, CancelStart, CancelEnd, history
    <2> QED
      BY <2>1, <2>2 DEF SenderInv, CoreUnlocked, TypeOK
  <1>2. CASE \E s \in Subscriber : SendMessage(f, s) \/ CancelSend(f, s)
    <2>1. /\ future[f] # "ready" /\ UNCHANGED <<future, audience>>
          /\ \E K : slots' = [slots EXCEPT ![f] = K]
      BY <1>2 DEF SendMessage, Push, CancelSend, GiveBack, history
    <2> QED
      BY <2>1 DEF SenderInv, TypeOK
  <1> QED
    BY <1>1, <1>2 DEF Sending, Cancelling

\* Nothing was delivered at first.
LEMMA InitOrder == Init => SenderInv /\ OrderInv
  <1> SUFFICES ASSUME Init
               PROVE  SenderInv /\ OrderInv
    OBVIOUS
  <1>1. \A s \in Subscriber : Delivered(s) = <<>> /\ received[s] = <<>>
    BY DEF Init, Delivered
  <1>2. NoneTwice /\ InOrder /\ NewIsEmpty
    BY <1>1 DEF NoneTwice, InOrder, Consistent, Precedes, NewIsEmpty
  <1>3. Newest
    BY <1>1 DEF Init, Newest, Has
  <1>4. SenderInv
    BY DEF Init, SenderInv
  <1> QED
    BY <1>2, <1>3, <1>4 DEF OrderInv
=============================================================================
