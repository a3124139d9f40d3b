----------------------------- MODULE SinkProofs -----------------------------
(***************************************************************************)
(* Proofs about PublisherSink, for any numbers of required subscribers and  *)
(* any futures in the hands of clients.                                     *)
(*                                                                          *)
(* A step of the sink is a step of PublishAll (Moves) or a nap: a task goes *)
(* to sleep at the gate, or the gate wakes those that sleep at it (Naps).   *)
(* So what is proved of PublishAll's steps holds of the sink's, and is      *)
(* completed by what the sink holds (Held) and by the gate (Gated).         *)
(***************************************************************************)
EXTENDS PublisherSink, PublishAllProofs

\* What the sink holds are its tasks, each of them once, and what it drops had begun.
Held ==
    /\ future_sender \subseteq Future /\ next_sender \subseteq Future
    /\ future_flush \subseteq Flush
    /\ discarded \cap (future_sender \cup next_sender \cup future_flush) = {}
    /\ \A f \in discarded \cap Future : future[f] # "none"
    /\ \A e \in discarded \cap Flush : flush[e] # "none"

SinkInv == IInv /\ SinkTypeOK /\ Held

-----------------------------------------------------------------------------
(* What the sink's operations do to the tasks: f, or e, turns from one state to another *)

Turns(f, from, to) ==
    /\ future[f] \in from
    /\ \E state \in to : future' = [future EXCEPT ![f] = state]
    /\ UNCHANGED <<flush, stream, publisher_count, subscribers>>

TurnsFlush(e, from, to) ==
    /\ flush[e] \in from
    /\ \E state \in to : flush' = [flush EXCEPT ![e] = state]
    /\ UNCHANGED <<future, stream, publisher_count, subscribers>>

Still == UNCHANGED <<future, flush, stream, publisher_count, subscribers>>

\* The polls of a future, gated or not, its sending and its dropping.
LEMMA FutureTurns ==
    ASSUME TypeOK, NEW f \in Future
    PROVE  /\ PollSenderPending(f) => Still
           /\ PollSenderReady(f) => Turns(f, {"waiting"}, {"ready"})
           /\ WhenReady(f) => Turns(f, {"none"}, {"waiting"})
           /\ SendLock(f) => Turns(f, {"ready"}, {"sending"})
           /\ (\E s \in Subscriber : SendMessage(f, s)) => Still
           /\ SendUnlock(f) => Turns(f, {"sending"}, {"sent"})
           /\ DropFuture(f) => Turns(f, {"waiting"}, {"dropped"})
           /\ CancelStart(f) => Turns(f, {"ready"}, {"cancelling"})
           /\ (\E s \in Subscriber : CancelSend(f, s)) => Still
           /\ CancelEnd(f) => Turns(f, {"cancelling"}, {"cancelled"})
  <1>1. PollSenderPending(f) => Still
    BY DEF PollSenderPending, AwaitGate, PollBlocked, WaitFor, Still, coreVars
  <1>2. PollSenderReady(f) => Turns(f, {"waiting"}, {"ready"})
    BY DEF PollSenderReady, PollReady, CreateSender, Turns, coreVars
  <1>3. WhenReady(f) => Turns(f, {"none"}, {"waiting"})
    BY DEF WhenReady, StartFuture, Turns, coreVars
  <1>4. SendLock(f) => Turns(f, {"ready"}, {"sending"})
    BY DEF SendLock, SendStart, Turns, coreVars
  <1>5. (\E s \in Subscriber : SendMessage(f, s)) => Still
    BY DEF SendMessage, Push, Still, coreVars
  <1>6. SendUnlock(f) => Turns(f, {"sending"}, {"sent"})
    BY DEF SendUnlock, SendEnd, Turns, coreVars
  <1>7. DropFuture(f) => Turns(f, {"waiting"}, {"dropped"})
    BY DEF DropFuture, Turns, coreVars
  <1>8. CancelStart(f) => Turns(f, {"ready"}, {"cancelling"})
    BY DEF CancelStart, Turns, coreVars
  <1>9. (\E s \in Subscriber : CancelSend(f, s)) => Still
    BY DEF CancelSend, GiveBack, Still, coreVars
  <1>10. CancelEnd(f) => Turns(f, {"cancelling"}, {"cancelled"})
    BY DEF CancelEnd, Turns, coreVars
  <1> QED
    BY <1>1, <1>2, <1>3, <1>4, <1>5, <1>6, <1>7, <1>8, <1>9, <1>10

\* The polls of a when_empty future and its dropping.
LEMMA FlushTurns ==
    ASSUME TypeOK, NEW e \in Flush
    PROVE  /\ PollFlushPending(e) => Still
           /\ PollFlushReady(e) => TurnsFlush(e, {"waiting"}, {"done"})
           /\ WhenEmpty(e) => TurnsFlush(e, {"none"}, {"waiting"})
           /\ DropFlush(e) => TurnsFlush(e, {"waiting"}, {"dropped"})
  <1>1. PollFlushPending(e) => Still
    BY DEF PollFlushPending, AwaitGate, PollUnflushed, Still, coreVars
  <1>2. PollFlushReady(e) => TurnsFlush(e, {"waiting"}, {"done"})
    BY DEF PollFlushReady, PollFlushed, TurnsFlush, coreVars
  <1>3. WhenEmpty(e) => TurnsFlush(e, {"none"}, {"waiting"})
    BY DEF WhenEmpty, StartFlush, TurnsFlush, coreVars
  <1>4. DropFlush(e) => TurnsFlush(e, {"waiting"}, {"dropped"})
    BY DEF DropFlush, TurnsFlush, coreVars
  <1> QED
    BY <1>1, <1>2, <1>3, <1>4

-----------------------------------------------------------------------------
(* A step of the sink is a move or a nap *)

Moves ==
    /\ [Next]_vars
    /\ UNCHANGED <<insufficient_subscribers, required_subscribers>>
    /\ notify_futures \subseteq notify_futures'
    /\ notify_futures' # notify_futures => insufficient_subscribers

Naps ==
    /\ UNCHANGED <<coreVars, subVars, stream, future, slots, flush, watcher, wakers, history,
                   required_subscribers>>
    /\ asleep' \subseteq asleep \cup Future \cup Flush
    /\ asleep' \ notify_futures' \subseteq asleep \ notify_futures
    /\ \/ UNCHANGED <<notify_futures, insufficient_subscribers>>
       \/ /\ notify_futures' = {}
          /\ \/ publisher_count = 0 /\ UNCHANGED insufficient_subscribers
             \/ ~insufficient_subscribers' /\ Cardinality(Registered) >= required_subscribers

\* Waiting at the gate is a nap, and what a future does behind it a step of PublishAll.
LEMMA PollMoves ==
    ASSUME NEW f \in Future, UNCHANGED gateVars,
           PollSenderPending(f) \/ PollSenderReady(f)
    PROVE  Moves \/ Naps
  <1>1. CASE AwaitGate(f)
    BY <1>1 DEF AwaitGate, Naps, gateVars
  <1>2. CASE PollBlocked(f) \/ PollReady(f)
    BY <1>2 DEF Moves, gateVars, Next, PollWhenReady
  <1> QED
    BY <1>1, <1>2 DEF PollSenderPending, PollSenderReady

\* The poll of a flush is one of PublishAll, or naps at the gate.
LEMMA PollFlushMoves ==
    ASSUME NEW e \in Flush, UNCHANGED gateVars,
           PollFlushPending(e) \/ PollFlushReady(e)
    PROVE  Moves \/ Naps
  <1>1. CASE AwaitGate(e)
    BY <1>1 DEF AwaitGate, Naps, gateVars
  <1>2. CASE PollUnflushed(e) \/ PollFlushed(e)
    BY <1>2 DEF Moves, gateVars, Next, SharedNext
  <1> QED
    BY <1>1, <1>2 DEF PollFlushPending, PollFlushReady

\* What a client or the sink drops, it drops as PublishAll's clients do.
LEMMA DropMoves ==
    ASSUME NEW task \in Future \cup Flush, UNCHANGED gateVars,
           \/ task \in Future /\ (DropFuture(task) \/ CancelStart(task) \/ Cancelling(task))
           \/ task \in Flush /\ DropFlush(task)
    PROVE  Moves
  <1>1. Next
    BY DEF Next, SharedNext
  <1> QED
    BY <1>1 DEF Moves, gateVars

\* A new future joins those that the gate stops, if it is shut.
LEMMA GateMoves ==
    ASSUME NEW task \in Future \cup Flush, Gate(task),
           \/ task \in Future /\ WhenReady(task)
           \/ task \in Flush /\ WhenEmpty(task)
    PROVE  Moves
  <1>1. Next
    BY DEF Next, SharedNext
  <1> QED
    BY <1>1 DEF Moves, Gate

\* Every step of the sink and of its clients is one of PublishAll's, or changes only who naps.
LEMMA SinkMoves ==
    ASSUME TypeOK, Held, [SinkNext]_system
    PROVE  Moves \/ Naps
  <1>1. CASE Streams
    <2>1. Next
      BY <1>1 DEF Streams, Next, SharedNext
    <2> QED
      BY <1>1, <2>1 DEF Streams, Moves, sinkVars, gateVars
  <1>2. ASSUME NEW s \in Subscriber, SubscribeJoins(s)
        PROVE  Moves
    BY <1>2 DEF SubscribeJoins, Moves, gateVars, Next, SharedNext
  <1>3. CASE SubscribeTooFew \/ DropSink
    BY <1>3 DEF SubscribeTooFew, DropSink, Moves, gateVars
  <1>4. CASE SubscribeEnough
    BY <1>4 DEF SubscribeEnough, OpenGate, Naps
  <1>5. ASSUME NEW f \in Future, PollReadyBegins(f)
        PROVE  Moves
    BY <1>5, GateMoves DEF PollReadyBegins
  <1>6. ASSUME NEW f \in Future, PollReadyOf(f)
        PROVE  Moves \/ Naps
    BY <1>6, PollMoves DEF PollReadyOf, PollReadyWaits, PollReadyDone
  <1>7. ASSUME NEW f \in Future, StartSend(f) \/ ClientSends(f) \/ Pushes(f)
        PROVE  Moves
    <2>1. Next
      BY <1>7 DEF StartSend, ClientSends, Pushes, Next, Sending
    <2> QED
      BY <1>7, <2>1 DEF StartSend, ClientSends, Pushes, Moves, sinkVars, gateVars
  <1>8. ASSUME NEW e \in Flush, PollFlushBegins(e)
        PROVE  Moves
    BY <1>8, GateMoves DEF PollFlushBegins
  <1>9. ASSUME NEW e \in Flush, PollFlushOf(e) \/ PollClose(e)
        PROVE  Moves \/ Naps
    BY <1>9, PollFlushMoves DEF PollFlushOf, PollFlushWaits, PollFlushDone, FlushDone, PollClose
  <1>10. CASE DropsPublisher
    BY <1>10 DEF DropsPublisher, Moves, sinkVars, gateVars, Next, SharedNext
  <1>11. CASE CancelGate
    BY <1>11 DEF CancelGate, Naps
  <1>12. ASSUME NEW task \in Future \cup Flush, Discards(task) \/ ClientDrops(task)
         PROVE  Moves
    BY <1>12, DropMoves DEF Discards, ClientDrops, sinkVars
  <1>13. ASSUME NEW task \in Future \cup Flush, ClientCreates(task)
         PROVE  Moves
    BY <1>13, GateMoves DEF ClientCreates
  <1>14. ASSUME NEW task \in Future \cup Flush, ClientPolls(task)
         PROVE  Moves \/ Naps
    BY <1>14, PollMoves, PollFlushMoves DEF ClientPolls, sinkVars
  <1>15. CASE UNCHANGED system
    BY <1>15 DEF system, sinkVars, gateVars, Moves
  <1> QED
    BY <1>1, <1>2, <1>3, <1>4, <1>5, <1>6, <1>7, <1>8, <1>9, <1>10, <1>11, <1>12, <1>13,
       <1>14, <1>15 DEF SinkNext, SubscribeCounts

\* A nap touches nothing that the types, the registry and the slots are about.
LEMMA NapIInv ==
    ASSUME IInv, Naps
    PROVE  IInv'
  <1>1. /\ UNCHANGED <<publisher_count, subscribers, notify_closed, closing, published, reserved,
                       waiting, notify_waiting, notify_ready, stream, future, slots, flush,
                       watcher, wakers, received, ended, audience>>
        /\ asleep' \subseteq asleep \cup Future \cup Flush
    BY DEF Naps, coreVars, subVars, history
  <1>2. TypeOK'
    BY <1>1 DEF IInv, TypeOK, Registered
  <1>3. Registry' /\ SlotAccounting'
    BY <1>1 DEF IInv, Registry, SlotAccounting, Registered, Holders
  <1> QED
    BY <1>2, <1>3 DEF IInv

\* So PublishAll's invariant is the sink's.
LEMMA SinkStepIInv ==
    ASSUME IInv, Held, [SinkNext]_system
    PROVE  IInv'
  <1>1. Moves \/ Naps
    BY SinkMoves DEF IInv
  <1> QED
    BY <1>1, NapIInv, StepIInv DEF Moves

-----------------------------------------------------------------------------
(* What the sink holds can still be used *)

\* SinkTypeOK's part about the sink's Options, and Held.
Holding ==
    /\ Held
    /\ \A f \in future_sender : future[f] = "waiting"
    /\ \A f \in next_sender : future[f] = "ready"
    /\ \A e \in future_flush : flush[e] = "waiting"
    /\ Cardinality(future_sender) <= 1 /\ Cardinality(next_sender) <= 1
    /\ Cardinality(future_flush) <= 1
    /\ discarded \subseteq Future \cup Flush

Untouched ==
    /\ \A f \in future_sender \cup next_sender : future'[f] = future[f]
    /\ \A e \in future_flush : flush'[e] = flush[e]
    /\ \A f \in Future : future[f] # "none" => future'[f] # "none"
    /\ \A e \in Flush : flush[e] # "none" => flush'[e] # "none"

\* Steps that leave alone what the sink holds keep its Options right.
LEMMA UntouchedHolding ==
    ASSUME Holding, Untouched, UNCHANGED ownVars
    PROVE  Holding'
  BY DEF Holding, Held, Untouched, ownVars

\* Who turns a future that the sink does not hold touches nothing that it holds.
LEMMA TurnsUntouched ==
    ASSUME TypeOK, Holding, NEW f \in Future, NEW from, NEW to, Turns(f, from, to),
           "none" \notin to, f \notin future_sender \cup next_sender
    PROVE  Untouched
  BY DEF TypeOK, Holding, Held, Untouched, Turns

\* The flushes of clients are none of the sink's.
LEMMA TurnsFlushUntouched ==
    ASSUME TypeOK, Holding, NEW e \in Flush, NEW from, NEW to, TurnsFlush(e, from, to),
           "none" \notin to, e \notin future_flush
    PROVE  Untouched
  BY DEF TypeOK, Holding, Held, Untouched, TurnsFlush

\* A future in another state than those in the Options is not in them.
LEMMA NotHeld ==
    ASSUME Holding, NEW task
    PROVE  /\ future[task] \notin {"waiting", "ready"} => task \notin future_sender \cup next_sender
           /\ flush[task] # "waiting" => task \notin future_flush
           /\ task \in discarded => task \notin future_sender \cup next_sender \cup future_flush
  BY DEF Holding, Held

\* An Option is empty or holds one task.
LEMMA OptionSizes == Cardinality({}) <= 1 /\ \A task : Cardinality({task}) <= 1
  BY FS_EmptySet, FS_Singleton

\* poll_ready, start_send and poll_flush fill and empty the Options.
LEMMA OptionSteps ==
    ASSUME TypeOK, Holding,
           \/ \E f \in Future : PollReadyBegins(f) \/ PollReadyDone(f) \/ StartSend(f)
           \/ \E e \in Flush : PollFlushBegins(e) \/ PollFlushDone(e) \/ PollClose(e)
           \/ DropSink
    PROVE  Holding'
  <1>1. ASSUME NEW f \in Future, PollReadyBegins(f)
        PROVE  Holding'
    <2>1. Turns(f, {"none"}, {"waiting"})
      BY <1>1, FutureTurns DEF PollReadyBegins
    <2>2. future'[f] = "waiting" /\ f \notin discarded /\ Untouched
      BY <2>1, NotHeld, TurnsUntouched DEF Turns, TypeOK, Holding, Held
    <2>3. f \notin future_flush
      BY TasksAssumption DEF Holding, Held
    <2> QED
      BY <1>1, <2>2, <2>3, OptionSizes DEF PollReadyBegins, Holding, Held, Untouched
  <1>2. ASSUME NEW f \in Future, PollReadyDone(f)
        PROVE  Holding'
    <2>1. Turns(f, {"waiting"}, {"ready"}) /\ f \in future_sender
      BY <1>2, FutureTurns DEF PollReadyDone
    <2>2. future'[f] = "ready" /\ \A g \in Future : g # f => future'[g] = future[g]
      BY <2>1 DEF Turns, TypeOK
    <2>3. flush' = flush
      BY <2>1 DEF Turns
    <2>4. f \notin next_sender
      BY <2>1 DEF Holding
    <2>5. /\ future_sender' = {} /\ next_sender' = {f} /\ discarded' = next_sender
          /\ future_flush' = future_flush
      BY <1>2 DEF PollReadyDone
    <2>6. \A g \in next_sender : g \notin Flush /\ g # f /\ future'[g] = "ready"
      BY <2>2, <2>4, TasksAssumption DEF Holding, Held
    <2> QED
      BY <2>2, <2>3, <2>5, <2>6, OptionSizes DEF Holding, Held
  <1>3. ASSUME NEW f \in Future, StartSend(f)
        PROVE  Holding'
    <2>1. Turns(f, {"ready"}, {"sending"}) /\ f \in next_sender
      BY <1>3, FutureTurns DEF StartSend
    <2>2. future'[f] = "sending" /\ \A g \in Future : g # f => future'[g] = future[g]
      BY <2>1 DEF Turns, TypeOK
    <2>3. flush' = flush
      BY <2>1 DEF Turns
    <2>4. f \notin future_sender
      BY <2>1 DEF Holding, Turns
    <2>5. next_sender' = {} /\ UNCHANGED <<future_sender, future_flush, discarded>>
      BY <1>3 DEF StartSend
    <2> QED
      BY <2>2, <2>3, <2>4, <2>5, OptionSizes DEF Holding, Held
  <1>4. ASSUME NEW e \in Flush, PollFlushBegins(e)
        PROVE  Holding'
    <2>1. TurnsFlush(e, {"none"}, {"waiting"})
      BY <1>4, FlushTurns DEF PollFlushBegins
    <2>2. flush'[e] = "waiting" /\ e \notin discarded /\ Untouched
      BY <2>1, NotHeld, TurnsFlushUntouched DEF TurnsFlush, TypeOK, Holding, Held
    <2> QED
      BY <1>4, <2>2, OptionSizes DEF PollFlushBegins, Holding, Held, Untouched
  <1>5. ASSUME NEW e \in Flush, e \in future_flush, flush[e] = "waiting",
               TurnsFlush(e, {"waiting"}, {"done"}), future_flush' = {}
        PROVE  /\ \A g \in Flush : flush[g] # "none" => flush'[g] # "none"
               /\ future' = future
    BY <1>5 DEF TurnsFlush, TypeOK
  <1>6. ASSUME NEW e \in Flush, PollFlushDone(e)
        PROVE  Holding'
    <2>1. e \in future_flush /\ TurnsFlush(e, {"waiting"}, {"done"})
      BY <1>6, FlushTurns DEF PollFlushDone, FlushDone
    <2>2. future_flush' = {} /\ UNCHANGED <<future_sender, next_sender, discarded>>
      BY <1>6 DEF PollFlushDone, FlushDone
    <2>3. flush[e] = "waiting"
      BY <2>1 DEF TurnsFlush
    <2> QED
      BY <1>5, <2>1, <2>2, <2>3, OptionSizes DEF Holding, Held
  <1>7. ASSUME NEW e \in Flush, PollClose(e)
        PROVE  Holding'
    <2>1. /\ future_sender' = {} /\ next_sender' = {}
          /\ discarded' = future_sender \cup next_sender /\ e \in future_flush
      BY <1>7 DEF PollClose
    <2>2. \A f \in discarded' : f \in Future /\ f \notin Flush /\ future[f] # "none"
      BY <2>1, TasksAssumption DEF Holding, Held
    <2>3. CASE PollFlushPending(e) /\ UNCHANGED future_flush
      BY <2>1, <2>2, <2>3, FlushTurns, OptionSizes DEF Still, Holding, Held
    <2>4. CASE PollFlushReady(e) /\ future_flush' = {}
      <3>1. TurnsFlush(e, {"waiting"}, {"done"}) /\ flush[e] = "waiting"
        BY <2>4, FlushTurns DEF TurnsFlush
      <3> QED
        BY <1>5, <2>1, <2>2, <2>4, <3>1, OptionSizes DEF Holding, Held
    <2> QED
      BY <1>7, <2>3, <2>4 DEF PollClose
  <1>8. CASE DropSink
    <2>1. /\ future_sender' = {} /\ next_sender' = {} /\ future_flush' = {}
          /\ discarded' = future_sender \cup next_sender \cup future_flush
          /\ UNCHANGED <<future, flush>>
      BY <1>8 DEF DropSink, vars, taskVars
    <2>2. \A f \in discarded' \cap Future : future[f] # "none"
      BY <2>1, TasksAssumption DEF Holding, Held
    <2>3. \A e \in discarded' \cap Flush : flush[e] # "none"
      BY <2>1, TasksAssumption DEF Holding, Held
    <2> QED
      BY <2>1, <2>2, <2>3, OptionSizes DEF Holding, Held
  <1> QED
    BY <1>1, <1>2, <1>3, <1>4, <1>6, <1>7, <1>8

\* No other step touches what the sink holds: those of clients are about tasks of their own.
LEMMA OtherSteps ==
    ASSUME TypeOK, Holding,
           \/ Streams \/ \E s \in Subscriber : SubscribeJoins(s)
           \/ SubscribeCounts \/ DropsPublisher \/ CancelGate
           \/ \E f \in Future : PollReadyWaits(f) \/ ClientSends(f) \/ Pushes(f)
           \/ \E e \in Flush : PollFlushWaits(e)
           \/ \E task \in Future \cup Flush :
                 Discards(task) \/ ClientCreates(task) \/ ClientPolls(task) \/ ClientDrops(task)
    PROVE  Untouched /\ UNCHANGED ownVars
  <1>1. ASSUME UNCHANGED <<future, flush>>
        PROVE  Untouched
    BY <1>1 DEF Untouched
  <1>2. CASE Streams
    <2>1. UNCHANGED <<future, flush>>
      BY <1>2 DEF Streams, DropSubscriber, Detach, PollNext, PollMessage, TakeMessage, PollEnded,
         PollPending, Resubscribe, Attach, ResubscribeClosed, NewSubCore, ReleaseCore, taskVars
    <2> QED
      BY <1>1, <1>2, <2>1 DEF Streams, sinkVars
  <1>3. ASSUME NEW s \in Subscriber, SubscribeJoins(s)
        PROVE  Untouched /\ UNCHANGED ownVars
    BY <1>1, <1>3 DEF SubscribeJoins, Subscribe, Attach, NewSubCore
  <1>4. CASE SubscribeCounts \/ CancelGate
    BY <1>1, <1>4
       DEF SubscribeCounts, SubscribeTooFew, SubscribeEnough, OpenGate, CancelGate, vars, taskVars
  <1>5. CASE DropsPublisher
    BY <1>1, <1>5 DEF DropsPublisher, DropLastPublisher, CloseCore, sinkVars
  <1>6. ASSUME NEW f \in Future, PollReadyWaits(f)
        PROVE  Untouched /\ UNCHANGED ownVars
    BY <1>1, <1>6, FutureTurns DEF PollReadyWaits, Still
  <1>7. ASSUME NEW f \in Future, ClientSends(f)
        PROVE  Untouched /\ UNCHANGED ownVars
    BY <1>7, FutureTurns, TurnsUntouched DEF ClientSends, Owned, sinkVars
  <1>8. ASSUME NEW f \in Future, Pushes(f)
        PROVE  Untouched /\ UNCHANGED ownVars
    <2>1. (\E s \in Subscriber : SendMessage(f, s)) => Untouched
      BY <1>1, FutureTurns DEF Still
    <2>2. SendUnlock(f) => Untouched
      <3>1. SendUnlock(f) => Turns(f, {"sending"}, {"sent"}) /\ future[f] = "sending"
        BY FutureTurns DEF Turns
      <3> QED
        BY <3>1, NotHeld, TurnsUntouched
    <2> QED
      BY <1>8, <2>1, <2>2 DEF Pushes, sinkVars
  <1>9. ASSUME NEW e \in Flush, PollFlushWaits(e)
        PROVE  Untouched /\ UNCHANGED ownVars
    BY <1>1, <1>9, FlushTurns DEF PollFlushWaits, Still
  <1>10. ASSUME NEW f \in Future, f \notin future_sender \cup next_sender,
                DropFuture(f) \/ CancelStart(f) \/ Cancelling(f)
         PROVE  Untouched
    <2>1. CASE \E s \in Subscriber : CancelSend(f, s)
      BY <1>1, <2>1, FutureTurns DEF Still
    <2> QED
      BY <1>10, <2>1, FutureTurns, TurnsUntouched DEF Cancelling
  <1>11. ASSUME NEW e \in Flush, e \notin future_flush, DropFlush(e)
         PROVE  Untouched
    BY <1>11, FlushTurns, TurnsFlushUntouched
  <1>12. ASSUME NEW task \in Future \cup Flush, Discards(task) \/ ClientDrops(task)
         PROVE  Untouched /\ UNCHANGED ownVars
    <2>1. task \notin future_sender \cup next_sender \cup future_flush
      BY <1>12, NotHeld DEF Discards, ClientDrops, Owned
    <2> QED
      BY <1>10, <1>11, <1>12, <2>1 DEF Discards, ClientDrops, sinkVars
  <1>13. ASSUME NEW task \in Future \cup Flush, ClientCreates(task)
         PROVE  Untouched /\ UNCHANGED ownVars
    <2>1. CASE task \in Future
      <3>1. Turns(task, {"none"}, {"waiting"}) /\ future[task] = "none"
        BY <1>13, <2>1, FutureTurns DEF ClientCreates, Turns
      <3> QED
        BY <1>13, <2>1, <3>1, NotHeld, TurnsUntouched DEF ClientCreates
    <2>2. CASE task \in Flush /\ task \notin Future
      <3>1. TurnsFlush(task, {"none"}, {"waiting"}) /\ flush[task] = "none"
        BY <1>13, <2>2, FlushTurns DEF ClientCreates, TurnsFlush
      <3> QED
        BY <1>13, <2>2, <3>1, NotHeld, TurnsFlushUntouched DEF ClientCreates
    <2> QED
      BY <2>1, <2>2
  <1>14. ASSUME NEW task \in Future \cup Flush, ClientPolls(task)
         PROVE  Untouched /\ UNCHANGED ownVars
    <2>1. task \notin future_sender \cup next_sender \cup future_flush
      BY <1>14 DEF ClientPolls, Owned
    <2>2. CASE task \in Future
      BY <1>1, <1>14, <2>1, <2>2, FutureTurns, TurnsUntouched DEF ClientPolls, Still, sinkVars
    <2>3. CASE task \in Flush /\ task \notin Future
      BY <1>1, <1>14, <2>1, <2>3, FlushTurns, TurnsFlushUntouched DEF ClientPolls, Still, sinkVars
    <2> QED
      BY <2>2, <2>3
  <1> QED
    BY <1>2, <1>3, <1>4, <1>5, <1>6, <1>7, <1>8, <1>9, <1>12, <1>13, <1>14

\* Every step keeps in the sink's Options what can be polled, sent or dropped.
LEMMA StepHolding ==
    ASSUME TypeOK, Holding, [SinkNext]_system
    PROVE  Holding'
  <1>1. CASE UNCHANGED system
    BY <1>1 DEF system, vars, taskVars, sinkVars, ownVars, Holding, Held
  <1>2. CASE SinkNext
    BY <1>2, OptionSteps, OtherSteps, UntouchedHolding
       DEF SinkNext, PollReadyOf, PollFlushOf
  <1> QED
    BY <1>1, <1>2

\* The gate's variables keep their types, and a call is one of those that there are.
SinkTypes ==
    /\ insufficient_subscribers \in BOOLEAN /\ required_subscribers \in RequiredSubscribers
    /\ notify_futures \subseteq Future \cup Flush
    /\ sink \in {"open", "closed", "subscribing", "readying", "flushing", "closing"}

\* Every step keeps the types of the sink's own variables.
LEMMA StepSinkTypes ==
    ASSUME SinkTypes, [SinkNext]_system
    PROVE  SinkTypes'
  <1>1. ASSUME NEW task \in Future \cup Flush, Gate(task)
        PROVE  /\ notify_futures' \subseteq Future \cup Flush
               /\ UNCHANGED <<insufficient_subscribers, required_subscribers>>
    BY <1>1 DEF Gate, SinkTypes
  <1>2. CASE Streams
    BY <1>2 DEF Streams, SinkTypes, sinkVars, gateVars
  <1>3. ASSUME NEW s \in Subscriber, SubscribeJoins(s)
        PROVE  SinkTypes'
    BY <1>3 DEF SubscribeJoins, SinkTypes, gateVars
  <1>4. CASE SubscribeCounts \/ DropSink \/ DropsPublisher \/ CancelGate
    BY <1>4 DEF SubscribeCounts, SubscribeTooFew, SubscribeEnough, OpenGate, DropSink,
       DropsPublisher, CancelGate, SinkTypes, sinkVars, gateVars
  <1>5. ASSUME NEW f \in Future,
               PollReadyBegins(f) \/ PollReadyOf(f) \/ StartSend(f) \/ ClientSends(f) \/ Pushes(f)
        PROVE  SinkTypes'
    BY <1>1, <1>5 DEF PollReadyBegins, PollReadyOf, PollReadyWaits, PollReadyDone, StartSend,
       ClientSends, Pushes, SinkTypes, sinkVars, gateVars
  <1>6. ASSUME NEW e \in Flush, PollFlushBegins(e) \/ PollFlushOf(e) \/ PollClose(e)
        PROVE  SinkTypes'
    BY <1>1, <1>6 DEF PollFlushBegins, PollFlushOf, PollFlushWaits, PollFlushDone, FlushDone,
       PollClose, SinkTypes, gateVars
  <1>7. ASSUME NEW task \in Future \cup Flush,
               Discards(task) \/ ClientCreates(task) \/ ClientPolls(task) \/ ClientDrops(task)
        PROVE  SinkTypes'
    BY <1>1, <1>7 DEF Discards, ClientCreates, ClientPolls, ClientDrops, SinkTypes, sinkVars,
       gateVars
  <1>8. CASE UNCHANGED system
    BY <1>8 DEF system, sinkVars, gateVars, SinkTypes
  <1> QED
    BY <1>2, <1>3, <1>4, <1>5, <1>6, <1>7, <1>8 DEF SinkNext

\* The invariant in its parts.
LEMMA SinkInvIs == SinkInv <=> IInv /\ SinkTypes /\ Holding
  BY DEF SinkInv, SinkTypeOK, SinkTypes, Holding, IInv

\* The invariant holds of a new sink.
LEMMA SinkInitInv == SinkInit => SinkInv
  BY InitIInv, SinkInvIs, OptionSizes DEF SinkInit, SinkTypes, Holding, Held

\* Every step keeps the invariant.
LEMMA SinkInvStep == SinkInv /\ [SinkNext]_system => SinkInv'
  <1> SUFFICES ASSUME SinkInv, [SinkNext]_system
               PROVE  SinkInv'
    OBVIOUS
  <1>1. IInv /\ SinkTypes /\ Holding
    BY SinkInvIs
  <1>2. IInv' /\ SinkTypes' /\ Holding'
    BY <1>1, SinkStepIInv, StepSinkTypes, StepHolding DEF IInv, Holding
  <1> QED
    BY <1>2 DEF SinkInv, SinkTypeOK, SinkTypes, Holding, IInv

\* So in every state of the sink.
THEOREM SinkInvariant == SinkSpec => []SinkInv
  BY SinkInitInv, SinkInvStep, PTL DEF SinkSpec

\* The sink's Options hold futures that were never ready and senders that were never used, whatever
\* polls, flushes and closings follow each other: a poll of it never panics.
THEOREM SinkTypeCorrect == SinkSpec => []SinkTypeOK
  <1>1. SinkInv => SinkTypeOK
    BY DEF SinkInv
  <1> QED
    BY <1>1, SinkInvariant, PTL

-----------------------------------------------------------------------------
(* The gate *)

\* The streams that were given out, which only grow more.
Joined == {s \in Subscriber : stream[s] # "none"}
Enough == Cardinality(Joined) >= required_subscribers

\* An open gate has seen enough streams; a shut one stops all futures that have begun.
Gated ==
    /\ IsFiniteSet(Joined)
    /\ ~insufficient_subscribers => Enough
    /\ publisher_count > 0 /\ insufficient_subscribers =>
           \A f \in Future : \/ future[f] \in {"none", "dropped"}
                             \/ future[f] = "waiting" /\ f \in notify_futures

\* A future goes past the gate only when it is not, or no longer, waiting for its oneshot.
Passes(f) ==
    \/ Turns(f, {"none"}, {"waiting"}) /\ Gate(f)
    \/ f \notin notify_futures /\ Turns(f, {"waiting"}, {"ready"})
    \/ Turns(f, {"waiting"}, {"dropped"})
    \/ \E from \in {"ready", "sending", "cancelling"}, to \in FutureState : Turns(f, {from}, {to})

\* Only one future passes from one state to another in a step.
LEMMA FutureMoves ==
    ASSUME TypeOK, [SinkNext]_system
    PROVE  UNCHANGED future \/ \E f \in Future : Passes(f)
  <1> DEFINE Goal == UNCHANGED future \/ \E f \in Future : Passes(f)
  <1>1. CASE Streams
    BY <1>1 DEF Streams, DropSubscriber, Detach, PollNext, PollMessage, TakeMessage, PollEnded,
       PollPending, Resubscribe, Attach, ResubscribeClosed, NewSubCore, ReleaseCore, taskVars
  <1>2. ASSUME NEW s \in Subscriber, SubscribeJoins(s)
        PROVE  Goal
    BY <1>2 DEF SubscribeJoins, Subscribe, Attach, NewSubCore
  <1>3. CASE SubscribeCounts \/ CancelGate \/ DropSink \/ DropsPublisher
    BY <1>3 DEF SubscribeCounts, SubscribeTooFew, SubscribeEnough, OpenGate, CancelGate, DropSink,
       DropsPublisher, DropLastPublisher, CloseCore, vars, taskVars
  <1>4. ASSUME NEW f \in Future, WhenReady(f), Gate(f)
        PROVE  Goal
    BY <1>4, FutureTurns DEF Passes
  <1>5. ASSUME NEW f \in Future, PollSenderPending(f) \/ PollSenderReady(f)
        PROVE  Goal
    BY <1>5, FutureTurns DEF Passes, PollSenderReady, Still
  <1>6. ASSUME NEW f \in Future, Sending(f)
        PROVE  Goal
    BY <1>6, FutureTurns DEF Sending, Passes, FutureState, Still
  <1>7. ASSUME NEW f \in Future, DropFuture(f) \/ CancelStart(f) \/ Cancelling(f)
        PROVE  Goal
    BY <1>7, FutureTurns DEF Cancelling, Passes, FutureState, Still
  <1>8. ASSUME NEW e \in Flush,
               PollFlushPending(e) \/ PollFlushReady(e) \/ WhenEmpty(e) \/ DropFlush(e)
        PROVE  Goal
    BY <1>8, FlushTurns DEF Still, TurnsFlush
  <1>9. ASSUME NEW f \in Future,
               PollReadyBegins(f) \/ PollReadyOf(f) \/ StartSend(f) \/ ClientSends(f) \/ Pushes(f)
        PROVE  Goal
    BY <1>4, <1>5, <1>6, <1>9 DEF PollReadyBegins, PollReadyOf, PollReadyWaits, PollReadyDone,
       StartSend, ClientSends, Pushes, Sending
  <1>10. ASSUME NEW e \in Flush, PollFlushBegins(e) \/ PollFlushOf(e) \/ PollClose(e)
         PROVE  Goal
    BY <1>8, <1>10 DEF PollFlushBegins, PollFlushOf, PollFlushWaits, PollFlushDone, FlushDone,
       PollClose
  <1>11. ASSUME NEW task \in Future \cup Flush,
                Discards(task) \/ ClientCreates(task) \/ ClientPolls(task) \/ ClientDrops(task)
         PROVE  Goal
    BY <1>4, <1>5, <1>7, <1>8, <1>11 DEF Discards, ClientCreates, ClientPolls, ClientDrops
  <1>12. CASE UNCHANGED system
    BY <1>12 DEF system, vars, taskVars
  <1> QED
    BY <1>1, <1>2, <1>3, <1>9, <1>10, <1>11, <1>12 DEF SinkNext

\* Streams are added one by one and are never taken back.
LEMMA JoinedGrows ==
    ASSUME TypeOK, IsFiniteSet(Joined), [Next]_vars
    PROVE  IsFiniteSet(Joined') /\ Joined \subseteq Joined'
  <1>1. ASSUME NEW s \in Subscriber, NEW state \in {"live", "dropped"},
               stream' = [stream EXCEPT ![s] = state]
        PROVE  IsFiniteSet(Joined') /\ Joined \subseteq Joined'
    <2>1. Joined' = Joined \cup {s}
      BY <1>1 DEF Joined, TypeOK
    <2> QED
      BY <2>1, FS_AddElement
  <1>2. ASSUME UNCHANGED stream
        PROVE  IsFiniteSet(Joined') /\ Joined \subseteq Joined'
    BY <1>2 DEF Joined
  <1>3. ASSUME NEW s \in Subscriber, NEW t \in Subscriber,
               \/ Subscribe(s) \/ WeakSubscribe(s) \/ Resubscribe(t, s)
               \/ ResubscribeClosed(t, s) \/ WeakSubscribeClosed(s) \/ DropSubscriber(s)
        PROVE  IsFiniteSet(Joined') /\ Joined \subseteq Joined'
    BY <1>1, <1>3 DEF Subscribe, WeakSubscribe, Resubscribe, Attach, ResubscribeClosed,
       WeakSubscribeClosed, NewSubCore, DropSubscriber, Detach
  <1>4. ASSUME NEW s \in Subscriber, PollNext(s)
        PROVE  UNCHANGED stream
    BY <1>4 DEF PollNext, PollMessage, TakeMessage, PollEnded, PollPending
  <1>5. CASE Republish \/ DropPublisher \/ DropLastPublisher \/ ReleaseCore \/ UNCHANGED vars
    BY <1>2, <1>5 DEF Republish, DropPublisher, DropLastPublisher, CloseCore, ReleaseCore, vars,
       taskVars
  <1>6. ASSUME NEW f \in Future,
               \/ WhenReady(f) \/ WeakWhenReady(f) \/ WeakWhenReadyClosed(f) \/ DropFuture(f)
               \/ PollWhenReady(f) \/ Sending(f) \/ CancelStart(f) \/ Cancelling(f)
        PROVE  UNCHANGED stream
    BY <1>6 DEF WhenReady, WeakWhenReady, StartFuture, WeakWhenReadyClosed, DropFuture,
       PollWhenReady, PollReady, CreateSender, PollBlocked, WaitFor, Sending, SendLock, SendStart,
       SendMessage, Push, SendUnlock, SendEnd, CancelStart, Cancelling, CancelSend, GiveBack,
       CancelEnd
  <1>7. ASSUME NEW e \in Flush,
               \/ WhenEmpty(e) \/ WeakWhenEmpty(e) \/ WeakWhenEmptyClosed(e)
               \/ PollFlushed(e) \/ PollUnflushed(e) \/ DropFlush(e)
        PROVE  UNCHANGED stream
    BY <1>7 DEF WhenEmpty, WeakWhenEmpty, StartFlush, WeakWhenEmptyClosed, PollFlushed,
       PollUnflushed, DropFlush
  <1>8. ASSUME NEW c \in Watcher,
               \/ WhenClosed(c) \/ WeakWhenClosed(c) \/ WeakWhenClosedClosed(c)
               \/ PollClosed(c) \/ PollOpen(c) \/ DropWatcher(c)
        PROVE  UNCHANGED stream
    BY <1>8 DEF WhenClosed, WeakWhenClosed, StartWatcher, WeakWhenClosedClosed, PollClosed,
       PollOpen, DropWatcher
  <1> QED
    BY <1>2, <1>3, <1>4, <1>5, <1>6, <1>7, <1>8 DEF Next, SharedNext, WeakNext

\* Every step keeps all futures that started behind the gate there, until it opens.
LEMMA StepGated ==
    ASSUME SinkInv, Gated, [SinkNext]_system
    PROVE  Gated'
  <1>1. TypeOK /\ Registry /\ IsFiniteSet(Joined) /\ required_subscribers \in Nat
        /\ insufficient_subscribers \in BOOLEAN
    BY SinkInvIs, RequiredAssumption DEF IInv, Gated, SinkTypes
  <1>2. Moves \/ Naps
    BY <1>1, SinkMoves DEF SinkInv
  <1>3. /\ IsFiniteSet(Joined') /\ Joined \subseteq Joined'
        /\ required_subscribers' = required_subscribers
    <2>1. CASE Moves
      BY <1>1, <2>1, JoinedGrows DEF Moves
    <2>2. CASE Naps
      BY <1>1, <2>2 DEF Naps, Joined
    <2> QED
      BY <1>2, <2>1, <2>2
  <1>4. Cardinality(Joined) <= Cardinality(Joined') /\ Cardinality(Joined') \in Nat
        /\ Cardinality(Joined) \in Nat
    BY <1>1, <1>3, FS_Subset, FS_CardinalityType
  <1>5. Enough => Enough'
    BY <1>1, <1>3, <1>4 DEF Enough
  <1>6. ~insufficient_subscribers' => Enough'
    <2>1. CASE UNCHANGED insufficient_subscribers
      BY <1>5, <2>1 DEF Gated
    <2>2. CASE Cardinality(Registered) >= required_subscribers
      <3>1. Registered \subseteq Joined
        BY <1>1 DEF Registry, TypeOK, Joined
      <3>2. Cardinality(Registered) <= Cardinality(Joined) /\ Cardinality(Registered) \in Nat
        BY <1>1, <3>1, FS_Subset, FS_CardinalityType
      <3> QED
        BY <1>1, <1>4, <1>5, <2>2, <3>2 DEF Enough
    <2> QED
      BY <1>2, <2>1, <2>2 DEF Moves, Naps
  <1>7. ASSUME publisher_count' > 0, insufficient_subscribers', NEW f \in Future
        PROVE  \/ future'[f] \in {"none", "dropped"}
               \/ future'[f] = "waiting" /\ f \in notify_futures'
    <2>1. /\ publisher_count > 0 /\ insufficient_subscribers
          /\ notify_futures \subseteq notify_futures'
      <3>1. CASE Moves
        BY <1>1, <1>7, <3>1, PublishersGo DEF Moves
      <3>2. CASE Naps
        <4>1. publisher_count > 0 /\ publisher_count # 0
          BY <1>7, <3>2 DEF Naps, coreVars
        <4> QED
          BY <1>7, <3>2, <4>1 DEF Naps
      <3> QED
        BY <1>2, <3>1, <3>2
    <2>2. \/ future[f] \in {"none", "dropped"}
          \/ future[f] = "waiting" /\ f \in notify_futures
      BY <2>1 DEF Gated
    <2>3. CASE future'[f] = future[f]
      BY <2>1, <2>2, <2>3
    <2>4. CASE future'[f] # future[f]
      <3>1. PICK g \in Future : Passes(g)
        BY <1>1, <2>4, FutureMoves
      <3>2. \/ future[g] \in {"none", "dropped"}
            \/ future[g] = "waiting" /\ g \in notify_futures
        BY <2>1 DEF Gated
      <3>3. CASE Turns(g, {"none"}, {"waiting"}) /\ Gate(g)
        BY <1>1, <2>1, <2>4, <3>3 DEF Turns, Gate, TypeOK
      <3>4. CASE Turns(g, {"waiting"}, {"dropped"})
        BY <1>1, <2>4, <3>4 DEF Turns, TypeOK
      <3>5. CASE g \notin notify_futures /\ Turns(g, {"waiting"}, {"ready"})
        BY <3>2, <3>5 DEF Turns
      <3>6. CASE \E from \in {"ready", "sending", "cancelling"}, to \in FutureState :
                     Turns(g, {from}, {to})
        BY <3>2, <3>6 DEF Turns
      <3> QED
        BY <3>1, <3>3, <3>4, <3>5, <3>6 DEF Passes
    <2> QED
      BY <2>3, <2>4
  <1> QED
    BY <1>3, <1>6, <1>7 DEF Gated

\* No future has started yet.
LEMMA InitGated == SinkInit => Gated
  <1> SUFFICES ASSUME SinkInit
               PROVE  Gated
    OBVIOUS
  <1>1. Joined = {}
    BY DEF SinkInit, Init, Joined
  <1>2. required_subscribers \in Nat
    BY RequiredAssumption DEF SinkInit
  <1>3. Cardinality(Joined) = 0 /\ IsFiniteSet(Joined)
    BY <1>1, FS_EmptySet
  <1>4. ~insufficient_subscribers => Enough
    <2>1. ~insufficient_subscribers => required_subscribers = 0
      BY DEF SinkInit
    <2> QED
      BY <1>3, <2>1 DEF Enough
  <1>5. \A f \in Future : future[f] = "none"
    BY DEF SinkInit, Init
  <1> QED
    BY <1>3, <1>4, <1>5 DEF Gated

\* While the BlockingPublisher is kept, no message gets a sender before the required number of
\* streams was there, whether the sink asked for it or a client, and before the gate was opened or
\* after: subscribe() counts under a lock that it has taken anew.
THEOREM TheGateHolds == SinkSpec => []GateHolds
  <1>1. SinkInv /\ Gated => GateHolds
    BY DEF Gated, GateHolds, Enough, Joined
  <1>2. SinkInv /\ Gated /\ [SinkNext]_system => Gated'
    BY StepGated
  <1> QED
    BY <1>1, <1>2, InitGated, SinkInvariant, PTL DEF SinkSpec

-----------------------------------------------------------------------------
(* Who sleeps behind the gate is registered: SleepersStillAwait for futures, and this for flushes *)

AwaitsEmpty(e, s) == s \in NonEmpty /\ e \in notify_ready[s]

StillAwaitsEmpty(e) ==
    /\ e \in asleep
    /\ \A s \in Subscriber : AwaitsEmpty(e, s) => AwaitsEmpty(e, s)'

\* A subscriber stays non-empty if nothing was taken out of its count.
LEMMA AwaitsNoLess ==
    ASSUME TypeOK, TypeOK', NEW e \in Flush, e \in asleep,
           \A s \in Subscriber : AwaitsEmpty(e, s) =>
               /\ s \in Registered' /\ e \in notify_ready'[s]
               /\ Len(waiting'[s]) + reserved'[s] >= Len(waiting[s]) + reserved[s]
    PROVE  StillAwaitsEmpty(e)
  <1> SUFFICES ASSUME NEW s \in Subscriber, AwaitsEmpty(e, s)
               PROVE  AwaitsEmpty(e, s)'
    BY DEF StillAwaitsEmpty
  <1>1. /\ Len(waiting[s]) \in Nat /\ reserved[s] \in Nat
        /\ Len(waiting'[s]) \in Nat /\ reserved'[s] \in Nat
    BY DEF TypeOK
  <1>2. Len(waiting'[s]) + reserved'[s] > 0
    BY <1>1 DEF AwaitsEmpty, NonEmpty, QueueSize
  <1> QED
    BY <1>2 DEF AwaitsEmpty, NonEmpty, QueueSize

\* A step that touches neither the queues nor the registrations.
LEMMA AwaitsEmptySame ==
    ASSUME TypeOK, NEW e \in Flush, e \in asleep,
           UNCHANGED <<subscribers, reserved, waiting, notify_ready>>
    PROVE  StillAwaitsEmpty(e)
  BY DEF StillAwaitsEmpty, AwaitsEmpty, NonEmpty, QueueSize, Registered

\* A poll that leaves e asleep has registered it; any other step either wakes e or leaves its
\* registrations as they are, unless it drops the last publisher.
LEMMA FlushesStillAwait ==
    ASSUME IInv, [Next]_vars, ~DropLastPublisher, NEW e \in Flush, e \in asleep'
    PROVE  StillAwaitsEmpty(e) \/ \E s \in Subscriber : AwaitsEmpty(e, s)'
  <1> DEFINE Goal == StillAwaitsEmpty(e) \/ \E s \in Subscriber : AwaitsEmpty(e, s)'
  <1>1. TypeOK /\ TypeOK' /\ Registry
    BY StepIInv DEF IInv
  <1>2. e \notin Subscriber /\ e \notin Future /\ e \notin Watcher
    BY TasksAssumption
  <1>3. \A t \in Subscriber : /\ waiting[t] \in Seq(Future) /\ waiting'[t] \in Seq(Future)
                              /\ Len(waiting[t]) \in Nat /\ Len(waiting'[t]) \in Nat
                              /\ reserved[t] \in Nat /\ reserved'[t] \in Nat
    BY <1>1 DEF TypeOK
  <1>4. ASSUME NEW s \in Subscriber, NEW b, NEW q, NewSubCore(s, b, q),
               Registered \subseteq Registered'
        PROVE  Goal
    <2>1. /\ e \in asleep /\ stream[s] = "none"
          /\ reserved' = [reserved EXCEPT ![s] = 0] /\ waiting' = [waiting EXCEPT ![s] = q]
          /\ notify_ready' = [notify_ready EXCEPT ![s] = {}]
      BY <1>4 DEF NewSubCore
    <2>2. ~AwaitsEmpty(e, s)
      BY <1>1, <2>1 DEF AwaitsEmpty, NonEmpty, Registry
    <2>3. \A t \in Subscriber \ {s} :
              /\ reserved'[t] = reserved[t] /\ waiting'[t] = waiting[t]
              /\ notify_ready'[t] = notify_ready[t]
      BY <1>1, <2>1 DEF TypeOK
    <2>4. \A t \in Subscriber : AwaitsEmpty(e, t) =>
              /\ t \in Registered' /\ e \in notify_ready'[t]
              /\ Len(waiting'[t]) + reserved'[t] >= Len(waiting[t]) + reserved[t]
      BY <1>3, <1>4, <2>2, <2>3 DEF AwaitsEmpty, NonEmpty
    <2> QED
      BY <1>1, <2>1, <2>4, AwaitsNoLess
  <1>5. ASSUME NEW s \in Subscriber, NEW t \in Subscriber,
               \/ Subscribe(s) \/ WeakSubscribe(s) \/ Resubscribe(t, s)
               \/ ResubscribeClosed(t, s) \/ WeakSubscribeClosed(s)
        PROVE  Goal
    <2>1. CASE Subscribe(s) \/ WeakSubscribe(s) \/ Resubscribe(t, s)
      BY <1>1, <1>4, <2>1, LayoutTypes DEF Subscribe, WeakSubscribe, Resubscribe, Attach
    <2>2. CASE ResubscribeClosed(t, s) \/ WeakSubscribeClosed(s)
      BY <1>4, <2>2 DEF ResubscribeClosed, WeakSubscribeClosed, Registered
    <2> QED
      BY <1>5, <2>1, <2>2
  <1>6. ASSUME NEW s \in Subscriber, notify_ready' = [notify_ready EXCEPT ![s] = {}],
               e \in asleep \ notify_ready[s], Registered \ {s} \subseteq Registered',
               \A t \in Subscriber : t # s => QueueSize(t)' = QueueSize(t)
        PROVE  Goal
    <2>1. \A t \in Subscriber \ {s} :
              /\ Len(waiting'[t]) + reserved'[t] >= Len(waiting[t]) + reserved[t]
              /\ notify_ready'[t] = notify_ready[t]
      BY <1>1, <1>3, <1>6 DEF QueueSize, TypeOK
    <2>2. ~AwaitsEmpty(e, s)
      BY <1>6 DEF AwaitsEmpty
    <2>3. \A t \in Subscriber : AwaitsEmpty(e, t) =>
              /\ t \in Registered' /\ e \in notify_ready'[t]
              /\ Len(waiting'[t]) + reserved'[t] >= Len(waiting[t]) + reserved[t]
      BY <1>6, <2>1, <2>2 DEF AwaitsEmpty, NonEmpty
    <2> QED
      BY <1>1, <1>6, <2>3, AwaitsNoLess
  <1>7. ASSUME NEW s \in Subscriber, DropSubscriber(s)
        PROVE  Goal
    <2>1. Registered' = Registered \ {s}
      BY <1>7 DEF DropSubscriber, Detach, Restrict, Registered
    <2> QED
      BY <1>6, <1>7, <2>1 DEF DropSubscriber, Detach, QueueSize
  <1>8. ASSUME NEW s \in Subscriber, PollMessage(s)
        PROVE  Goal
    <2>1. \A t \in Subscriber : t # s => QueueSize(t)' = QueueSize(t)
      BY <1>1, <1>8 DEF PollMessage, TakeMessage, QueueSize, TypeOK
    <2> QED
      BY <1>6, <1>8, <2>1 DEF PollMessage, TakeMessage, coreVars, Registered
  <1>9. ASSUME NEW s \in Subscriber, PollPending(s)
        PROVE  Goal
    BY <1>2, <1>6, <1>9 DEF PollPending, coreVars, Registered, QueueSize
  <1>10. ASSUME NEW s \in Subscriber, PollEnded(s)
         PROVE  Goal
    BY <1>1, <1>10, AwaitsEmptySame DEF PollEnded, coreVars, subVars
  <1>11. ASSUME NEW g \in Future, NEW s \in Subscriber, CancelSend(g, s)
         PROVE  Goal
    <2>1. \A t \in Subscriber : t # s => QueueSize(t)' = QueueSize(t)
      BY <1>1, <1>11 DEF CancelSend, GiveBack, QueueSize, TypeOK
    <2> QED
      BY <1>6, <1>11, <2>1 DEF CancelSend, GiveBack, coreVars, Registered
  <1>12. ASSUME NEW g \in Future, NEW s \in Subscriber, SendMessage(g, s)
         PROVE  Goal
    <2>1. /\ reserved' = [reserved EXCEPT ![s] = @ - 1]
          /\ waiting' = [waiting EXCEPT ![s] = Append(@, g)]
          /\ UNCHANGED <<subscribers, notify_ready, asleep>>
      BY <1>12 DEF SendMessage, Push, coreVars
    <2>2. ASSUME NEW t \in Subscriber
          PROVE  Len(waiting'[t]) + reserved'[t] >= Len(waiting[t]) + reserved[t]
      <3>1. CASE t # s
        <4>1. waiting'[t] = waiting[t] /\ reserved'[t] = reserved[t]
          BY <1>1, <2>1, <3>1 DEF TypeOK
        <4> QED
          BY <1>3, <4>1
      <3>2. CASE t = s
        <4>1. reserved'[s] = reserved[s] - 1 /\ waiting'[s] = Append(waiting[s], g)
          BY <1>1, <2>1 DEF TypeOK
        <4>2. Len(waiting'[s]) = Len(waiting[s]) + 1
          BY <1>3, <4>1
        <4> QED
          BY <1>3, <3>2, <4>1, <4>2
      <3> QED
        BY <3>1, <3>2
    <2> QED
      BY <1>1, <2>1, <2>2, AwaitsNoLess DEF Registered, AwaitsEmpty, NonEmpty
  <1>13. ASSUME NEW R, Reserve(R), UNCHANGED <<waiting, subscribers>>, e \in asleep,
                \A t \in Subscriber : notify_ready[t] \subseteq notify_ready'[t]
         PROVE  Goal
    <2>1. \A t \in Subscriber : reserved'[t] >= reserved[t] /\ waiting'[t] = waiting[t]
      BY <1>3, <1>13 DEF Reserve
    <2>2. \A t \in Subscriber :
              Len(waiting'[t]) + reserved'[t] >= Len(waiting[t]) + reserved[t]
      BY <1>3, <2>1
    <2> QED
      BY <1>1, <1>13, <2>2, AwaitsNoLess DEF Registered, AwaitsEmpty, NonEmpty
  <1>14. ASSUME NEW g \in Future, PollReady(g)
         PROVE  Goal
    BY <1>1, <1>13, <1>14 DEF PollReady, CreateSender, coreVars, TypeOK
  <1>15. ASSUME NEW g \in Future, PollBlocked(g)
         PROVE  Goal
    <2>1. PICK full \in Blocking(g) :
            WaitFor(g, full, {s \in Wanted(g) : subscribers[s] < subscribers[full]})
      BY <1>15 DEF PollBlocked
    <2>2. /\ Reserve({s \in Wanted(g) : subscribers[s] < subscribers[full]})
          /\ notify_ready' = [notify_ready EXCEPT ![full] = @ \cup {g}]
          /\ asleep' = asleep \cup {g}
          /\ UNCHANGED <<subscribers, waiting>>
      BY <2>1 DEF WaitFor, coreVars
    <2>3. \A t \in Subscriber : notify_ready[t] \subseteq notify_ready'[t]
      BY <1>1, <2>2 DEF TypeOK
    <2> QED
      BY <1>2, <1>13, <2>2, <2>3
  <1>16. CASE Republish \/ DropPublisher \/ DropLastPublisher \/ ReleaseCore
    <2>1. CASE Republish \/ DropPublisher \/ ReleaseCore
      BY <1>1, <2>1, AwaitsEmptySame DEF Republish, DropPublisher, ReleaseCore, subVars, taskVars
    <2>2. CASE DropLastPublisher
      BY <2>2
    <2> QED
      BY <1>16, <2>1, <2>2
  <1>17. ASSUME NEW g \in Future,
                \/ WhenReady(g) \/ WeakWhenReady(g) \/ WeakWhenReadyClosed(g) \/ DropFuture(g)
                \/ SendLock(g) \/ SendUnlock(g) \/ CancelStart(g) \/ CancelEnd(g)
         PROVE  Goal
    BY <1>1, <1>17, AwaitsEmptySame DEF WhenReady, WeakWhenReady, StartFuture, WeakWhenReadyClosed,
       DropFuture, SendLock, SendStart, SendUnlock, SendEnd, CancelStart, CancelEnd, coreVars, subVars
  <1>18. ASSUME NEW d \in Flush,
                \/ WhenEmpty(d) \/ WeakWhenEmpty(d) \/ WeakWhenEmptyClosed(d)
                \/ PollFlushed(d) \/ DropFlush(d)
         PROVE  Goal
    BY <1>1, <1>18, AwaitsEmptySame DEF WhenEmpty, WeakWhenEmpty, StartFlush, WeakWhenEmptyClosed,
       PollFlushed, DropFlush, coreVars, subVars
  <1>19. ASSUME NEW d \in Flush, PollUnflushed(d)
         PROVE  Goal
    <2>1. PICK s \in NonEmpty : notify_ready' = [notify_ready EXCEPT ![s] = @ \cup {d}]
      BY <1>19 DEF PollUnflushed
    <2>2. UNCHANGED <<subscribers, reserved, waiting>> /\ asleep' = asleep \cup {d}
      BY <1>19 DEF PollUnflushed, coreVars
    <2>3. s \in Subscriber /\ \A t \in Subscriber : notify_ready[t] \subseteq notify_ready'[t]
      BY <1>1, <2>1 DEF TypeOK, NonEmpty
    <2>4. CASE d = e
      <3>1. e \in notify_ready'[s] /\ s \in NonEmpty'
        BY <1>1, <2>1, <2>2, <2>3, <2>4 DEF TypeOK, NonEmpty, QueueSize, Registered
      <3> QED
        BY <2>3, <3>1 DEF AwaitsEmpty
    <2>5. CASE d # e
      BY <2>2, <2>3, <2>5 DEF StillAwaitsEmpty, AwaitsEmpty, NonEmpty, QueueSize, Registered
    <2> QED
      BY <2>4, <2>5
  <1>20. ASSUME NEW c \in Watcher,
                \/ WhenClosed(c) \/ WeakWhenClosed(c) \/ WeakWhenClosedClosed(c)
                \/ PollClosed(c) \/ PollOpen(c) \/ DropWatcher(c)
         PROVE  Goal
    BY <1>1, <1>2, <1>20, AwaitsEmptySame DEF WhenClosed, WeakWhenClosed, StartWatcher,
       WeakWhenClosedClosed, PollClosed, PollOpen, DropWatcher, coreVars, subVars
  <1>21. CASE UNCHANGED vars
    BY <1>1, <1>21, AwaitsEmptySame DEF vars, coreVars, subVars, taskVars
  <1>22. CASE SharedNext
    BY <1>5, <1>7, <1>8, <1>9, <1>10, <1>16, <1>17, <1>18, <1>19, <1>20, <1>22
       DEF SharedNext, PollNext
  <1>23. CASE WeakNext
    BY <1>5, <1>17, <1>18, <1>20, <1>23 DEF WeakNext
  <1>24. CASE \E g \in Future :
                PollWhenReady(g) \/ Sending(g) \/ CancelStart(g) \/ Cancelling(g)
    BY <1>11, <1>12, <1>14, <1>15, <1>17, <1>24 DEF PollWhenReady, Sending, Cancelling
  <1> QED
    BY <1>21, <1>22, <1>23, <1>24 DEF Next

\* Every step wakes who sleeps, or leaves it waiting for what is still to come.
LEMMA StepSinkAwake ==
    ASSUME SinkInv, SinkNotStranded, [SinkNext]_system
    PROVE  SinkNotStranded'
  <1> SUFFICES ASSUME publisher_count' > 0
               PROVE  /\ notify_futures' # {} => insufficient_subscribers'
                      /\ \A f \in (asleep' \cap Future) \ notify_futures' :
                             \E s \in Blocking(f)' : f \in notify_ready'[s]
                      /\ \A e \in (asleep' \cap Flush) \ notify_futures' :
                             \E s \in NonEmpty' : e \in notify_ready'[s]
    BY DEF SinkNotStranded
  <1>1. IInv /\ TypeOK /\ Held
    BY DEF SinkInv, IInv
  <1>2. CASE Naps
    <2>1. /\ UNCHANGED <<publisher_count, subscribers, reserved, waiting, slots, notify_ready>>
          /\ asleep' \ notify_futures' \subseteq asleep \ notify_futures
      BY <1>2 DEF Naps, coreVars, subVars
    <2>2. notify_futures' # {} => insufficient_subscribers'
      BY <1>2, <2>1 DEF Naps, SinkNotStranded
    <2>3. \A f : Blocking(f)' = Blocking(f)
      BY <2>1 DEF Blocking, Wanted, Full, QueueSize, Registered
    <2>4. NonEmpty' = NonEmpty
      BY <2>1 DEF NonEmpty, QueueSize, Registered
    <2> QED
      BY <2>1, <2>2, <2>3, <2>4 DEF SinkNotStranded
  <1>3. CASE Moves
    <2>1. publisher_count > 0 /\ [Next]_vars /\ ~DropLastPublisher
      BY <1>1, <1>3, PublishersGo DEF Moves, DropLastPublisher, CloseCore
    <2>2. notify_futures' # {} => insufficient_subscribers'
      BY <1>3, <2>1 DEF Moves, SinkNotStranded
    <2>3. ASSUME NEW f \in (asleep' \cap Future) \ notify_futures'
          PROVE  \E s \in Blocking(f)' : f \in notify_ready'[s]
      <3>1. StillAwaits(f) \/ \E s \in Subscriber : Awaits(f, s)'
        BY <1>1, <2>1, SleepersStillAwait
      <3>2. CASE StillAwaits(f)
        <4>1. f \in asleep /\ f \notin notify_futures
          BY <1>3, <3>2 DEF StillAwaits, Moves
        <4>2. PICK s \in Blocking(f) : f \in notify_ready[s]
          BY <2>1, <4>1 DEF SinkNotStranded
        <4>3. s \in Subscriber
          BY <1>1 DEF TypeOK, Blocking, Wanted
        <4> QED
          BY <3>2, <4>2, <4>3 DEF StillAwaits, Awaits
      <3> QED
        BY <3>1, <3>2 DEF Awaits
    <2>4. ASSUME NEW e \in (asleep' \cap Flush) \ notify_futures'
          PROVE  \E s \in NonEmpty' : e \in notify_ready'[s]
      <3>1. StillAwaitsEmpty(e) \/ \E s \in Subscriber : AwaitsEmpty(e, s)'
        BY <1>1, <2>1, FlushesStillAwait
      <3>2. CASE StillAwaitsEmpty(e)
        <4>1. e \in asleep /\ e \notin notify_futures
          BY <1>3, <3>2 DEF StillAwaitsEmpty, Moves
        <4>2. PICK s \in NonEmpty : e \in notify_ready[s]
          BY <2>1, <4>1 DEF SinkNotStranded
        <4>3. s \in Subscriber
          BY <1>1 DEF TypeOK, NonEmpty
        <4> QED
          BY <3>2, <4>2, <4>3 DEF StillAwaitsEmpty, AwaitsEmpty
      <3> QED
        BY <3>1, <3>2 DEF AwaitsEmpty
    <2> QED
      BY <2>2, <2>3, <2>4
  <1> QED
    BY <1>1, <1>2, <1>3, SinkMoves

\* While the sink is open nobody is left asleep: a future that sleeps at a gate finds it shut, one
\* that sleeps behind it is registered with a full subscriber, and a flush with one not empty.
THEOREM NobodyIsStranded == SinkSpec => []SinkNotStranded
  <1>1. SinkInit => SinkNotStranded
    BY DEF SinkInit, Init, SinkNotStranded
  <1>2. SinkInv /\ SinkNotStranded /\ [SinkNext]_system => SinkNotStranded'
    BY StepSinkAwake
  <1> QED
    BY <1>1, <1>2, SinkInvariant, PTL DEF SinkSpec
=============================================================================
