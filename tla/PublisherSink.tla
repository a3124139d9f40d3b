--------------------------- MODULE PublisherSink ---------------------------
(***************************************************************************)
(* A PublisherSink (src/src/sink.rs) over a BlockingPublisher               *)
(* (src/src/blocking_publisher.rs) over a Publisher (PublishAll).  A        *)
(* BlockingPublisher that requires no subscribers never blocks, and stands  *)
(* for a plain Publisher.                                                   *)
(*                                                                          *)
(* Beside the futures that the sink keeps for itself there are those that   *)
(* its when_ready(), when_empty() and publish() hand out to clients; a      *)
(* when_fully_subscribed() is the first half of any of them.  A call        *)
(* borrows the sink: until it is over no other one begins, but streams,     *)
(* senders and the futures of clients go on.                                *)
(***************************************************************************)
EXTENDS PublishAll

CONSTANTS
    RequiredSubscribers,    \* the numbers that BlockingPublisher::new may be called with
    ClientTask              \* bound: the futures that may be handed out to clients

ASSUME RequiredAssumption == RequiredSubscribers \subseteq Nat
ASSUME ClientTaskAssumption == ClientTask \subseteq Future \cup Flush

VARIABLES
    (* BlockingPublisher *)
    insufficient_subscribers,
    required_subscribers,
    notify_futures,     \* the futures whose oneshot is neither sent nor cancelled
    (* PublisherSink; an Option is a set *)
    sink,               \* open, closed (publisher is None), or what the call that is on is doing
    future_sender, next_sender, future_flush,
    discarded           \* what the last call took out of the sink in order to drop it

gateVars == <<insufficient_subscribers, required_subscribers, notify_futures>>
ownVars  == <<future_sender, next_sender, future_flush, discarded>>
sinkVars == <<gateVars, sink, ownVars>>
system   == <<vars, sinkVars>>

SinkInit ==
    /\ Init
    /\ required_subscribers \in RequiredSubscribers
    /\ insufficient_subscribers = (required_subscribers # 0)
    /\ notify_futures = {}
    /\ sink = "open"
    /\ future_sender = {} /\ next_sender = {} /\ future_flush = {}
    /\ discarded = {}

Pending(task) ==
    \/ task \in Future /\ future[task] \in {"waiting", "ready", "cancelling"}
    \/ task \in Flush /\ flush[task] = "waiting"

\* No call is on, or it is `call'; `closed' is no call either.
Within(call) == sink \in {"open", call} /\ \A task \in discarded : ~Pending(task)
Idle == Within("open")

Owned == future_sender \cup next_sender \cup future_flush \cup discarded

\* Only their names tell new futures and new streams apart: any one that was not used yet will do.
Fresh(f) == future[f] = "none" /\ f = CHOOSE g \in Future : future[g] = "none"
NewStream(s) == stream[s] = "none" /\ s = CHOOSE t \in Subscriber : stream[t] = "none"

-----------------------------------------------------------------------------
(* BlockingPublisher *)

\* when_ready() and when_empty(): a future that is made too early gets a oneshot to wait for.
Gate(task) ==
    /\ notify_futures' =
           IF insufficient_subscribers THEN notify_futures \cup {task} ELSE notify_futures
    /\ UNCHANGED <<insufficient_subscribers, required_subscribers>>

AwaitGate(task) ==
    /\ task \in notify_futures
    /\ Pending(task)
    /\ asleep' = asleep \cup {task}
    /\ UNCHANGED <<coreVars, subVars, stream, future, slots, flush, watcher, wakers, history>>

PollSenderPending(f) == AwaitGate(f) \/ (f \notin notify_futures /\ PollBlocked(f))
PollSenderReady(f)   == f \notin notify_futures /\ PollReady(f)
PollFlushPending(e)  == AwaitGate(e) \/ (e \notin notify_futures /\ PollUnflushed(e))
PollFlushReady(e)    == e \notin notify_futures /\ PollFlushed(e)

\* subscribe() joins first, and counts when the core's lock was released and taken again.
SubscribeJoins(s) ==
    /\ Idle
    /\ NewStream(s) /\ Subscribe(s)
    /\ sink' = "subscribing"
    /\ UNCHANGED <<gateVars, ownVars>>

SubscribeTooFew ==
    /\ sink = "subscribing"
    /\ CoreUnlocked
    /\ insufficient_subscribers => Cardinality(Registered) < required_subscribers
    /\ sink' = "open"
    /\ UNCHANGED <<vars, gateVars, ownVars>>

OpenGate(count, woken) ==
    /\ sink = "subscribing"
    /\ CoreUnlocked
    /\ insufficient_subscribers
    /\ count >= required_subscribers
    /\ insufficient_subscribers' = FALSE
    /\ notify_futures' = {}
    /\ asleep' = asleep \ woken
    /\ sink' = "open"
    /\ UNCHANGED <<coreVars, subVars, stream, future, slots, flush, watcher, wakers, history,
                   required_subscribers, ownVars>>

SubscribeOneShort == OpenGate(Cardinality(Registered) + 1, notify_futures)
SubscribeSilently == OpenGate(Cardinality(Registered), {})

SubscribeEnough == OpenGate(Cardinality(Registered), notify_futures)

-----------------------------------------------------------------------------
(* PublisherSink: Sink *)

\* poll_ready, future_sender is None: a future is made, to be polled before the call is over.
PollReadyBegins(f) ==
    /\ Idle
    /\ future_sender = {}
    /\ Fresh(f) /\ WhenReady(f) /\ Gate(f)
    /\ future_sender' = {f}
    /\ sink' = "readying"
    /\ UNCHANGED <<next_sender, future_flush, discarded>>

PollReadyWaits(f) ==
    /\ Within("readying")
    /\ f \in future_sender
    /\ PollSenderPending(f)
    /\ sink' = "open"
    /\ UNCHANGED <<gateVars, ownVars>>

\* A sender that an earlier poll_ready had left is dropped for the new one.
PollReadyDone(f) ==
    /\ Within("readying")
    /\ f \in future_sender
    /\ PollSenderReady(f)
    /\ future_sender' = {} /\ next_sender' = {f}
    /\ discarded' = next_sender
    /\ sink' = "open"
    /\ UNCHANGED <<gateVars, future_flush>>

StartSend(f) ==
    /\ Idle
    /\ f \in next_sender
    /\ SendLock(f)
    /\ next_sender' = {}
    /\ UNCHANGED <<gateVars, sink, future_sender, future_flush, discarded>>

\* poll_flush or poll_close, future_flush is None
PollFlushBegins(e) ==
    /\ Idle
    /\ future_flush = {}
    /\ WhenEmpty(e) /\ Gate(e)
    /\ future_flush' = {e}
    /\ sink' = "flushing"
    /\ UNCHANGED <<future_sender, next_sender, discarded>>

\* poll_flush, and poll_close without a publisher
PollFlushWaits(e) ==
    /\ Within("flushing") \/ sink = "closed"
    /\ e \in future_flush
    /\ PollFlushPending(e)
    /\ sink' = IF sink = "closed" THEN "closed" ELSE "open"
    /\ UNCHANGED <<gateVars, ownVars>>

FlushDone(e, kept) ==
    /\ Within("flushing") \/ sink = "closed"
    /\ e \in future_flush
    /\ PollFlushReady(e)
    /\ future_flush' = kept
    /\ sink' = IF sink = "closed" THEN "closed" ELSE "open"
    /\ UNCHANGED <<gateVars, future_sender, next_sender, discarded>>

PollFlushKeeps(e) == FlushDone(e, {e})

PollFlushDone(e) == FlushDone(e, {})

\* poll_close polls the flush first, and then drops all but the flush, whatever the poll returned.
PollClose(e) ==
    /\ Within("flushing")
    /\ e \in future_flush
    /\ \/ PollFlushPending(e) /\ UNCHANGED future_flush
       \/ PollFlushReady(e) /\ future_flush' = {}
    /\ future_sender' = {} /\ next_sender' = {}
    /\ discarded' = future_sender \cup next_sender
    /\ sink' = "closing"
    /\ UNCHANGED gateVars

\* Drop of the sink
DropSink ==
    /\ Idle \/ sink = "closed"
    /\ future_sender' = {} /\ next_sender' = {} /\ future_flush' = {}
    /\ discarded' = future_sender \cup next_sender \cup future_flush
    /\ sink' = IF sink = "closed" THEN "closed" ELSE "closing"
    /\ UNCHANGED <<vars, gateVars>>

\* The publisher goes first, and of it the Publisher; then the oneshots are cancelled, which opens
\* the gate as well.
DropsPublisher == sink = "closing" /\ DropLastPublisher /\ UNCHANGED sinkVars

CancelGate ==
    /\ sink = "closing" /\ publisher_count = 0
    /\ notify_futures' = {}
    /\ asleep' = asleep \ notify_futures
    /\ sink' = "closed"
    /\ UNCHANGED <<coreVars, subVars, stream, future, slots, flush, watcher, wakers, history,
                   insufficient_subscribers, required_subscribers, ownVars>>

Discards(task) ==
    /\ task \in discarded
    /\ sink # "closing"
    /\ \/ task \in Future /\ (DropFuture(task) \/ CancelStart(task) \/ Cancelling(task))
       \/ task \in Flush /\ DropFlush(task)
    /\ UNCHANGED sinkVars

-----------------------------------------------------------------------------
(* PublisherSink: when_ready(), when_empty() and publish(), whose futures the client keeps *)

ClientCreates(task) ==
    /\ Idle
    /\ task \in ClientTask
    /\ IF task \in Future THEN Fresh(task) /\ WhenReady(task) ELSE WhenEmpty(task)
    /\ Gate(task)
    /\ UNCHANGED <<sink, ownVars>>

ClientPolls(task) ==
    /\ task \notin Owned
    /\ IF task \in Future
       THEN PollSenderPending(task) \/ PollSenderReady(task)
       ELSE PollFlushPending(task) \/ PollFlushReady(task)
    /\ UNCHANGED sinkVars

ClientSends(f) == f \notin Owned /\ SendLock(f) /\ UNCHANGED sinkVars

ClientDrops(task) ==
    /\ task \notin Owned
    /\ IF task \in Future
       THEN DropFuture(task) \/ CancelStart(task) \/ Cancelling(task)
       ELSE DropFlush(task)
    /\ UNCHANGED sinkVars

Streams ==
    /\ \/ \E s \in Subscriber : DropSubscriber(s) \/ PollNext(s)
       \/ \E s, t \in Subscriber : NewStream(t) /\ (Resubscribe(s, t) \/ ResubscribeClosed(s, t))
       \/ ReleaseCore
    /\ UNCHANGED sinkVars

Pushes(f) == ((\E s \in Subscriber : SendMessage(f, s)) \/ SendUnlock(f)) /\ UNCHANGED sinkVars

-----------------------------------------------------------------------------
SubscribeCounts == SubscribeTooFew \/ SubscribeEnough
PollReadyOf(f) == PollReadyWaits(f) \/ PollReadyDone(f)
PollFlushOf(e) == PollFlushWaits(e) \/ PollFlushDone(e)

SinkNext ==
    \/ Streams
    \/ \E s \in Subscriber : SubscribeJoins(s)
    \/ SubscribeCounts
    \/ \E f \in Future :
        PollReadyBegins(f) \/ PollReadyOf(f) \/ StartSend(f) \/ ClientSends(f) \/ Pushes(f)
    \/ \E e \in Flush : PollFlushBegins(e) \/ PollFlushOf(e) \/ PollClose(e)
    \/ DropSink \/ DropsPublisher \/ CancelGate
    \/ \E task \in Future \cup Flush :
        Discards(task) \/ ClientCreates(task) \/ ClientPolls(task) \/ ClientDrops(task)

SinkSpec == SinkInit /\ [][SinkNext]_system

\* What has begun goes on, and a task that was woken, or never polled, is polled; but no client has
\* to send, subscribe or close.
SinkFairness ==
    /\ WF_system(SubscribeCounts) /\ WF_system(DropsPublisher) /\ WF_system(CancelGate)
    /\ \A f \in Future : WF_system(Pushes(f)) /\ WF_system(f \notin asleep /\ PollReadyOf(f))
    /\ \A e \in Flush : WF_system(e \notin asleep /\ PollFlushOf(e))
    /\ \A task \in Future \cup Flush : WF_system(Discards(task))
    /\ \A s \in Subscriber : WF_system(s \notin asleep /\ PollNext(s) /\ UNCHANGED sinkVars)

FairSinkSpec == SinkSpec /\ SinkFairness

-----------------------------------------------------------------------------
\* The sink's variables have their types, and what its Options hold can still be used: no future
\* is polled after it was ready and no sender is used twice.
SinkTypeOK ==
    /\ TypeOK
    /\ insufficient_subscribers \in BOOLEAN /\ required_subscribers \in RequiredSubscribers
    /\ notify_futures \subseteq Future \cup Flush
    /\ sink \in {"open", "closed", "subscribing", "readying", "flushing", "closing"}
    /\ \A f \in future_sender : future[f] = "waiting"
    /\ \A f \in next_sender : future[f] = "ready"
    /\ \A e \in future_flush : flush[e] = "waiting"
    /\ Cardinality(future_sender) <= 1 /\ Cardinality(next_sender) <= 1
    /\ Cardinality(future_flush) <= 1
    /\ discarded \subseteq Future \cup Flush

\* No message gets a sender before the required number of streams was there, as long as the
\* BlockingPublisher is kept ("This publisher will refuse to receive any items until at least
\* required_subscribers are connected", blocking_publisher.rs:36).  Its Drop lets them through.
GateHolds ==
    publisher_count > 0 =>
        \A f \in Future : future[f] \notin {"none", "waiting", "dropped"} =>
            Cardinality({s \in Subscriber : stream[s] # "none"}) >= required_subscribers

\* While the sink is open, whoever sleeps in poll_ready or poll_flush, or on a future of its own,
\* is waiting at a gate that is shut, or is registered with a subscriber that is full, or not empty.
SinkNotStranded ==
    publisher_count > 0 =>
        /\ notify_futures # {} => insufficient_subscribers
        /\ \A f \in (asleep \cap Future) \ notify_futures :
               \E s \in Blocking(f) : f \in notify_ready[s]
        /\ \A e \in (asleep \cap Flush) \ notify_futures :
               \E s \in NonEmpty : e \in notify_ready[s]

\* A sink whose client polls on gets its sender, unless something else is in flight that has slots:
\* another future or sender of the clients, or one that the sink itself holds already.
SinkReadies ==
    []<>(\/ future_sender = {} \/ insufficient_subscribers
         \/ \E f \in Future \ future_sender : slots[f] # {})

\* A close whose client polls on comes to its end, the readers reading: "The flush future will keep
\* the publisher around until all the subscriber messages are processed" (sink.rs:136).
CloseCompletes == sink = "closed" /\ future_flush # {} ~> future_flush = {}
=============================================================================
