# A TLA+ verification of flo_stream

`flo_stream` is a Rust crate of asynchronous streams: publishers with many subscribers (pubsub), a sink
over a publisher, a channel usable from threads and from futures, a generator stream and a switchable
stream. This project models its concurrent core in TLA+, checks it with TLC on small instances and
proves with TLAPS, for every size, the safety properties of its publishers, its channel, its sink and
its relay: that nobody is left asleep (but see the findings), what is delivered, lost and in which
order, that a send looks atomic and that the channel is a queue. Paths below are relative to `src/`, the
repository.

## 1. Inventory

| Component | State it keeps | Operations | Modelled in |
|---|---|---|---|
| Publisher core: `PubCore`, `SubCore` (`src/pubsub_core.rs`) | number of strong publishers, map of subscribers, `max_queue_size`, turn list `waiting`, `notify_closed`; per subscriber `published`, `waiting`, `reserved`, `notify_waiting`, `notify_ready` | `send_all_subscribers`, `send_all_expiring_oldest`, `send_single_subscriber`, `when_empty`, `send_message`, `send_single_message`, `cancel_send`, `CoreClosedFuture` | `PubSubCore`, `SendAll`, `PublishAll`, `PublishExpiring`, `PublishSingle` |
| `Subscriber` (`src/subscriber.rs`) | weak reference to the core, its `SubCore` | `poll_next`, `resubscribe`/`clone`, Drop | `PubSubCore` |
| `Publisher` (`src/publisher.rs`) | an `Arc` of the core | `new`, `republish`, `subscribe`, `when_ready`, `when_empty`, `when_closed`, `is_closed`, Drop | `PubSubCore`, `PublishAll`, promise: `AtomicPublisher` |
| `ExpiringPublisher` (`src/expiring_publisher.rs`) | same | same | `PublishExpiring` |
| `SinglePublisher` (`src/single_publisher.rs`) | same | same | `PublishSingle` |
| `WeakPublisher` (`src/weak_publisher.rs`) | a `Weak` of the core | same, each with a branch for a core that is gone | `WeakPublisher` |
| `MessageSender`, `publish` (`src/message_publisher.rs`) | a send and a cancel callback, one of which runs | `send`, Drop | `SendAll`, `PublishSingle` |
| Sync/async channel (`src/sync_or_async_channel.rs`) | ring of slots, read and write index, waiting senders and flushers, receiver waker | `Sink` and `Stream` methods, `send_sync`, `next_sync`, clone, Drops | `SyncChannel`, promise: `ChannelQueue` |
| `PublisherSink` (`src/sink.rs`) | publisher, pending `when_ready`, sender in hand, pending `when_empty` | `poll_ready`, `start_send`, `poll_flush`, `poll_close`, `when_ready`, `when_empty`, `publish`, Drop | `PublisherSink` |
| `StreamPublisher` (`src/stream_publisher.rs`) | source stream, publish in progress, `when_closed` future | `send_all_to`, `poll`, Drop | `StreamRelay` |
| `BlockingPublisher` (`src/blocking_publisher.rs`) | gate, futures that wait for it, a `Publisher` | those of `Publisher`, `when_fully_subscribed` | `PublisherSink` |
| Generator stream (`src/generator.rs`) | future, next item, resume channel | yield, `poll_next` | `GeneratorStream`, in part |
| Switching stream (`src/switching_stream.rs`) | stream, closed, switch available, waker | `poll_next`, `switch_to_stream`, Drop of the switch | `SwitchingStream` |
| `TryPublishError`, crate root | none | none | nothing to model |

Interaction: publishers, futures, senders and subscribers share one `PubCore` under a mutex, and
each `SubCore` has a mutex of its own that is taken inside the core's or alone. Tasks hand their
wakers to lists in that state (`notify_waiting`, `notify_ready`, `notify_closed`) and whoever changes
it drains the list and wakes them. `PublisherSink`, `StreamPublisher` and `BlockingPublisher` sit on
top of a publisher and use its futures; the channel, the generator and the switching stream are
independent of it. A relay polls its source, a publish and a `when_closed` with one waker, that of its
own task.

What is hard: a `when_ready` future reserves slots in one subscriber after the other over many
polls, so reservations are held while waiting; a task registers in one place, and everything that
could help it elsewhere must be certain to reach that place; `send` serves subscribers one at a time
while readers poll and drop their streams; the last strong publisher may go while futures and
senders still own the core; and a `WeakPublisher` may act before, during and after that. The sink
keeps futures over calls that come in any order and drops the publisher under a pending flush; the
gate of a `BlockingPublisher` counts after the lock was released and taken again; the channel's
senders carry indices of a ring that moves, shrinks and is partly filled; the relay must be woken by
whichever of three sources it last returned `Pending` for. What makes
each part correct, and the line where it could go wrong, is the `hazards` list of `PROJECT.json`.

## 2. Modules

    PubSubCore            state shared by a publisher and its subscribers; all that does not
      |                   depend on the kind of publisher
      |-- SendAll         the sender to every subscriber (Publisher and ExpiringPublisher)
      |     |-- PublishAll        with WeakPublisher: src/publisher.rs
      |     |-- PublishExpiring   src/expiring_publisher.rs
      |-- WeakPublisher   what only a weak publisher can do
      |-- PublishSingle   src/single_publisher.rs
      |-- PublisherSink   over PublishAll: src/sink.rs, src/blocking_publisher.rs
      |-- StreamRelay     over PublishAll and SwitchingStream: src/stream_publisher.rs
      |-- Clients         disciplines of the clients, as conditions on a step
    MCPublishAll, MCPublishExpiring, MCPublishSingle    instances for TLC
    AtomicPublisher       what a Publisher promises; PublishAll!IsAtomic is the refinement
    GeneratorStream       src/generator.rs
      |-- SwitchingStream src/switching_stream.rs
    SyncChannel           src/sync_or_async_channel.rs
    ChannelQueue          what the channel promises; SyncChannel!IsQueue is the refinement
    CoreProofs            lemmas about PubSubCore, SendAll and WeakPublisher, for all kinds
      |-- PublishAllProofs     about PublishAll
      |     |-- AtomicProofs   it implements AtomicPublisher; exactly once, in one order
      |     |     |-- RelayProofs    about StreamRelay
      |     |-- SinkProofs     about PublisherSink
      |-- ExpiringProofs       about PublishExpiring
      |-- SingleProofs         about PublishSingle
    SyncChannelProofs     about SyncChannel; it implements ChannelQueue

**State of the core.** `publisher_count`, `subscribers`, `notify_closed`, `published`, `reserved`,
`waiting`, `notify_waiting`, `notify_ready` are the fields of the same name; a `SubCore` field is a
function from its handle. `subscribers` gives each registered handle its place in the iteration order of
the `HashMap`; an insertion may choose any order, a removal keeps the order. A `when_ready` future, the
`MessageSender` it resolves to and the message it carries are one element of `Future`, whose life is
`future[f]`: `none -> waiting -> ready -> sending -> sent`, or `ready -> cancelling -> cancelled`, or
`dropped` while waiting; `polling` is a future of a single publisher in the middle of a poll, `granted`
the sender it gets, and `void` a sender made from a core that is gone. `slots[f]` is `reserved_ids` of
the future, then the targets the sender has yet to serve. `wakers` is `waiting_wakers` of the sender in
progress. `asleep` holds each task whose last poll returned `Pending` and whose waker was not called
since. `received`, `ended` and `audience` are history. `turns` in `PublishSingle` is `PubCore.waiting`;
`refilled` and `unregistered` are where a poll is: whether it has filled the turn list again, and the
subscribers it has yet to register with.

**Actions of the core.** One action is one critical section. `poll_next` locks the `SubCore` alone, so
it may fall between two pushes of a send; so may the pushes of a cancellation and everything the single
publisher's sender does. All else needs the core's mutex (`CoreUnlocked`), of which two holders are seen
between steps: the sender's callback (`SendLock`, `SendMessage` per target, `SendUnlock`), and the poll
of a single publisher's future, which looks at one `SubCore` after the other, lets go of each
(`PassesOver`, `TakesTurn`), and registers with one after the other later (`Registers`). It counts as
asleep from `PollBegins` on, so that a waker that is called meanwhile gets it polled again. The polls of
the other publishers hold every `SubCore` that they looked at to their end, and are one step. Polls are
enabled at any time, asleep or not: spurious polls are legal. The targets of a send or cancellation are
served in any order.

| Code | Action |
|---|---|
| `new`, `republish`, Drop of a publisher | `Init`, `Republish`, `DropPublisher`, `DropLastPublisher`, `ReleaseCore` |
| `subscribe`, `resubscribe` with and without a core | `Subscribe`, `Resubscribe`, `ResubscribeClosed` |
| Drop of a `Subscriber` | `DropSubscriber` |
| `poll_next` | `PollMessage`, `PollEnded`, `PollPending` |
| `when_ready`, its polls, its drop | `WhenReady`, `PollReady`, `PollBlocked`, `DropFuture` (single: `PollBegins`, then `PassesOver`, `TakesTurn`, `Refills`, `Registers`, `PollPends`) |
| `MessageSender::send` | `SendLock`, `SendMessage`, `SendUnlock` (single: `SendSingle`) |
| Drop of a `MessageSender` | `CancelStart`, `CancelSend`, `CancelEnd` (single: `CancelSingle`) |
| `when_empty` | `WhenEmpty`, `PollFlushed`, `PollUnflushed`, `DropFlush` |
| `when_closed` | `WhenClosed`, `PollClosed`, `PollOpen`, `DropWatcher` |
| `WeakPublisher` with no strong publisher left | `WeakSubscribe`, `WeakWhenReady`, `WeakWhenEmpty`, `WeakWhenClosed` and their `...Closed` forms |

**Channel** (`SyncChannel`). `waiting`, `read_idx`, `write_idx`, `max_waiting`, `recv_waker`,
`closed_count`, `waiting_senders` and `waiting_flushers` are the fields of `SyncAsyncCore`; `slot` is
`write_idx` of each sender that holds a reservation. A slot is `empty`,
`reserved`, `released` or a message (`Slot`). One action is one critical section: a call that gives
its reservation up first (`poll_flush`, `poll_close`, `send_sync`, Drop) is in a state of its own
between `unreserve()` and the rest, and so is a receiver of a zero-length channel between pushing
its slot and looking at it.

| Code | Action |
|---|---|
| `poll_ready`, `reserve` | `PollReadyAtOnce`, `PollReadyReserves`, `PollReadyFull` |
| `start_send`, `fill` | `StartSend` |
| `unreserve` | `Unreserve` |
| `poll_flush`, `poll_close` | `PollFlushed`, `PollUnflushed`, `PollClosed`, `PollCloseFails` |
| `send_sync`, `enqueue` | `SendSyncStores`, `SendSyncParks`, `SendSyncFails` |
| clone and Drop of a sender, Drop of the receiver | `Clone`, `DropSender`, `DropReceiver` |
| `poll_next`, `next_sync` | `PollOpens`, `SyncOpens`, then `TakeMessage`, `TakeEnd`, `AwaitMessage` |

**Sink and gate** (`PublisherSink`). `future_sender`, `next_sender` and `future_flush` are the sink's
Options as sets of at most one future of `PublishAll`; `insufficient_subscribers`,
`required_subscribers` and `notify_futures` are the gate's. `sink` says which call is between two of
its critical sections; `discarded` is what a call took out of the Options and drops. A
`BlockingPublisher` that requires no subscribers stands for a plain publisher.

| Code | Action |
|---|---|
| `subscribe` of `BlockingPublisher` | `SubscribeJoins`, then `SubscribeTooFew` or `SubscribeEnough` |
| `when_ready`, `when_empty` and their polls behind the gate | `Gate`, `AwaitGate`, `PollSenderPending`, `PollSenderReady`, `PollFlushPending`, `PollFlushReady` |
| `poll_ready`, `start_send` | `PollReadyBegins`, `PollReadyWaits`, `PollReadyDone`, `StartSend` |
| `poll_flush`, `poll_close` | `PollFlushBegins`, then `PollFlushWaits`, `PollFlushDone` or `PollClose` |
| Drop of the sink and of its publisher, in field order | `DropSink`, `DropsPublisher`, `CancelGate`, `Discards` |
| futures handed out by `when_ready`, `when_empty`, `publish` | `ClientCreates`, `ClientPolls`, `ClientSends`, `ClientDrops` |

**Relay and its source** (`StreamRelay`, `SwitchingStream`, `GeneratorStream`). `relay` is where
`StreamPublisher::poll` is: everyone else acts between its steps. `woken` notes that a waker of the
relay's task was called since its poll began, whichever of its sources called it; `joined` is history.
The relay is the only one that publishes. Its clients subscribe, read, drop their streams and drop the
one strong publisher; they do not clone, republish or flush (`PublishAll` has those). The switching
stream polls its stream under its lock, so `ReadMessage`, `ReadEnd`, `ReadPending`, `SwitchToStream` and
`DropSwitch` are one step each. A generator is reduced to what its `poll_next` can return:
`PollYieldsAwaited` (it awaits the message), `PollYieldsLast` (it waits for something else or ends after
it), `PollAwaitsEvent`, `PollCompletes`.

**Abstractions.** A message is the name of its future. Wakers are the names of their tasks. They are
called at the end of the critical section that drained them; the code calls them right after it, and
a task polled in between is only polled once more. `closing` stands for the time between the
last publisher's decrement of `publisher_count` and the release of its `Arc` (or of an `Arc` that a
weak operation upgraded before). The handle counter never repeats. `try_publish` always fails and
changes nothing; `count_subscribers` and `is_closed` only read. In the channel an `unpark` between
registration and `park` leaves a token, so the two are one step, and parked threads may run again at
any time. What is new and was not used yet (messages of the channel, futures and streams of the sink)
is taken in a fixed order where only names tell the candidates apart.

## 3. Properties, runs and bounds

| Run | Instance | Properties | Shows |
|---|---|---|---|
| `publish_all` | 2 subscribers, 3 messages, queues of 2, 2 publishers; every client behaviour | `TypeOK` `QueueBound` `SlotAccounting` `ExactlyOnce` `SameOrder` `ReaderNotStranded` `SenderNotStranded` `EndsOnlyWhenClosed` | slots are neither lost nor given out twice, messages arrive once and in one order, no wake-up is lost, no stream ends early |
| `publish_all_progress` | 2 subscribers, 3 messages, queues of 1, steady clients, fairness | `NoWaitCycle` `PublishCompletes` `MessagesArrive` `IsAtomic` | publishes that race for single slots all complete and are read; a send looks like one step |
| `publish_all_close` | 1 subscriber, 2 messages, a flush, a watcher, 2 publishers, disciplined clients, fairness | `StreamsEnd` `FlushCompletes` `CloseSeen` | streams end when the last publisher goes; flushes and `when_closed` resolve |
| `publish_expiring` | 2 subscribers, 3 messages, queues of 2, 1 publisher, steady clients that need not read, fairness; 243,176 states | `AtMostOnce` `SenderNotStranded` `LosesOnlyOverflow` `LosesTheOldest` `PublishCompletes` | only overflow is lost, the oldest first, and a publish never waits for a reader |
| `publish_single` | 2 subscribers, 3 messages, queues of 1, steady clients, fairness; 158,207 states | `OneReader` `EvenTurns` `RoomIsHeard` `RoomIsTaken` | one reader per message, in turns; a publish that has registered hears of room, and an awake one takes it |
| `channel` | 2 senders (one a clone), 2 messages, lengths 0, 1 and 2, fairness; 121,932 states | `TypeOK` `ReservationsHold` `ReceiverNotStranded` `SenderNotStranded` `FlushNotStranded` `IsQueue` `AllArrives` `WaitersServed` | the ring is a queue in the order of reservations; reserved indices stay good; nobody sleeps on what is there; all that was stored arrives, then the end |
| `sink` | 1 subscriber, 2 futures, 1 flush, queue of 1, gate at 0, 1 and 2, fairness; 202,228 states | `SinkTypeOK` `GateHolds` `SinkNotStranded` `SinkReadies` | no message passes the gate early, nobody sleeps at an open gate, no future is polled after it was ready, `poll_ready` gets its sender |
| `relay` | 1 subscriber, 3 messages, 2 generators, queue of 1, fairness; 533,112 states | `RelayTypeOK` `RelaysAll` `RelayNotStranded` `RelayEnds` | all that is yielded from a stream's join on is published to it in order and to the end, the relay is always woken, and it ends |
| `late_subscriber` | 3 subscribers, 3 messages, queues of 1 | `NoWaitCycle` violated | finding 1 |
| `closed_flush` | a sink with 1 subscriber, 1 message, 1 flush | `CloseCompletes` violated | finding 2 |
| `closed_weak_stream` | 1 subscriber | `StreamsEnd` violated | finding 3 |
| `missed_room` | a single publisher, 1 subscriber, 2 messages, queue of 1, steady clients, fairness | `AvailableIsUsed` violated | finding 4 |

*Refinements.* `IsQueue` says that `SyncChannel` implements `ChannelQueue`: read from `read_idx` on,
with a reserved slot as its holder, the ring is one queue of places, taken
in the order of the reservations, filled or given up by their holders and received from the head,
with no more places than the length allows and, in a channel of length 0, none before the receiver
asks. A place that was given up stays in the queue, as it stays in the ring, until the receiver passes
over it. `IsAtomic` says that `PublishAll` implements `AtomicPublisher`: if subscribers that a send has
not reached yet count as having its message (`Inbox`), a send is one step that puts the message into
all inboxes that it was promised to, no more messages are promised than there is room for, and a stream ends
only after the last publisher went and all was returned. One thing the code does is left in the
abstract module on purpose: a sender that was ready when the last publisher went may send
afterwards (`late`), to a stream that has returned `None` and then returns the message. `IsAtomic` is
checked with the steady clients of its run, was also checked once with unrestricted ones (2
subscribers, 2 messages, queues of 2, 2 publishers; 542,307 states). Both are proved in section 5,
without any discipline, and so is that every behaviour of the relay is one of `PublishAll`.

`LosesOnlyOverflow` speaks of registered subscribers: a sender serves a subscriber that was dropped
before it was made no more, so what a dropped stream missed is not counted as overflow.

*Bounds.* Two subscribers are what order, cyclic waiting and "every subscriber" need; three messages
with queues of two reach a full queue, a waiting publish and a publish behind it, and with queues of one
three publishes compete for each slot. `MaxPublishers` is 2 where republishing matters and 1 where only
the last drop does. Handles and futures are used once, so their sets bound the run. The channel's two
senders compete for slots and can each hold a reservation; lengths 0, 1 and 2 are the mode of its own, a
ring of two and a ring that wraps with a released slot between used ones. The sink's second future is
what `poll_ready` races with (a client's, or its own second one); the gate needs a subscriber that is
enough, one too few and no requirement; clones come from the same set, and two subscribers are out of
TLC's reach with liveness. The relay's queue of one makes each second message wait, its three messages
cover a publish interrupted before, at and after a switch. Subscribers and futures are interchangeable:
`publish_all` and `late_subscriber`, which check invariants only, use both as symmetry sets; runs with a
temporal property use none. A finite run of the clients may simply stop, so deadlock is not checked;
that nobody waits for a wake-up that never comes is what `ReaderNotStranded`, `SenderNotStranded`,
`NoWaitCycle` and the liveness properties say instead.

*Fairness* (`SharedFairness`, `PollsWoken`, `SendersSend`, `SinglesSend`): an executor polls each task
that was created or woken, weakly fair and only while it is not in `asleep`, so a lost wake-up shows as
a starved task; a `send` or cancellation that has begun proceeds, and `publish` sends when its
`when_ready` resolves; the `Arc` of a dying publisher is released. `ReadersRead`, that a kept stream is
read when it has something, is an assumption on clients and is left out of `publish_expiring`, which is
about doing without it. `SinglesSend` also has a single publish's poll that has begun go on
(`PollGoesOn`). No action is strongly fair. `Fairness` of the channel: woken tasks poll what their
client waits for, calls that have begun go on, a client that has a reservation uses it or gives it up
(`Settles`; one that keeps it forever blocks everyone behind it, as `sync_or_async_channel.rs:289` has
it), and a receiver that is there keeps reading. `SinkFairness`: calls that have begun end, woken tasks
are polled, the readers read, and no client has to send, subscribe or close. `RelayFairness`: a woken
relay is polled, its polls end, the readers read; generators, switch and publishers owe nothing.

*Disciplines.* The progress runs of the publishers restrict the clients (module `Clients`): no
subscriber joins while a publish waits, or after the close; a publish is awaited; publishes and flushes
are done before the last publisher goes. Each is there because the code does not progress without it:
the findings drop one discipline each, and section 4 names what the others avoid. The steady runs also
have all subscribers join first and keep their streams. `publish_all`, `channel`, `sink` and `relay`
have no discipline. `publish_expiring` and `publish_single` check their safety properties with steady
clients too. For the single publisher that is what they are about: even turns are only promised to
subscribers that are there from the beginning, and a clone takes a copy of what waits. For the expiring
publisher it only keeps the run small: the theorems of section 5 show its four safety properties for
clients that do anything.

Each property has a mutant, an operator that changes one definition as a plausible bug would (a
dropped wake-up, an off-by-one, a missing guard), kept next to the definition it changes.

## 4. Findings

1. **A late subscriber can make publishes wait for each other forever** (`pubsub_core.rs:259`). A
   `when_ready` future keeps the slots it reserved while it waits for the next one. All publishes go
   through the map in the same order, which excludes a cycle, until a subscriber joins in between polls:
   one publish then holds the new subscriber's slot and waits for an old one that another publish holds,
   which waits for the new one. `pubsub_core.rs:235` promises a sender "to all of them at once". The
   counterexample needs no rehash: an insertion in front is enough.
2. **`poll_close` of a sink may never complete** (`sink.rs:152`): it polls its flush and then drops the
   publisher, whatever the poll returned. The Drop of a last publisher empties `notify_ready` without
   waking what it held (`publisher.rs:160`), so the flush, which has just registered there, is never
   polled again although the readers then read everything. `sink.rs:136` says "The flush future will
   keep the publisher around until all the subscriber messages are processed"; it keeps the core, not
   the publisher. Any `when_empty` that waits at the last drop is forgotten in the same way (hence a
   discipline in `publish_all_close`), and so is a `when_ready` future, which is why `SenderNotStranded`
   says "while a publisher exists"; for an expiring publisher it holds without that condition, as its
   futures are in `notify_waiting` as well.
3. **A stream subscribed through a weak publisher after the core is gone never ends**
   (`weak_publisher.rs:88`): its `SubCore` is made with `published: true` under the comment "Create a
   subscriber that is already closed".
4. **A single publish can sleep beside an empty queue** (`pubsub_core.rs:188`). A poll of
   `send_single_subscriber` holds the core's lock, but it locks each `SubCore`, finds it full, unlocks
   it (125-149), and locks it again later to register (188-190). The cancellation of a sender (67-79)
   and a read (`subscriber.rs:139`) take the `SubCore` alone. In the counterexample one publish holds
   the only slot of the only subscriber; a second one begins its poll and passes over that subscriber;
   the first sender is dropped, frees the slot and drains a `notify_ready` that nobody is in yet; the
   second publish registers and returns `Pending`. The reader sleeps too, as nothing was sent, so
   nothing need ever happen again, though `pubsub_core.rs:163` says "Waits for a subscriber to become
   available". What does hold is that room made after the registration is heard of (`RoomIsHeard`) and
   that a publish which is awake takes room that it finds (`RoomIsTaken`).

Other disagreements met while modelling, which no run states: a waiting `when_ready` future that is
dropped never returns its slots (the TODO at `pubsub_core.rs:263`; `SlotAccounting` counts them); a
clone does not get messages whose sender was ready before it was made, against `subscriber.rs:43`; a
weak publisher can subscribe or send while a future keeps the core alive after the last publisher
went, though `is_closed()` is true, and such a stream never ends; a single publish that waits is not
woken by a subscriber that joins (`pubsub_core.rs:163`); `expiring_publisher.rs:12` speaks of the most
recent messages where line 37 and the code expire the oldest; a relay whose publisher closes
completes "immediately" (`stream_publisher.rs:71`) only when the publish it is at ends, so not beside
a reader that does not read (`RelayEnds` assumes reading); the gate of a `BlockingPublisher` opens on
the count at a `subscribe()`, so a clone alone never opens it and it does not shut when subscribers
leave, and the Drop of the publisher cancels it, which lets those through that waited; a sink that is
polled ready twice reserves twice, and with queues of one waits for itself (`SinkReadies` excepts
it). In the channel a receive wakes only the foremost waiting sender, which may need nothing any
more: the next one sleeps on with room in the ring until the receiver finds no message; and released
slots count as waiting until the receiver passes over them.

## 5. Proofs

Eight modules hold the proofs. They are about any sets of subscribers, flushes, watchers and senders,
any finite set of futures, and any sizes, bounds and requirements: what TLC checks on one instance
they show for every one.

| Module | Theorem | States |
|---|---|---|
| `PublishAllProofs` | `InvariantHolds` | `Spec => []IInv` |
| | `TypeCorrect`, `SlotsAreAccountedFor`, `QueuesAreBounded` | `Spec =>` `[]TypeOK`, `[]SlotAccounting`, `[]QueueBound` |
| | `NoSenderIsStranded`, `NoReaderIsStranded` | `Spec =>` `[]SenderNotStranded`, `[]ReaderNotStranded` |
| | `StreamsDoNotEndEarly` | `Spec => []EndsOnlyWhenClosed` |
| | `NobodyWaitsInACircle` | `MaxQueueSize > 0 /\ OrderedSpec => []NoWaitCycle` |
| `AtomicProofs` | `SendsAreAtomic` | `Spec => IsAtomic` |
| | `OneOrder`, `DeliveredOnce` | `Spec =>` `[]SameOrder`, `[]ExactlyOnce` |
| `ExpiringProofs` | `InvariantHolds`, `QueuesAreBounded` | `Spec =>` `[]IInv`, `[]QueueBound` |
| | `NoSenderIsStranded` | `Spec => []SenderNotStranded` |
| | `NobodyGetsItTwice` | `Spec => []AtMostOnce` |
| | `TheOldestIsLost`, `OnlyOverflowIsLost` | `Spec =>` `[]LosesTheOldest`, `[]LosesOnlyOverflow` |
| `SingleProofs` | `InvariantHolds`, `QueuesAreBounded` | `Spec =>` `[]SingleInv`, `[]QueueBound` |
| | `OneSubscriberReads` | `UnclonedSpec => []OneReader` |
| | `WhoMakesRoomIsHeard` | `OrderedSpec => RoomIsHeard` |
| | `TurnsAreEven` | `EarlySpec => []EvenTurns` |
| `SyncChannelProofs` | `Invariant`, `TypeCorrect`, `ReservationsCorrect` | `Spec =>` `[]IInv`, `[]TypeOK`, `[]ReservationsHold` |
| | `ReceiverAwake`, `SenderAwake`, `FlushAwake` | `Spec =>` `[]ReceiverNotStranded`, `[]SenderNotStranded`, `[]FlushNotStranded` |
| | `ChannelIsQueue` | `Spec => IsQueue` |
| `SinkProofs` | `SinkInvariant`, `SinkTypeCorrect` | `SinkSpec =>` `[]SinkInv`, `[]SinkTypeOK` |
| | `TheGateHolds`, `NobodyIsStranded` | `SinkSpec =>` `[]GateHolds`, `[]SinkNotStranded` |
| `RelayProofs` | `RelayIsAClient` | `RelaySpec => Spec` of `PublishAll` |
| | `RelayTypeCorrect`, `RelayIsNotStranded` | `RelaySpec =>` `[]RelayTypeOK`, `[]RelayNotStranded` |
| | `RelaysEverything` | `RelaySpec => []RelaysAll` |

*Assumptions* are the named ones of the modules: the three of `PubSubCore` (futures are finite in
number, the four kinds of tasks are disjoint, the sizes are numbers), `SendersAssumption`,
`MessagesAssumption` and `LensAssumption` of the channel (names differ from the marks of the ring, and
there are finitely many), `RequiredAssumption` and `ClientTaskAssumption` of the sink,
`ClosedAssumption` and `CarriedAssumption` of the relay.

No theorem assumes fairness. Four assume a discipline of the clients (module `Clients`), because without
it the property is false, and each assumes the one it needs and no other; the steady clients of the runs
keep all of them. `NoWaitCycle` needs that no subscriber joins while a publish waits (run
`late_subscriber` is the counterexample without) and a queue that holds something, as with
`MaxQueueSize` 0 a publish waits for itself. `RoomIsHeard` of the single publisher needs the same
discipline: a waiting publish is not registered with a subscriber that joins. `OneReader` needs that
nobody clones a stream with messages in its queue, which a clone copies; `EvenTurns` that all
subscribers join first.

### The core (`CoreProofs`)

`TypeOK` is not inductive: a send and a cancellation subtract one from `reserved`, a
`usize`. `SlotAccounting` says that each slot still held is counted, hence that there is one to
subtract (`HeldSlotCounts`). It needs in turn that nobody holds a slot of a handle that was never
given out, whose count starts at zero (`Registry`). `IInv` is the three together. `SharedKinds` and
`SenderKinds` sort the steps of every kind of publisher by what they do to the slots: `Keeps`,
`Joins`, `Reserves` and `Releases`; `KindsRegistry`, `KindsAccounting` and `KindsBound` then have four
cases each, and each publisher adds only that its own polls reserve, and where they find room.

Order is an invariant of what each subscriber has got, `Delivered(s)`: no message twice (`NoneTwice`),
any two subscribers consistent (`InOrder`), a message that is being sent is the last one wherever it is
and nowhere it is still owed (`Newest`), and a stream that was never made has nothing (`NewIsEmpty`).
`Newest` is what makes the order inductive: an append of the last message everywhere cannot reverse
two messages. Together they are `OrderInv`, kept by whatever appends a message that is being sent,
takes a copy, or leaves a message out (`Thinned`), which is what the expiring publisher does.

### Every subscriber (`PublishAllProofs`, `AtomicProofs`)

A reservation is never made at a full subscriber, because `PollBlocked` stops at the first one in map
order. `SenderNotStranded` is inductive with `IInv`: every step either wakes a sleeping future or
keeps the subscriber it is registered with full, registered and wanted (`SleepersStillAwait`, which
holds of any step but the Drop of the last publisher; the sink and the relay use it too). For
`ReaderNotStranded` the strengthening is `ReaderInv`: a sleeping stream is alive and either collected
by the send in progress or still in the `notify_waiting` that sends and the last Drop look at, and
wakers are only collected under the lock. For `EndsOnlyWhenClosed` it is `EndInv`: a stream that lost
its publisher, by the last Drop or as a clone made without a core, exists only once no publisher does.
For `NoWaitCycle` it is `WaitInv`: two subscribers never have one place in the map, and a waiting
publish holds what comes before some place. In a circle somebody waits at the latest place that is
waited at; whoever holds the slots there waits later still (`NoCircle`).

`SendsAreAtomic` is a step simulation: initial states map to initial states, and each action of
`PublishAll` to one of `AtomicPublisher` or a stutter. `SendLock` is the abstract `Send`; the pushes
and the unlock are stutters, because `Inbox` had the message already. It rests on `SenderInv` (one
future is sending at most, to targets that exist and only under the lock; while nobody sends, no
inbox differs from its queue), on `SlotAccounting` and `QueueBound`, which show that a
`when_ready` that finds room everywhere finds room for the promises that `AtomicPublisher` counts,
and on `EndInv` for the ends. `OneOrder` is `InOrder`, and `DeliveredOnce` needs that all who were
served have the message (`AllServed`).

### Expiring (`ExpiringProofs`)

A sleeping publish waits at a subscriber that is full of reservations, in `notify_ready` and in
`notify_waiting`; a step wakes it or leaves all that as it is (`Waits`, `Stays`), the last Drop
included. `AudienceInv` ties a message's state to its targets: who was served and does not have it has
lost it (`Missed`). What a poll expires is the first message of its queue, so `OldestInv`, that what was
missed is older than all that still waits, only has to consider that message. `OverflowInv` counts: a
full queue holds as many messages and reservations as its size, each of them one that the subscriber
was reserved for, and the message that goes is one more (`Counted`). That is true of a queue without
messages of another audience, and a clone starts with a copied queue; `OwnLast` says that those come
first, so when one of its own goes, all that wait are its own. It is false of a subscriber that left,
whose slots are forgotten when the sender is made.

### Single (`SingleProofs`)

`SingleInv` adds to `IInv` that a future holds a slot only between grant and send, of its one target
(`GrantInv`), that no handle has two turns and that one poll at most is under way, which the core's lock
sees to (`PollInv`). `OneReader` is inductive as "each sent message has one place in one queue"
(`ReadInv`). For `EvenTurns`, `RoundInv` says that there is a number of rounds that nobody exceeds with
its grants and the turn it is due, and that everybody who was never full has reached; a refill of the
turn list, with every handle once, is the next round, and it needs that who is full has as many grants
as its queue is long (`SizeInv`). For `RoomIsHeard` the strengthening is `HeardInv`: a poll comes to its
registrations only after its last turn, and a publish that has come past a subscriber is in its
`notify_ready`, until a step of that subscriber wakes it. Whether there is room at that time the
invariant does not say, and finding 4 is why it cannot.

### Channel (`SyncChannelProofs`)

The indices of the ring are counted from `read_idx` by `Steps` and `On`, remainders whose arithmetic is
proved once. `RingOK` says which slots are in use (`Window`: those between the indices, no others) and is
shown of each thing a call does to the ring: store, push, pass, open, shrink. `IInv` adds that a
reservation is a reserved slot of its holder's own and each reserved slot somebody's
(`HoldersHold`, `ReservedHeld`), that `closed_count` is its name, and that a client waits only between
calls. The three theorems about sleepers follow with it, one step at a time: whoever changes what a
sleeper waits for drains the list it is in. `ChannelIsQueue` is a step simulation over `Places`: a step
leaves the queue as it was, appends to it, fills a place (`QueueSettled`) or takes the head and what
was released behind it (`QueuePassed`).

### Sink and relay (`SinkProofs`, `RelayProofs`)

Every step of the sink is one of `PublishAll`'s on the same variables, or sends a task to sleep at the
gate (`SinkMoves`, `NapIInv`), so `IInv` is kept; `Held` says that the sink's Options hold begun tasks
of its own, none of them twice. `Gated` says that an open gate has seen enough streams and that a shut
one, while a publisher exists, stops all futures that have begun; streams that joined stay counted
(`JoinedGrows`), so a count that is taken after the lock was released is not less.

`RelayIsAClient` shows that the relay's steps are `PublishAll`'s or leave it alone, so all that is proved
above holds of it. `PollStages` ties its Option to where its poll is. `Watched` says that the last Drop will
wake it from the first poll that reads the stream on; `Sleeping` that a relay nobody woke waits at a full
subscriber, or at an open publisher and a stream that keeps its waker. `Carried` says that all messages
but the latest were sent, and the latest too when the relay reads again; `Copies` that a subscriber has
all that was yielded from when it joined (`joined`), up to the one it is owed.

### Only model-checked

The liveness properties: `PublishCompletes`, `MessagesArrive`, `StreamsEnd`, `FlushCompletes`,
`CloseSeen`, `RoomIsTaken`, `AllArrives`, `WaitersServed`, `SinkReadies`, `RelayEnds`. They rest on
fairness and `ENABLED`, which the provers do not reach. Nothing is proved by induction over data: the
library's induction theorems cannot be instantiated, and least elements of well-founded orders
(`MinimalNumber`, `NoCircle`) stand in where one is needed.

## 6. Not modelled, and what is left

Not modelled: generators that yield without awaiting, or from another thread (a second item
overwrites the first, and nobody promises otherwise); a switch that is used or owned by the stream it
switches, which takes a lock it holds; `TryPublishError` (data); the content of messages; poisoned
mutexes and panics of client code. `when_fully_subscribed` by itself is the gated half of the futures
that `PublisherSink` models. Weak and blocking publishers share the code of the models they appear
in; a relay to a strong publisher differs from one to a weak publisher only in that the publisher
does not go while the relay is there.

What is left: no safety invariant of a passing run is without a theorem. What the generator and the
switching stream promise is stated and proved through the relay that reads them (`Sleeping`,
`Carried`), not of each by itself. The properties of the violation runs are false, by the findings,
and the liveness properties stay with TLC (section 5).
