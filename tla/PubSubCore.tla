----------------------------- MODULE PubSubCore -----------------------------
(***************************************************************************)
(* The state that a publisher shares with its subscribers, and every        *)
(* operation on it that does not depend on the kind of publisher:           *)
(* src/src/pubsub_core.rs (PubCore, SubCore, CoreClosedFuture),             *)
(* subscriber.rs, and the parts of publisher.rs, single_publisher.rs and    *)
(* expiring_publisher.rs that are the same text in all three.  How a        *)
(* when_ready future reserves slots differs per kind: PublishAll,           *)
(* PublishExpiring and PublishSingle extend this module with it.            *)
(*                                                                          *)
(* One action is one critical section of the code.  The tasks are the       *)
(* streams, the when_ready futures (which also name the one message they    *)
(* carry), the when_empty futures (Flush) and the when_closed futures       *)
(* (Watcher).  `asleep' holds the tasks whose last poll returned Pending    *)
(* and whose waker has not been called since; a task may be polled while    *)
(* asleep, but only a task that is awake must be.  A waker is called at     *)
(* the end of the critical section that drained it: the code calls it just  *)
(* after, and a task that is polled in between is merely polled once more.  *)
(***************************************************************************)
EXTENDS Naturals, FiniteSets, Sequences, Functions

CONSTANTS
    Subscriber,     \* the handles that subscribers are given
    Future,         \* when_ready futures, each one carrying the message of that name
    Flush,          \* when_empty futures
    Watcher,        \* when_closed futures
    MaxQueueSize,   \* PubCore.max_queue_size, the buffer_size of new()
    MaxPublishers   \* bound: strong publishers alive at any one time

ASSUME FutureAssumption == IsFiniteSet(Future)
ASSUME TasksAssumption ==
    /\ Subscriber \cap Future = {} /\ Subscriber \cap Flush = {}
    /\ Subscriber \cap Watcher = {} /\ Future \cap Flush = {}
    /\ Future \cap Watcher = {} /\ Flush \cap Watcher = {}
ASSUME SizesAssumption == MaxQueueSize \in Nat /\ MaxPublishers \in Nat \ {0}

VARIABLES
    (* PubCore *)
    publisher_count,
    subscribers,    \* handle -> its place in the iteration order of the HashMap
    notify_closed,
    closing,        \* publisher_count is 0 but a dying publisher still owns its Arc
    (* SubCore, one per handle *)
    published, reserved, waiting, notify_waiting, notify_ready,
    (* the tasks that use them *)
    stream,         \* what became of a Subscriber: none, live, dropped
    future,         \* what became of a when_ready future and of its MessageSender
    slots,          \* reserved_ids of a future, then the targets its sender has yet to serve
    flush, watcher, \* what became of a when_empty or a when_closed future
    wakers,         \* waiting_wakers of the sender that is holding the core's lock
    asleep,
    (* history: what the clients have seen *)
    received,       \* the messages a stream has returned
    ended,          \* the streams that have returned None
    audience        \* the subscribers a sender was created for

coreVars == <<publisher_count, subscribers, notify_closed, closing>>
subVars  == <<published, reserved, waiting, notify_waiting, notify_ready>>
taskVars == <<stream, future, slots, flush, watcher, wakers, asleep>>
history  == <<received, ended, audience>>
vars     == <<coreVars, subVars, taskVars, history>>

FutureState == {"none", "waiting", "polling", "ready", "sending", "cancelling", "granted",
                "sent", "cancelled", "dropped", "void"}
TaskState   == {"none", "waiting", "done", "dropped"}

Registered == DOMAIN subscribers
QueueSize(s) == Len(waiting[s]) + reserved[s]

\* Mutants, here and below: a slip in the definition that follows, which a property has to notice.
FullOffByOne(s) == QueueSize(s) > MaxQueueSize

Full(s) == QueueSize(s) >= MaxQueueSize

\* pub_core's mutex: other critical sections are one step, so only a sender, and the poll of a
\* single publisher's future, are seen holding it.
CoreUnlocked == \A f \in Future : future[f] \notin {"sending", "polling"}

\* Weak::upgrade succeeds: a publisher, a future or a sender owns an Arc of the core.
CoreAlive ==
    \/ publisher_count > 0 \/ closing
    \/ \E f \in Future : future[f] \in {"waiting", "polling", "ready", "sending", "cancelling"}
    \/ \E e \in Flush : flush[e] = "waiting"

\* The subscriber that a loop over the map meets first among S.
IsFirst(s, S) == s \in S /\ \A t \in S : subscribers[s] <= subscribers[t]

-----------------------------------------------------------------------------
Init ==
    /\ publisher_count = 1
    /\ subscribers = [s \in {} |-> 0]
    /\ notify_closed = {}
    /\ closing = FALSE
    /\ published = [s \in Subscriber |-> FALSE]
    /\ reserved = [s \in Subscriber |-> 0]
    /\ waiting = [s \in Subscriber |-> <<>>]
    /\ notify_waiting = [s \in Subscriber |-> {}]
    /\ notify_ready = [s \in Subscriber |-> {}]
    /\ stream = [s \in Subscriber |-> "none"]
    /\ future = [f \in Future |-> "none"]
    /\ slots = [f \in Future |-> {}]
    /\ flush = [e \in Flush |-> "none"]
    /\ watcher = [c \in Watcher |-> "none"]
    /\ wakers = {} /\ asleep = {}
    /\ received = [s \in Subscriber |-> <<>>]
    /\ ended = {}
    /\ audience = [f \in Future |-> {}]

-----------------------------------------------------------------------------
(* Publishers: republish and Drop *)

Republish ==
    /\ publisher_count \in 1 .. (MaxPublishers - 1)
    /\ CoreUnlocked
    /\ publisher_count' = publisher_count + 1
    /\ UNCHANGED <<subscribers, notify_closed, closing, subVars, taskVars, history>>

DropPublisher ==
    /\ publisher_count > 1
    /\ CoreUnlocked
    /\ publisher_count' = publisher_count - 1
    /\ UNCHANGED <<subscribers, notify_closed, closing, subVars, taskVars, history>>

\* The tasks that the last publisher wakes; those in notify_ready are forgotten, not woken.
ClosingWakers == notify_closed \cup UNION {notify_waiting[s] : s \in Registered}

CloseCore(woken) ==
    /\ CoreUnlocked
    /\ publisher_count' = publisher_count - 1
    /\ closing' = TRUE
    /\ notify_closed' = {}
    /\ published' = [s \in Subscriber |-> published[s] /\ s \notin Registered]
    /\ notify_ready' = [s \in Subscriber |-> IF s \in Registered THEN {} ELSE notify_ready[s]]
    /\ notify_waiting' = [s \in Subscriber |-> IF s \in Registered THEN {} ELSE notify_waiting[s]]
    /\ asleep' = asleep \ woken
    /\ UNCHANGED <<subscribers, reserved, waiting, stream, future, slots, flush, watcher,
                   wakers, history>>

DropAnyCloses == publisher_count > 0 /\ CloseCore(ClosingWakers)
DropForgetsStreams == publisher_count = 1 /\ CloseCore(notify_closed)
DropForgetsClosed == publisher_count = 1 /\ CloseCore(ClosingWakers \ notify_closed)

DropLastPublisher == publisher_count = 1 /\ CloseCore(ClosingWakers)

\* The Arc that a dying publisher (or an upgrade made before it died) owned is released.
ReleaseCore ==
    /\ closing
    /\ closing' = FALSE
    /\ UNCHANGED <<publisher_count, subscribers, notify_closed, subVars, taskVars, history>>

-----------------------------------------------------------------------------
(* Subscribers: subscribe, resubscribe, Drop and poll_next *)

NewSubCore(s, isPublished, queue) ==
    /\ stream[s] = "none"
    /\ stream' = [stream EXCEPT ![s] = "live"]
    /\ published' = [published EXCEPT ![s] = isPublished]
    /\ reserved' = [reserved EXCEPT ![s] = 0]
    /\ waiting' = [waiting EXCEPT ![s] = queue]
    /\ notify_waiting' = [notify_waiting EXCEPT ![s] = {}]
    /\ notify_ready' = [notify_ready EXCEPT ![s] = {}]
    /\ UNCHANGED <<publisher_count, notify_closed, closing, future, slots, flush, watcher,
                   wakers, asleep, history>>

\* A HashMap may iterate in any order, and an insertion may rehash it into any other.
Layouts(S) == Injection(S, 1 .. Cardinality(S))

Attach(s, queue) ==
    /\ CoreUnlocked
    /\ NewSubCore(s, TRUE, queue)
    /\ subscribers' \in Layouts(Registered \cup {s})

Subscribe(s) == publisher_count > 0 /\ Attach(s, <<>>)

Resubscribe(s, t) ==
    /\ stream[s] = "live"
    /\ CoreAlive
    /\ Attach(t, waiting[s])

ResubscribeClosed(s, t) ==
    /\ stream[s] = "live"
    /\ ~CoreAlive
    /\ NewSubCore(t, FALSE, waiting[s])
    /\ UNCHANGED subscribers

Detach(s, woken) ==
    /\ stream[s] = "live"
    /\ CoreUnlocked
    /\ stream' = [stream EXCEPT ![s] = "dropped"]
    /\ subscribers' = Restrict(subscribers, Registered \ {s})
    /\ notify_ready' = [notify_ready EXCEPT ![s] = {}]
    /\ asleep' = asleep \ (woken \cup {s})
    /\ UNCHANGED <<publisher_count, notify_closed, closing, published, reserved, waiting,
                   notify_waiting, future, slots, flush, watcher, wakers, history>>

DropSubscriberSilently(s) == Detach(s, {})

DropSubscriber(s) == Detach(s, notify_ready[s])

\* poll_next, a message is waiting.  It locks the sub_core alone, so it may run during a send.
TakeMessage(s, woken) ==
    /\ stream[s] = "live"
    /\ waiting[s] # <<>>
    /\ waiting' = [waiting EXCEPT ![s] = Tail(@)]
    /\ received' = [received EXCEPT ![s] = Append(@, Head(waiting[s]))]
    /\ notify_ready' = [notify_ready EXCEPT ![s] = {}]
    /\ asleep' = asleep \ (woken \cup {s})
    /\ UNCHANGED <<coreVars, published, reserved, notify_waiting, stream, future, slots,
                   flush, watcher, wakers, ended, audience>>

PollMessageSilently(s) == TakeMessage(s, {})

PollMessage(s) == TakeMessage(s, notify_ready[s])

\* poll_next, the queue is empty and the publisher is gone
PollEnded(s) ==
    /\ stream[s] = "live"
    /\ waiting[s] = <<>>
    /\ ~published[s]
    /\ ended' = ended \cup {s}
    /\ asleep' = asleep \ {s}
    /\ UNCHANGED <<coreVars, subVars, stream, future, slots, flush, watcher, wakers,
                   received, audience>>

\* poll_next, the queue is empty
PollPending(s) ==
    /\ stream[s] = "live"
    /\ waiting[s] = <<>>
    /\ published[s]
    /\ notify_waiting' = [notify_waiting EXCEPT ![s] = @ \cup {s}]
    /\ notify_ready' = [notify_ready EXCEPT ![s] = {}]
    /\ asleep' = (asleep \ notify_ready[s]) \cup {s}
    /\ UNCHANGED <<coreVars, published, reserved, waiting, stream, future, slots, flush,
                   watcher, wakers, history>>

PollNext(s) == PollMessage(s) \/ PollEnded(s) \/ PollPending(s)

-----------------------------------------------------------------------------
(* when_ready futures: creation and drop; polling belongs to the kind of publisher *)

StartFuture(f) ==
    /\ future[f] = "none"
    /\ future' = [future EXCEPT ![f] = "waiting"]
    /\ UNCHANGED <<coreVars, subVars, stream, slots, flush, watcher, wakers, asleep, history>>

WhenReady(f) == publisher_count > 0 /\ StartFuture(f)

\* The future goes away with its reserved_ids: the slots it holds are never returned.
DropFuture(f) ==
    /\ future[f] = "waiting"
    /\ future' = [future EXCEPT ![f] = "dropped"]
    /\ asleep' = asleep \ {f}
    /\ UNCHANGED <<coreVars, subVars, stream, slots, flush, watcher, wakers, history>>

-----------------------------------------------------------------------------
(* when_empty futures *)

StartFlush(e) ==
    /\ flush[e] = "none"
    /\ flush' = [flush EXCEPT ![e] = "waiting"]
    /\ UNCHANGED <<coreVars, subVars, stream, future, slots, watcher, wakers, asleep, history>>

WhenEmpty(e) == publisher_count > 0 /\ StartFlush(e)

NonEmpty == {s \in Registered : QueueSize(s) > 0}

PollFlushed(e) ==
    /\ flush[e] = "waiting"
    /\ CoreUnlocked
    /\ NonEmpty = {}
    /\ flush' = [flush EXCEPT ![e] = "done"]
    /\ asleep' = asleep \ {e}
    /\ UNCHANGED <<coreVars, subVars, stream, future, slots, watcher, wakers, history>>

PollUnflushed(e) ==
    /\ flush[e] = "waiting"
    /\ CoreUnlocked
    /\ \E s \in NonEmpty :
        /\ IsFirst(s, NonEmpty)
        /\ notify_ready' = [notify_ready EXCEPT ![s] = @ \cup {e}]
    /\ asleep' = asleep \cup {e}
    /\ UNCHANGED <<coreVars, published, reserved, waiting, notify_waiting, stream, future,
                   slots, flush, watcher, wakers, history>>

DropFlush(e) ==
    /\ flush[e] = "waiting"
    /\ flush' = [flush EXCEPT ![e] = "dropped"]
    /\ asleep' = asleep \ {e}
    /\ UNCHANGED <<coreVars, subVars, stream, future, slots, watcher, wakers, history>>

-----------------------------------------------------------------------------
(* when_closed futures: CoreClosedFuture, which owns a Weak reference to the core *)

StartWatcher(c) ==
    /\ watcher[c] = "none"
    /\ watcher' = [watcher EXCEPT ![c] = "waiting"]
    /\ UNCHANGED <<coreVars, subVars, stream, future, slots, flush, wakers, asleep, history>>

WhenClosed(c) == publisher_count > 0 /\ StartWatcher(c)

PollClosed(c) ==
    /\ watcher[c] = "waiting"
    /\ CoreUnlocked
    /\ publisher_count = 0
    /\ watcher' = [watcher EXCEPT ![c] = "done"]
    /\ asleep' = asleep \ {c}
    /\ UNCHANGED <<coreVars, subVars, stream, future, slots, flush, wakers, history>>

PollOpen(c) ==
    /\ watcher[c] = "waiting"
    /\ CoreUnlocked
    /\ publisher_count > 0
    /\ notify_closed' = notify_closed \cup {c}
    /\ asleep' = asleep \cup {c}
    /\ UNCHANGED <<publisher_count, subscribers, closing, subVars, stream, future, slots,
                   flush, watcher, wakers, history>>

DropWatcher(c) ==
    /\ watcher[c] = "waiting"
    /\ CoreUnlocked
    /\ watcher' = [watcher EXCEPT ![c] = "dropped"]
    /\ notify_closed' = notify_closed \ {c}
    /\ asleep' = asleep \ {c}
    /\ UNCHANGED <<publisher_count, subscribers, closing, subVars, stream, future, slots,
                   flush, wakers, history>>

-----------------------------------------------------------------------------
\* Every operation that the three kinds of publisher share.
SharedNext ==
    \/ Republish \/ DropPublisher \/ DropLastPublisher \/ ReleaseCore
    \/ \E s \in Subscriber : Subscribe(s) \/ DropSubscriber(s) \/ PollNext(s)
    \/ \E s, t \in Subscriber : Resubscribe(s, t) \/ ResubscribeClosed(s, t)
    \/ \E f \in Future : WhenReady(f) \/ DropFuture(f)
    \/ \E e \in Flush : WhenEmpty(e) \/ PollFlushed(e) \/ PollUnflushed(e) \/ DropFlush(e)
    \/ \E c \in Watcher : WhenClosed(c) \/ PollClosed(c) \/ PollOpen(c) \/ DropWatcher(c)

\* An executor polls a task that was woken (or never polled), and a dying Arc is released.
SharedFairness ==
    /\ WF_vars(ReleaseCore)
    /\ \A e \in Flush : WF_vars(e \notin asleep /\ (PollFlushed(e) \/ PollUnflushed(e)))
    /\ \A c \in Watcher : WF_vars(c \notin asleep /\ (PollClosed(c) \/ PollOpen(c)))

\* The client of a subscriber keeps reading its stream: an assumption about the clients.
ReadersRead == \A s \in Subscriber : WF_vars(s \notin asleep /\ PollNext(s))

-----------------------------------------------------------------------------
(* What is promised whatever the kind of publisher *)

\* Every variable has the type the code gives it; `reserved', a usize, never goes below zero.
TypeOK ==
    /\ publisher_count \in 0 .. MaxPublishers
    /\ Registered \subseteq Subscriber
    /\ subscribers \in [Registered -> Nat]
    /\ notify_closed \subseteq Watcher
    /\ closing \in BOOLEAN
    /\ published \in [Subscriber -> BOOLEAN]
    /\ reserved \in [Subscriber -> Nat]
    /\ waiting \in [Subscriber -> Seq(Future)]
    /\ notify_waiting \in [Subscriber -> SUBSET (Subscriber \cup Future)]
    /\ notify_ready \in [Subscriber -> SUBSET (Future \cup Flush)]
    /\ stream \in [Subscriber -> {"none", "live", "dropped"}]
    /\ future \in [Future -> FutureState]
    /\ slots \in [Future -> SUBSET Subscriber]
    /\ flush \in [Flush -> TaskState]
    /\ watcher \in [Watcher -> TaskState]
    /\ wakers \subseteq Subscriber \cup Future
    /\ asleep \subseteq Subscriber \cup Future \cup Flush \cup Watcher
    /\ received \in [Subscriber -> Seq(Future)]
    /\ ended \subseteq Subscriber
    /\ audience \in [Future -> SUBSET Subscriber]

\* max_queue_size bounds the messages and the reservations of a subscriber, whoever raced for its
\* slots: every reservation in pubsub_core.rs is made under a check that may be stale by the send.
QueueBound == \A s \in Subscriber : QueueSize(s) <= MaxQueueSize

Holders(s) == {f \in Future : s \in slots[f]}

\* `reserved' counts exactly the futures and senders that hold a slot of a registered subscriber
\* (those that were dropped with their slots included), so no send or cancellation takes it below
\* zero and no slot is given out twice.  A dropped subscriber may only count too many.
SlotAccounting ==
    \A s \in Subscriber :
        /\ Cardinality(Holders(s)) <= reserved[s]
        /\ s \in Registered => reserved[s] = Cardinality(Holders(s))

\* All that was ever put in the queue of s and not expired, in order
Delivered(s) == received[s] \o waiting[s]

Occurrences(f, queue) == Cardinality({i \in DOMAIN queue : queue[i] = f})

\* A stream that was polled and is not going to be woken has nothing to return: no message, and no
\* end of stream.  (poll_next registers in notify_waiting; send_message and Drop drain it.)
ReaderNotStranded ==
    \A s \in asleep \cap Subscriber :
        (waiting[s] = <<>> /\ published[s]) \/ s \in wakers

\* A stream ends only when every strong publisher has been dropped, however often they were
\* republished (publisher.rs:16).
EndsOnlyWhenClosed == \A s \in ended : publisher_count = 0

\* Once the last strong publisher is dropped, each stream that is kept comes to its end
\* (publisher.rs:16, weak_publisher.rs:15).
StreamsEnd ==
    \A s \in Subscriber :
        stream[s] = "live" /\ publisher_count = 0 ~> s \in ended \/ stream[s] = "dropped"

\* A when_empty future that is kept resolves (message_publisher.rs:43), its readers reading.
FlushCompletes == \A e \in Flush : flush[e] = "waiting" ~> flush[e] # "waiting"

\* A when_closed future that is kept resolves once the last strong publisher is dropped.
CloseSeen ==
    \A c \in Watcher : watcher[c] = "waiting" /\ publisher_count = 0 ~> watcher[c] # "waiting"
=============================================================================
