--------------------------- MODULE PublishSingle ---------------------------
(***************************************************************************)
(* SinglePublisher (src/src/single_publisher.rs): each message goes to one  *)
(* subscriber.  A when_ready future runs PubCore::send_single_subscriber    *)
(* (src/src/pubsub_core.rs), which takes the subscribers in turns.  Its     *)
(* MessageSender ("granted") owns the subscriber's Arc alone: it neither    *)
(* locks the core nor keeps it alive.                                       *)
(***************************************************************************)
EXTENDS PubSubCore

VARIABLES
    turns,          \* PubCore.waiting: the subscribers whose turn is yet to come, the next one last
    refilled,       \* the poll in progress has filled the list again
    unregistered    \* the subscribers that the poll in progress has yet to register with

pollVars == <<turns, refilled, unregistered>>
allVars  == <<vars, pollVars>>

SingleInit == Init /\ turns = <<>> /\ refilled = FALSE /\ unregistered = {}

HasRoom(s) == s \in Registered /\ ~Full(s)

-----------------------------------------------------------------------------
(* The poll of a when_ready future.  It holds the core's lock, but looks at one sub_core after   *)
(* the other and lets go of each: streams are read, and senders send and are cancelled, meanwhile. *)

\* The future is asleep from here on: a waker that is called during the poll gets it polled again.
BeginPoll(f, queue) ==
    /\ future[f] = "waiting"
    /\ CoreUnlocked
    /\ future' = [future EXCEPT ![f] = "polling"]
    /\ asleep' = asleep \cup {f}
    /\ turns' = queue
    /\ UNCHANGED <<coreVars, subVars, stream, slots, flush, watcher, wakers, history, refilled,
                   unregistered>>

PollBeginsAfresh(f) == BeginPoll(f, <<>>)

PollBegins(f) == BeginPoll(f, turns)

\* poll_waiting_subscribers pops handles until it finds one that is registered and has room.
IsPopped(f, s) ==
    /\ future[f] = "polling"
    /\ turns # <<>> /\ s = turns[Len(turns)]
    /\ turns' = SubSeq(turns, 1, Len(turns) - 1)

PassesOver(f, s) ==
    /\ IsPopped(f, s)
    /\ ~HasRoom(s)
    /\ UNCHANGED <<vars, refilled, unregistered>>

TakesTurn(f, s) ==
    /\ IsPopped(f, s)
    /\ HasRoom(s)
    /\ reserved' = [reserved EXCEPT ![s] = @ + 1]
    /\ future' = [future EXCEPT ![f] = "granted"]
    /\ slots' = [slots EXCEPT ![f] = {s}]
    /\ audience' = [audience EXCEPT ![f] = {s}]
    /\ asleep' = asleep \ {f}
    /\ refilled' = FALSE /\ unregistered' = {}
    /\ UNCHANGED <<coreVars, published, waiting, notify_waiting, notify_ready, stream, flush,
                   watcher, wakers, received, ended>>

\* fill_waiting_subscribers: every handle, in the order of the map
AllTurns ==
    {queue \in Injection(1 .. Cardinality(Registered), Registered) :
        \A i, j \in DOMAIN queue : i < j => subscribers[queue[i]] < subscribers[queue[j]]}

\* When no turns are left, the list is filled again, once in a poll.
Refill(f, queues) ==
    /\ future[f] = "polling"
    /\ turns = <<>> /\ ~refilled
    /\ turns' \in queues
    /\ refilled' = TRUE
    /\ unregistered' = Registered
    /\ UNCHANGED vars

RefillsNothing(f) == Refill(f, {<<>>})

Refills(f) == Refill(f, AllTurns)

\* Each subscriber was full when it was looked at, or there is none: the future registers with one
\* after the other.  Some may have room by now.
Register(f, s, rest) ==
    /\ future[f] = "polling"
    /\ turns = <<>> /\ refilled
    /\ IsFirst(s, unregistered)
    /\ notify_ready' = [notify_ready EXCEPT ![s] = @ \cup {f}]
    /\ unregistered' = rest
    /\ UNCHANGED <<coreVars, published, reserved, waiting, notify_waiting, taskVars, history,
                   turns, refilled>>

RegistersOnce(f, s) == Register(f, s, {})

Registers(f, s) == Register(f, s, unregistered \ {s})

PollPends(f) ==
    /\ future[f] = "polling"
    /\ turns = <<>> /\ refilled /\ unregistered = {}
    /\ future' = [future EXCEPT ![f] = "waiting"]
    /\ refilled' = FALSE
    /\ UNCHANGED <<coreVars, subVars, stream, slots, flush, watcher, wakers, asleep, history,
                   turns, unregistered>>

PollGoesOn(f) ==
    \/ \E s \in Subscriber : PassesOver(f, s) \/ TakesTurn(f, s) \/ Registers(f, s)
    \/ Refills(f) \/ PollPends(f)

-----------------------------------------------------------------------------
(* The MessageSender *)

\* send_single_message
SendSingleTo(f, s, after) ==
    /\ future[f] = "granted"
    /\ s \in slots[f]
    /\ future' = [future EXCEPT ![f] = after]
    /\ reserved' = [reserved EXCEPT ![s] = @ - 1]
    /\ waiting' = [waiting EXCEPT ![s] = Append(@, f)]
    /\ notify_waiting' = [notify_waiting EXCEPT ![s] = {}]
    /\ asleep' = asleep \ notify_waiting[s]
    /\ slots' = [slots EXCEPT ![f] = IF after = "sent" THEN {} ELSE @]
    /\ UNCHANGED <<coreVars, published, notify_ready, stream, flush, watcher, wakers, history,
                   pollVars>>

SendSingleReusable(f, s) == SendSingleTo(f, s, "granted")

SendSingle(f, s) == SendSingleTo(f, s, "sent")

\* cancel_send
GiveBackSingle(f, s, woken) ==
    /\ future[f] = "granted"
    /\ s \in slots[f]
    /\ future' = [future EXCEPT ![f] = "cancelled"]
    /\ reserved' = [reserved EXCEPT ![s] = @ - 1]
    /\ notify_ready' = [notify_ready EXCEPT ![s] = {}]
    /\ asleep' = asleep \ woken
    /\ slots' = [slots EXCEPT ![f] = {}]
    /\ UNCHANGED <<coreVars, published, waiting, notify_waiting, stream, flush, watcher, wakers,
                   history, pollVars>>

CancelSingleSilently(f, s) == GiveBackSingle(f, s, {})

CancelSingle(f, s) == GiveBackSingle(f, s, notify_ready[s])

SingleNext ==
    \/ SharedNext /\ UNCHANGED pollVars
    \/ \E f \in Future :
        \/ PollBegins(f) \/ PollGoesOn(f)
        \/ \E s \in Subscriber : SendSingle(f, s) \/ CancelSingle(f, s)

Spec == SingleInit /\ [][SingleNext]_allVars

\* An executor polls a future that was woken, a poll that has begun goes on, and publish() sends as
\* soon as it has its sender.
SinglesSend ==
    \A f \in Future :
        /\ WF_allVars(f \notin asleep /\ PollBegins(f))
        /\ WF_allVars(PollGoesOn(f))
        /\ WF_allVars(\E s \in Subscriber : SendSingle(f, s))

-----------------------------------------------------------------------------
Places(f) ==
    UNION {{<<s, i>> : i \in {k \in DOMAIN Delivered(s) : Delivered(s)[k] = f}} : s \in Subscriber}

\* A message that was sent is in one queue and there once, a message that was not is in none, as
\* long as no subscriber is cloned with what waits for it ("sends each message to only a single
\* subscriber", single_publisher.rs:12).
OneReader == \A f \in Future : Cardinality(Places(f)) = IF future[f] = "sent" THEN 1 ELSE 0

Grants(s) == Cardinality({f \in Future : s \in audience[f]})

\* Of subscribers that were there from the first publish on, one that was granted less than its
\* queue holds, hence was never full, is never two turns behind another ("so we send messages
\* evenly to all subscribers", pubsub_core.rs:169).
EvenTurns ==
    \A s, t \in Registered : Grants(t) < MaxQueueSize => Grants(s) <= Grants(t) + 1

\* f sleeps, or would if its poll ended now, and has come past s with its registrations.
Awaits(f, s) ==
    /\ f \in asleep
    /\ \/ future[f] = "waiting"
       \/ future[f] = "polling" /\ turns = <<>> /\ refilled /\ s \notin unregistered

\* While a publisher exists, whoever makes room in a subscriber, by reading, or by giving a slot back,
\* wakes each publish that has registered with it, whatever else came between the registrations
\* ("Wake when a subscriber is available", pubsub_core.rs:192).
RoomIsHeard ==
    [][\A f \in Future, s \in Registered :
          publisher_count > 0 /\ Awaits(f, s) /\ QueueSize(s)' < QueueSize(s) => f \notin asleep'
      ]_allVars

SomeHasRoom == \E s \in Registered : HasRoom(s)

\* A publish that is awake while there is room gets its sender, unless others take the room.
RoomIsTaken ==
    \A f \in Future :
        future[f] = "waiting" /\ f \notin asleep /\ SomeHasRoom
            ~> future[f] \notin {"waiting", "polling"} \/ ~SomeHasRoom

\* A publish that waits forever has no subscriber with room forever ("Waits for a subscriber to
\* become available", pubsub_core.rs:163).
AvailableIsUsed ==
    \A f \in Future :
        <>[](future[f] \in {"waiting", "polling"}) => ~<>[]SomeHasRoom
=============================================================================
