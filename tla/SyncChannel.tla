---------------------------- MODULE SyncChannel ----------------------------
(***************************************************************************)
(* channel_sync_or_async (src/src/sync_or_async_channel.rs): many senders,  *)
(* one receiver, a ring of slots.  A sender reserves a slot and fills it or *)
(* gives it up later, or blocks in send_sync until its message is stored;   *)
(* the receiver polls or blocks.  One action is one critical section: where *)
(* a call takes the lock twice, it is in a state of its own in between.     *)
(*                                                                          *)
(* A waker or parked thread is named by the sender it belongs to, or by     *)
(* Receiver.  `asleep' holds those whose last poll returned Pending, or who *)
(* parked, and who were not woken since.  An unpark between a registration  *)
(* and the park leaves a token, so the two are one step; polls, and         *)
(* iterations of a parked thread, may come at any time, since wake-ups and  *)
(* unparks may be spurious.                                                 *)
(***************************************************************************)
EXTENDS Naturals, Sequences, FiniteSets, Functions

CONSTANTS
    Sender,         \* handles: the first sender is made with the channel, the others are clones
    First,
    Receiver,       \* the task or thread that receives
    Message,        \* bound: the messages there are to send
    QueueLens       \* the lengths channel_sync_or_async may be called with

ASSUME SendersAssumption ==
    First \in Sender /\ Sender \cap {Receiver, "released"} = {} /\ IsFiniteSet(Sender)
ASSUME MessagesAssumption ==
    IsFiniteSet(Message) /\ Message \cap (Sender \cup {"empty", "reserved", "released"}) = {}
ASSUME LensAssumption == QueueLens \subseteq Nat

VARIABLES
    (* SyncAsyncCore *)
    waiting,            \* the ring; index i of the code is element i + 1
    read_idx, write_idx,
    recv_waker,         \* recv_waker is Some
    max_waiting,
    closed_count,
    waiting_senders,    \* handles, in the order in which they will be woken
    waiting_flushers,
    (* senders and receiver *)
    sender,             \* none, open, closed, dropped, or the call it is in between two locks
    slot,               \* SendSyncAsync.write_idx of the senders that hold a reservation
    awaiting,           \* what the client of an open sender polls for
    receiver,           \* idle, opened (in poll_next), sync, sync_opened (in next_sync), dropped
    asleep,
    (* history *)
    given,              \* the messages that were stored in the ring
    received,
    ended               \* the receiver has returned None

ringVars   == <<waiting, read_idx, write_idx, max_waiting>>
waiters    == <<waiting_senders, waiting_flushers>>
senderVars == <<sender, slot, awaiting, closed_count>>
history    == <<given, received, ended>>
vars == <<ringVars, recv_waker, waiters, senderVars, receiver, asleep, history>>

Call == {"sending", "flushing", "closing", "dropping"}

Length == Len(waiting)
Wrap(i) == i % Length
At(i) == waiting[i + 1]
Store(i, value) == waiting' = [waiting EXCEPT ![i + 1] = value]

IsEmpty == write_idx = read_idx

IsFullUnwrapped == write_idx + 1 = read_idx

IsFull == Wrap(write_idx + 1) = read_idx

Holders == DOMAIN slot
Created == {h \in Sender : sender[h] # "none"}
AllClosed == closed_count = Cardinality(Created)
ReceiverClosed == receiver = "dropped"

\* Bound: a message is left for h, besides those that blocked senders are about to send.
MessageLeft(h) ==
    Cardinality({g \in Sender \ {h} : sender[g] = "sending"}) < Cardinality(Message \ given)

\* Only their names tell the messages apart: any one that was not sent yet will do.
NextMessage == CHOOSE m \in Message : m \notin given

\* channel_sync_or_async(queue_len): one slot more than there may be messages
Init ==
    /\ max_waiting \in QueueLens
    /\ waiting = [i \in 1 .. max_waiting + 1 |-> "empty"]
    /\ read_idx = 0 /\ write_idx = 0
    /\ recv_waker = FALSE
    /\ closed_count = 0
    /\ waiting_senders = <<>> /\ waiting_flushers = {}
    /\ sender = [h \in Sender |-> IF h = First THEN "open" ELSE "none"]
    /\ slot = [h \in {} |-> 0]
    /\ awaiting = [h \in Sender |-> "nothing"]
    /\ receiver = "idle"
    /\ asleep = {}
    /\ given = {} /\ received = <<>> /\ ended = FALSE

-----------------------------------------------------------------------------
(* Senders *)

\* core.recv_waker.take() is woken; h, whose call this is, runs.
WakeReceiver(h) ==
    /\ recv_waker' = FALSE
    /\ asleep' = asleep \ ({h} \cup IF recv_waker THEN {Receiver} ELSE {})

LeaveReceiver(h) == asleep' = asleep \ {h} /\ UNCHANGED recv_waker

\* The call of h waits, or is over with h in the state after.
Sleep(h, operation) ==
    /\ sender' = [sender EXCEPT ![h] = "open"]
    /\ awaiting' = [awaiting EXCEPT ![h] = operation]
    /\ asleep' = asleep \cup {h}

Return(h, after) ==
    /\ sender' = [sender EXCEPT ![h] = after]
    /\ awaiting' = [awaiting EXCEPT ![h] = "nothing"]

\* A waker that is there for h already is replaced, and keeps its place.
QueueUp(h) ==
    waiting_senders' =
        IF h \in Range(waiting_senders) THEN waiting_senders ELSE Append(waiting_senders, h)

\* poll_ready: Err without a receiver, Ok when a slot is reserved already
PollReadyAtOnce(h) ==
    /\ sender[h] = "open"
    /\ ReceiverClosed \/ h \in Holders
    /\ Return(h, "open") /\ LeaveReceiver(h)
    /\ UNCHANGED <<ringVars, waiters, slot, closed_count, receiver, history>>

\* poll_ready, reserve() succeeds
PollReadyReserves(h) ==
    /\ sender[h] = "open"
    /\ ~ReceiverClosed /\ h \notin Holders
    /\ ~IsFull
    /\ Store(write_idx, "reserved")
    /\ write_idx' = Wrap(write_idx + 1)
    /\ slot' = [g \in Holders \cup {h} |-> IF g = h THEN write_idx ELSE slot[g]]
    /\ Return(h, "open") /\ LeaveReceiver(h)
    /\ UNCHANGED <<read_idx, max_waiting, waiters, closed_count, receiver, history>>

PollReadyFull(h) ==
    /\ sender[h] = "open"
    /\ ~ReceiverClosed /\ h \notin Holders
    /\ IsFull
    /\ QueueUp(h)
    /\ Sleep(h, "ready")
    /\ UNCHANGED <<ringVars, recv_waker, waiting_flushers, slot, closed_count, receiver, history>>

StartSend(h) ==
    /\ sender[h] = "open"
    /\ h \in Holders
    /\ MessageLeft(h)
    /\ Store(slot[h], NextMessage)
    /\ given' = given \cup {NextMessage}
    /\ slot' = Restrict(slot, Holders \ {h})
    /\ Return(h, "open") /\ WakeReceiver(h)
    /\ UNCHANGED <<read_idx, write_idx, max_waiting, waiters, closed_count, receiver, received,
                   ended>>

\* unreserve(), the first critical section of poll_flush, poll_close, send_sync and Drop
GiveUp(h, call) ==
    /\ sender[h] = "open"
    /\ h \in Holders
    /\ call = "sending" => MessageLeft(h)
    /\ Store(slot[h], "released")
    /\ slot' = Restrict(slot, Holders \ {h})
    /\ Return(h, call)
    /\ UNCHANGED <<read_idx, write_idx, max_waiting, waiters, closed_count, receiver, history>>

UnreserveSilently(h, call) == GiveUp(h, call) /\ LeaveReceiver(h)

Unreserve(h, call) == GiveUp(h, call) /\ WakeReceiver(h)

\* The call is past unreserve(): it released a slot, or there was none.
Within(h, call) == sender[h] = call \/ (sender[h] = "open" /\ h \notin Holders)

\* poll_flush: Ok when nothing is waiting, Err when nobody receives what is
PollFlushed(h) ==
    /\ Within(h, "flushing")
    /\ IsEmpty \/ ReceiverClosed
    /\ Return(h, "open") /\ LeaveReceiver(h)
    /\ UNCHANGED <<ringVars, waiters, slot, closed_count, receiver, history>>

PollUnflushed(h, call, operation) ==
    /\ Within(h, call)
    /\ ~IsEmpty /\ ~ReceiverClosed
    /\ waiting_flushers' = waiting_flushers \cup {h}
    /\ Sleep(h, operation)
    /\ UNCHANGED <<ringVars, recv_waker, waiting_senders, slot, closed_count, receiver, history>>

\* poll_close, nothing is waiting: the sender counts as closed
PollClosed(h) ==
    /\ Within(h, "closing")
    /\ IsEmpty
    /\ closed_count' = closed_count + 1
    /\ Return(h, "closed") /\ WakeReceiver(h)
    /\ UNCHANGED <<ringVars, waiters, slot, receiver, history>>

PollCloseFails(h) ==
    /\ Within(h, "closing")
    /\ ~IsEmpty /\ ReceiverClosed
    /\ Return(h, "open") /\ LeaveReceiver(h)
    /\ UNCHANGED <<ringVars, waiters, slot, closed_count, receiver, history>>

\* send_sync, enqueue() succeeds
SendSyncStores(h) ==
    /\ Within(h, "sending")
    /\ ~ReceiverClosed
    /\ MessageLeft(h)
    /\ ~IsFull
    /\ Store(write_idx, NextMessage)
    /\ write_idx' = Wrap(write_idx + 1)
    /\ given' = given \cup {NextMessage}
    /\ Return(h, "open") /\ WakeReceiver(h)
    /\ UNCHANGED <<read_idx, max_waiting, waiters, slot, closed_count, receiver, received, ended>>

\* send_sync, the message bounces and the thread parks
SendSyncParks(h) ==
    /\ Within(h, "sending")
    /\ ~ReceiverClosed
    /\ MessageLeft(h)
    /\ IsFull
    /\ QueueUp(h)
    /\ Return(h, "sending")
    /\ asleep' = asleep \cup {h}
    /\ UNCHANGED <<ringVars, recv_waker, waiting_flushers, slot, closed_count, receiver, history>>

SendSyncFails(h) ==
    /\ Within(h, "sending")
    /\ ReceiverClosed
    /\ Return(h, "open") /\ LeaveReceiver(h)
    /\ UNCHANGED <<ringVars, waiters, slot, closed_count, receiver, history>>

\* Drop of a sender; what it left in waiting_senders stays.  Drop of a closed one does nothing.
Leave(h) ==
    /\ Within(h, "dropping")
    /\ closed_count' = closed_count + 1
    /\ Return(h, "dropped")
    /\ UNCHANGED <<ringVars, waiters, slot, receiver, history>>

DropSenderSilently(h) == Leave(h) /\ LeaveReceiver(h)

DropSender(h) == Leave(h) /\ WakeReceiver(h)

Clone(h, g) ==
    /\ sender[h] \in {"open", "closed"}
    /\ sender[g] = "none"
    /\ sender' = [sender EXCEPT ![g] = sender[h]]
    /\ closed_count' = IF sender[h] = "closed" THEN closed_count + 1 ELSE closed_count
    /\ UNCHANGED <<ringVars, recv_waker, waiters, slot, awaiting, receiver, asleep, history>>

-----------------------------------------------------------------------------
(* The receiver: poll_next and next_sync ("poll", "sync") *)

FirstOf(queue) == IF queue = <<>> THEN {} ELSE {Head(queue)}
RestOf(queue) == IF queue = <<>> THEN <<>> ELSE Tail(queue)

NeedsSlotAlways == max_waiting = 0

\* A channel of length 0 has no slot but for a receiver that asks for a message.
NeedsSlot == max_waiting = 0 /\ Length = 1

\* The first critical section: the slot is added and one sender is woken.
Open(before, after) ==
    /\ receiver \in before
    /\ NeedsSlot
    /\ waiting' = Append(waiting, "empty")
    /\ waiting_senders' = RestOf(waiting_senders)
    /\ receiver' = after
    /\ asleep' = asleep \ (FirstOf(waiting_senders) \cup {Receiver})
    /\ UNCHANGED <<read_idx, write_idx, max_waiting, waiting_flushers, senderVars, history>>

PollOpens == Open({"idle"}, "opened") /\ recv_waker' = FALSE
SyncOpens == Open({"idle", "sync"}, "sync_opened") /\ UNCHANGED recv_waker

\* The second one, or the only one
Receiving(call) ==
    \/ receiver = (IF call = "poll" THEN "opened" ELSE "sync_opened")
    \/ receiver \in (IF call = "poll" THEN {"idle"} ELSE {"idle", "sync"}) /\ ~NeedsSlot

Nth(k) == At(Wrap(read_idx + k))

SkippedReserved ==
    CHOOSE k \in 0 .. Length - 1 :
        Nth(k) \notin {"released", "reserved"}
        /\ \A j \in 0 .. k - 1 : Nth(j) \in {"released", "reserved"}

\* dequeue() passes over the released slots at the head (the slot at write_idx is never one) ...
Skipped ==
    CHOOSE k \in 0 .. Length - 1 :
        Nth(k) # "released" /\ \A j \in 0 .. k - 1 : Nth(j) = "released"

Foremost == Nth(Skipped)

\* ... and leaves the first n slots empty.
Offset(i) == Wrap(i + Length - read_idx)
Cleared(n) == [i \in 1 .. Length |-> IF Offset(i - 1) < n THEN "empty" ELSE waiting[i]]

\* A message: a sender is woken, and if it was the last one all that wait for a flush are.
Take(call, woken) ==
    LET next    == Wrap(read_idx + Skipped + 1)
        shrinks == max_waiting = 0 /\ Length > 1
        ring    == Cleared(Skipped + 1)
        empties == next = write_idx \/ (call = "sync" /\ shrinks)
    IN
    /\ Receiving(call)
    /\ Foremost \in Message
    /\ received' = Append(received, Foremost)
    /\ waiting' = IF shrinks THEN SubSeq(ring, 1, Length - 1) ELSE ring
    /\ read_idx' = IF shrinks THEN 0 ELSE next
    /\ write_idx' = IF shrinks THEN 0 ELSE write_idx
    /\ recv_waker' = FALSE
    /\ waiting_senders' = RestOf(waiting_senders)
    /\ waiting_flushers' = IF empties THEN {} ELSE waiting_flushers
    /\ receiver' = "idle"
    /\ asleep' = asleep \ (woken \cup {Receiver} \cup IF empties THEN waiting_flushers ELSE {})
    /\ UNCHANGED <<max_waiting, senderVars, given, ended>>

TakeMessageSilently(call) == Take(call, {})

TakeMessage(call) == Take(call, FirstOf(waiting_senders))

\* No message and no sender: the end of the stream
TakeEnd(call) ==
    /\ Receiving(call)
    /\ Foremost \notin Message
    /\ AllClosed
    /\ waiting' = Cleared(Skipped)
    /\ read_idx' = Wrap(read_idx + Skipped)
    /\ recv_waker' = FALSE
    /\ receiver' = "idle"
    /\ ended' = TRUE
    /\ asleep' = asleep \ {Receiver}
    /\ UNCHANGED <<write_idx, max_waiting, waiters, senderVars, given, received>>

\* No message yet: released slots may have made room, which all that wait for it are told.
Await(call, tellsSenders, tellsFlushers) ==
    LET next  == Wrap(read_idx + Skipped)
        room  == Wrap(write_idx + 1) # next
        tell  == room /\ tellsSenders
        flush == room /\ next = write_idx /\ tellsFlushers
    IN
    /\ Receiving(call)
    /\ Foremost \notin Message
    /\ ~AllClosed
    /\ waiting' = Cleared(Skipped)
    /\ read_idx' = next
    /\ recv_waker' = TRUE
    /\ waiting_senders' = IF tell THEN <<>> ELSE waiting_senders
    /\ waiting_flushers' = IF flush THEN {} ELSE waiting_flushers
    /\ receiver' = IF call = "sync" THEN "sync" ELSE "idle"
    /\ asleep' = {Receiver} \cup (asleep \ ((IF tell THEN Range(waiting_senders) ELSE {})
                                             \cup IF flush THEN waiting_flushers ELSE {}))
    /\ UNCHANGED <<write_idx, max_waiting, senderVars, history>>

AwaitTellsNoSender(call) == Await(call, FALSE, TRUE)
AwaitTellsNoFlusher(call) == Await(call, TRUE, FALSE)

AwaitMessage(call) == Await(call, TRUE, TRUE)

DropReceiver ==
    /\ receiver = "idle"
    /\ receiver' = "dropped"
    /\ waiting_senders' = <<>> /\ waiting_flushers' = {}
    /\ asleep' = asleep \ (Range(waiting_senders) \cup waiting_flushers \cup {Receiver})
    /\ UNCHANGED <<ringVars, recv_waker, senderVars, history>>

-----------------------------------------------------------------------------
Receive == \E call \in {"poll", "sync"} : TakeMessage(call) \/ TakeEnd(call) \/ AwaitMessage(call)

PollReady(h) == PollReadyAtOnce(h) \/ PollReadyReserves(h) \/ PollReadyFull(h)
PollFlush(h) == PollFlushed(h) \/ PollUnflushed(h, "flushing", "flush")
PollClose(h) == PollClosed(h) \/ PollCloseFails(h) \/ PollUnflushed(h, "closing", "close")
SendSync(h)  == SendSyncStores(h) \/ SendSyncParks(h) \/ SendSyncFails(h)

Next ==
    \/ \E h \in Sender :
        \/ PollReady(h) \/ StartSend(h) \/ PollFlush(h) \/ PollClose(h) \/ SendSync(h)
        \/ \E call \in Call : Unreserve(h, call)
        \/ DropSender(h)
        \/ \E g \in Sender : Clone(h, g)
    \/ PollOpens \/ SyncOpens \/ Receive \/ DropReceiver

Spec == Init /\ [][Next]_vars

\* A task that was woken polls what its client awaits, and a call that has begun goes on ...
Proceeds(h) ==
    \/ awaiting[h] = "ready" /\ PollReady(h)
    \/ (awaiting[h] = "flush" \/ sender[h] = "flushing") /\ PollFlush(h)
    \/ (awaiting[h] = "close" \/ sender[h] = "closing") /\ PollClose(h)
    \/ sender[h] = "sending" /\ SendSync(h)
    \/ sender[h] = "dropping" /\ DropSender(h)

\* ... the client of a reservation uses it or gives it up ...
Settles(h) == StartSend(h) \/ \E call \in Call : Unreserve(h, call)

\* ... and the receiver keeps reading.
Fairness ==
    /\ \A h \in Sender : WF_vars(h \notin asleep /\ Proceeds(h)) /\ WF_vars(Settles(h))
    /\ WF_vars(Receiver \notin asleep /\ (PollOpens \/ SyncOpens \/ Receive))

FairSpec == Spec /\ Fairness

-----------------------------------------------------------------------------
\* Every variable has the type the code gives it, and the indices stay within the ring.
TypeOK ==
    /\ waiting \in Seq({"empty", "reserved", "released"} \cup Message)
    /\ Length \in IF max_waiting = 0 THEN {1, 2} ELSE {max_waiting + 1}
    /\ read_idx \in 0 .. Length - 1 /\ write_idx \in 0 .. Length - 1
    /\ recv_waker \in BOOLEAN /\ ended \in BOOLEAN
    /\ max_waiting \in QueueLens
    /\ closed_count \in Nat
    /\ waiting_senders \in Seq(Sender) /\ waiting_flushers \subseteq Sender
    /\ sender \in [Sender -> {"none", "open", "closed", "dropped"} \cup Call]
    /\ Holders \subseteq Sender /\ slot \in [Holders -> Nat]
    /\ awaiting \in [Sender -> {"nothing", "ready", "flush", "close"}]
    /\ receiver \in {"idle", "opened", "sync", "sync_opened", "dropped"}
    /\ asleep \subseteq Sender \cup {Receiver}
    /\ given \subseteq Message /\ received \in Seq(Message)

Used == Wrap(write_idx + Length - read_idx)

\* The index that a sender carries from poll_ready to start_send or unreserve() is that of a slot
\* which is reserved, in use and nobody else's, whatever was received, released or shrunk meanwhile;
\* what lies between the indices is in use, and nothing else is.
ReservationsHold ==
    /\ \A h \in Holders :
        /\ sender[h] = "open"
        /\ slot[h] < Length /\ At(slot[h]) = "reserved"
        /\ \A g \in Holders : slot[g] = slot[h] => g = h
    /\ \A i \in 0 .. Length - 1 :
        /\ At(i) = "empty" <=> Offset(i) >= Used
        /\ At(i) = "reserved" => \E h \in Holders : slot[h] = i

\* The ring as a queue of places: what is in use, from read_idx on, with a reserved slot read as its
\* holder.
Place(i) == IF At(i) = "reserved" THEN CHOOSE h \in Holders : slot[h] = i ELSE At(i)
Places == [k \in 1 .. Used |-> Place(Wrap(read_idx + k - 1))]

Promise == INSTANCE ChannelQueue WITH
    length  <- max_waiting,
    queue   <- Places,
    asked   <- max_waiting = 0 /\ Length = 2,
    life    <- [h \in Sender |-> IF sender[h] \in Call THEN "open" ELSE sender[h]],
    present <- ~ReceiverClosed,
    sent    <- given

\* The ring is the queue of places that ChannelQueue describes: messages arrive once and in the
\* order of the reservations, however slots are filled, released and passed over.
IsQueue == Promise!Spec

\* A receiver that is not going to be woken has nothing to do: no message, no released slot to pass
\* over, no end of stream; its waker is registered, and a channel of length 0 has its slot.
ReceiverNotStranded ==
    Receiver \in asleep /\ ~ReceiverClosed =>
        /\ recv_waker
        /\ At(read_idx) \in {"empty", "reserved"}
        /\ ~AllClosed
        /\ ~NeedsSlot

\* A sender that is not going to be woken and waits for a slot is in the list of a receiver that is
\* there; if the receiver waits too, then there is no slot, and a reservation is what both wait for.
SenderNotStranded ==
    \A h \in asleep \cap Sender :
        awaiting[h] = "ready" \/ sender[h] = "sending" =>
            /\ h \in Range(waiting_senders) /\ ~ReceiverClosed
            /\ Receiver \in asleep => IsFull

\* A flush or close that is not going to be woken is in the list, and something is waiting.
FlushNotStranded ==
    \A h \in asleep \cap Sender :
        awaiting[h] \in {"flush", "close"} =>
            h \in waiting_flushers /\ ~IsEmpty /\ ~ReceiverClosed

EveryoneLeft == \A h \in Created : sender[h] \in {"closed", "dropped"}

\* A receiver that stays gets all that was stored, past the slots that were reserved before and never
\* filled, and then, if every sender was closed or dropped, the end of the stream.
AllArrives ==
    []<>(ReceiverClosed \/ (given \subseteq Range(received) /\ (EveryoneLeft => ended)))

Waits(operations) == \E h \in Sender : awaiting[h] \in operations

\* Nobody waits on for what is there: while a sender waits for a slot the ring is full time and
\* again, and while one waits for a flush or a close something is waiting time and again.
WaitersServed ==
    []<>(/\ Waits({"ready"}) \/ (\E h \in Sender : sender[h] = "sending") => IsFull
         /\ Waits({"flush", "close"}) => ~IsEmpty)
=============================================================================
