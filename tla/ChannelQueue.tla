---------------------------- MODULE ChannelQueue ----------------------------
(***************************************************************************)
(* What the channel of SyncChannel promises, without ring, wakers or locks: *)
(* one queue of places.  A place is held by the sender that reserved it,    *)
(* until that sender puts a message there or gives the place up; messages   *)
(* leave from the head, and places that were given up with them.  So        *)
(* messages arrive once each, in the order of the reservations ("Once       *)
(* poll_ready returns, the ordering of the message is guaranteed",          *)
(* src/src/sync_or_async_channel.rs), and no more of them wait than the     *)
(* length allows: in a channel of length 0, only one, and only when the     *)
(* receiver has asked for it.                                               *)
(***************************************************************************)
EXTENDS Naturals, Sequences, Functions

CONSTANTS Sender, First, Message, QueueLens

VARIABLES
    length,     \* the queue_len of the channel
    queue,      \* of senders, which hold their places, messages, and released places
    asked,      \* the receiver of a channel of length 0 is waiting for the next message
    life,       \* of each sender: none, open, closed, dropped
    present,    \* the receiver is
    sent, received, ended

vars == <<length, queue, asked, life, present, sent, received, ended>>

Room == IF length = 0 THEN asked /\ queue = <<>> ELSE Len(queue) < length

Init ==
    /\ length \in QueueLens
    /\ queue = <<>> /\ asked = FALSE
    /\ life = [h \in Sender |-> IF h = First THEN "open" ELSE "none"]
    /\ present = TRUE
    /\ sent = {} /\ received = <<>> /\ ended = FALSE

Reserve(h) ==
    /\ life[h] = "open" /\ present
    /\ h \notin Range(queue)
    /\ Room
    /\ queue' = Append(queue, h)
    /\ UNCHANGED <<length, asked, life, present, sent, received, ended>>

\* The place of h holds something else.
Put(h, value) == [i \in DOMAIN queue |-> IF queue[i] = h THEN value ELSE queue[i]]

Fill(h, m) ==
    /\ h \in Range(queue)
    /\ m \notin sent
    /\ queue' = Put(h, m)
    /\ sent' = sent \cup {m}
    /\ UNCHANGED <<length, asked, life, present, received, ended>>

GiveUp(h) ==
    /\ h \in Range(queue)
    /\ queue' = Put(h, "released")
    /\ UNCHANGED <<length, asked, life, present, sent, received, ended>>

Send(h, m) ==
    /\ life[h] = "open" /\ present
    /\ m \notin sent
    /\ Room
    /\ queue' = Append(queue, m)
    /\ sent' = sent \cup {m}
    /\ UNCHANGED <<length, asked, life, present, received, ended>>

Ask ==
    /\ present
    /\ length = 0 /\ ~asked
    /\ asked' = TRUE
    /\ UNCHANGED <<length, queue, life, present, sent, received, ended>>

\* The first n places were given up.
Released(n) == \A i \in 1 .. n : queue[i] = "released"

\* What is left of the queue without the first n places.
After(n) == SubSeq(queue, n + 1, Len(queue))

\* The receiver passes over places that were given up ...
Pass ==
    /\ present
    /\ \E n \in 0 .. Len(queue) : Released(n) /\ queue' = After(n)
    /\ UNCHANGED <<length, asked, life, present, sent, received, ended>>

\* ... and may go on to a message, but not past a place that is held.
Receive ==
    /\ present
    /\ \E n \in 1 .. Len(queue) :
        /\ Released(n - 1) /\ queue[n] \in Message
        /\ received' = Append(received, queue[n])
        /\ queue' = After(n)
    /\ asked' = FALSE
    /\ UNCHANGED <<length, life, present, sent, ended>>

\* The stream ends when nobody can send any more and all that was sent has been received.
End ==
    /\ present
    /\ Released(Len(queue))
    /\ \A h \in Sender : life[h] # "open"
    /\ queue' = <<>>
    /\ ended' = TRUE
    /\ UNCHANGED <<length, asked, life, present, sent, received>>

\* A sender is closed when nothing is waiting; it is dropped at any time.
Close(h) ==
    /\ life[h] = "open"
    /\ queue = <<>>
    /\ life' = [life EXCEPT ![h] = "closed"]
    /\ UNCHANGED <<length, queue, asked, present, sent, received, ended>>

Drop(h) ==
    /\ life[h] = "open"
    /\ h \notin Range(queue)
    /\ life' = [life EXCEPT ![h] = "dropped"]
    /\ UNCHANGED <<length, queue, asked, present, sent, received, ended>>

Clone(h, g) ==
    /\ life[h] \in {"open", "closed"}
    /\ life[g] = "none"
    /\ life' = [life EXCEPT ![g] = life[h]]
    /\ UNCHANGED <<length, queue, asked, present, sent, received, ended>>

HangUp ==
    /\ present
    /\ present' = FALSE
    /\ UNCHANGED <<length, queue, asked, life, sent, received, ended>>

Next ==
    \/ \E h \in Sender :
        \/ Reserve(h) \/ GiveUp(h) \/ Close(h) \/ Drop(h)
        \/ \E m \in Message : Fill(h, m) \/ Send(h, m)
        \/ \E g \in Sender : Clone(h, g)
    \/ Ask \/ Pass \/ Receive \/ End \/ HangUp

Spec == Init /\ [][Next]_vars
=============================================================================
