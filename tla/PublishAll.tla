----------------------------- MODULE PublishAll -----------------------------
(***************************************************************************)
(* Publisher (src/src/publisher.rs) with its weak publishers: every message *)
(* goes to every subscriber.  A when_ready future runs                      *)
(* PubCore::send_all_subscribers (src/src/pubsub_core.rs): it reserves a    *)
(* slot in one subscriber after the other in the order of the map, waits at *)
(* the first one that is full, and resolves to a MessageSender that pushes  *)
(* the message to all of them or gives every slot back.                     *)
(***************************************************************************)
EXTENDS SendAll, WeakPublisher

Blocking(f) == {s \in Wanted(f) : Full(s)}

PollReady(f) ==
    /\ future[f] = "waiting"
    /\ CoreUnlocked
    /\ Blocking(f) = {}
    /\ CreateSender(f, Wanted(f))
    /\ UNCHANGED waiting

WaitFor(f, full, passed) ==
    /\ future[f] = "waiting"
    /\ CoreUnlocked
    /\ Reserve(passed)
    /\ slots' = [slots EXCEPT ![f] = @ \cup passed]
    /\ notify_ready' = [notify_ready EXCEPT ![full] = @ \cup {f}]
    /\ asleep' = asleep \cup {f}
    /\ UNCHANGED <<coreVars, published, waiting, notify_waiting, stream, future, flush,
                   watcher, wakers, history>>

PollBlockedAnywhere(f) == \E full \in Blocking(f) : WaitFor(f, full, Wanted(f) \ Blocking(f))

\* The loop stops at a full subscriber; the slots reserved on the way there are kept.
PollBlocked(f) ==
    \E full \in Blocking(f) :
        /\ IsFirst(full, Blocking(f))
        /\ WaitFor(f, full, {s \in Wanted(f) : subscribers[s] < subscribers[full]})

-----------------------------------------------------------------------------
PollWhenReady(f) == PollReady(f) \/ PollBlocked(f)

Next ==
    \/ SharedNext
    \/ WeakNext
    \/ \E f \in Future : PollWhenReady(f) \/ Sending(f) \/ CancelStart(f) \/ Cancelling(f)

Spec == Init /\ [][Next]_vars

PollsWoken == \A f \in Future : WF_vars(f \notin asleep /\ PollWhenReady(f))

-----------------------------------------------------------------------------
\* A message that was sent is in the queue of each subscriber of its sender exactly once, and while
\* it is being sent in the queues that were served; one that was cancelled is in none.
ExactlyOnce ==
    \A f \in Future : \A s \in audience[f] :
        LET served == future[f] = "sent" \/ (future[f] = "sending" /\ s \notin slots[f]) IN
        Occurrences(f, Delivered(s)) = IF served THEN 1 ELSE 0

\* While a publisher exists, a when_ready future that is not going to be woken has registered with
\* a full subscriber that it still wants a slot of: anything that frees that slot wakes it.
SenderNotStranded ==
    publisher_count > 0 =>
        \A f \in asleep \cap Future : \E s \in Blocking(f) : f \in notify_ready[s]

\* A message that was sent is read by every subscriber it was sent to and that is kept.
MessagesArrive ==
    \A f \in Future : \A s \in Subscriber :
        future[f] = "sent" /\ s \in audience[f] ~>
            stream[s] = "dropped" \/ \E i \in DOMAIN received[s] : received[s][i] = f

-----------------------------------------------------------------------------
\* While f is being sent, the subscribers it has not reached yet count as having it.
Underway(f, s) == future[f] = "sending" /\ s \in slots[f]

Inbox(s) ==
    IF \E f \in Future : Underway(f, s)
    THEN Append(waiting[s], CHOOSE f \in Future : Underway(f, s))
    ELSE waiting[s]

Stage(f) ==
    IF future[f] = "ready" THEN "promised"
    ELSE IF future[f] \in {"sending", "sent"} THEN "sent"
    ELSE IF future[f] \in {"cancelling", "cancelled"} THEN "withdrawn" ELSE "none"

Open    == publisher_count > 0
Inboxes == [s \in Subscriber |-> Inbox(s)]
Stages  == [f \in Future |-> Stage(f)]
Late    == {f \in Future : future[f] = "sending" /\ ~Open}

Atomic == INSTANCE AtomicPublisher WITH
    Message <- Future, open <- Open, members <- Registered, inbox <- Inboxes,
    message <- Stages, promised <- audience, late <- Late

\* All that subscribers can see of a send, which serves one queue after the other while they read,
\* clone and leave, is that of a message put into all queues at once (pubsub_core.rs:280).
IsAtomic == Atomic!Spec
=============================================================================
