-------------------------- MODULE PublishExpiring --------------------------
(***************************************************************************)
(* ExpiringPublisher (src/src/expiring_publisher.rs): every message goes to *)
(* every subscriber, and a full queue loses its oldest message rather than  *)
(* hold the publisher up.  A when_ready future runs                         *)
(* PubCore::send_all_expiring_oldest (src/src/pubsub_core.rs), which makes  *)
(* room when it reserves, before its message exists; a queue that holds     *)
(* nothing but reservations has nothing to expire and is waited for.        *)
(***************************************************************************)
EXTENDS SendAll, SequencesExt

Jammed(f) == {s \in Wanted(f) : Full(s) /\ waiting[s] = <<>>}

ExpireEarly(R) ==
    waiting' = [s \in Subscriber |->
                    IF s \in R /\ waiting[s] # <<>> /\ QueueSize(s) + 1 >= MaxQueueSize
                    THEN Tail(waiting[s]) ELSE waiting[s]]
ExpireNewest(R) ==
    waiting' = [s \in Subscriber |->
                    IF s \in R /\ Full(s) THEN Front(waiting[s]) ELSE waiting[s]]

\* The oldest message of each full queue of R makes room for the reservation.
ExpireOldest(R) ==
    waiting' = [s \in Subscriber |->
                    IF s \in R /\ Full(s) THEN Tail(waiting[s]) ELSE waiting[s]]

PollReady(f) ==
    /\ future[f] = "waiting"
    /\ CoreUnlocked
    /\ Jammed(f) = {}
    /\ CreateSender(f, Wanted(f))
    /\ ExpireOldest(Wanted(f))

WaitFor(f, jam) ==
    LET passed == {s \in Wanted(f) : subscribers[s] < subscribers[jam]} IN
    /\ future[f] = "waiting"
    /\ CoreUnlocked
    /\ IsFirst(jam, Jammed(f))
    /\ Reserve(passed)
    /\ ExpireOldest(passed)
    /\ slots' = [slots EXCEPT ![f] = @ \cup passed]
    /\ notify_ready' = [notify_ready EXCEPT ![jam] = @ \cup {f}]
    /\ asleep' = asleep \cup {f}
    /\ UNCHANGED <<coreVars, published, stream, future, flush, watcher, wakers, history>>

PollBlockedOnReaders(f) == \E jam \in Jammed(f) : WaitFor(f, jam) /\ UNCHANGED notify_waiting

\* The loop stops at a jammed subscriber; what it reserved and expired on the way there stays so.
PollBlocked(f) ==
    \E jam \in Jammed(f) :
        /\ WaitFor(f, jam)
        /\ notify_waiting' = [notify_waiting EXCEPT ![jam] = @ \cup {f}]

PollWhenReady(f) == PollReady(f) \/ PollBlocked(f)

Next ==
    \/ SharedNext
    \/ \E f \in Future : PollWhenReady(f) \/ Sending(f) \/ CancelStart(f) \/ Cancelling(f)

Spec == Init /\ [][Next]_vars

PollsWoken == \A f \in Future : WF_vars(f \notin asleep /\ PollWhenReady(f))

-----------------------------------------------------------------------------
\* The messages that were pushed to s and expired before s read them
Lost(s) ==
    {f \in Future :
        /\ future[f] \in {"sending", "sent"} /\ s \in audience[f] /\ s \notin slots[f]
        /\ Occurrences(f, Delivered(s)) = 0}

\* No message reaches a subscriber twice, and one that was cancelled reaches none.
AtMostOnce ==
    \A f \in Future : \A s \in audience[f] :
        Occurrences(f, Delivered(s)) <=
            IF future[f] \in {"sending", "sent"} /\ s \notin slots[f] THEN 1 ELSE 0

\* A subscriber that is kept loses only what does not fit: for each message it lost there was one
\* reservation more than its buffer holds ("once a subscriber has buffer_size messages, this
\* publisher will start to drop", expiring_publisher.rs:37).
LosesOnlyOverflow ==
    \A s \in Registered :
        Lost(s) # {} =>
            MaxQueueSize + Cardinality(Lost(s)) <=
                Cardinality({f \in Future : s \in slots[f] \cup audience[f]})

\* What a subscriber lost is older than what waits for it, as any other subscriber can tell from
\* the order in which it got the two ("drop the oldest messages", expiring_publisher.rs:37).
LosesTheOldest ==
    \A s, t \in Subscriber : \A f \in Lost(s), g \in Future :
        Occurrences(g, waiting[s]) > 0 => ~Precedes(g, f, Delivered(t))

\* A publish that is not going to be woken waits for senders only: it is registered with a
\* subscriber whose slots are all reserved.  (The last publisher's Drop clears notify_ready, but
\* the futures of this kind are in notify_waiting as well, which it wakes.)
SenderNotStranded ==
    \A f \in asleep \cap Future :
        f \in wakers \/ \E s \in Jammed(f) : f \in notify_ready[s] \cap notify_waiting[s]
=============================================================================
