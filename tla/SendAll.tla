------------------------------ MODULE SendAll ------------------------------
(***************************************************************************)
(* The MessageSender that goes to every subscriber: the end of              *)
(* PubCore::send_all_subscribers and of PubCore::send_all_expiring_oldest   *)
(* (src/src/pubsub_core.rs), the same text in both, with                    *)
(* SubCore::send_message and SubCore::cancel_send.  How the futures come by *)
(* their slots is in PublishAll and PublishExpiring.                        *)
(***************************************************************************)
EXTENDS PubSubCore

Wanted(f) == Registered \ slots[f]

ReserveNothing(R) == reserved' = reserved

Reserve(R) == reserved' = [s \in Subscriber |-> IF s \in R THEN reserved[s] + 1 ELSE reserved[s]]

\* All subscribers have a slot reserved for f, those in R as of now: the sender is created.
\* Slots that f reserved in subscribers that were dropped since are forgotten.
CreateSender(f, R) ==
    /\ Reserve(R)
    /\ future' = [future EXCEPT ![f] = "ready"]
    /\ slots' = [slots EXCEPT ![f] = Registered]
    /\ audience' = [audience EXCEPT ![f] = Registered]
    /\ asleep' = asleep \ {f}
    /\ UNCHANGED <<coreVars, published, notify_waiting, notify_ready, stream, flush,
                   watcher, wakers, received, ended>>

-----------------------------------------------------------------------------
(* MessageSender::send: the callback holds the core's lock, a sub_core at a time *)

SendStart(f) ==
    /\ future[f] = "ready"
    /\ future' = [future EXCEPT ![f] = "sending"]
    /\ UNCHANGED <<coreVars, subVars, stream, slots, flush, watcher, wakers, asleep, history>>

SendLock(f) == CoreUnlocked /\ SendStart(f)

Push(f, s) ==
    /\ future[f] = "sending"
    /\ s \in slots[f]
    /\ reserved' = [reserved EXCEPT ![s] = @ - 1]
    /\ waiting' = [waiting EXCEPT ![s] = Append(@, f)]
    /\ notify_waiting' = [notify_waiting EXCEPT ![s] = {}]
    /\ wakers' = wakers \cup notify_waiting[s]
    /\ UNCHANGED <<coreVars, published, notify_ready, stream, future, flush, watcher, asleep,
                   history>>

SendMessageAgain(f, s) == Push(f, s) /\ UNCHANGED slots

SendMessage(f, s) == Push(f, s) /\ slots' = [slots EXCEPT ![f] = @ \ {s}]

\* The lock is released, then all that was drained is woken.
SendEnd(f, woken) ==
    /\ future[f] = "sending"
    /\ future' = [future EXCEPT ![f] = "sent"]
    /\ asleep' = asleep \ woken
    /\ wakers' = {}
    /\ UNCHANGED <<coreVars, subVars, stream, slots, flush, watcher, history>>

SendUnlockEarly(f) == SendEnd(f, wakers)
SendUnlockSilently(f) == slots[f] = {} /\ SendEnd(f, {})

SendUnlock(f) == slots[f] = {} /\ SendEnd(f, wakers)

(* Drop of a MessageSender that was not sent: cancel_send on each target, without the lock *)

CancelStart(f) ==
    /\ future[f] = "ready"
    /\ future' = [future EXCEPT ![f] = "cancelling"]
    /\ UNCHANGED <<coreVars, subVars, stream, slots, flush, watcher, wakers, asleep, history>>

GiveBack(f, s, count, woken) ==
    /\ future[f] = "cancelling"
    /\ s \in slots[f]
    /\ reserved' = [reserved EXCEPT ![s] = @ - count]
    /\ notify_ready' = [notify_ready EXCEPT ![s] = {}]
    /\ asleep' = asleep \ woken
    /\ slots' = [slots EXCEPT ![f] = @ \ {s}]
    /\ UNCHANGED <<coreVars, published, waiting, notify_waiting, stream, future, flush,
                   watcher, wakers, history>>

CancelSendKeeps(f, s) == GiveBack(f, s, 0, notify_ready[s])
CancelSendSilently(f, s) == GiveBack(f, s, 1, {})

CancelSend(f, s) == GiveBack(f, s, 1, notify_ready[s])

CancelEnd(f) ==
    /\ future[f] = "cancelling"
    /\ slots[f] = {}
    /\ future' = [future EXCEPT ![f] = "cancelled"]
    /\ UNCHANGED <<coreVars, subVars, stream, slots, flush, watcher, wakers, asleep, history>>

Sending(f) == SendLock(f) \/ (\E s \in Subscriber : SendMessage(f, s)) \/ SendUnlock(f)
Cancelling(f) == (\E s \in Subscriber : CancelSend(f, s)) \/ CancelEnd(f)

\* publish() sends as soon as it has its sender, and a send or a Drop that has begun goes on.
SendersSend == \A f \in Future : WF_vars(Sending(f)) /\ WF_vars(Cancelling(f))

-----------------------------------------------------------------------------
Precedes(f, g, queue) ==
    \E i, j \in DOMAIN queue : i < j /\ queue[i] = f /\ queue[j] = g

\* No two subscribers see two messages in opposite orders: "only one sender can be active at once"
\* (pubsub_core.rs:282).
SameOrder ==
    \A s, t \in Subscriber :
        LET mine == Delivered(s) IN
        \A i, j \in DOMAIN mine : i < j => ~Precedes(mine[j], mine[i], Delivered(t))

\* The sleeping futures of F wait for nothing but each other: each is registered with subscribers
\* whose slots are all reserved by futures of F.
WaitCycle(F) ==
    /\ F # {}
    /\ \A f \in F :
        LET awaited == {s \in Wanted(f) : Full(s) /\ f \in notify_ready[s]} IN
        /\ future[f] = "waiting" /\ f \in asleep
        /\ awaited # {}
        /\ \A s \in awaited : waiting[s] = <<>> /\ Holders(s) \subseteq F

\* Futures that reserve one slot after the other never wait for each other in a circle.
NoWaitCycle == \A F \in SUBSET Future : ~WaitCycle(F)

\* A publish whose future is kept completes: its message is sent or its sender is dropped.
PublishCompletes == \A f \in Future : future[f] = "waiting" ~> future[f] \in {"sent", "cancelled"}
=============================================================================
