--------------------------- MODULE WeakPublisher ---------------------------
(***************************************************************************)
(* WeakPublisher (src/src/weak_publisher.rs): what a publisher that does    *)
(* not own its core adds to the operations of PubSubCore.  While a strong   *)
(* publisher exists a weak one does exactly what the strong one does, and   *)
(* those actions stand for both; the actions below are what only a weak     *)
(* publisher can do, once publisher_count is 0.                             *)
(***************************************************************************)
EXTENDS PubSubCore

WeakSubscribe(s) == publisher_count = 0 /\ CoreAlive /\ Attach(s, <<>>)

\* subscribe on a core that is gone: attached to nothing, but with published set
WeakSubscribeClosed(s) ==
    /\ ~CoreAlive
    /\ NewSubCore(s, TRUE, <<>>)
    /\ UNCHANGED subscribers

WeakWhenReady(f) == publisher_count = 0 /\ CoreAlive /\ StartFuture(f)

\* when_ready on a core that is gone: a MessageSender whose callbacks do nothing
WeakWhenReadyClosed(f) ==
    /\ ~CoreAlive
    /\ future[f] = "none"
    /\ future' = [future EXCEPT ![f] = "void"]
    /\ UNCHANGED <<coreVars, subVars, stream, slots, flush, watcher, wakers, asleep, history>>

WeakWhenEmpty(e) == publisher_count = 0 /\ CoreAlive /\ StartFlush(e)

WeakWhenEmptyClosed(e) ==
    /\ ~CoreAlive
    /\ flush[e] = "none"
    /\ flush' = [flush EXCEPT ![e] = "done"]
    /\ UNCHANGED <<coreVars, subVars, stream, future, slots, watcher, wakers, asleep, history>>

WeakWhenClosed(c) == publisher_count = 0 /\ CoreAlive /\ StartWatcher(c)

WeakWhenClosedClosed(c) ==
    /\ ~CoreAlive
    /\ watcher[c] = "none"
    /\ watcher' = [watcher EXCEPT ![c] = "done"]
    /\ UNCHANGED <<coreVars, subVars, stream, future, slots, flush, wakers, asleep, history>>

WeakNext ==
    \/ \E s \in Subscriber : WeakSubscribe(s) \/ WeakSubscribeClosed(s)
    \/ \E f \in Future : WeakWhenReady(f) \/ WeakWhenReadyClosed(f)
    \/ \E e \in Flush : WeakWhenEmpty(e) \/ WeakWhenEmptyClosed(e)
    \/ \E c \in Watcher : WeakWhenClosed(c) \/ WeakWhenClosedClosed(c)
=============================================================================
