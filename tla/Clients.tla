------------------------------ MODULE Clients ------------------------------
(***************************************************************************)
(* Disciplines of the clients of a publisher.  The code makes progress only *)
(* under some of them; a run that drops a discipline shows what that one    *)
(* is needed for.  Each one is a condition on a step.                          *)
(***************************************************************************)
EXTENDS PubSubCore

NoPublishWaits == \A f \in Future : future[f] # "waiting"

\* No subscriber joins while a publish waits.
JoinsBetweenPublishes == ~(Registered' \subseteq Registered) => NoPublishWaits

\* All subscribers join before the first publish.
JoinsFirst == ~(Registered' \subseteq Registered) => \A f \in Future : future[f] = "none"

\* No subscriber joins after the last strong publisher was dropped.
JoinsWhileOpen == ~(Registered' \subseteq Registered) => publisher_count > 0

\* No subscriber is made by a weak publisher whose core is gone.
JoinsACore == \A s \in Subscriber : stream'[s] = "live" /\ published'[s] => s \in Registered'

\* A publish is awaited to its end.
KeepsFutures == \A f \in Future : future'[f] # "dropped"

\* The last publisher is kept until all publishes are done ...
PublishesBeforeClose == publisher_count' = 0 /\ publisher_count > 0 => NoPublishWaits

\* ... and until all that was to be emptied is empty.
FlushesBeforeClose ==
    publisher_count' = 0 /\ publisher_count > 0 => \A e \in Flush : flush[e] # "waiting"

\* No stream is cloned with messages in its queue (a clone of an empty queue is a subscription).
NoClones == \A s \in Subscriber : stream[s] = "none" => waiting'[s] = <<>>

\* No stream is dropped.
KeepsStreams == \A s \in Subscriber : stream'[s] # "dropped"

Disciplined ==
    /\ JoinsBetweenPublishes /\ JoinsWhileOpen /\ JoinsACore
    /\ KeepsFutures /\ PublishesBeforeClose /\ FlushesBeforeClose
=============================================================================
