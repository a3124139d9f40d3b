---------------------------- MODULE StreamRelay ----------------------------
(***************************************************************************)
(* A StreamPublisher (src/src/stream_publisher.rs) that relays a switching  *)
(* stream over generators (SwitchingStream) to a WeakPublisher.  It is the  *)
(* only one that publishes; the others subscribe, read, drop their streams, *)
(* and drop the one strong publisher when they like.  While that is there   *)
(* the relay does what one with a Publisher does.                           *)
(*                                                                          *)
(* The relay is one task: all it polls gets its waker.  Its poll is several *)
(* steps, between which everyone else goes on; `woken' notes that a waker   *)
(* of the relay was called since its poll began.  A message is named by the *)
(* when_ready future that will carry it.                                    *)
(***************************************************************************)
EXTENDS PublishAll, SwitchingStream

CONSTANT Closed     \* the watcher that is the relay's when_closed

ASSUME ClosedAssumption == Closed \in Watcher
ASSUME CarriedAssumption == Message = Future

VARIABLES
    relay,      \* none, idle, done, dropped, or where its poll is
    currently_publishing,   \* an Option, as a set
    woken,
    joined      \* history: how many messages had been yielded when a stream was subscribed

relayVars == <<relay, currently_publishing, woken, joined>>
system    == <<vars, sourceVars, relayVars>>

RelayInit ==
    /\ Init /\ SwitchInit
    /\ relay = "none"
    /\ currently_publishing = {}
    /\ woken = FALSE
    /\ joined = [s \in Subscriber |-> 0]

Tasks == Future \cup {Closed}

\* A waker that PubSubCore calls is the relay's if it was left by a future of the relay.
NotesWakers == woken' = (woken \/ (asleep \ asleep') \cap Tasks # {})

Goto(before, after) ==
    relay = before /\ relay' = after /\ UNCHANGED <<currently_publishing, joined>>

-----------------------------------------------------------------------------
(* StreamPublisher *)

\* new()
SendAllTo ==
    /\ Goto("none", "idle")
    /\ WhenClosed(Closed) \/ WeakWhenClosed(Closed) \/ WeakWhenClosedClosed(Closed)
    /\ woken' = TRUE
    /\ UNCHANGED sourceVars

\* poll: a message that is being published comes first
Poll ==
    /\ relay = "idle"
    /\ relay' = IF currently_publishing = {} THEN "watching" ELSE "publishing"
    /\ woken' = FALSE
    /\ UNCHANGED <<vars, sourceVars, currently_publishing, joined>>

\* publish() is polled: it waits for its sender, and the poll of the relay is over ...
PublishWaits(f, kept) ==
    /\ relay \in {"publishing", "sending"}
    /\ f \in currently_publishing
    /\ PollBlocked(f)
    /\ relay' = "idle"
    /\ currently_publishing' = kept
    /\ NotesWakers
    /\ UNCHANGED <<sourceVars, joined>>

PublishForgotten(f) == PublishWaits(f, {})

PublishPending(f) == PublishWaits(f, {f})

\* ... or gets it and sends.
PublishReady(f) ==
    /\ relay \in {"publishing", "sending"}
    /\ f \in currently_publishing
    /\ PollReady(f) \/ Sending(f)
    /\ NotesWakers
    /\ UNCHANGED <<sourceVars, relay, currently_publishing, joined>>

PublishEnds(f, kept) ==
    /\ relay \in {"publishing", "sending"}
    /\ f \in currently_publishing
    /\ future[f] \in {"sent", "void"}
    /\ relay' = IF relay = "publishing" THEN "watching" ELSE "checking"
    /\ currently_publishing' = kept
    /\ UNCHANGED <<vars, sourceVars, woken, joined>>

PublishedKeeps(f) == PublishEnds(f, {f})

Published(f) == PublishEnds(f, {})

\* when_closed is polled, for its waker
WatchClosed ==
    /\ Goto("watching", "checking")
    /\ PollClosed(Closed) \/ PollOpen(Closed) \/ (watcher[Closed] = "done" /\ UNCHANGED vars)
    /\ NotesWakers
    /\ UNCHANGED sourceVars

\* The loop: is_closed ...
FindsClosed ==
    /\ Goto("checking", "done")
    /\ CoreUnlocked /\ publisher_count = 0
    /\ UNCHANGED <<vars, sourceVars, woken>>

FindsOpen ==
    /\ Goto("checking", "reading")
    /\ CoreUnlocked /\ publisher_count > 0
    /\ UNCHANGED <<vars, sourceVars, woken>>

\* ... and the stream, which may have a message, and then has perhaps called the waker,
ReadsMessage(awaited) ==
    /\ relay = "reading" /\ relay' = "creating"
    /\ ReadMessage(IF awaited THEN PollYieldsAwaited(source) ELSE PollYieldsLast(source))
    /\ currently_publishing' = {generated'[Len(generated')]}
    /\ woken' = (woken \/ awaited)
    /\ UNCHANGED <<vars, joined>>

ReadsEnd == Goto("reading", "done") /\ ReadEnd /\ UNCHANGED <<vars, woken>>

\* or have none yet.
ReadsPending == Goto("reading", "idle") /\ ReadPending /\ UNCHANGED <<vars, woken>>

\* publish() is called.
Creates(f) ==
    /\ Goto("creating", "sending")
    /\ f \in currently_publishing
    /\ WhenReady(f) \/ WeakWhenReady(f) \/ WeakWhenReadyClosed(f)
    /\ UNCHANGED <<sourceVars, woken>>

\* The relay is dropped between polls, with what it is publishing.
DropRelay ==
    /\ relay \in {"idle", "done"}
    /\ relay' = "dropped"
    /\ UNCHANGED <<vars, sourceVars, currently_publishing, woken, joined>>

Discards ==
    /\ relay = "dropped"
    /\ (\E f \in currently_publishing : DropFuture(f)) \/ DropWatcher(Closed)
    /\ UNCHANGED <<sourceVars, relayVars>>

-----------------------------------------------------------------------------
(* Everyone else *)

Clients ==
    /\ \/ \E s \in Subscriber :
             Subscribe(s) /\ joined' = [joined EXCEPT ![s] = Len(generated)]
       \/ /\ \/ \E s \in Subscriber : DropSubscriber(s) \/ PollNext(s)
             \/ DropLastPublisher \/ ReleaseCore
          /\ UNCHANGED joined
    /\ NotesWakers
    /\ UNCHANGED <<sourceVars, relay, currently_publishing>>

Wakes(called) ==
    /\ woken' = (woken \/ called)
    /\ UNCHANGED <<vars, relay, currently_publishing, joined>>

SwitchesSilently(g) == SwitchToStream(g) /\ Wakes(FALSE)
DropsSwitchSilently == DropSwitch /\ Wakes(FALSE)

Switches(g) == SwitchToStream(g) /\ Wakes(wake)

DropsSwitch == DropSwitch /\ Wakes(wake)

Event(g) == EventArrives(g) /\ UNCHANGED switchVars /\ Wakes(g = source)

-----------------------------------------------------------------------------
Polls ==
    \/ WatchClosed \/ FindsClosed \/ FindsOpen
    \/ ReadsMessage(TRUE) \/ ReadsMessage(FALSE) \/ ReadsEnd \/ ReadsPending
    \/ \E f \in Future : PublishPending(f) \/ PublishReady(f) \/ Published(f) \/ Creates(f)

RelayNext ==
    \/ SendAllTo \/ Poll \/ Polls \/ DropRelay \/ Discards
    \/ Clients
    \/ \E g \in Source : Switches(g) \/ Event(g)
    \/ DropsSwitch

RelaySpec == RelayInit /\ [][RelayNext]_system

\* The executor polls a relay that was woken, its polls end, and the readers read.
RelayFairness ==
    /\ WF_system(woken /\ Poll) /\ WF_system(Polls)
    /\ WF_system(ReleaseCore /\ Clients)
    /\ \A s \in Subscriber : WF_system(s \notin asleep /\ PollNext(s) /\ Clients)

FairRelaySpec == RelaySpec /\ RelayFairness

-----------------------------------------------------------------------------
\* The relay's variables have their types, and its Option holds a publish that can be polled.
RelayTypeOK ==
    /\ TypeOK
    /\ relay \in {"none", "idle", "done", "dropped", "publishing", "watching", "checking",
                  "reading", "creating", "sending"}
    /\ currently_publishing \subseteq Future /\ Cardinality(currently_publishing) <= 1
    /\ woken \in BOOLEAN
    /\ generating \in [Source -> {"unused", "running", "waiting", "finished", "dropped"}]
    /\ generated \in Seq(Message)
    /\ source \in Source
    /\ closed \in BOOLEAN /\ switch_available \in BOOLEAN /\ wake \in BOOLEAN
    /\ relay = "idle" => \A f \in currently_publishing : future[f] = "waiting"
    /\ relay = "watching" => currently_publishing = {}

\* All that generators yield is published: what a subscriber gets is what was yielded from the time it
\* joined, in that order, without a gap, whichever generators it came from and however they ended; the
\* message that was in hand when it joined may be the first.  When all is sent, nothing is missing.
RelaysAll ==
    /\ \A f \in Range(generated) : f \in currently_publishing \/ future[f] \in {"sent", "void"}
    /\ \A s \in Subscriber : \E i, j \in 0 .. Len(generated) :
           /\ joined[s] \in {i, i + 1}
           /\ Delivered(s) = SubSeq(generated, i + 1, j)
           /\ s \in Registered /\ (\A f \in Range(generated) : future[f] = "sent") =>
                j = Len(generated)

\* A relay that is not going to be woken waits for a subscriber with no room, or it watches the
\* publisher, which is open, and reads from a stream that has nothing yet and has its waker: one that
\* waits for an event, or a stream that has ended while the switch is there.
RelayNotStranded ==
    relay = "idle" /\ ~woken =>
        /\ \A f \in currently_publishing : \E s \in Blocking(f) : f \in notify_ready[s]
        /\ currently_publishing = {} =>
            /\ publisher_count > 0 /\ Closed \in notify_closed
            /\ wake
            /\ \/ closed /\ switch_available /\ generating[source] = "finished"
               \/ ~closed /\ generating[source] = "waiting"

\* Once the publisher is closed, or the stream has ended and the switch is gone, the relay completes,
\* its readers reading (stream_publisher.rs:71, switching_stream.rs:35).
RelayEnds ==
    relay # "none" /\ (publisher_count = 0 \/ (closed /\ ~switch_available))
        ~> relay \in {"done", "dropped"}
=============================================================================
