---------------------------- MODULE RelayProofs ----------------------------
(***************************************************************************)
(* Proofs about StreamRelay, for any generators, messages and subscribers.  *)
(*                                                                          *)
(* The relay and the clients beside it do nothing that the clients of       *)
(* PublishAll could not do (RelayIsAClient), so all that is proved of       *)
(* PublishAll is true of the relay.  What it adds is where the relay is in  *)
(* its poll (PollStages), who would wake it (Watched) and what became of the    *)
(* messages that it took out of the stream (Relayed).                       *)
(***************************************************************************)
EXTENDS StreamRelay, AtomicProofs, SequenceTheorems

\* The types of what the relay adds, without those of its futures.
Types ==
    /\ relay \in {"none", "idle", "done", "dropped", "publishing", "watching", "checking",
                  "reading", "creating", "sending"}
    /\ currently_publishing \subseteq Future /\ Cardinality(currently_publishing) <= 1
    /\ woken \in BOOLEAN
    /\ generating \in [Source -> {"unused", "running", "waiting", "finished", "dropped"}]
    /\ generated \in Seq(Message)
    /\ source \in Source
    /\ closed \in BOOLEAN /\ switch_available \in BOOLEAN /\ wake \in BOOLEAN

-----------------------------------------------------------------------------
(* The stream and the relay's own variables *)

\* An Option is empty or holds one message.
LEMMA OneOrNone == Cardinality({}) <= 1 /\ \A m : Cardinality({m}) <= 1
  BY FS_EmptySet, FS_Singleton

\* A generator yields a message that none has yielded before, and that is the relay's next one.
LEMMA YieldsNext ==
    ASSUME Types, NEW awaited \in BOOLEAN, ReadsMessage(awaited)
    PROVE  \E m \in Future :
               /\ m \notin Range(generated)
               /\ generated' = Append(generated, m)
               /\ currently_publishing' = {m}
               /\ \E after \in {"running", "waiting", "finished"} :
                      generating' = [generating EXCEPT ![source] = after]
               /\ ~closed /\ UNCHANGED <<source, closed, switch_available, vars>> /\ wake' = TRUE
               /\ woken' \in BOOLEAN
               /\ relay = "reading" /\ relay' = "creating"
  <1> DEFINE m == CHOOSE n \in Message : n \notin Range(generated)
  <1>1. \E after \in {"running", "waiting", "finished"} : Yields(source, after)
    BY DEF ReadsMessage, ReadMessage, PollYieldsAwaited, PollYieldsLast
  <1>2. m \in Message /\ m \notin Range(generated)
    BY <1>1 DEF Yields
  <1>3. generated' = Append(generated, m)
    BY <1>1 DEF Yields
  <1>4. m \in Future
    BY <1>2, CarriedAssumption
  <1> HIDE DEF m
  <1>5. generated'[Len(generated')] = m
    BY <1>2, <1>3 DEF Types
  <1>6. \E after \in {"running", "waiting", "finished"} :
            generating' = [generating EXCEPT ![source] = after]
    BY <1>1 DEF Yields
  <1>7. currently_publishing' = {m}
    BY <1>5 DEF ReadsMessage
  <1> QED
    BY <1>2, <1>3, <1>4, <1>6, <1>7 DEF ReadsMessage, ReadMessage, Types

\* What goes on in the stream keeps its types, and yields nothing.
LEMMA SourceTypes ==
    ASSUME Types,
           \/ ReadEnd \/ ReadPending \/ DropSwitch
           \/ \E g \in Source : SwitchToStream(g) \/ (EventArrives(g) /\ UNCHANGED switchVars)
    PROVE  /\ generating' \in [Source -> {"unused", "running", "waiting", "finished", "dropped"}]
           /\ generated' = generated
           /\ source' \in Source
           /\ closed' \in BOOLEAN /\ switch_available' \in BOOLEAN /\ wake' \in BOOLEAN
  BY DEF Types, ReadEnd, ReadPending, ReachesEnd, PollCompletes, Completes, PollAwaitsEvent,
     DropSwitch, SwitchToStream, EventArrives, switchVars, generatorVars

\* Every step keeps the types of the relay and its stream.
LEMMA StepTypesOfRelay ==
    ASSUME Types, [RelayNext]_system
    PROVE  Types'
  <1>1. ASSUME UNCHANGED <<currently_publishing, sourceVars>>, woken' \in BOOLEAN,
               relay' \in {"none", "idle", "done", "dropped", "publishing", "watching",
                           "checking", "reading", "creating", "sending"}
        PROVE  Types'
    BY <1>1 DEF Types, sourceVars, generatorVars, switchVars
  <1>2. CASE SendAllTo \/ Poll \/ FindsClosed \/ FindsOpen \/ DropRelay
    BY <1>1, <1>2 DEF SendAllTo, Poll, FindsClosed, FindsOpen, DropRelay, Goto, Types
  <1>3. CASE WatchClosed \/ Clients
    BY <1>1, <1>3 DEF WatchClosed, Clients, Goto, NotesWakers, Types
  <1>4. ASSUME NEW awaited \in BOOLEAN, ReadsMessage(awaited)
        PROVE  Types'
    <2>1. PICK m \in Future :
               /\ generated' = Append(generated, m)
               /\ currently_publishing' = {m}
               /\ \E after \in {"running", "waiting", "finished"} :
                      generating' = [generating EXCEPT ![source] = after]
               /\ UNCHANGED <<source, closed, switch_available>> /\ wake' = TRUE
               /\ woken' \in BOOLEAN
               /\ relay' = "creating"
      BY <1>4, YieldsNext
    <2>2. generated' \in Seq(Message)
      BY <2>1, CarriedAssumption, AppendProperties DEF Types
    <2>3. currently_publishing' \subseteq Future /\ Cardinality(currently_publishing') <= 1
      BY <2>1, OneOrNone
    <2>4. generating' \in [Source -> {"unused", "running", "waiting", "finished", "dropped"}]
      BY <2>1 DEF Types
    <2> QED
      BY <2>1, <2>2, <2>3, <2>4 DEF Types
  <1>5. CASE ReadsEnd \/ ReadsPending
    BY <1>5, SourceTypes DEF ReadsEnd, ReadsPending, Goto, Types
  <1>6. ASSUME NEW f \in Future, PublishPending(f) \/ PublishReady(f) \/ Published(f) \/ Creates(f)
        PROVE  Types'
    <2>1. currently_publishing' \in {currently_publishing, {f}, {}}
      BY <1>6 DEF PublishPending, PublishWaits, PublishReady, Published, PublishEnds, Creates, Goto
    <2>2. currently_publishing' \subseteq Future /\ Cardinality(currently_publishing') <= 1
      BY <2>1, OneOrNone DEF Types
    <2>3. woken' \in BOOLEAN /\ UNCHANGED sourceVars
      BY <1>6 DEF PublishPending, PublishWaits, PublishReady, Published, PublishEnds, Creates,
         NotesWakers, Types
    <2>4. relay' \in {relay, "idle", "watching", "checking", "sending"}
      BY <1>6 DEF PublishPending, PublishWaits, PublishReady, Published, PublishEnds, Creates, Goto
    <2> QED
      BY <2>2, <2>3, <2>4 DEF Types, sourceVars, generatorVars, switchVars
  <1>7. CASE Discards \/ UNCHANGED system
    BY <1>1, <1>7 DEF Discards, relayVars, system, Types
  <1>8. ASSUME UNCHANGED <<relay, currently_publishing>>, woken' \in BOOLEAN,
               \/ DropSwitch
               \/ \E g \in Source : SwitchToStream(g) \/ (EventArrives(g) /\ UNCHANGED switchVars)
        PROVE  Types'
    <2>1. /\ generating' \in [Source -> {"unused", "running", "waiting", "finished", "dropped"}]
          /\ generated' = generated
          /\ source' \in Source
          /\ closed' \in BOOLEAN /\ switch_available' \in BOOLEAN /\ wake' \in BOOLEAN
      BY <1>8, SourceTypes
    <2> QED
      BY <1>8, <2>1 DEF Types
  <1>9. ASSUME DropsSwitch \/ \E g \in Source : Switches(g) \/ Event(g)
        PROVE  Types'
    <2>1. woken' \in BOOLEAN /\ UNCHANGED <<relay, currently_publishing>>
      BY <1>9 DEF DropsSwitch, Switches, Event, Wakes, Types
    <2>2. \/ DropSwitch
          \/ \E g \in Source : SwitchToStream(g) \/ (EventArrives(g) /\ UNCHANGED switchVars)
      BY <1>9 DEF DropsSwitch, Switches, Event
    <2> QED
      BY <1>8, <2>1, <2>2
  <1> QED
    BY <1>2, <1>3, <1>4, <1>5, <1>6, <1>7, <1>9 DEF RelayNext, Polls

-----------------------------------------------------------------------------
(* The relay is a client of PublishAll *)

\* A step of the relay is one of a future, of its watcher or of a client, or it is none of
\* PublishAll's.
LEMMA RelayIsNext ==
    ASSUME Types, [RelayNext]_system
    PROVE  [Next]_vars
  <1>1. CASE SendAllTo
    BY <1>1, ClosedAssumption DEF SendAllTo, Next, SharedNext, WeakNext
  <1>2. CASE Poll \/ FindsClosed \/ FindsOpen \/ ReadsEnd \/ ReadsPending \/ DropRelay
    BY <1>2 DEF Poll, FindsClosed, FindsOpen, ReadsEnd, ReadsPending, DropRelay
  <1>3. CASE WatchClosed
    BY <1>3, ClosedAssumption DEF WatchClosed, Next, SharedNext
  <1>4. ASSUME NEW awaited, ReadsMessage(awaited)
        PROVE  UNCHANGED vars
    BY <1>4 DEF ReadsMessage
  <1>5. ASSUME NEW f \in Future, PublishPending(f) \/ PublishReady(f)
        PROVE  Next
    BY <1>5 DEF PublishPending, PublishWaits, PublishReady, Next, PollWhenReady
  <1>6. ASSUME NEW f \in Future, Published(f)
        PROVE  UNCHANGED vars
    BY <1>6 DEF Published, PublishEnds
  <1>7. ASSUME NEW f \in Future, Creates(f)
        PROVE  Next
    BY <1>7 DEF Creates, Next, SharedNext, WeakNext
  <1>8. CASE Discards
    BY <1>8, ClosedAssumption DEF Discards, Types, Next, SharedNext
  <1>9. CASE Clients
    BY <1>9 DEF Clients, Next, SharedNext
  <1>10. ASSUME NEW g \in Source, Switches(g) \/ Event(g)
         PROVE  UNCHANGED vars
    BY <1>10 DEF Switches, Event, Wakes
  <1>11. CASE DropsSwitch
    BY <1>11 DEF DropsSwitch, Wakes
  <1>12. CASE UNCHANGED system
    BY <1>12 DEF system
  <1> QED
    BY <1>1, <1>2, <1>3, <1>4, <1>5, <1>6, <1>7, <1>8, <1>9, <1>10, <1>11, <1>12
       DEF RelayNext, Polls

\* The types hold at first.
LEMMA InitTypesOfRelay == RelayInit => Types
  <1> SUFFICES ASSUME RelayInit
               PROVE  Types
    OBVIOUS
  <1>1. currently_publishing \subseteq Future /\ Cardinality(currently_publishing) <= 1
    BY OneOrNone DEF RelayInit
  <1>2. generating \in [Source -> {"unused", "running", "waiting", "finished", "dropped"}]
    BY DEF RelayInit, SwitchInit
  <1>3. generated \in Seq(Message)
    BY DEF RelayInit, SwitchInit
  <1>4. /\ source \in Source /\ woken \in BOOLEAN
        /\ closed \in BOOLEAN /\ switch_available \in BOOLEAN /\ wake \in BOOLEAN
    BY DEF RelayInit, SwitchInit
  <1> QED
    BY <1>1, <1>2, <1>3, <1>4 DEF RelayInit, Types

\* The types hold always.
LEMMA TypesHold == RelaySpec => []Types
  BY InitTypesOfRelay, StepTypesOfRelay, PTL DEF RelaySpec

\* The relay beside its clients implements PublishAll: a stream publisher does to a publisher only
\* what some clients of it could do, in some order.
THEOREM RelayIsAClient == RelaySpec => Spec
  <1>1. RelayInit => Init
    BY DEF RelayInit
  <1>2. Types /\ [RelayNext]_system => [Next]_vars
    BY RelayIsNext
  <1> QED
    BY <1>1, <1>2, TypesHold, PTL DEF RelaySpec, Spec

-----------------------------------------------------------------------------
(* Where the relay is in its poll, and that its Option holds a publish that can be polled *)

PollStages ==
    /\ relay \in {"none", "watching", "checking", "reading", "done"} => currently_publishing = {}
    /\ relay = "idle" => \A f \in currently_publishing : future[f] = "waiting"

\* Only the relay's own calls and polls change futures.
LEMMA ClientsKeepFutures == Clients => UNCHANGED <<future, watcher>>
  BY DEF Clients, Subscribe, Attach, NewSubCore, DropSubscriber, Detach, PollNext, PollMessage,
     TakeMessage, PollEnded, PollPending, DropLastPublisher, CloseCore, ReleaseCore, taskVars

\* A poll that goes on to read has emptied the Option.
LEMMA StepStages ==
    ASSUME Types, PollStages, [RelayNext]_system
    PROVE  PollStages'
  <1>1. CASE SendAllTo \/ Poll \/ WatchClosed \/ FindsClosed \/ FindsOpen \/ ReadsEnd \/ ReadsPending
    BY <1>1 DEF SendAllTo, Poll, WatchClosed, FindsClosed, FindsOpen, ReadsEnd, ReadsPending, Goto,
       PollStages
  <1>2. ASSUME NEW awaited \in BOOLEAN, ReadsMessage(awaited)
        PROVE  PollStages'
    BY <1>2 DEF ReadsMessage, PollStages
  <1>3. ASSUME NEW f \in Future, PublishPending(f)
        PROVE  PollStages'
    BY <1>3 DEF PublishPending, PublishWaits, PollBlocked, WaitFor, PollStages
  <1>4. ASSUME NEW f \in Future, PublishReady(f)
        PROVE  PollStages'
    BY <1>4 DEF PublishReady, PollStages
  <1>5. ASSUME NEW f \in Future, Published(f) \/ Creates(f)
        PROVE  PollStages'
    BY <1>5 DEF Published, PublishEnds, Creates, Goto, PollStages
  <1>6. CASE DropRelay \/ Discards
    BY <1>6 DEF DropRelay, Discards, relayVars, PollStages
  <1>7. CASE Clients
    BY <1>7, ClientsKeepFutures DEF Clients, PollStages
  <1>8. CASE DropsSwitch \/ \E g \in Source : Switches(g) \/ Event(g)
    BY <1>8 DEF DropsSwitch, Switches, Event, Wakes, PollStages, vars, taskVars
  <1>9. CASE UNCHANGED system
    BY <1>9 DEF system, relayVars, vars, taskVars, PollStages
  <1> QED
    BY <1>1, <1>2, <1>3, <1>4, <1>5, <1>6, <1>7, <1>8, <1>9 DEF RelayNext, Polls

\* TypeOK, for which PublishAll's own invariant is needed, is inherited from it.
RelayInv == IInv /\ Types /\ PollStages

\* RelayTypeOK is a part of the invariant.
LEMMA RelayInvIs == RelayInv => RelayTypeOK
  BY DEF RelayInv, IInv, Types, PollStages, RelayTypeOK

\* Every step keeps the invariant.
LEMMA StepRelayInv == RelayInv /\ [RelayNext]_system => RelayInv'
  BY RelayIsNext, StepIInv, StepTypesOfRelay, StepStages DEF RelayInv

\* The invariant holds at first.
LEMMA InitRelayInv == RelayInit => RelayInv
  <1>1. RelayInit => PollStages
    BY DEF RelayInit, PollStages
  <1> QED
    BY <1>1, InitIInv, InitTypesOfRelay DEF RelayInit, RelayInv

\* The invariant holds always.
LEMMA RelayInvariant == RelaySpec => []RelayInv
  BY InitRelayInv, StepRelayInv, PTL DEF RelaySpec

\* The relay's Option holds at most one publish, which a poll can resume, and none when the relay
\* goes on to read: no message that it took is overwritten, whenever it is polled.
THEOREM RelayTypeCorrect == RelaySpec => []RelayTypeOK
  BY RelayInvIs, RelayInvariant, PTL

-----------------------------------------------------------------------------
(* Who wakes the relay when the publisher is closed *)

ClosedRegistered == Closed \in notify_closed /\ Closed \in asleep

\* From the first poll that gets as far as the stream, until the relay is polled after a waker was
\* called, the last publisher's Drop would call the relay's waker.
Watching ==
    \/ relay \in {"checking", "reading", "creating", "sending"}
    \/ currently_publishing # {} /\ relay # "dropped"
    \/ relay = "idle" /\ ~woken

Watched ==
    /\ publisher_count > 0 /\ Watching => ClosedRegistered
    /\ watcher[Closed] = "done" => publisher_count = 0

\* The last publisher's Drop wakes the watcher, and only a drop of the watcher forgets it.
LEMMA WatcherStays ==
    ASSUME TypeOK, ClosedRegistered,
           \/ \E s \in Subscriber : Subscribe(s) \/ DropSubscriber(s) \/ PollNext(s)
           \/ ReleaseCore
           \/ \E f \in Future : \/ PollBlocked(f) \/ PollReady(f) \/ Sending(f)
                                \/ WhenReady(f) \/ WeakWhenReady(f) \/ WeakWhenReadyClosed(f)
           \/ UNCHANGED vars
    PROVE  ClosedRegistered'
  <1>1. Closed \notin Subscriber \cup Future \cup Flush
    BY ClosedAssumption, TasksAssumption
  <1>2. ASSUME NEW s \in Subscriber, Subscribe(s)
        PROVE  ClosedRegistered'
    BY <1>2 DEF Subscribe, Attach, NewSubCore, ClosedRegistered
  <1>3. ASSUME NEW s \in Subscriber, DropSubscriber(s) \/ PollNext(s)
        PROVE  ClosedRegistered'
    <2>1. Closed \notin notify_ready[s] /\ Closed # s
      BY <1>1 DEF TypeOK
    <2> QED
      BY <1>3, <2>1 DEF DropSubscriber, Detach, PollNext, PollMessage, TakeMessage, PollEnded,
         PollPending, coreVars, ClosedRegistered
  <1>4. ASSUME NEW f \in Future, PollBlocked(f) \/ PollReady(f)
        PROVE  ClosedRegistered'
    BY <1>1, <1>4 DEF PollBlocked, WaitFor, PollReady, CreateSender, coreVars, ClosedRegistered
  <1>5. ASSUME NEW f \in Future, Sending(f)
        PROVE  ClosedRegistered'
    <2>1. Closed \notin wakers
      BY <1>1 DEF TypeOK
    <2> QED
      BY <1>5, <2>1 DEF Sending, SendLock, SendStart, SendMessage, Push, SendUnlock, SendEnd,
         coreVars, ClosedRegistered
  <1>6. ASSUME NEW f \in Future, WhenReady(f) \/ WeakWhenReady(f) \/ WeakWhenReadyClosed(f)
        PROVE  ClosedRegistered'
    BY <1>6 DEF WhenReady, WeakWhenReady, StartFuture, WeakWhenReadyClosed, coreVars, ClosedRegistered
  <1>7. CASE ReleaseCore \/ UNCHANGED vars
    BY <1>7 DEF ReleaseCore, vars, coreVars, taskVars, ClosedRegistered
  <1> QED
    BY <1>2, <1>3, <1>4, <1>5, <1>6, <1>7

\* Nothing but a publisher's own operations changes publisher_count, and the relay's clients have
\* none but the last Drop.
LEMMA RelayPublishers ==
    ASSUME RelayInv, [RelayNext]_system, publisher_count' > 0
    PROVE  publisher_count > 0 /\ ~DropLastPublisher
  BY PublishersGo, RelayIsNext DEF RelayInv, IInv, DropLastPublisher, CloseCore

\* Only the relay's call of when_closed, its polls and its drop change the watcher.
LEMMA StepDone ==
    ASSUME RelayInv, Watched, [RelayNext]_system
    PROVE  watcher'[Closed] = "done" => publisher_count' = 0
  <1> SUFFICES ASSUME watcher'[Closed] = "done", publisher_count' > 0
               PROVE  FALSE
    <2>1. publisher_count' \in Nat
      BY StepRelayInv, SizesAssumption DEF RelayInv, IInv, TypeOK
    <2> QED
      BY <2>1
  <1>1. TypeOK /\ publisher_count > 0 /\ ~DropLastPublisher /\ watcher[Closed] # "done"
    BY RelayPublishers DEF RelayInv, IInv, Watched
  <1>2. CASE UNCHANGED watcher
    BY <1>1, <1>2
  <1>3. CASE SendAllTo
    <2>1. CoreAlive
      BY <1>1 DEF CoreAlive
    <2> QED
      BY <1>1, <1>3, <2>1, ClosedAssumption DEF SendAllTo, WhenClosed, WeakWhenClosed, StartWatcher,
         WeakWhenClosedClosed, TypeOK
  <1>4. CASE WatchClosed
    BY <1>1, <1>4 DEF WatchClosed, PollClosed, PollOpen, vars, taskVars
  <1>5. CASE Discards
    BY <1>1, <1>5, ClosedAssumption DEF Discards, DropFuture, DropWatcher, TypeOK
  <1>6. ASSUME NEW f \in Future, PublishPending(f) \/ PublishReady(f)
        PROVE  UNCHANGED watcher
    BY <1>6 DEF PublishPending, PublishWaits, PublishReady, PollBlocked, WaitFor, PollReady,
       CreateSender, Sending, SendLock, SendStart, SendMessage, Push, SendUnlock, SendEnd
  <1>7. ASSUME NEW f \in Future, Creates(f)
        PROVE  UNCHANGED watcher
    BY <1>7 DEF Creates, WhenReady, WeakWhenReady, StartFuture, WeakWhenReadyClosed
  <1>8. UNCHANGED vars => UNCHANGED watcher
    BY DEF vars, taskVars
  <1>9. CASE Clients
    BY <1>2, <1>9, ClientsKeepFutures
  <1>10. ASSUME NEW f \in Future, Published(f)
         PROVE  UNCHANGED vars
    BY <1>10 DEF Published, PublishEnds
  <1>11. CASE \/ Poll \/ FindsClosed \/ FindsOpen \/ ReadsMessage(TRUE) \/ ReadsMessage(FALSE)
              \/ ReadsEnd \/ ReadsPending \/ DropRelay \/ DropsSwitch
              \/ \E g \in Source : Switches(g) \/ Event(g)
              \/ UNCHANGED system
    <2>1. UNCHANGED vars
      BY <1>11 DEF Poll, FindsClosed, FindsOpen, ReadsMessage, ReadsEnd, ReadsPending, DropRelay,
         DropsSwitch, Switches, Event, Wakes, system
    <2> QED
      BY <1>2, <1>8, <2>1
  <1> QED
    BY <1>2, <1>3, <1>4, <1>5, <1>6, <1>7, <1>8, <1>9, <1>10, <1>11 DEF RelayNext, Polls

\* Every step keeps the last Drop's way to the relay.
LEMMA StepWatched ==
    ASSUME RelayInv, Watched, [RelayNext]_system
    PROVE  Watched'
  <1> SUFFICES ASSUME publisher_count' > 0, Watching'
               PROVE  ClosedRegistered'
    BY StepDone DEF Watched
  <1>1. TypeOK /\ Types /\ PollStages /\ publisher_count > 0 /\ ~DropLastPublisher
    BY RelayPublishers DEF RelayInv, IInv
  <1>2. Watching => ClosedRegistered
    BY <1>1 DEF Watched
  <1>3. UNCHANGED vars /\ Watching => ClosedRegistered'
    BY <1>1, <1>2, WatcherStays
  <1>4. CASE SendAllTo
    <2>1. currently_publishing' = {} /\ relay' = "idle" /\ woken' = TRUE
      BY <1>1, <1>4 DEF SendAllTo, Goto, PollStages
    <2> QED
      BY <2>1 DEF Watching
  <1>5. CASE Poll
    <2>1. /\ relay = "idle" /\ UNCHANGED <<vars, currently_publishing>>
          /\ relay' = IF currently_publishing = {} THEN "watching" ELSE "publishing"
      BY <1>5 DEF Poll
    <2>2. currently_publishing # {}
      BY <2>1 DEF Watching
    <2> QED
      BY <1>3, <2>1, <2>2 DEF Watching
  <1>6. CASE WatchClosed
    <2>1. CASE PollClosed(Closed)
      BY <1>1, <2>1 DEF PollClosed
    <2>2. CASE PollOpen(Closed)
      BY <2>2 DEF PollOpen, ClosedRegistered
    <2>3. CASE watcher[Closed] = "done" /\ UNCHANGED vars
      BY <1>1, <2>3 DEF Watched
    <2> QED
      BY <1>6, <2>1, <2>2, <2>3 DEF WatchClosed
  <1>7. CASE FindsClosed \/ FindsOpen \/ ReadsEnd
    <2>1. Watching /\ UNCHANGED vars
      BY <1>7 DEF FindsClosed, FindsOpen, ReadsEnd, Goto, Watching
    <2> QED
      BY <1>3, <2>1
  <1>8. CASE ReadsMessage(TRUE) \/ ReadsMessage(FALSE) \/ ReadsPending
    <2>1. Watching /\ UNCHANGED vars
      BY <1>8 DEF ReadsMessage, ReadsPending, Goto, Watching
    <2> QED
      BY <1>3, <2>1
  <1>9. ASSUME NEW f \in Future, PublishPending(f) \/ PublishReady(f)
        PROVE  ClosedRegistered'
    <2>1. Watching
      BY <1>9 DEF PublishPending, PublishWaits, PublishReady, Watching
    <2> QED
      BY <1>1, <1>2, <1>9, <2>1, WatcherStays DEF PublishPending, PublishWaits, PublishReady
  <1>10. ASSUME NEW f \in Future, Published(f)
         PROVE  ClosedRegistered'
    <2>1. Watching /\ UNCHANGED vars
      BY <1>10 DEF Published, PublishEnds, Watching
    <2> QED
      BY <1>3, <2>1
  <1>11. ASSUME NEW f \in Future, Creates(f)
         PROVE  ClosedRegistered'
    <2>1. Watching
      BY <1>11 DEF Creates, Goto, Watching
    <2> QED
      BY <1>1, <1>2, <1>11, <2>1, WatcherStays DEF Creates
  <1>12. CASE DropRelay \/ Discards
    BY <1>12 DEF DropRelay, Discards, relayVars, Watching
  <1>13. CASE Clients
    <2>1. /\ UNCHANGED <<relay, currently_publishing>>
          /\ woken' = (woken \/ (asleep \ asleep') \cap Tasks # {})
      BY <1>13 DEF Clients, NotesWakers
    <2>2. ~woken' => ~woken
      BY <2>1
    <2>3. Watching
      BY <2>1, <2>2 DEF Watching
    <2> QED
      BY <1>1, <1>2, <1>13, <2>3, WatcherStays DEF Clients
  <1>14. CASE DropsSwitch \/ \E g \in Source : Switches(g) \/ Event(g)
    <2>1. UNCHANGED <<relay, currently_publishing, vars>> /\ (woken => woken')
      BY <1>14 DEF DropsSwitch, Switches, Event, Wakes
    <2>2. ~woken' => ~woken
      BY <2>1
    <2> QED
      BY <1>3, <2>1, <2>2 DEF Watching
  <1>15. CASE UNCHANGED system
    <2>1. UNCHANGED <<relay, currently_publishing, woken, vars>>
      BY <1>15 DEF system, relayVars
    <2> QED
      BY <1>3, <2>1 DEF Watching
  <1> QED
    BY <1>4, <1>5, <1>6, <1>7, <1>8, <1>9, <1>10, <1>11, <1>12, <1>13, <1>14, <1>15
       DEF RelayNext, Polls

\* There is no relay to watch at first.
LEMMA InitWatched == RelayInit => Watched
  BY ClosedAssumption DEF RelayInit, Init, Watched, Watching

\* The last Drop would always wake a relay that depends on it.
LEMMA WatchedHolds == RelaySpec => []Watched
  <1>1. RelayInv /\ Watched /\ [RelayNext]_system => Watched'
    BY StepWatched
  <1> QED
    BY <1>1, InitWatched, RelayInvariant, PTL DEF RelaySpec

-----------------------------------------------------------------------------
(* A relay that sleeps is registered with whatever it waits for *)

\* The stream has nothing for the relay, but has its waker.
StreamWaits ==
    /\ wake
    /\ \/ closed /\ switch_available /\ generating[source] = "finished"
       \/ ~closed /\ generating[source] = "waiting"

\* closed says that the stream within has ended, and a poll that goes on to read finds the publisher
\* still open, or was woken by its closing.
Sleeping ==
    /\ closed => generating[source] = "finished"
    /\ relay = "reading" /\ ~woken => publisher_count > 0
    /\ relay = "idle" /\ ~woken =>
        /\ \A f \in currently_publishing : f \in asleep /\ \E s \in Subscriber : Awaits(f, s)
        /\ currently_publishing = {} => publisher_count > 0 /\ StreamWaits

\* Steps that leave the stream and the poll alone, and PublishAll too.
LEMMA QuietSleeping ==
    ASSUME Sleeping, UNCHANGED <<vars, sourceVars, relay, currently_publishing, woken>>
    PROVE  Sleeping'
  <1>1. UNCHANGED <<publisher_count, subscribers, reserved, waiting, slots, notify_ready, asleep>>
    BY DEF vars, coreVars, subVars, taskVars
  <1>2. \A f, s : Awaits(f, s)' = Awaits(f, s)
    BY <1>1 DEF Awaits, Blocking, Wanted, Full, QueueSize, Registered
  <1>3. StreamWaits' = StreamWaits
    BY DEF StreamWaits, sourceVars, generatorVars, switchVars
  <1> QED
    BY <1>1, <1>2, <1>3 DEF Sleeping, sourceVars, generatorVars, switchVars

\* While the clients go on, a relay that sleeps is woken or remains registered: in the end the last
\* Drop, which forgets those that wait for slots, wakes it through its watcher.
LEMMA ClientsSleeping ==
    ASSUME RelayInv, RelayInv', Watched, Sleeping, [RelayNext]_system, Clients
    PROVE  Sleeping'
  <1>1. TypeOK /\ TypeOK' /\ Types /\ [Next]_vars
    BY RelayIsNext DEF RelayInv, IInv
  <1>2. /\ UNCHANGED <<relay, currently_publishing, generating, generated, source, closed,
                       switch_available, wake>>
        /\ ~woken' => ~woken /\ (asleep \ asleep') \cap Tasks = {}
    BY DEF Clients, NotesWakers, sourceVars, generatorVars, switchVars
  <1>3. ASSUME Watching, ~woken'
        PROVE  ~DropLastPublisher /\ (publisher_count > 0 => publisher_count' > 0)
    <2>1. Closed \in Tasks
      BY DEF Tasks
    <2>2. ASSUME DropLastPublisher
          PROVE  FALSE
      <3>1. ClosedRegistered
        BY <1>3, <2>2 DEF Watched, DropLastPublisher
      <3>2. Closed \notin asleep'
        BY <2>2, <3>1 DEF DropLastPublisher, CloseCore, ClosingWakers, ClosedRegistered
      <3> QED
        BY <1>2, <1>3, <2>1, <3>1, <3>2 DEF ClosedRegistered
    <2>3. ReleaseCore \/ (\E s \in Subscriber : Subscribe(s) \/ DropSubscriber(s) \/ PollNext(s)) =>
            UNCHANGED publisher_count
      BY DEF ReleaseCore, Subscribe, Attach, NewSubCore, DropSubscriber, Detach, PollNext,
         PollMessage, TakeMessage, PollEnded, PollPending, coreVars
    <2> QED
      BY <2>2, <2>3 DEF Clients
  <1>4. StreamWaits' = StreamWaits
    BY <1>2 DEF StreamWaits
  <1>5. ASSUME relay = "idle", ~woken', NEW f \in currently_publishing
        PROVE  f \in asleep' /\ \E s \in Subscriber : Awaits(f, s)'
    <2>1. f \in Future /\ f \in Tasks /\ ~woken /\ ~DropLastPublisher
      BY <1>1, <1>2, <1>3, <1>5 DEF Types, Tasks, Watching
    <2>2. f \in asleep /\ \E s \in Subscriber : Awaits(f, s)
      BY <1>5, <2>1 DEF Sleeping
    <2>3. f \in asleep'
      BY <1>2, <1>5, <2>1, <2>2
    <2>4. StillAwaits(f) \/ \E s \in Subscriber : Awaits(f, s)'
      BY <1>1, <2>1, <2>3, SleepersStillAwait DEF RelayInv
    <2> QED
      BY <2>2, <2>3, <2>4 DEF StillAwaits
  <1>6. relay = "reading" /\ ~woken' => publisher_count' > 0
    BY <1>2, <1>3 DEF Sleeping, Watching
  <1>7. relay = "idle" /\ ~woken' /\ currently_publishing = {} => publisher_count' > 0 /\ StreamWaits'
    BY <1>2, <1>3, <1>4 DEF Sleeping, Watching
  <1> QED
    BY <1>2, <1>5, <1>6, <1>7 DEF Sleeping

\* A poll that finds the stream pending, or ended while the switch is there, leaves it the waker.
LEMMA ReadsSleeping ==
    ASSUME Types, PollStages, Sleeping, ReadsPending
    PROVE  Sleeping'
  <1>1. /\ relay = "reading" /\ relay' = "idle" /\ UNCHANGED <<currently_publishing, woken, vars>>
        /\ ReadPending
    BY DEF ReadsPending, Goto
  <1>2. currently_publishing = {} /\ publisher_count' = publisher_count
    BY <1>1 DEF PollStages, vars, coreVars
  <1>3. StreamWaits' /\ (closed' => generating'[source'] = "finished")
    BY <1>1 DEF Types, Sleeping, ReadPending, ReachesEnd, PollCompletes, Completes, PollAwaitsEvent,
       StreamWaits, generatorVars
  <1>4. ~woken' => ~woken
    BY <1>1
  <1> QED
    BY <1>1, <1>2, <1>3, <1>4 DEF Sleeping

\* What happens in the stream wakes the relay, if it happens in the generator that is read.
LEMMA SourceSleeping ==
    ASSUME Types, Sleeping, DropsSwitch \/ \E g \in Source : Switches(g) \/ Event(g)
    PROVE  Sleeping'
  <1>1. UNCHANGED <<vars, relay, currently_publishing>> /\ (~woken' => ~woken)
    BY DEF DropsSwitch, Switches, Event, Wakes
  <1>2. UNCHANGED <<publisher_count, subscribers, reserved, waiting, slots, notify_ready, asleep>>
    BY <1>1 DEF vars, coreVars, subVars, taskVars
  <1>3. \A f, s : Awaits(f, s)' = Awaits(f, s)
    BY <1>2 DEF Awaits, Blocking, Wanted, Full, QueueSize, Registered
  <1>4. closed' => generating'[source'] = "finished"
    BY DEF Types, Sleeping, DropsSwitch, DropSwitch, Switches, SwitchToStream, Event, EventArrives,
       generatorVars, switchVars
  <1>5. StreamWaits /\ ~woken' => StreamWaits'
    <2>1. ASSUME DropsSwitch \/ \E g \in Source : Switches(g), wake
          PROVE  woken'
      BY <2>1 DEF DropsSwitch, Switches, Wakes
    <2>2. ASSUME NEW g \in Source, Event(g), ~woken', StreamWaits
          PROVE  StreamWaits'
      <3>1. g # source /\ EventArrives(g) /\ UNCHANGED switchVars
        BY <2>2 DEF Event, Wakes
      <3> QED
        BY <2>2, <3>1 DEF EventArrives, switchVars, StreamWaits, Types
    <2> QED
      BY <2>1, <2>2 DEF StreamWaits
  <1> QED
    BY <1>1, <1>2, <1>3, <1>4, <1>5 DEF Sleeping

\* Every step wakes a relay that sleeps, or leaves it registered.
LEMMA StepSleeping ==
    ASSUME RelayInv, Watched, Sleeping, [RelayNext]_system
    PROVE  Sleeping'
  <1>1. RelayInv' /\ TypeOK /\ TypeOK' /\ Types /\ PollStages
    BY StepRelayInv DEF RelayInv, IInv
  <1>2. ASSUME relay' \notin {"idle", "reading"}, UNCHANGED sourceVars
        PROVE  Sleeping'
    BY <1>2 DEF Sleeping, sourceVars, generatorVars, switchVars
  <1>3. CASE SendAllTo
    BY <1>3 DEF SendAllTo, Goto, Sleeping, sourceVars, generatorVars, switchVars
  <1>4. CASE Poll \/ WatchClosed \/ FindsClosed \/ DropRelay \/ Discards
    BY <1>2, <1>4 DEF Poll, WatchClosed, FindsClosed, DropRelay, Discards, Goto, relayVars
  <1>5. CASE FindsOpen
    BY <1>5 DEF FindsOpen, Goto, Sleeping, sourceVars, generatorVars, switchVars, vars, coreVars
  <1>6. ASSUME NEW awaited \in BOOLEAN, ReadsMessage(awaited)
        PROVE  Sleeping'
    <2>1. relay' = "creating" /\ ~closed /\ UNCHANGED closed
      BY <1>1, <1>6, YieldsNext
    <2> QED
      BY <2>1 DEF Sleeping
  <1>7. CASE ReadsEnd
    BY <1>1, <1>7 DEF ReadsEnd, ReadEnd, ReachesEnd, PollCompletes, Completes, Goto, Sleeping, Types,
       generatorVars
  <1>8. ASSUME NEW f \in Future, PublishPending(f)
        PROVE  Sleeping'
    <2>1. /\ relay' = "idle" /\ currently_publishing' = {f} /\ UNCHANGED sourceVars
          /\ PollBlocked(f)
      BY <1>8 DEF PublishPending, PublishWaits
    <2>2. f \in asleep' /\ \E s \in Subscriber : Awaits(f, s)'
      BY <1>1, <2>1, BlockedAwaits
    <2> QED
      BY <2>1, <2>2 DEF Sleeping, sourceVars, generatorVars, switchVars
  <1>9. ASSUME NEW f \in Future, PublishReady(f) \/ Published(f) \/ Creates(f)
        PROVE  Sleeping'
    BY <1>2, <1>9 DEF PublishReady, Published, PublishEnds, Creates, Goto
  <1>10. CASE UNCHANGED system
    BY <1>10, QuietSleeping DEF system, relayVars
  <1> QED
    BY <1>1, <1>3, <1>4, <1>5, <1>6, <1>7, <1>8, <1>9, <1>10, ClientsSleeping, ReadsSleeping,
       SourceSleeping DEF RelayNext, Polls

\* No relay sleeps at first.
LEMMA InitSleeping == RelayInit => Sleeping
  BY DEF RelayInit, SwitchInit, Sleeping

\* A relay that sleeps is always registered.
LEMMA SleepingHolds == RelaySpec => []Sleeping
  <1>1. RelayInv /\ Watched /\ Sleeping /\ [RelayNext]_system => Sleeping'
    BY StepSleeping
  <1> QED
    BY <1>1, InitSleeping, RelayInvariant, WatchedHolds, PTL DEF RelaySpec

\* A relay that nobody is going to wake waits for room in a full subscriber, or watches an open
\* publisher and reads from a stream that has nothing for it, but has its waker; so the closing of
\* the publisher in the middle of a publish, a switch, or the drop of the switch are not missed.
THEOREM RelayIsNotStranded == RelaySpec => []RelayNotStranded
  <1>1. RelayInv /\ Watched /\ Sleeping => RelayNotStranded
    <2> SUFFICES ASSUME RelayInv, Watched, Sleeping, relay = "idle", ~woken
                 PROVE  /\ \A f \in currently_publishing : \E s \in Blocking(f) : f \in notify_ready[s]
                        /\ currently_publishing = {} =>
                             publisher_count > 0 /\ Closed \in notify_closed /\ StreamWaits
      BY DEF RelayNotStranded, StreamWaits
    <2>1. \A f \in currently_publishing : \E s \in Blocking(f) : f \in notify_ready[s]
      BY DEF Sleeping, Awaits
    <2>2. currently_publishing = {} => publisher_count > 0 /\ StreamWaits
      BY DEF Sleeping
    <2>3. publisher_count > 0 => Closed \in notify_closed
      BY DEF Watched, Watching, ClosedRegistered
    <2> QED
      BY <2>1, <2>2, <2>3
  <1> QED
    BY <1>1, RelayInvariant, WatchedHolds, SleepingHolds, PTL

-----------------------------------------------------------------------------
(* What became of the messages that the relay took out of the stream *)

Latest == generated[Len(generated)]

\* The latest message is past s: it was put in its queue, or its sender was made without s.
Passed(s) ==
    \/ future[Latest] = "sent"
    \/ future[Latest] \in {"ready", "sending"} /\ s \notin slots[Latest]

Reached(s) == IF generated = <<>> \/ Passed(s) THEN Len(generated) ELSE Len(generated) - 1

\* A sender still serves a subscriber that was dropped since it was created.
Owed(s) == generated # <<>> /\ future[Latest] \in {"ready", "sending"} /\ s \in slots[Latest]

Expecting(s) == s \in Registered \/ Owed(s)

\* All messages but the latest were sent, and the latest was, too, when the relay reads again.
Carried ==
    /\ \A f \in Future \ Range(generated) : future[f] = "none"
    /\ \A i \in DOMAIN generated : i < Len(generated) => future[generated[i]] = "sent"
    /\ currently_publishing # {} => generated # <<>> /\ currently_publishing = {Latest}
    /\ generated # <<>> =>
        /\ currently_publishing = {} => future[Latest] \in {"sent", "void"}
        /\ relay = "reading" => future[Latest] = "sent"
        /\ future[Latest] = "void" => publisher_count = 0

\* A subscriber has all messages since it joined, up to the one that it has yet to get.
Copy(s) ==
    /\ \E i, j \in 0 .. Len(generated) :
         joined[s] \in {i, i + 1} /\ Delivered(s) = SubSeq(generated, i + 1, j)
    /\ Expecting(s) =>
         \E i \in 0 .. Reached(s) :
           joined[s] \in {i, i + 1} /\ Delivered(s) = SubSeq(generated, i + 1, Reached(s))

Copies == joined \in [Subscriber -> Nat] /\ \A s \in Subscriber : Copy(s)

\* What has a latest message has a length of its own.
LEMMA Lengths ==
    ASSUME Types
    PROVE  /\ Len(generated) \in Nat /\ DOMAIN generated = 1 .. Len(generated)
           /\ generated # <<>> => Len(generated) > 0 /\ Latest \in Future
  <1>1. generated \in Seq(Future)
    BY CarriedAssumption DEF Types
  <1>2. Len(generated) \in Nat /\ DOMAIN generated = 1 .. Len(generated)
    BY <1>1
  <1>3. generated # <<>> => Len(generated) # 0
    BY <1>1, EmptySeq
  <1>4. \A i \in 1 .. Len(generated) : generated[i] \in Future
    BY <1>1
  <1>5. Len(generated) > 0 => Len(generated) \in 1 .. Len(generated)
    BY <1>2
  <1> QED
    BY <1>2, <1>3, <1>4, <1>5 DEF Latest

\* The futures that the relay moves on are of its latest message.
LEMMA MovesLatest ==
    ASSUME TypeOK, Types, Carried, NEW f \in currently_publishing, NEW state,
           future' = [future EXCEPT ![f] = state],
           future[f] \in {"none", "waiting", "ready", "sending"},
           state = "void" => publisher_count = 0,
           publisher_count' > 0 => publisher_count > 0, publisher_count' \in Nat,
           relay' # "reading", UNCHANGED <<generated, currently_publishing>>
    PROVE  Carried'
  <1>1. f \in Future /\ currently_publishing = {f} /\ generated # <<>> /\ f = Latest
    BY DEF Carried, Types
  <1>2. Len(generated) \in Nat /\ DOMAIN generated = 1 .. Len(generated) /\ Len(generated) > 0
    BY <1>1, Lengths
  <1>3. Latest' = Latest
    BY DEF Latest
  <1>4. f \in Range(generated)
    BY <1>1, <1>2 DEF Latest, Range
  <1>5. future'[f] = state /\ \A g \in Future \ {f} : future'[g] = future[g]
    BY <1>1 DEF TypeOK
  <1>6. \A g \in Future \ Range(generated) : future'[g] = "none"
    BY <1>4, <1>5 DEF Carried
  <1>7. ASSUME NEW i \in DOMAIN generated, i < Len(generated)
        PROVE  future'[generated[i]] = "sent"
    <2>1. future[generated[i]] = "sent" /\ generated[i] \in Future
      BY <1>7, CarriedAssumption DEF Carried, Types
    <2> QED
      BY <1>5, <2>1
  <1>8. publisher_count' > 0 \/ publisher_count' = 0
    OBVIOUS
  <1>9. future'[Latest] = "void" => publisher_count' = 0
    BY <1>1, <1>5, <1>8, SizesAssumption DEF TypeOK
  <1> QED
    BY <1>1, <1>3, <1>6, <1>7, <1>9 DEF Carried

\* The steps that leave the futures alone.
LEMMA KeepsCarried ==
    ASSUME TypeOK, TypeOK', Types, Carried, UNCHANGED <<generated, future, currently_publishing>>,
           publisher_count' > 0 => publisher_count > 0,
           relay' = "reading" => relay = "reading" \/ (currently_publishing = {} /\ publisher_count > 0)
    PROVE  Carried'
  <1>1. Latest' = Latest
    BY DEF Latest
  <1>2. publisher_count = 0 => publisher_count' = 0
    BY SizesAssumption DEF TypeOK
  <1>3. generated # <<>> /\ relay' = "reading" => future[Latest] = "sent"
    BY DEF Carried
  <1> QED
    BY <1>1, <1>2, <1>3 DEF Carried

\* A message that is taken out of the stream is new, and the relay has published all others.
LEMMA ReadsCarried ==
    ASSUME TypeOK, Types, PollStages, Carried, NEW awaited \in BOOLEAN, ReadsMessage(awaited)
    PROVE  Carried'
  <1>1. PICK m \in Future :
            /\ m \notin Range(generated) /\ generated' = Append(generated, m)
            /\ currently_publishing' = {m}
            /\ UNCHANGED vars
            /\ relay = "reading" /\ relay' = "creating"
    BY YieldsNext
  <1>2. generated \in Seq(Future)
    BY CarriedAssumption DEF Types
  <1>3. /\ Len(generated) \in Nat /\ DOMAIN generated = 1 .. Len(generated)
        /\ Len(generated') = Len(generated) + 1 /\ DOMAIN generated' = 1 .. Len(generated) + 1
        /\ \A i \in 1 .. Len(generated) : generated'[i] = generated[i]
        /\ generated'[Len(generated) + 1] = m
    BY <1>1, <1>2, AppendFacts
  <1>4. Latest' = m /\ generated' # <<>>
    BY <1>1, <1>2, <1>3 DEF Latest
  <1>5. future[m] = "none" /\ future' = future
    BY <1>1 DEF Carried, vars, taskVars
  <1>6. ASSUME NEW f \in Future \ Range(generated')
        PROVE  future[f] = "none"
    <2>1. f \notin Range(generated)
      BY <1>3, <1>6 DEF Range
    <2> QED
      BY <1>6, <2>1 DEF Carried
  <1>7. ASSUME NEW i \in 1 .. Len(generated)
        PROVE  future[generated[i]] = "sent"
    <2>1. CASE i < Len(generated)
      BY <1>3, <2>1 DEF Carried
    <2>2. CASE i = Len(generated)
      <3>1. generated # <<>>
        BY <1>3
      <3>2. future[Latest] = "sent"
        BY <1>1, <3>1 DEF Carried
      <3> QED
        BY <2>2, <3>2 DEF Latest
    <2>3. i < Len(generated) \/ i = Len(generated)
      <3>1. Len(generated) \in Nat
        BY <1>3
      <3> QED
        BY <3>1
    <2> QED
      BY <2>1, <2>2, <2>3
  <1>8. \A i \in DOMAIN generated' : i < Len(generated') => future'[generated'[i]] = "sent"
    <2> SUFFICES ASSUME NEW i \in 1 .. Len(generated) + 1, i < Len(generated) + 1
                 PROVE  future[generated'[i]] = "sent"
      BY <1>3, <1>5
    <2>1. i \in 1 .. Len(generated)
      BY <1>3
    <2> QED
      BY <1>3, <1>7, <2>1
  <1> QED
    BY <1>1, <1>4, <1>5, <1>6, <1>8 DEF Carried

\* Every step carries the latest message on, if it is one of the relay's, and no other.
LEMMA StepCarried ==
    ASSUME RelayInv, Carried, [RelayNext]_system
    PROVE  Carried'
  <1>1. TypeOK /\ TypeOK' /\ Types /\ PollStages
    BY StepRelayInv DEF RelayInv, IInv
  <1>2. publisher_count' \in Nat /\ (publisher_count' > 0 => publisher_count > 0)
    BY <1>1, RelayPublishers, SizesAssumption DEF TypeOK
  <1>3. ASSUME UNCHANGED <<future, generated, currently_publishing>>,
               relay' = "reading" => relay = "reading"
        PROVE  Carried'
    BY <1>1, <1>2, <1>3, KeepsCarried
  <1>4. ASSUME NEW f \in currently_publishing,
               \E state \in {"waiting", "ready", "sending", "sent", "dropped"} :
                   future' = [future EXCEPT ![f] = state],
               future[f] \in {"none", "waiting", "ready", "sending"},
               relay' # "reading", UNCHANGED <<generated, currently_publishing>>
        PROVE  Carried'
    <2>1. PICK state \in {"waiting", "ready", "sending", "sent", "dropped"} :
              future' = [future EXCEPT ![f] = state]
      BY <1>4
    <2>2. state # "void"
      BY <2>1
    <2> QED
      BY <1>1, <1>2, <1>4, <2>1, <2>2, MovesLatest
  <1>5. CASE SendAllTo
    BY <1>3, <1>5 DEF SendAllTo, Goto, sourceVars, generatorVars, WhenClosed, WeakWhenClosed,
       StartWatcher, WeakWhenClosedClosed
  <1>6. CASE Poll \/ FindsClosed \/ DropRelay
    BY <1>3, <1>6 DEF Poll, FindsClosed, DropRelay, Goto, vars, taskVars, sourceVars, generatorVars
  <1>7. CASE FindsOpen
    <2>1. currently_publishing = {} /\ publisher_count > 0
      BY <1>1, <1>7 DEF FindsOpen, Goto, PollStages
    <2>2. UNCHANGED <<future, generated, currently_publishing>>
      BY <1>7 DEF FindsOpen, Goto, vars, taskVars, sourceVars, generatorVars
    <2> QED
      BY <1>1, <1>2, <2>1, <2>2, KeepsCarried
  <1>8. CASE WatchClosed
    BY <1>3, <1>8 DEF WatchClosed, Goto, PollClosed, PollOpen, vars, taskVars, sourceVars,
       generatorVars
  <1>9. CASE ReadsEnd \/ ReadsPending
    <2>1. UNCHANGED generated
      BY <1>1, <1>9, SourceTypes DEF ReadsEnd, ReadsPending
    <2> QED
      BY <1>3, <1>9, <2>1 DEF ReadsEnd, ReadsPending, Goto, vars, taskVars
  <1>10. ASSUME NEW f \in Future, PublishPending(f)
         PROVE  Carried'
    <2>1. UNCHANGED <<future, generated>> /\ relay' = "idle"
      BY <1>10 DEF PublishPending, PublishWaits, PollBlocked, WaitFor, sourceVars, generatorVars
    <2>2. currently_publishing' = currently_publishing
      BY <1>10 DEF PublishPending, PublishWaits, Carried
    <2> QED
      BY <1>3, <2>1, <2>2
  <1>11. ASSUME NEW f \in Future, PublishReady(f)
         PROVE  Carried'
    <2>1. /\ f \in currently_publishing /\ UNCHANGED <<generated, currently_publishing>>
          /\ relay' # "reading" /\ relay' = relay
      BY <1>11 DEF PublishReady, sourceVars, generatorVars
    <2>2. CASE PollReady(f)
      BY <1>4, <2>1, <2>2 DEF PollReady, CreateSender
    <2>3. CASE SendLock(f) \/ SendUnlock(f)
      BY <1>4, <2>1, <2>3 DEF SendLock, SendStart, SendUnlock, SendEnd
    <2>4. ASSUME NEW s \in Subscriber, SendMessage(f, s)
          PROVE  Carried'
      BY <1>3, <2>1, <2>4 DEF SendMessage, Push
    <2> QED
      BY <1>11, <2>2, <2>3, <2>4 DEF PublishReady, Sending
  <1>12. ASSUME NEW f \in Future, Published(f)
         PROVE  Carried'
    <2>1. /\ f \in currently_publishing /\ currently_publishing' = {}
          /\ future[f] \in {"sent", "void"} /\ UNCHANGED <<future, generated, publisher_count>>
          /\ relay' # "reading"
      BY <1>12 DEF Published, PublishEnds, vars, taskVars, coreVars, sourceVars, generatorVars
    <2>2. f = Latest /\ Latest' = Latest
      BY <2>1 DEF Carried, Latest
    <2> QED
      BY <2>1, <2>2 DEF Carried
  <1>13. ASSUME NEW f \in Future, Creates(f)
         PROVE  Carried'
    <2>1. /\ f \in currently_publishing /\ relay' # "reading"
          /\ UNCHANGED <<generated, currently_publishing>>
      BY <1>13 DEF Creates, Goto, sourceVars, generatorVars
    <2>2. CASE WhenReady(f) \/ WeakWhenReady(f)
      BY <1>4, <2>1, <2>2 DEF WhenReady, WeakWhenReady, StartFuture
    <2>3. CASE WeakWhenReadyClosed(f)
      <3>1. ~(publisher_count > 0)
        BY <2>3 DEF WeakWhenReadyClosed, CoreAlive
      <3>2. publisher_count = 0
        BY <1>1, <3>1, SizesAssumption DEF TypeOK
      <3>3. future[f] = "none" /\ future' = [future EXCEPT ![f] = "void"]
        BY <2>3 DEF WeakWhenReadyClosed
      <3> QED
        BY <1>1, <1>2, <2>1, <3>2, <3>3, MovesLatest
    <2> QED
      BY <1>13, <2>2, <2>3 DEF Creates
  <1>14. CASE Discards
    <2>1. UNCHANGED <<generated, currently_publishing, relay>> /\ relay = "dropped"
      BY <1>14 DEF Discards, sourceVars, generatorVars, relayVars
    <2>2. ASSUME NEW f \in currently_publishing, DropFuture(f)
          PROVE  Carried'
      BY <1>4, <2>1, <2>2 DEF DropFuture
    <2>3. CASE DropWatcher(Closed)
      BY <1>3, <2>1, <2>3 DEF DropWatcher
    <2> QED
      BY <1>14, <2>2, <2>3 DEF Discards
  <1>15. CASE Clients
    BY <1>3, <1>15, ClientsKeepFutures DEF Clients, sourceVars, generatorVars
  <1>16. CASE DropsSwitch \/ \E g \in Source : Switches(g) \/ Event(g)
    <2>1. \/ DropSwitch
          \/ \E g \in Source : SwitchToStream(g) \/ (EventArrives(g) /\ UNCHANGED switchVars)
      BY <1>16 DEF DropsSwitch, Switches, Event
    <2>2. UNCHANGED generated
      BY <1>1, <2>1, SourceTypes
    <2> QED
      BY <1>3, <1>16, <2>2 DEF DropsSwitch, Switches, Event, Wakes, vars, taskVars
  <1>17. CASE UNCHANGED system
    BY <1>3, <1>17 DEF system, relayVars, vars, taskVars, sourceVars, generatorVars
  <1> QED
    BY <1>1, <1>5, <1>6, <1>7, <1>8, <1>9, <1>10, <1>11, <1>12, <1>13, <1>14, <1>15, <1>16, <1>17,
       ReadsCarried DEF RelayNext, Polls

\* Nothing is generated at first.
LEMMA InitCarried == RelayInit => Carried
  BY DEF RelayInit, Init, SwitchInit, Carried

\* What s has reached is a length that the history has had.
LEMMA ReachedRange ==
    ASSUME Types, NEW s
    PROVE  Reached(s) \in 0 .. Len(generated)
  <1>1. Len(generated) \in Nat /\ (generated # <<>> => Len(generated) > 0)
    BY Lengths
  <1> QED
    BY <1>1 DEF Reached

\* The steps that deliver nothing to s and after which s expects nothing else.
LEMMA KeepsCopy ==
    ASSUME NEW s, Copy(s), UNCHANGED generated, joined'[s] = joined[s],
           Delivered(s)' = Delivered(s),
           Expecting(s)' => Expecting(s) /\ Reached(s)' = Reached(s)
    PROVE  Copy(s)'
  <1>1. \E i, j \in 0 .. Len(generated) :
          joined[s] \in {i, i + 1} /\ Delivered(s) = SubSeq(generated, i + 1, j)
    BY DEF Copy
  <1>2. ASSUME Expecting(s)'
        PROVE  \E i \in 0 .. Reached(s)' :
                 joined'[s] \in {i, i + 1} /\ Delivered(s)' = SubSeq(generated', i + 1, Reached(s)')
    <2> DEFINE r == Reached(s)
    <2>1. \E i \in 0 .. r : joined[s] \in {i, i + 1} /\ Delivered(s) = SubSeq(generated, i + 1, r)
      BY <1>2 DEF Copy
    <2>2. Reached(s)' = r
      BY <1>2
    <2> HIDE DEF r
    <2> QED
      BY <2>1, <2>2
  <1> QED
    BY <1>1, <1>2 DEF Copy

\* The steps that change neither queues nor futures, and register nobody.
LEMMA QuietCopies ==
    ASSUME Copies, UNCHANGED <<generated, joined, future, slots>>, Registered' \subseteq Registered,
           \A s \in Subscriber : Delivered(s)' = Delivered(s)
    PROVE  Copies'
  <1> SUFFICES ASSUME NEW s \in Subscriber
               PROVE  Copy(s)'
    BY DEF Copies
  <1>1. Latest' = Latest
    BY DEF Latest
  <1>2. (Passed(s)' <=> Passed(s)) /\ (Owed(s)' <=> Owed(s))
    BY <1>1 DEF Passed, Owed
  <1>3. Reached(s)' = Reached(s)
    BY <1>2 DEF Reached
  <1>4. Expecting(s)' => Expecting(s)
    BY <1>2 DEF Expecting
  <1> QED
    BY <1>3, <1>4, KeepsCopy DEF Copies

\* A publish is created, waits, gets its sender, or takes and releases the lock, and is past nobody
\* who expects its message but those that were served.
LEMMA PublishCopies ==
    ASSUME TypeOK, Types, Carried, Copies, NEW f \in currently_publishing,
           \/ WhenReady(f) \/ WeakWhenReady(f) \/ WeakWhenReadyClosed(f) \/ DropFuture(f)
           \/ PollBlocked(f) \/ PollReady(f) \/ SendLock(f) \/ SendUnlock(f),
           UNCHANGED <<generated, joined>>
    PROVE  Copies'
  <1>1. f \in Future /\ f = Latest /\ generated # <<>>
    BY DEF Carried, Types
  <1>2. Latest' = f
    BY <1>1 DEF Latest
  <1>3. UNCHANGED <<subscribers, waiting, received>>
    BY DEF WhenReady, WeakWhenReady, StartFuture, WeakWhenReadyClosed, DropFuture, PollBlocked,
       WaitFor, PollReady, CreateSender, SendLock, SendStart, SendUnlock, SendEnd, coreVars, subVars,
       history
  <1>4. \A s \in Subscriber : Delivered(s)' = Delivered(s)
    BY <1>3 DEF Delivered
  <1>5. ASSUME NEW s \in Subscriber
        PROVE  Expecting(s)' => Expecting(s) /\ (Passed(s)' <=> Passed(s))
    <2>1. CASE WhenReady(f) \/ WeakWhenReady(f) \/ WeakWhenReadyClosed(f) \/ DropFuture(f)
      <3>1. /\ future[f] \notin {"ready", "sending", "sent"}
            /\ future'[f] \notin {"ready", "sending", "sent"}
        BY <1>1, <2>1 DEF WhenReady, WeakWhenReady, StartFuture, WeakWhenReadyClosed, DropFuture,
           TypeOK
      <3> QED
        BY <1>1, <1>2, <1>3, <3>1 DEF Expecting, Registered, Owed, Passed
    <2>2. CASE PollBlocked(f)
      <3>1. future[f] = "waiting" /\ future' = future
        BY <2>2 DEF PollBlocked, WaitFor
      <3> QED
        BY <1>1, <1>2, <1>3, <3>1 DEF Expecting, Registered, Owed, Passed
    <2>3. CASE PollReady(f)
      <3>1. future[f] = "waiting" /\ future'[f] = "ready" /\ slots'[f] = Registered
        BY <1>1, <2>3 DEF PollReady, CreateSender, TypeOK
      <3> QED
        BY <1>1, <1>2, <1>3, <3>1 DEF Expecting, Registered, Owed, Passed
    <2>4. CASE SendLock(f)
      <3>1. future[f] = "ready" /\ future'[f] = "sending" /\ slots' = slots
        BY <1>1, <2>4 DEF SendLock, SendStart, TypeOK
      <3> QED
        BY <1>1, <1>2, <1>3, <3>1 DEF Expecting, Registered, Owed, Passed
    <2>5. CASE SendUnlock(f)
      <3>1. future[f] = "sending" /\ future'[f] = "sent" /\ slots[f] = {}
        BY <1>1, <2>5 DEF SendUnlock, SendEnd, TypeOK
      <3> QED
        BY <1>1, <1>2, <1>3, <3>1 DEF Expecting, Registered, Owed, Passed
    <2> QED
      BY <2>1, <2>2, <2>3, <2>4, <2>5
  <1>6. ASSUME NEW s \in Subscriber, Expecting(s)'
        PROVE  Expecting(s) /\ Reached(s)' = Reached(s)
    BY <1>5, <1>6 DEF Reached
  <1>7. ASSUME NEW s \in Subscriber
        PROVE  Copy(s)'
    BY <1>4, <1>6, KeepsCopy DEF Copies
  <1> QED
    BY <1>7 DEF Copies

\* A part of the history grows by the message after it.
LEMMA PartGrows ==
    ASSUME NEW S, NEW q \in Seq(S), q # <<>>, NEW i \in 0 .. Len(q) - 1
    PROVE  Append(SubSeq(q, i + 1, Len(q) - 1), q[Len(q)]) = SubSeq(q, i + 1, Len(q))
  <1>1. Len(q) \in Nat /\ Len(q) > 0
    BY EmptySeq
  <1>2. i + 1 \in 1 .. Len(q) /\ Len(q) \in i + 1 .. Len(q)
    BY <1>1
  <1>3. SubSeq(q, i + 1, Len(q)) = SubSeq(q, i + 1, Len(q) - 1) \o <<q[Len(q)]>>
    BY <1>2, SubSeqRecursiveSecond
  <1>4. \A j \in i + 1 .. Len(q) - 1 : q[j] \in S
    BY <1>1
  <1>5. SubSeq(q, i + 1, Len(q) - 1) \in Seq(S)
    BY <1>1, <1>4, SubSeqProperties
  <1>6. \A p \in Seq(S) : \A x \in S : p \o <<x>> = Append(p, x)
    OBVIOUS
  <1>7. q[Len(q)] \in S
    BY <1>1
  <1> QED
    BY <1>3, <1>5, <1>6, <1>7

\* A part of the history is a part of a longer one.
LEMMA PartStays ==
    ASSUME NEW S, NEW q \in Seq(S), NEW m \in S, NEW i \in Nat, NEW j \in 0 .. Len(q)
    PROVE  SubSeq(Append(q, m), i + 1, j) = SubSeq(q, i + 1, j)
  <1>1. Len(q) \in Nat /\ \A k \in 1 .. Len(q) : Append(q, m)[k] = q[k] /\ q[k] \in S
    BY AppendFacts
  <1>2. \A k \in i + 1 .. j : k \in 1 .. Len(q)
    BY <1>1
  <1>3. \A k \in i + 1 .. j : Append(q, m)[k] = q[k] /\ q[k] \in S
    BY <1>1, <1>2
  <1> DEFINE p == SubSeq(Append(q, m), i + 1, j)
             r == SubSeq(q, i + 1, j)
  <1>4. \A k \in 1 .. j - (i + 1) + 1 : k + (i + 1) - 1 \in i + 1 .. j
    BY <1>1
  <1>5. /\ r \in Seq(S) /\ Len(r) = (IF i + 1 <= j THEN j - (i + 1) + 1 ELSE 0)
        /\ \A k \in 1 .. j - (i + 1) + 1 : r[k] = q[k + (i + 1) - 1]
    <2>1. \A k \in i + 1 .. j : q[k] \in S
      BY <1>3
    <2>2. i + 1 \in Int /\ j \in Int
      BY <1>1
    <2>3. /\ r \in Seq(S) /\ Len(r) = (IF i + 1 <= j THEN j - (i + 1) + 1 ELSE 0)
          /\ \A k \in 1 .. j - (i + 1) + 1 : r[k] = q[(i + 1) + k - 1]
      BY <2>1, <2>2, SubSeqProperties
    <2>4. \A k \in Int : (i + 1) + k - 1 = k + (i + 1) - 1
      BY <2>2
    <2> HIDE DEF r
    <2> QED
      BY <2>2, <2>3, <2>4
  <1>6. /\ p \in Seq(S) /\ Len(p) = (IF i + 1 <= j THEN j - (i + 1) + 1 ELSE 0)
        /\ \A k \in 1 .. j - (i + 1) + 1 : p[k] = Append(q, m)[k + (i + 1) - 1]
    <2>1. \A k \in i + 1 .. j : Append(q, m)[k] \in S
      BY <1>3
    <2>2. i + 1 \in Int /\ j \in Int
      BY <1>1
    <2> DEFINE a == Append(q, m)
    <2>3. /\ p \in Seq(S) /\ Len(p) = (IF i + 1 <= j THEN j - (i + 1) + 1 ELSE 0)
          /\ \A k \in 1 .. j - (i + 1) + 1 : p[k] = a[(i + 1) + k - 1]
      BY <2>1, <2>2, SubSeqProperties
    <2>4. \A k \in Int : (i + 1) + k - 1 = k + (i + 1) - 1
      BY <2>2
    <2> HIDE DEF p, a
    <2>5. \A k \in 1 .. j - (i + 1) + 1 : p[k] = a[k + (i + 1) - 1]
      BY <2>2, <2>3, <2>4
    <2> QED
      BY <2>3, <2>5 DEF a
  <1>7. \A k \in 1 .. j - (i + 1) + 1 : p[k] = r[k]
    BY <1>3, <1>4, <1>5, <1>6
  <1>8. \A k \in 1 .. Len(p) : k \in 1 .. j - (i + 1) + 1
    BY <1>6, <1>1
  <1> HIDE DEF p, r
  <1>9. Len(p) = Len(r) /\ \A k \in 1 .. Len(p) : p[k] = r[k]
    BY <1>5, <1>6, <1>7, <1>8
  <1>10. p = r
    BY <1>5, <1>6, <1>9, SeqEqual
  <1> QED
    BY <1>10 DEF p, r

\* A message is taken out of the stream when nobody expects another one; who is there expects it.
LEMMA ReadsCopies ==
    ASSUME TypeOK, Types, Carried, Copies, NEW awaited \in BOOLEAN, ReadsMessage(awaited)
    PROVE  Copies'
  <1>1. PICK m \in Future :
            /\ m \notin Range(generated) /\ generated' = Append(generated, m)
            /\ UNCHANGED vars /\ relay = "reading"
    BY YieldsNext
  <1>2. generated \in Seq(Future) /\ Len(generated) \in Nat
    BY CarriedAssumption DEF Types
  <1>3. Len(generated') = Len(generated) + 1 /\ generated'[Len(generated')] = m /\ generated' # <<>>
    BY <1>1, <1>2
  <1>4. Latest' = m /\ future'[m] = "none"
    BY <1>1, <1>3 DEF Latest, Carried, vars, taskVars
  <1>5. ASSUME NEW i \in Nat, NEW j \in 0 .. Len(generated)
        PROVE  SubSeq(generated', i + 1, j) = SubSeq(generated, i + 1, j)
    BY <1>1, <1>2, PartStays
  <1> SUFFICES ASSUME NEW s \in Subscriber
               PROVE  Copy(s)'
    BY DEF Copies, ReadsMessage
  <1>6. Delivered(s)' = Delivered(s) /\ Registered' = Registered
    BY <1>1 DEF Delivered, Registered, vars, coreVars, subVars, history
  <1>7. Reached(s) = Len(generated) /\ joined' = joined
    BY <1>1 DEF Reached, Passed, Carried, ReadsMessage
  <1>8. Reached(s)' = Len(generated)
    <2>1. ~Passed(s)'
      BY <1>4 DEF Passed
    <2>2. Reached(s)' = Len(generated') - 1
      BY <1>3, <2>1 DEF Reached
    <2>3. (Len(generated) + 1) - 1 = Len(generated)
      BY <1>2
    <2> QED
      BY <1>3, <2>2, <2>3
  <1>9. Expecting(s)' => Expecting(s)
    BY <1>4, <1>6 DEF Expecting, Owed
  <1>10. \E i, j \in 0 .. Len(generated') :
           joined'[s] \in {i, i + 1} /\ Delivered(s)' = SubSeq(generated', i + 1, j)
    <2>1. PICK i \in 0 .. Len(generated), j \in 0 .. Len(generated) :
              joined[s] \in {i, i + 1} /\ Delivered(s) = SubSeq(generated, i + 1, j)
      BY DEF Copies, Copy
    <2>2. i \in Nat /\ i \in 0 .. Len(generated') /\ j \in 0 .. Len(generated')
      BY <1>2, <1>3
    <2>3. SubSeq(generated', i + 1, j) = SubSeq(generated, i + 1, j)
      BY <1>5, <2>2
    <2> QED
      BY <1>6, <1>7, <2>1, <2>2, <2>3
  <1>11. ASSUME Expecting(s)'
         PROVE  \E i \in 0 .. Reached(s)' :
                  joined'[s] \in {i, i + 1} /\ Delivered(s)' = SubSeq(generated', i + 1, Reached(s)')
    <2>1. PICK i \in 0 .. Len(generated) :
              joined[s] \in {i, i + 1} /\ Delivered(s) = SubSeq(generated, i + 1, Len(generated))
      BY <1>7, <1>9, <1>11 DEF Copies, Copy
    <2>2. i \in Nat /\ Len(generated) \in 0 .. Len(generated)
      BY <1>2
    <2>3. SubSeq(generated', i + 1, Len(generated)) = SubSeq(generated, i + 1, Len(generated))
      BY <1>5, <2>2
    <2> QED
      BY <1>6, <1>7, <1>8, <2>1, <2>3
  <1> QED
    BY <1>10, <1>11 DEF Copy

\* Who is served gets the one message that it lacks.
LEMMA PushCopies ==
    ASSUME TypeOK, Types, Carried, Copies, NEW f \in currently_publishing, NEW s \in Subscriber,
           SendMessage(f, s), UNCHANGED <<generated, joined>>
    PROVE  Copies'
  <1>1. f \in Future /\ f = Latest /\ generated # <<>> /\ Latest' = f
    BY DEF Carried, Types, Latest
  <1>2. /\ future[f] = "sending" /\ s \in slots[f] /\ future' = future
        /\ slots'[f] = slots[f] \ {s}
        /\ waiting'[s] = Append(waiting[s], f) /\ received' = received
        /\ \A t \in Subscriber \ {s} : waiting'[t] = waiting[t]
        /\ subscribers' = subscribers
    BY <1>1 DEF SendMessage, Push, TypeOK, coreVars, history
  <1>3. ASSUME NEW t \in Subscriber \ {s}
        PROVE  Copy(t)'
    <2>1. Delivered(t)' = Delivered(t)
      BY <1>2 DEF Delivered
    <2>2. (Passed(t)' <=> Passed(t)) /\ (Expecting(t)' <=> Expecting(t))
      BY <1>1, <1>2 DEF Passed, Expecting, Owed, Registered
    <2>3. Reached(t)' = Reached(t)
      BY <2>2 DEF Reached
    <2> QED
      BY <2>1, <2>2, <2>3, KeepsCopy DEF Copies
  <1>4. generated \in Seq(Future) /\ Len(generated) \in Nat /\ Len(generated) > 0
    BY <1>1, Lengths, CarriedAssumption DEF Types
  <1>5. Reached(s) = Len(generated) - 1 /\ Reached(s)' = Len(generated)
    BY <1>1, <1>2 DEF Reached, Passed
  <1>6. Expecting(s)
    BY <1>1, <1>2 DEF Expecting, Owed
  <1>7. Delivered(s)' = Append(Delivered(s), f)
    <2> DEFINE r == received[s]
               w == waiting[s]
    <2>1. r \in Seq(Future) /\ w \in Seq(Future)
      BY DEF TypeOK
    <2>2. received'[s] = r /\ waiting'[s] = Append(w, f)
      BY <1>2
    <2>3. Delivered(s) = r \o w
      BY DEF Delivered
    <2> HIDE DEF r, w
    <2>4. r \o Append(w, f) = Append(r \o w, f)
      BY <1>1, <2>1, ConcatAppend
    <2> QED
      BY <2>2, <2>3, <2>4 DEF Delivered
  <1>8. PICK i \in 0 .. Len(generated) - 1 :
            /\ joined[s] \in {i, i + 1}
            /\ Delivered(s) = SubSeq(generated, i + 1, Len(generated) - 1)
    BY <1>5, <1>6 DEF Copies, Copy
  <1>9. Append(SubSeq(generated, i + 1, Len(generated) - 1), f) = SubSeq(generated, i + 1, Len(generated))
    BY <1>1, <1>4, PartGrows DEF Latest
  <1>10. i \in 0 .. Len(generated)
    BY <1>4
  <1>11. Delivered(s)' = SubSeq(generated', i + 1, Reached(s)')
    BY <1>5, <1>7, <1>8, <1>9
  <1>12. /\ \E a \in 0 .. Reached(s)' :
              joined'[s] \in {a, a + 1} /\ Delivered(s)' = SubSeq(generated', a + 1, Reached(s)')
         /\ \E a, b \in 0 .. Len(generated') :
              joined'[s] \in {a, a + 1} /\ Delivered(s)' = SubSeq(generated', a + 1, b)
    <2>1. Len(generated) \in 0 .. Len(generated)
      BY <1>4
    <2> QED
      BY <1>5, <1>8, <1>10, <1>11, <2>1
  <1>13. Copy(s)'
    BY <1>12 DEF Copy
  <1> QED
    BY <1>3, <1>13 DEF Copies

\* Who joins has nothing, and expects what comes next.
LEMMA JoinCopies ==
    ASSUME TypeOK, Types, NewIsEmpty, Copies, NEW s \in Subscriber, Subscribe(s),
           joined' = [joined EXCEPT ![s] = Len(generated)], UNCHANGED generated
    PROVE  Copies'
  <1>1. /\ stream[s] = "none" /\ waiting' = [waiting EXCEPT ![s] = <<>>]
        /\ UNCHANGED <<received, future, slots>> /\ Registered' = Registered \cup {s}
    BY DEF Subscribe, Attach, NewSubCore, history, Layouts, Injection, Registered
  <1>2. ASSUME NEW t \in Subscriber \ {s}
        PROVE  Copy(t)'
    <2>1. Delivered(t)' = Delivered(t)
      BY <1>1 DEF Delivered, TypeOK
    <2>2. Latest' = Latest
      BY DEF Latest
    <2>3. (Passed(t)' <=> Passed(t)) /\ (Expecting(t)' <=> Expecting(t))
      BY <1>1, <2>2 DEF Passed, Expecting, Owed
    <2>4. Reached(t)' = Reached(t)
      BY <2>3 DEF Reached
    <2>5. joined'[t] = joined[t]
      BY DEF Copies
    <2> QED
      BY <2>1, <2>3, <2>4, <2>5, KeepsCopy DEF Copies
  <1>3. Delivered(s)' = <<>>
    <2>1. received'[s] = <<>> /\ waiting'[s] = <<>>
      BY <1>1 DEF NewIsEmpty, TypeOK
    <2> QED
      BY <2>1 DEF Delivered
  <1>4. /\ Reached(s)' \in 0 .. Len(generated') /\ Len(generated') \in Nat
        /\ joined'[s] \in {Reached(s)', Reached(s)' + 1}
    <2>1. Len(generated) \in Nat /\ (generated # <<>> => Len(generated) > 0)
      BY Lengths
    <2>2. joined'[s] = Len(generated')
      BY DEF Copies
    <2> QED
      BY <2>1, <2>2 DEF Reached
  <1>5. \A r \in 0 .. Len(generated') : r \in 0 .. r /\ SubSeq(generated', r + 1, r) = <<>>
    <2> TAKE r \in 0 .. Len(generated')
    <2>1. r \in 0 .. r /\ r + 1 \in Int /\ r \in Int /\ r < r + 1
      BY <1>4
    <2> QED
      BY <2>1, SubSeqEmpty
  <1>6. Copy(s)'
    BY <1>3, <1>4, <1>5 DEF Copy
  <1>7. joined' \in [Subscriber -> Nat]
    BY <1>4 DEF Copies
  <1> QED
    BY <1>2, <1>6, <1>7 DEF Copies

\* A message that is read was delivered before.
LEMMA ReadsNothingNew ==
    ASSUME TypeOK, NEW s \in Subscriber, PollNext(s)
    PROVE  /\ \A t \in Subscriber : Delivered(t)' = Delivered(t)
           /\ UNCHANGED <<future, slots, subscribers>>
  <1>1. CASE PollMessage(s)
    <2> DEFINE r == received[s]
               w == waiting[s]
    <2>1. r \in Seq(Future) /\ w \in Seq(Future) /\ w # <<>>
      BY <1>1 DEF TypeOK, PollMessage, TakeMessage
    <2>2. /\ waiting'[s] = Tail(w) /\ received'[s] = Append(r, Head(w))
          /\ \A t \in Subscriber \ {s} : waiting'[t] = waiting[t] /\ received'[t] = received[t]
      BY <1>1 DEF PollMessage, TakeMessage, TypeOK
    <2>3. Delivered(s) = r \o w
      BY DEF Delivered
    <2> HIDE DEF r, w
    <2>4. Delivered(s)' = Delivered(s)
      BY <2>1, <2>2, <2>3, ConcatTake DEF Delivered
    <2>5. \A t \in Subscriber : Delivered(t)' = Delivered(t)
      BY <2>2, <2>4 DEF Delivered
    <2> QED
      BY <1>1, <2>5 DEF PollMessage, TakeMessage, coreVars
  <1>2. CASE PollEnded(s) \/ PollPending(s)
    BY <1>2 DEF PollEnded, PollPending, Delivered, coreVars, subVars, history
  <1> QED
    BY <1>1, <1>2 DEF PollNext

\* Every step delivers the message that comes next, or none.
LEMMA StepCopies ==
    ASSUME RelayInv, NewIsEmpty, Carried, Copies, [RelayNext]_system
    PROVE  Copies'
  <1>1. TypeOK /\ Types
    BY DEF RelayInv, IInv
  <1>2. ASSUME UNCHANGED <<generated, joined, future, slots, subscribers, waiting, received>>
        PROVE  Copies'
    BY <1>2, QuietCopies DEF Registered, Delivered
  <1>3. UNCHANGED <<vars, generated, joined>> => Copies'
    BY <1>2 DEF vars, coreVars, subVars, taskVars, history
  <1>4. CASE SendAllTo \/ WatchClosed
    <2>1. \/ WhenClosed(Closed) \/ WeakWhenClosed(Closed) \/ WeakWhenClosedClosed(Closed)
          \/ PollClosed(Closed) \/ PollOpen(Closed) \/ UNCHANGED vars
      BY <1>4 DEF SendAllTo, WatchClosed
    <2>2. UNCHANGED <<future, slots, subscribers, waiting, received>>
      BY <2>1 DEF WhenClosed, WeakWhenClosed, StartWatcher, WeakWhenClosedClosed, PollClosed,
         PollOpen, vars, coreVars, subVars, taskVars, history
    <2>3. UNCHANGED <<generated, joined>>
      BY <1>4 DEF SendAllTo, WatchClosed, Goto, sourceVars, generatorVars
    <2> QED
      BY <1>2, <2>2, <2>3
  <1>5. CASE Poll \/ FindsClosed \/ FindsOpen \/ DropRelay
    BY <1>3, <1>5 DEF Poll, FindsClosed, FindsOpen, DropRelay, Goto, sourceVars, generatorVars
  <1>6. CASE ReadsEnd \/ ReadsPending
    BY <1>1, <1>3, <1>6, SourceTypes DEF ReadsEnd, ReadsPending, Goto
  <1>7. ASSUME NEW f \in Future, PublishPending(f) \/ PublishReady(f) \/ Creates(f)
        PROVE  Copies'
    <2>1. f \in currently_publishing /\ UNCHANGED <<generated, joined>>
      BY <1>7 DEF PublishPending, PublishWaits, PublishReady, Creates, Goto, sourceVars, generatorVars
    <2>2. \/ WhenReady(f) \/ WeakWhenReady(f) \/ WeakWhenReadyClosed(f)
          \/ PollBlocked(f) \/ PollReady(f) \/ SendLock(f) \/ SendUnlock(f)
          \/ \E s \in Subscriber : SendMessage(f, s)
      BY <1>7 DEF PublishPending, PublishWaits, PublishReady, Creates, Sending
    <2> QED
      BY <1>1, <2>1, <2>2, PublishCopies, PushCopies
  <1>8. ASSUME NEW f \in Future, Published(f)
        PROVE  Copies'
    BY <1>3, <1>8 DEF Published, PublishEnds, sourceVars, generatorVars
  <1>9. CASE Discards
    <2>1. UNCHANGED <<generated, joined>>
      BY <1>9 DEF Discards, relayVars, sourceVars, generatorVars
    <2>2. ASSUME NEW f \in currently_publishing, DropFuture(f)
          PROVE  Copies'
      BY <1>1, <2>1, <2>2, PublishCopies
    <2>3. CASE DropWatcher(Closed)
      BY <1>2, <2>1, <2>3 DEF DropWatcher, subVars, history
    <2> QED
      BY <1>9, <2>2, <2>3 DEF Discards
  <1>10. CASE Clients
    <2>1. UNCHANGED generated
      BY <1>10 DEF Clients, sourceVars, generatorVars
    <2>2. ASSUME NEW s \in Subscriber, DropSubscriber(s), UNCHANGED joined
          PROVE  Copies'
      <3>1. UNCHANGED <<waiting, received, future, slots>> /\ Registered' \subseteq Registered
        BY <2>2 DEF DropSubscriber, Detach, history, Registered, Restrict
      <3> QED
        BY <2>1, <2>2, <3>1, QuietCopies DEF Delivered
    <2>3. ASSUME NEW s \in Subscriber, PollNext(s), UNCHANGED joined
          PROVE  Copies'
      BY <1>1, <2>1, <2>3, ReadsNothingNew, QuietCopies DEF Registered
    <2>4. CASE (DropLastPublisher \/ ReleaseCore) /\ UNCHANGED joined
      BY <1>2, <2>1, <2>4 DEF DropLastPublisher, CloseCore, ReleaseCore, subVars, taskVars, history
    <2> QED
      BY <1>1, <1>10, <2>1, <2>2, <2>3, <2>4, JoinCopies DEF Clients
  <1>11. CASE DropsSwitch \/ \E g \in Source : Switches(g) \/ Event(g)
    <2>1. \/ DropSwitch
          \/ \E g \in Source : SwitchToStream(g) \/ (EventArrives(g) /\ UNCHANGED switchVars)
      BY <1>11 DEF DropsSwitch, Switches, Event
    <2>2. UNCHANGED generated
      BY <1>1, <2>1, SourceTypes
    <2> QED
      BY <1>3, <1>11, <2>2 DEF DropsSwitch, Switches, Event, Wakes
  <1>12. CASE UNCHANGED system
    BY <1>3, <1>12 DEF system, sourceVars, generatorVars, relayVars
  <1> QED
    BY <1>1, <1>4, <1>5, <1>6, <1>7, <1>8, <1>9, <1>10, <1>11, <1>12, ReadsCopies
       DEF RelayNext, Polls

\* Nobody has anything at first.
LEMMA InitCopies == RelayInit => Copies
  <1> SUFFICES ASSUME RelayInit
               PROVE  Copies
    OBVIOUS
  <1>0. joined = [s \in Subscriber |-> 0]
    BY DEF RelayInit
  <1>5. joined \in [Subscriber -> Nat]
    BY <1>0
  <1> SUFFICES ASSUME NEW s \in Subscriber
               PROVE  Copy(s)
    BY <1>5 DEF Copies
  <1>1. Delivered(s) = <<>> /\ generated = <<>> /\ Len(generated) = 0 /\ joined[s] = 0
    BY DEF RelayInit, Init, SwitchInit, Delivered
  <1>2. SubSeq(generated, 1, 0) = <<>>
    BY SubSeqEmpty
  <1>3. Reached(s) = 0
    BY <1>1 DEF Reached
  <1>4. 0 \in 0 .. 0 /\ 0 + 1 = 1
    OBVIOUS
  <1> QED
    BY <1>1, <1>2, <1>3, <1>4 DEF Copy

\* The two hold always.
LEMMA RelayedHolds == RelaySpec => [](RelayInv /\ Carried /\ Copies)
  <1>1. RelayInit => Carried /\ Copies
    BY InitCarried, InitCopies
  <1>2. RelayInv /\ DeliveryInv /\ Carried /\ Copies /\ [RelayNext]_system => Carried' /\ Copies'
    BY StepCarried, StepCopies DEF DeliveryInv, OrderInv
  <1> QED
    BY <1>1, <1>2, RelayIsAClient, DeliveryHolds, RelayInvariant, PTL DEF RelaySpec

\* Each message that the relay takes out of the stream is published once and in its turn: what a
\* subscriber gets is what was yielded from when it joined (or what was in hand then, and from there),
\* without a gap, over switches and waits; and when all was sent, all of that.
THEOREM RelaysEverything == RelaySpec => []RelaysAll
  <1>1. RelayInv /\ Carried /\ Copies => RelaysAll
    <2> SUFFICES ASSUME RelayInv, Carried, Copies
                 PROVE  RelaysAll
      OBVIOUS
    <2>1. Types
      BY DEF RelayInv
    <2>2. ASSUME NEW f \in Range(generated)
          PROVE  f \in currently_publishing \/ future[f] \in {"sent", "void"}
      <3>1. PICK i \in DOMAIN generated : generated[i] = f
        BY <2>2 DEF Range
      <3>2. Len(generated) \in Nat /\ DOMAIN generated = 1 .. Len(generated)
        BY <2>1, Lengths
      <3>3. CASE i < Len(generated)
        BY <3>1, <3>3 DEF Carried
      <3>4. CASE i = Len(generated)
        <4>1. f = Latest
          BY <3>1, <3>4 DEF Latest
        <4>2. generated # <<>>
          BY <3>1
        <4> QED
          BY <4>1, <4>2 DEF Carried
      <3>5. i < Len(generated) \/ i = Len(generated)
        BY <3>1, <3>2
      <3> QED
        BY <3>3, <3>4, <3>5
    <2>3. ASSUME NEW s \in Subscriber
          PROVE  \E i, j \in 0 .. Len(generated) :
                   /\ joined[s] \in {i, i + 1}
                   /\ Delivered(s) = SubSeq(generated, i + 1, j)
                   /\ s \in Registered /\ (\A f \in Range(generated) : future[f] = "sent") =>
                        j = Len(generated)
      <3>1. CASE s \in Registered /\ \A f \in Range(generated) : future[f] = "sent"
        <4>1. Len(generated) \in Nat /\ DOMAIN generated = 1 .. Len(generated)
          BY <2>1, Lengths
        <4>2. generated # <<>> => Latest \in Range(generated)
          <5>1. generated # <<>> => Len(generated) \in DOMAIN generated
            BY <2>1, <4>1, Lengths
          <5> QED
            BY <5>1 DEF Latest, Range
        <4>3. Reached(s) = Len(generated)
          BY <3>1, <4>2 DEF Reached, Passed
        <4>4. Copy(s) /\ Expecting(s)
          BY <3>1 DEF Copies, Expecting
        <4>5. PICK i \in 0 .. Len(generated) :
                joined[s] \in {i, i + 1} /\ Delivered(s) = SubSeq(generated, i + 1, Len(generated))
          BY <4>3, <4>4 DEF Copy
        <4>6. Len(generated) \in 0 .. Len(generated)
          BY <4>1
        <4> QED
          BY <4>5, <4>6
      <3>2. CASE ~(s \in Registered /\ \A f \in Range(generated) : future[f] = "sent")
        BY <3>2 DEF Copies, Copy
      <3> QED
        BY <3>1, <3>2
    <2> QED
      BY <2>2, <2>3 DEF RelaysAll
  <1> QED
    BY <1>1, RelayedHolds, PTL
=============================================================================
