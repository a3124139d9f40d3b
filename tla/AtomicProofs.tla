---------------------------- MODULE AtomicProofs ----------------------------
(***************************************************************************)
(* PublishAll implements AtomicPublisher, and each message gets to all the  *)
(* subscribers of its sender once and in one order, for any number of       *)
(* subscribers, futures and publishers and any queue size.                  *)
(*                                                                          *)
(* A step of the code that serves one queue after the other is mapped to    *)
(* the one step at which the sender takes the lock; from then on the        *)
(* subscribers it has yet to serve count as served (PublishAll!Inbox).      *)
(* That needs the lock to have one owner, and a sender to hold a slot of    *)
(* each subscriber it was created for: SenderInv.  That a place is promised *)
(* only where there is room is slot accounting (SlotAccounting and          *)
(* QueueBound), and that a stream that ends has lost its last publisher is  *)
(* EndInv.                                                                  *)
(***************************************************************************)
EXTENDS PublishAllProofs

-----------------------------------------------------------------------------
(* The inboxes *)

\* Without a sender an inbox is the queue.
LEMMA InboxIdle ==
    ASSUME CoreUnlocked
    PROVE  (\A s : Inbox(s) = waiting[s]) /\ Late = {}
  BY DEF CoreUnlocked, Inbox, Underway, Late

\* With one, it is the queue with what the sender has yet to add.
LEMMA InboxSending ==
    ASSUME SenderInv, NEW f \in Future, future[f] = "sending", NEW s
    PROVE  Inbox(s) = IF s \in slots[f] THEN Append(waiting[s], f) ELSE waiting[s]
  <1>1. \A g \in Future : Underway(g, s) => g = f
    BY DEF SenderInv, Underway
  <1>2. CASE s \in slots[f]
    <2>1. Underway(f, s)
      BY <1>2 DEF Underway
    <2>2. (CHOOSE g \in Future : Underway(g, s)) = f
      BY <1>1, <2>1
    <2> QED
      BY <1>2, <2>1, <2>2 DEF Inbox
  <1>3. CASE s \notin slots[f]
    <2>1. \A g \in Future : ~Underway(g, s)
      BY <1>1, <1>3 DEF Underway
    <2> QED
      BY <1>3, <2>1 DEF Inbox
  <1> QED
    BY <1>2, <1>3

\* The same of the next state.
LEMMA InboxSendingNext ==
    ASSUME SenderInv', NEW f \in Future, future'[f] = "sending", NEW s
    PROVE  Inbox(s)' = IF s \in slots'[f] THEN Append(waiting'[s], f) ELSE waiting'[s]
  <1>1. \A g \in Future : Underway(g, s)' => g = f
    BY DEF SenderInv, Underway
  <1>2. CASE s \in slots'[f]
    <2>1. Underway(f, s)'
      BY <1>2 DEF Underway
    <2>2. (CHOOSE g \in Future : Underway(g, s)') = f
      BY <1>1, <2>1
    <2> QED
      BY <1>2, <2>1, <2>2 DEF Inbox
  <1>3. CASE s \notin slots'[f]
    <2>1. \A g \in Future : ~Underway(g, s)'
      BY <1>1, <1>3 DEF Underway
    <2> QED
      BY <1>3, <2>1 DEF Inbox
  <1> QED
    BY <1>2, <1>3

-----------------------------------------------------------------------------
(* Steps that the subscribers do not see *)

\* Wakers, registrations, reservations and all but the last publisher are not seen.
LEMMA Quiet ==
    ASSUME SenderInv, Open' <=> Open,
           UNCHANGED <<subscribers, waiting, stream, future, slots, history>>
    PROVE  SenderInv' /\ UNCHANGED Atomic!vars
  <1>1. SenderInv'
    BY DEF SenderInv, history
  <1>2. \A s : Inbox(s)' = Inbox(s)
    BY DEF Inbox, Underway
  <1>3. \A f : Stage(f)' = Stage(f)
    BY DEF Stage
  <1>4. Late' = Late
    BY DEF Late
  <1>5. Open' = Open
    BY DEF Open
  <1> QED
    BY <1>1, <1>2, <1>3, <1>4, <1>5
       DEF Inboxes, Stages, history, Registered, Atomic!vars, Atomic!readers

\* Nor is a future that is created, waits, is dropped or gives slots back.
LEMMA QuietFuture ==
    ASSUME TypeOK, SenderInv, NEW f \in Future, NEW state,
           future[f] # "sending", state \notin {"ready", "sending", "polling"},
           future' = [future EXCEPT ![f] = state], Stage(f)' = Stage(f),
           \A g \in Future \ {f} : slots'[g] = slots[g],
           UNCHANGED <<publisher_count, subscribers, waiting, stream, history>>
    PROVE  SenderInv' /\ UNCHANGED Atomic!vars
  <1>1. /\ future'[f] = state
        /\ \A g \in Future \ {f} : future'[g] = future[g] /\ slots'[g] = slots[g]
    BY DEF TypeOK
  <1>2. SenderInv'
    BY <1>1 DEF SenderInv, history
  <1>3. \A g \in Future : \A s : Underway(g, s)' <=> Underway(g, s)
    BY <1>1 DEF Underway
  <1>4. \A s : Inbox(s)' = Inbox(s)
    <2> TAKE s
    <2>1. CASE \E g \in Future : Underway(g, s)
      <3>1. (CHOOSE g \in Future : Underway(g, s)') = CHOOSE g \in Future : Underway(g, s)
        BY <1>3
      <3> QED
        BY <1>3, <2>1, <3>1 DEF Inbox
    <2>2. CASE ~\E g \in Future : Underway(g, s)
      BY <1>3, <2>2 DEF Inbox
    <2> QED
      BY <2>1, <2>2
  <1>5. \A g \in Future : Stage(g)' = Stage(g)
    BY <1>1 DEF Stage
  <1>6. Late' = Late
    BY <1>1 DEF Late, Open
  <1> QED
    BY <1>2, <1>4, <1>5, <1>6
       DEF Open, Inboxes, Stages, history, Registered, Atomic!vars, Atomic!readers

-----------------------------------------------------------------------------
(* Subscribers that join, leave and read, and the last publisher *)

\* Who joins finds no sender at work, so that a clone's queue is its original's inbox.
LEMMA JoinStep ==
    ASSUME TypeOK, Registry, SenderInv, CoreUnlocked, NEW s \in Subscriber, NEW b, NEW q,
           NewSubCore(s, b, q), Registered' = Registered \cup {s} \/ (~Open /\ Registered' = Registered)
    PROVE  SenderInv' /\ Atomic!Join(s, q)
  <1>1. /\ stream[s] = "none" /\ stream' = [stream EXCEPT ![s] = "live"]
        /\ waiting' = [waiting EXCEPT ![s] = q]
        /\ UNCHANGED <<publisher_count, future, slots, received, ended, audience>>
    BY DEF NewSubCore, history
  <1>2. SenderInv' /\ CoreUnlocked' /\ Open' = Open
    BY <1>1 DEF SenderInv, CoreUnlocked, Open
  <1>3. Late = {} /\ Late' = {} /\ \A t : Inbox(t) = waiting[t] /\ Inbox(t)' = waiting'[t]
    BY <1>2, InboxIdle DEF CoreUnlocked, Inbox, Underway, Late
  <1>4. Inboxes' = [Inboxes EXCEPT ![s] = q]
    BY <1>1, <1>3 DEF Inboxes, TypeOK
  <1>5. Stages' = Stages
    BY <1>1 DEF Stages, Stage
  <1> QED
    BY <1>1, <1>2, <1>3, <1>4, <1>5 DEF Atomic!Join, Atomic!readers

\* A subscriber that is dropped leaves, whatever it is still promised.
LEMMA LeaveStep ==
    ASSUME TypeOK, SenderInv, NEW s \in Subscriber, DropSubscriber(s)
    PROVE  SenderInv' /\ Atomic!Leave(s)
  <1>1. /\ stream[s] = "live" /\ stream' = [stream EXCEPT ![s] = "dropped"]
        /\ Registered' = Registered \ {s}
        /\ UNCHANGED <<publisher_count, waiting, future, slots, received, ended, audience>>
    BY DEF DropSubscriber, Detach, history, Restrict, Registered
  <1>2. SenderInv' /\ Open' = Open
    BY <1>1 DEF SenderInv, Open
  <1>3. Inboxes' = Inboxes
    BY <1>1 DEF Inboxes, Inbox, Underway
  <1>4. Stages' = Stages /\ Late' = Late
    BY <1>1 DEF Stages, Stage, Late, Open
  <1> QED
    BY <1>1, <1>2, <1>3, <1>4 DEF Atomic!Leave, Atomic!readers

\* A reader takes the head of its queue, which is that of its inbox, during a send too.
LEMMA ReadStep ==
    ASSUME TypeOK, SenderInv, NEW s \in Subscriber, PollMessage(s)
    PROVE  SenderInv' /\ Atomic!Read(s)
  <1>1. /\ stream[s] = "live" /\ waiting[s] # <<>>
        /\ waiting' = [waiting EXCEPT ![s] = Tail(@)]
        /\ received' = [received EXCEPT ![s] = Append(@, Head(waiting[s]))]
        /\ UNCHANGED <<publisher_count, subscribers, stream, future, slots, ended, audience>>
    BY DEF PollMessage, TakeMessage, coreVars
  <1>2. SenderInv' /\ Open' = Open
    BY <1>1 DEF SenderInv, Open
  <1>3. Stages' = Stages /\ Late' = Late
    BY <1>1 DEF Stages, Stage, Late, Open
  <1>4. /\ Inbox(s) # <<>> /\ Head(Inbox(s)) = Head(waiting[s])
        /\ Inbox(s)' = Tail(Inbox(s))
        /\ \A t \in Subscriber \ {s} : Inbox(t)' = Inbox(t)
    <2>1. waiting[s] \in Seq(Future) /\ waiting'[s] = Tail(waiting[s])
      BY <1>1 DEF TypeOK
    <2>2. \A t \in Subscriber \ {s} : waiting'[t] = waiting[t]
      BY <1>1 DEF TypeOK
    <2>3. CASE CoreUnlocked
      <3>1. \A t : Inbox(t) = waiting[t] /\ Inbox(t)' = waiting'[t]
        BY <1>1, <2>3 DEF CoreUnlocked, Inbox, Underway
      <3> QED
        BY <1>1, <2>1, <2>2, <3>1
    <2>4. CASE ~CoreUnlocked
      <3>1. PICK f \in Future : future[f] = "sending"
        BY <2>4 DEF CoreUnlocked, SenderInv
      <3>2. \A t : Inbox(t) = IF t \in slots[f] THEN Append(waiting[t], f) ELSE waiting[t]
        BY <3>1, InboxSending
      <3>3. \A t : Inbox(t)' = IF t \in slots[f] THEN Append(waiting'[t], f) ELSE waiting'[t]
        <4>1. future'[f] = "sending" /\ slots' = slots
          BY <1>1, <3>1
        <4> QED
          BY <1>2, <4>1, InboxSendingNext
      <3>4. /\ Append(waiting[s], f) # <<>> /\ Head(Append(waiting[s], f)) = Head(waiting[s])
            /\ Tail(Append(waiting[s], f)) = Append(Tail(waiting[s]), f)
        BY <1>1, <2>1
      <3>5. Inbox(s) # <<>> /\ Head(Inbox(s)) = Head(waiting[s])
        BY <1>1, <3>2, <3>4
      <3>6. Inbox(s)' = Tail(Inbox(s))
        BY <2>1, <3>2, <3>3, <3>4
      <3>7. \A t \in Subscriber \ {s} : Inbox(t)' = Inbox(t)
        BY <2>2, <3>2, <3>3
      <3> QED
        BY <3>5, <3>6, <3>7
    <2> QED
      BY <2>3, <2>4
  <1>5. Inboxes' = [Inboxes EXCEPT ![s] = Tail(@)]
    BY <1>4 DEF Inboxes
  <1>6. Inboxes[s] = Inbox(s)
    BY DEF Inboxes
  <1> QED
    BY <1>1, <1>2, <1>3, <1>4, <1>5, <1>6 DEF Atomic!Read, Registered

\* What a stream that ends may still be sent is on its way from a sender that outlived the last
\* publisher.
LEMMA EndStep ==
    ASSUME TypeOK, SenderInv, EndInv, NEW s \in Subscriber, PollEnded(s)
    PROVE  SenderInv' /\ Atomic!End(s)
  <1>1. /\ stream[s] = "live" /\ waiting[s] = <<>> /\ ~published[s] /\ ended' = ended \cup {s}
        /\ UNCHANGED <<publisher_count, subscribers, waiting, stream, future, slots, received,
                       audience>>
    BY DEF PollEnded, coreVars, subVars
  <1>2. publisher_count = 0 /\ ~Open
    BY <1>1 DEF EndInv, Open
  <1>3. SenderInv' /\ Open' = Open
    BY <1>1 DEF SenderInv, Open
  <1>4. Inboxes' = Inboxes /\ Stages' = Stages /\ Late' = Late
    BY <1>1 DEF Inboxes, Inbox, Underway, Stages, Stage, Late, Open
  <1>5. \A i \in DOMAIN Inbox(s) : Inbox(s)[i] \in Late
    <2>1. CASE CoreUnlocked
      BY <1>1, <2>1, InboxIdle
    <2>2. CASE ~CoreUnlocked
      <3>1. PICK f \in Future : future[f] = "sending"
        BY <2>2 DEF CoreUnlocked, SenderInv
      <3>2. f \in Late
        BY <1>2, <3>1 DEF Late
      <3>3. Inbox(s) \in {<<>>, Append(<<>>, f)}
        BY <1>1, <3>1, InboxSending
      <3> QED
        BY <3>2, <3>3
    <2> QED
      BY <2>1, <2>2
  <1>6. Inboxes[s] = Inbox(s)
    BY DEF Inboxes
  <1> QED
    BY <1>1, <1>2, <1>3, <1>4, <1>5, <1>6 DEF Atomic!End, Registered

\* The last Drop needs the lock: no message is half sent when the publisher closes.
LEMMA CloseStep ==
    ASSUME TypeOK, SenderInv, DropLastPublisher
    PROVE  SenderInv' /\ Atomic!Close
  <1>1. /\ CoreUnlocked /\ publisher_count = 1 /\ publisher_count' = 0
        /\ UNCHANGED <<subscribers, waiting, stream, future, slots, received, ended, audience>>
    BY DEF DropLastPublisher, CloseCore, history
  <1>2. SenderInv' /\ CoreUnlocked' /\ Open /\ ~Open'
    BY <1>1 DEF SenderInv, CoreUnlocked, Open
  <1>3. Late = {} /\ Late' = {}
    BY <1>1, <1>2 DEF CoreUnlocked, Late
  <1>4. Inboxes' = Inboxes /\ Stages' = Stages
    BY <1>1 DEF Inboxes, Inbox, Underway, Stages, Stage
  <1>5. Open' = FALSE
    BY <1>2 DEF Open
  <1> QED
    BY <1>1, <1>2, <1>3, <1>4, <1>5 DEF Atomic!Close, Atomic!readers, Registered

-----------------------------------------------------------------------------
(* Messages *)

\* A future that gets its sender was counted, at every subscriber, beside those that have one.
LEMMA RoomForReady ==
    ASSUME IInv, QueueBound, SenderInv, NEW f \in Future, PollReady(f), NEW s \in Registered
    PROVE  Atomic!Room(s)
  <1> DEFINE P == {g \in Future : Stages[g] = "promised" /\ s \in audience[g]}
  <1>1. TypeOK /\ SlotAccounting /\ s \in Subscriber
    BY DEF IInv, TypeOK
  <1>2. /\ waiting[s] \in Seq(Future) /\ Len(waiting[s]) \in Nat /\ reserved[s] \in Nat
        /\ Len(waiting[s]) + reserved[s] <= MaxQueueSize
        /\ reserved[s] = Cardinality(Holders(s))
    BY <1>1 DEF TypeOK, QueueBound, QueueSize, SlotAccounting
  <1>3. Inboxes[s] = waiting[s]
    <2>1. CoreUnlocked
      BY DEF PollReady
    <2>2. Inbox(s) = waiting[s]
      BY <2>1, InboxIdle
    <2> QED
      BY <1>1, <2>2 DEF Inboxes
  <1>4. future[f] = "waiting" /\ (s \in slots[f] \/ ~Full(s))
    BY DEF PollReady, Blocking, Wanted
  <1>5. P \subseteq Holders(s) \ {f}
    <2>1. \A g \in Future : Stages[g] = "promised" => future[g] = "ready"
      BY DEF Stages, Stage
    <2> QED
      BY <1>4, <2>1 DEF SenderInv, Holders
  <1>6. IsFiniteSet(Holders(s)) /\ Cardinality(Holders(s)) \in Nat
    BY HoldersFinite
  <1>7. IsFiniteSet(Holders(s) \ {f}) /\ Cardinality(Holders(s) \ {f}) \in Nat
    BY <1>6, FS_RemoveElement, FS_CardinalityType
  <1>8. Cardinality(P) \in Nat /\ Cardinality(P) <= Cardinality(Holders(s) \ {f})
    BY <1>5, <1>7, FS_Subset, FS_CardinalityType
  <1>9. Len(waiting[s]) + Cardinality(Holders(s) \ {f}) < MaxQueueSize
    <2>1. CASE s \in slots[f]
      <3>1. f \in Holders(s)
        BY <2>1 DEF Holders
      <3>2. Cardinality(Holders(s) \ {f}) = Cardinality(Holders(s)) - 1
        BY <1>6, <3>1, FS_RemoveElement
      <3> QED
        BY <1>2, <1>6, <3>2, SizesAssumption
    <2>2. CASE s \notin slots[f]
      <3>1. f \notin Holders(s)
        BY <2>2 DEF Holders
      <3>2. Holders(s) \ {f} = Holders(s)
        BY <3>1
      <3>3. Len(waiting[s]) + reserved[s] < MaxQueueSize
        BY <1>2, <1>4, <2>2, SizesAssumption DEF Full, QueueSize
      <3> QED
        BY <1>2, <3>2, <3>3
    <2> QED
      BY <2>1, <2>2
  <1>10. Len(waiting[s]) + Cardinality(P) < MaxQueueSize
    BY <1>2, <1>7, <1>8, <1>9, SizesAssumption
  <1>11. Atomic!Cardinality(P) = Cardinality(P)
    BY DEF Cardinality, Atomic!Cardinality
  <1>12. Atomic!Promises(s) = P
    BY DEF Atomic!Promises
  <1> QED
    BY <1>3, <1>10, <1>11, <1>12 DEF Atomic!Room

\* A sender is promised room that every registered subscriber has.
LEMMA PromiseStep ==
    ASSUME IInv, QueueBound, SenderInv, NEW f \in Future, PollReady(f)
    PROVE  SenderInv' /\ Atomic!Promise(f)
  <1>1. TypeOK
    BY DEF IInv
  <1>2. /\ future[f] = "waiting" /\ CoreUnlocked
        /\ future' = [future EXCEPT ![f] = "ready"]
        /\ slots' = [slots EXCEPT ![f] = Registered]
        /\ audience' = [audience EXCEPT ![f] = Registered]
        /\ UNCHANGED <<publisher_count, subscribers, waiting, stream, received, ended>>
    BY DEF PollReady, CreateSender, coreVars
  <1>3. /\ future'[f] = "ready" /\ slots'[f] = Registered /\ audience'[f] = Registered
        /\ \A g \in Future \ {f} :
             future'[g] = future[g] /\ slots'[g] = slots[g] /\ audience'[g] = audience[g]
    BY <1>1, <1>2 DEF TypeOK
  <1>4. SenderInv'
    BY <1>3 DEF SenderInv
  <1>5. CoreUnlocked'
    BY <1>2, <1>3 DEF CoreUnlocked
  <1>6. Late' = Late /\ Open' = Open
    BY <1>2, <1>5 DEF CoreUnlocked, Late, Open
  <1>7. Inboxes' = Inboxes
    BY <1>2, <1>5 DEF CoreUnlocked, Inboxes, Inbox, Underway
  <1>8. Stages[f] = "none" /\ Stages' = [Stages EXCEPT ![f] = "promised"]
    BY <1>2, <1>3 DEF Stages, Stage
  <1>9. \A s \in Registered : Atomic!Room(s)
    BY RoomForReady
  <1> QED
    BY <1>2, <1>4, <1>6, <1>7, <1>8, <1>9 DEF Atomic!Promise, Atomic!readers, Registered

\* Taking the lock is the moment of the send.
LEMMA SendStep ==
    ASSUME TypeOK, SenderInv, NEW f \in Future, SendLock(f)
    PROVE  SenderInv' /\ Atomic!Send(f)
  <1>1. /\ CoreUnlocked /\ future[f] = "ready"
        /\ future' = [future EXCEPT ![f] = "sending"]
        /\ UNCHANGED <<publisher_count, subscribers, waiting, stream, slots, received, ended,
                       audience>>
    BY DEF SendLock, SendStart, coreVars, subVars, history
  <1>2. future'[f] = "sending" /\ \A g \in Future \ {f} : future'[g] = future[g]
    BY <1>1 DEF TypeOK
  <1>3. SenderInv'
    BY <1>1, <1>2 DEF SenderInv, CoreUnlocked
  <1>4. slots[f] = audience[f]
    BY <1>1 DEF SenderInv
  <1>5. \A s : Inbox(s) = waiting[s]
    BY <1>1, InboxIdle
  <1>6. \A s : Inbox(s)' = IF s \in audience[f] THEN Append(Inbox(s), f) ELSE Inbox(s)
    <2>1. \A s : Inbox(s)' = IF s \in slots'[f] THEN Append(waiting'[s], f) ELSE waiting'[s]
      BY <1>2, <1>3, InboxSendingNext
    <2> QED
      BY <1>1, <1>4, <1>5, <2>1
  <1>7. Inboxes' = [s \in Subscriber |->
                      IF s \in audience[f] THEN Append(Inboxes[s], f) ELSE Inboxes[s]]
    BY <1>6 DEF Inboxes
  <1>8. Stages[f] = "promised" /\ Stages' = [Stages EXCEPT ![f] = "sent"]
    BY <1>1, <1>2 DEF Stages, Stage
  <1>9. Open' = Open /\ Late' = IF Open THEN {} ELSE {f}
    BY <1>1, <1>2 DEF CoreUnlocked, Late, Open
  <1> QED
    BY <1>1, <1>3, <1>7, <1>8, <1>9 DEF Atomic!Send, Atomic!readers, Registered

\* A push only moves the message from what is underway to what has arrived.
LEMMA PushStep ==
    ASSUME TypeOK, SenderInv, NEW f \in Future, NEW s \in Subscriber, SendMessage(f, s)
    PROVE  SenderInv' /\ UNCHANGED Atomic!vars
  <1>1. /\ future[f] = "sending" /\ s \in slots[f]
        /\ slots' = [slots EXCEPT ![f] = @ \ {s}]
        /\ waiting' = [waiting EXCEPT ![s] = Append(@, f)]
        /\ UNCHANGED <<publisher_count, subscribers, stream, future, received, ended, audience>>
    BY DEF SendMessage, Push, coreVars, history
  <1>2. /\ slots'[f] = slots[f] \ {s} /\ \A g \in Future \ {f} : slots'[g] = slots[g]
        /\ waiting'[s] = Append(waiting[s], f)
        /\ \A t \in Subscriber \ {s} : waiting'[t] = waiting[t]
    BY <1>1 DEF TypeOK
  <1>3. SenderInv'
    BY <1>1, <1>2 DEF SenderInv
  <1>4. \A t \in Subscriber : Inbox(t)' = Inbox(t)
    <2>1. \A t : Inbox(t) = IF t \in slots[f] THEN Append(waiting[t], f) ELSE waiting[t]
      BY <1>1, InboxSending
    <2>2. \A t : Inbox(t)' = IF t \in slots'[f] THEN Append(waiting'[t], f) ELSE waiting'[t]
      BY <1>1, <1>3, InboxSendingNext
    <2> TAKE t \in Subscriber
    <2>3. CASE t = s
      BY <1>1, <1>2, <2>1, <2>2, <2>3
    <2>4. CASE t # s
      <3>1. (t \in slots'[f] <=> t \in slots[f]) /\ waiting'[t] = waiting[t]
        BY <1>2, <2>4
      <3> QED
        BY <2>1, <2>2, <3>1
    <2> QED
      BY <2>3, <2>4
  <1>5. Inboxes' = Inboxes
    BY <1>4 DEF Inboxes
  <1>6. Stages' = Stages /\ Late' = Late /\ Open' = Open
    BY <1>1 DEF Stages, Stage, Late, Open
  <1> QED
    BY <1>1, <1>3, <1>5, <1>6 DEF Registered, Atomic!vars, Atomic!readers

\* When the lock is released every queue has the message, and nothing is late any more.
LEMMA SettleStep ==
    ASSUME TypeOK, SenderInv, NEW f \in Future, SendUnlock(f)
    PROVE  SenderInv' /\ Atomic!Settle
  <1>1. /\ future[f] = "sending" /\ slots[f] = {}
        /\ future' = [future EXCEPT ![f] = "sent"]
        /\ UNCHANGED <<publisher_count, subscribers, waiting, stream, slots, received, ended,
                       audience>>
    BY DEF SendUnlock, SendEnd, coreVars, subVars, history
  <1>2. future'[f] = "sent" /\ \A g \in Future \ {f} : future'[g] = future[g]
    BY <1>1 DEF TypeOK
  <1>3. SenderInv' /\ CoreUnlocked'
    BY <1>1, <1>2 DEF SenderInv, CoreUnlocked
  <1>4. \A s : Inbox(s)' = Inbox(s)
    <2>1. \A s : Inbox(s) = waiting[s]
      BY <1>1, InboxSending
    <2>2. \A s : Inbox(s)' = waiting'[s]
      BY <1>3 DEF CoreUnlocked, Inbox, Underway
    <2> QED
      BY <1>1, <2>1, <2>2
  <1>5. Stages' = Stages
    BY <1>1, <1>2 DEF Stages, Stage
  <1>6. Late' = {} /\ Open' = Open
    BY <1>1, <1>3 DEF CoreUnlocked, Late, Open
  <1> QED
    BY <1>1, <1>3, <1>4, <1>5, <1>6 DEF Inboxes, Registered, Atomic!Settle, Atomic!readers

\* A sender that is dropped withdraws its promise at once, before it gives the slots back.
LEMMA WithdrawStep ==
    ASSUME TypeOK, SenderInv, NEW f \in Future, CancelStart(f)
    PROVE  SenderInv' /\ Atomic!Withdraw(f)
  <1>1. /\ future[f] = "ready"
        /\ future' = [future EXCEPT ![f] = "cancelling"]
        /\ UNCHANGED <<publisher_count, subscribers, waiting, stream, slots, received, ended,
                       audience>>
    BY DEF CancelStart, coreVars, subVars, history
  <1>2. future'[f] = "cancelling" /\ \A g \in Future \ {f} : future'[g] = future[g]
    BY <1>1 DEF TypeOK
  <1>3. SenderInv'
    BY <1>1, <1>2 DEF SenderInv
  <1>4. \A g \in Future : \A s : Underway(g, s)' <=> Underway(g, s)
    BY <1>1, <1>2 DEF Underway
  <1>5. \A s : Inbox(s)' = Inbox(s)
    <2> TAKE s
    <2>1. (CHOOSE g \in Future : Underway(g, s)') = CHOOSE g \in Future : Underway(g, s)
      BY <1>4
    <2> QED
      BY <1>1, <1>4, <2>1 DEF Inbox
  <1>6. Stages[f] = "promised" /\ Stages' = [Stages EXCEPT ![f] = "withdrawn"]
    BY <1>1, <1>2 DEF Stages, Stage
  <1>7. Late' = Late /\ Open' = Open
    BY <1>1, <1>2 DEF Late, Open
  <1> QED
    BY <1>1, <1>3, <1>5, <1>6, <1>7 DEF Inboxes, Registered, Atomic!Withdraw, Atomic!readers

-----------------------------------------------------------------------------
(* Every step *)

\* All ways of subscribing are a Join; those that copy a queue are a Clone.
LEMMA SubscribeStep ==
    ASSUME TypeOK, Registry, SenderInv, NEW s \in Subscriber, NEW t \in Subscriber,
           \/ Subscribe(s) \/ WeakSubscribe(s) \/ WeakSubscribeClosed(s)
           \/ Resubscribe(t, s) \/ ResubscribeClosed(t, s)
    PROVE  SenderInv' /\ (Atomic!Join(s, <<>>) \/ Atomic!Clone(t, s))
  <1>1. ASSUME NEW q, Attach(s, q)
        PROVE  SenderInv' /\ Atomic!Join(s, q) /\ CoreUnlocked
    <2>1. Registered' = Registered \cup {s}
      BY <1>1, LayoutTypes DEF Attach
    <2> QED
      BY <1>1, <2>1, JoinStep DEF Attach
  <1>2. ASSUME NEW q, NEW b, ~CoreAlive, NewSubCore(s, b, q), UNCHANGED subscribers
        PROVE  SenderInv' /\ Atomic!Join(s, q) /\ CoreUnlocked
    <2>1. CoreUnlocked /\ ~Open
      BY <1>2 DEF CoreAlive, CoreUnlocked, Open
    <2>2. Registered' = Registered
      BY <1>2 DEF Registered
    <2> QED
      BY <1>2, <2>1, <2>2, JoinStep
  <1>3. CASE Subscribe(s) \/ WeakSubscribe(s)
    BY <1>1, <1>3 DEF Subscribe, WeakSubscribe
  <1>4. CASE WeakSubscribeClosed(s)
    BY <1>2, <1>4 DEF WeakSubscribeClosed
  <1>5. CASE Resubscribe(t, s) \/ ResubscribeClosed(t, s)
    <2>1. stream[t] = "live"
      BY <1>5 DEF Resubscribe, ResubscribeClosed
    <2>2. SenderInv' /\ Atomic!Join(s, waiting[t]) /\ CoreUnlocked
      BY <1>1, <1>2, <1>5 DEF Resubscribe, ResubscribeClosed
    <2>3. Inboxes[t] = waiting[t]
      BY <2>2, InboxIdle DEF Inboxes
    <2> QED
      BY <2>1, <2>2, <2>3 DEF Atomic!Clone
  <1> QED
    BY <1>3, <1>4, <1>5

\* The steps that are neither a send's nor a subscriber's are not seen.
LEMMA QuietSteps ==
    ASSUME TypeOK, SenderInv,
           \/ Republish \/ DropPublisher \/ ReleaseCore \/ UNCHANGED vars
           \/ \E s \in Subscriber : PollPending(s)
           \/ \E e \in Flush :
                \/ WhenEmpty(e) \/ WeakWhenEmpty(e) \/ WeakWhenEmptyClosed(e)
                \/ PollFlushed(e) \/ PollUnflushed(e) \/ DropFlush(e)
           \/ \E c \in Watcher :
                \/ WhenClosed(c) \/ WeakWhenClosed(c) \/ WeakWhenClosedClosed(c)
                \/ PollClosed(c) \/ PollOpen(c) \/ DropWatcher(c)
    PROVE  SenderInv' /\ UNCHANGED Atomic!vars
  <1>1. CASE Republish \/ DropPublisher
    <2>1. Open' <=> Open
      BY <1>1 DEF Republish, DropPublisher, Open, TypeOK
    <2> QED
      BY <1>1, <2>1, Quiet DEF Republish, DropPublisher, subVars, taskVars
  <1>2. CASE ReleaseCore \/ UNCHANGED vars
    BY <1>2, Quiet DEF ReleaseCore, vars, coreVars, subVars, taskVars, Open
  <1>3. ASSUME NEW s \in Subscriber, PollPending(s)
        PROVE  SenderInv' /\ UNCHANGED Atomic!vars
    BY <1>3, Quiet DEF PollPending, coreVars, Open
  <1>4. ASSUME NEW e \in Flush,
               \/ WhenEmpty(e) \/ WeakWhenEmpty(e) \/ WeakWhenEmptyClosed(e)
               \/ PollFlushed(e) \/ PollUnflushed(e) \/ DropFlush(e)
        PROVE  SenderInv' /\ UNCHANGED Atomic!vars
    BY <1>4, Quiet DEF WhenEmpty, WeakWhenEmpty, StartFlush, WeakWhenEmptyClosed, PollFlushed,
       PollUnflushed, DropFlush, coreVars, subVars, Open
  <1>5. ASSUME NEW c \in Watcher,
               \/ WhenClosed(c) \/ WeakWhenClosed(c) \/ WeakWhenClosedClosed(c)
               \/ PollClosed(c) \/ PollOpen(c) \/ DropWatcher(c)
        PROVE  SenderInv' /\ UNCHANGED Atomic!vars
    BY <1>5, Quiet DEF WhenClosed, WeakWhenClosed, StartWatcher, WeakWhenClosedClosed, PollClosed,
       PollOpen, DropWatcher, coreVars, subVars, Open
  <1> QED
    BY <1>1, <1>2, <1>3, <1>4, <1>5

\* Nor is what a future does before it has its sender and after it has withdrawn it.
LEMMA QuietFutures ==
    ASSUME TypeOK, SenderInv, NEW f \in Future,
           \/ WhenReady(f) \/ WeakWhenReady(f) \/ WeakWhenReadyClosed(f) \/ DropFuture(f)
           \/ PollBlocked(f) \/ Cancelling(f)
    PROVE  SenderInv' /\ UNCHANGED Atomic!vars
  <1>1. CASE \/ WhenReady(f) \/ WeakWhenReady(f) \/ WeakWhenReadyClosed(f) \/ DropFuture(f)
             \/ CancelEnd(f)
    <2>1. PICK state \in {"waiting", "void", "dropped", "cancelled"} :
            /\ future' = [future EXCEPT ![f] = state]
            /\ future[f] = IF state = "cancelled" THEN "cancelling"
                           ELSE IF state = "dropped" THEN "waiting" ELSE "none"
      BY <1>1 DEF WhenReady, WeakWhenReady, StartFuture, WeakWhenReadyClosed, DropFuture, CancelEnd
    <2>2. UNCHANGED <<publisher_count, subscribers, waiting, stream, slots, history>>
      BY <1>1 DEF WhenReady, WeakWhenReady, StartFuture, WeakWhenReadyClosed, DropFuture,
         CancelEnd, coreVars, subVars
    <2>3. future'[f] = state
      BY <2>1 DEF TypeOK
    <2>4. Stage(f)' = Stage(f) /\ future[f] # "sending"
      BY <2>1, <2>3 DEF Stage
    <2> QED
      BY <2>1, <2>2, <2>4, QuietFuture
  <1>2. CASE PollBlocked(f) \/ \E s \in Subscriber : CancelSend(f, s)
    <2>1. /\ future[f] \in {"waiting", "cancelling"} /\ future' = future
          /\ UNCHANGED <<publisher_count, subscribers, waiting, stream, history>>
          /\ \E K : slots' = [slots EXCEPT ![f] = K]
      BY <1>2 DEF PollBlocked, WaitFor, CancelSend, GiveBack, coreVars
    <2>2. future' = [future EXCEPT ![f] = future[f]]
      BY <2>1 DEF TypeOK
    <2>3. Stage(f)' = Stage(f) /\ future[f] \notin {"ready", "sending"}
      BY <2>1 DEF Stage
    <2>4. \A g \in Future \ {f} : slots'[g] = slots[g]
      BY <2>1 DEF TypeOK
    <2> QED
      BY <2>1, <2>2, <2>3, <2>4, QuietFuture
  <1> QED
    BY <1>1, <1>2 DEF Cancelling

\* A step of the code is a step of what a publisher promises, or is not seen.
LEMMA StepAtomic ==
    ASSUME IInv, QueueBound, EndInv, SenderInv, [Next]_vars
    PROVE  SenderInv' /\ [Atomic!Next]_Atomic!vars
  <1>1. TypeOK /\ Registry
    BY DEF IInv
  <1> DEFINE Goal == SenderInv' /\ [Atomic!Next]_Atomic!vars
  <1>2. ASSUME NEW s \in Subscriber, NEW t \in Subscriber,
               \/ Subscribe(s) \/ WeakSubscribe(s) \/ WeakSubscribeClosed(s)
               \/ Resubscribe(t, s) \/ ResubscribeClosed(t, s)
        PROVE  Goal
    BY <1>1, <1>2, SubscribeStep DEF Atomic!Next
  <1>3. ASSUME NEW s \in Subscriber, DropSubscriber(s) \/ PollNext(s)
        PROVE  Goal
    BY <1>1, <1>3, LeaveStep, ReadStep, EndStep, QuietSteps DEF PollNext, Atomic!Next
  <1>4. CASE Republish \/ DropPublisher \/ DropLastPublisher \/ ReleaseCore
    BY <1>1, <1>4, CloseStep, QuietSteps DEF Atomic!Next
  <1>5. ASSUME NEW f \in Future,
               \/ WhenReady(f) \/ WeakWhenReady(f) \/ WeakWhenReadyClosed(f) \/ DropFuture(f)
               \/ PollBlocked(f) \/ Cancelling(f)
        PROVE  Goal
    BY <1>1, <1>5, QuietFutures
  <1>6. ASSUME NEW f \in Future, PollReady(f) \/ Sending(f) \/ CancelStart(f)
        PROVE  Goal
    BY <1>1, <1>6, PromiseStep, SendStep, PushStep, SettleStep, WithdrawStep
       DEF Sending, Atomic!Next
  <1>7. CASE SharedNext
    <2>1. CASE \/ \E e \in Flush :
                    WhenEmpty(e) \/ PollFlushed(e) \/ PollUnflushed(e) \/ DropFlush(e)
               \/ \E c \in Watcher : WhenClosed(c) \/ PollClosed(c) \/ PollOpen(c) \/ DropWatcher(c)
      BY <1>1, <2>1, QuietSteps
    <2> QED
      BY <1>2, <1>3, <1>4, <1>5, <1>7, <2>1 DEF SharedNext
  <1>8. CASE WeakNext
    <2>1. CASE \/ \E e \in Flush : WeakWhenEmpty(e) \/ WeakWhenEmptyClosed(e)
               \/ \E c \in Watcher : WeakWhenClosed(c) \/ WeakWhenClosedClosed(c)
      BY <1>1, <2>1, QuietSteps
    <2> QED
      BY <1>2, <1>5, <1>8, <2>1 DEF WeakNext
  <1>9. CASE \E f \in Future :
               PollWhenReady(f) \/ Sending(f) \/ CancelStart(f) \/ Cancelling(f)
    BY <1>5, <1>6, <1>9 DEF PollWhenReady
  <1>10. CASE UNCHANGED vars
    BY <1>1, <1>10, QuietSteps
  <1> QED
    BY <1>7, <1>8, <1>9, <1>10 DEF Next

\* A new publisher has no members and no messages.
LEMMA InitAtomic == Init => SenderInv /\ Atomic!Init
  <1> SUFFICES ASSUME Init
               PROVE  SenderInv /\ Atomic!Init
    OBVIOUS
  <1>1. CoreUnlocked /\ SenderInv
    BY DEF Init, CoreUnlocked, SenderInv
  <1>2. Inboxes = [s \in Subscriber |-> <<>>] /\ Late = {}
    BY <1>1, InboxIdle DEF Init, Inboxes
  <1>3. Stages = [f \in Future |-> "none"] /\ Open = TRUE /\ Registered = {}
    BY DEF Init, Stages, Stage, Open, Registered
  <1> QED
    BY <1>1, <1>2, <1>3 DEF Init, Atomic!Init

\* However many publishes, readers, clones and closings interleave with a send that serves one
\* queue after the other, subscribers see messages that are put into all queues at once.
THEOREM SendsAreAtomic == Spec => IsAtomic
  <1>1. Init => IInv /\ QueueBound /\ EndInv /\ SenderInv /\ Atomic!Init
    BY InitIInv, InitAtomic, SizesAssumption
       DEF Init, QueueBound, QueueSize, EndInv, EndsOnlyWhenClosed
  <1>2. IInv /\ QueueBound /\ EndInv /\ SenderInv /\ [Next]_vars =>
          IInv' /\ QueueBound' /\ EndInv' /\ SenderInv' /\ [Atomic!Next]_Atomic!vars
    BY StepIInv, StepBound, StepEndInv, StepAtomic DEF IInv
  <1> QED
    BY <1>1, <1>2, PTL DEF Spec, IsAtomic, Atomic!Spec

-----------------------------------------------------------------------------
(* What the subscribers got *)

Served(f, s) == future[f] = "sent" \/ (future[f] = "sending" /\ s \notin slots[f])

AllServed ==
    \A f \in Future : \A s \in audience[f] :
        stream[s] # "none" /\ (Served(f, s) => Has(s, f))

DeliveryInv == OrderInv /\ AllServed

\* The polls of a when_ready future deliver nothing.
LEMMA PollDeliveries ==
    ASSUME TypeOK, NEW f \in Future, PollWhenReady(f)
    PROVE  DeliversNothing
  <1>1. CASE PollReady(f)
    <2>1. /\ future[f] = "waiting" /\ future' = [future EXCEPT ![f] = "ready"]
          /\ audience' = [audience EXCEPT ![f] = Registered]
          /\ slots' = [slots EXCEPT ![f] = Registered]
          /\ UNCHANGED <<waiting, received, stream>>
      BY <1>1 DEF PollReady, CreateSender
    <2>2. \A g \in Future \ {f} : slots'[g] = slots[g]
      BY <2>1 DEF TypeOK
    <2> QED
      BY <2>1, <2>2, OutsideProceeds, OneProceeds
  <1>2. CASE PollBlocked(f)
    <2>1. /\ future[f] = "waiting" /\ future' = future
          /\ UNCHANGED <<waiting, received, stream, audience>>
          /\ \E K : slots' = [slots EXCEPT ![f] = K]
      BY <1>2 DEF PollBlocked, WaitFor, history
    <2>2. future' = [future EXCEPT ![f] = future[f]]
      BY <2>1 DEF TypeOK
    <2>3. \A g \in Future \ {f} : slots'[g] = slots[g]
      BY <2>1 DEF TypeOK
    <2> QED
      BY <2>1, <2>2, <2>3, OutsideProceeds, OneProceeds
  <1> QED
    BY <1>1, <1>2 DEF PollWhenReady

\* Every step delivers nothing, adds a subscriber or pushes a message.
LEMMA StepDeliveries ==
    ASSUME TypeOK, SenderInv, [Next]_vars
    PROVE  \/ DeliversNothing
           \/ \E s \in Subscriber : JoinsIdle(s)
           \/ \E f \in Future : \E s \in Subscriber : SendMessage(f, s)
  BY SharedDeliveries, PollDeliveries, SenderDeliveries DEF Next

\* A message is served when it is pushed, and everyone is when the lock is released.
LEMMA StepServed ==
    ASSUME TypeOK, Registry, SenderInv, AllServed, [Next]_vars
    PROVE  AllServed'
  <1>1. CASE DeliversNothing
    <2> SUFFICES ASSUME NEW f \in Future, NEW s \in audience'[f]
                 PROVE  stream'[s] # "none" /\ (Served(f, s)' => Has(s, f)')
      BY DEF AllServed
    <2>1. s \in audience[f] => stream[s] # "none" /\ (Served(f, s) => Has(s, f))
      BY DEF AllServed
    <2>2. audience[f] \subseteq Subscriber /\ Registered \subseteq Subscriber
      BY DEF TypeOK
    <2>3. s \in Registered => stream[s] # "none"
      BY DEF Registry
    <2>4. Proceeds(f) /\ (s \in Subscriber => (Has(s, f)' <=> Has(s, f)))
      BY <1>1 DEF DeliversNothing, Has
    <2>5. s \in Subscriber /\ stream[s] # "none" => stream'[s] # "none"
      BY <1>1 DEF DeliversNothing, KeepsStreamsMade
    <2> QED
      BY <2>1, <2>2, <2>3, <2>4, <2>5 DEF Proceeds, Served
  <1>2. ASSUME NEW s \in Subscriber, JoinsIdle(s)
        PROVE  AllServed'
    <2>1. /\ stream[s] = "none" /\ UNCHANGED <<received, future, slots, audience>>
          /\ \A t \in Subscriber \ {s} : Delivered(t)' = Delivered(t) /\ stream'[t] = stream[t]
      BY <1>2, JoinKeepsOthers
    <2> SUFFICES ASSUME NEW f \in Future, NEW t \in audience[f]
                 PROVE  stream'[t] # "none" /\ (Served(f, t)' => Has(t, f)')
      BY <2>1 DEF AllServed
    <2>2. t \in Subscriber /\ stream[t] # "none" /\ (Served(f, t) => Has(t, f))
      BY DEF AllServed, TypeOK
    <2>3. t # s /\ stream'[t] = stream[t] /\ (Has(t, f)' <=> Has(t, f))
      BY <2>1, <2>2 DEF Has
    <2> QED
      BY <2>1, <2>2, <2>3 DEF Served
  <1>3. ASSUME NEW f \in Future, NEW s \in Subscriber, SendMessage(f, s)
        PROVE  AllServed'
    <2>1. /\ future[f] = "sending" /\ UNCHANGED <<received, stream, future, audience>>
          /\ slots'[f] = slots[f] \ {s} /\ \A g \in Future \ {f} : slots'[g] = slots[g]
          /\ Delivered(s)' = Append(Delivered(s), f)
          /\ \A t \in Subscriber \ {s} : Delivered(t)' = Delivered(t)
      BY <1>3, PushAppends
    <2>2. Has(s, f)' /\ \A t \in Subscriber : \A g : Has(t, g) => Has(t, g)'
      BY <2>1, DeliveredType, AppendFacts DEF Has
    <2> SUFFICES ASSUME NEW g \in Future, NEW t \in audience[g]
                 PROVE  stream[t] # "none" /\ (Served(g, t)' => Has(t, g)')
      BY <2>1 DEF AllServed
    <2>3. t \in Subscriber /\ stream[t] # "none" /\ (Served(g, t) => Has(t, g))
      BY DEF AllServed, TypeOK
    <2>4. Served(g, t)' => Served(g, t) \/ (g = f /\ t = s)
      BY <2>1 DEF Served
    <2> QED
      BY <2>2, <2>3, <2>4
  <1> QED
    BY <1>1, <1>2, <1>3, StepDeliveries

\* The invariant holds always.
LEMMA DeliveryHolds == Spec => [](TypeOK /\ DeliveryInv)
  <1>1. Init => IInv /\ QueueBound /\ EndInv /\ SenderInv /\ DeliveryInv
    BY InitIInv, InitOrder, SizesAssumption
       DEF Init, QueueBound, QueueSize, EndInv, EndsOnlyWhenClosed, DeliveryInv, AllServed
  <1>2. IInv /\ QueueBound /\ EndInv /\ SenderInv /\ DeliveryInv /\ [Next]_vars =>
          IInv' /\ QueueBound' /\ EndInv' /\ SenderInv' /\ DeliveryInv'
    BY StepIInv, StepBound, StepEndInv, StepAtomic, StepDeliveries, KindsOrder, StepServed
       DEF IInv, DeliveryInv
  <1>3. IInv => TypeOK
    BY DEF IInv
  <1> QED
    BY <1>1, <1>2, <1>3, PTL DEF Spec

-----------------------------------------------------------------------------
\* No two subscribers ever see two messages in opposite orders, whoever publishes, clones, joins and
\* reads while a send is on its way from one to the next.
THEOREM OneOrder == Spec => []SameOrder
  <1>1. DeliveryInv => SameOrder
    BY DEF DeliveryInv, OrderInv, InOrder, Consistent, SameOrder
  <1> QED
    BY <1>1, DeliveryHolds, PTL

\* A message that was sent is delivered once to each subscriber that its sender was made for, and to
\* nobody before it is sent, or if it is cancelled.
THEOREM DeliveredOnce == Spec => []ExactlyOnce
  <1>1. ASSUME TypeOK, DeliveryInv, NEW f \in Future, NEW s \in audience[f]
        PROVE  Occurrences(f, Delivered(s)) = IF Served(f, s) THEN 1 ELSE 0
    <2>1. s \in Subscriber
      BY <1>1 DEF TypeOK
    <2>2. Has(s, f) <=> Served(f, s)
      BY <1>1, <2>1 DEF DeliveryInv, OrderInv, Newest, AllServed, Served
    <2> QED
      BY <1>1, <2>1, <2>2, OccursOnce DEF DeliveryInv, OrderInv
  <1>2. TypeOK /\ DeliveryInv => ExactlyOnce
    BY <1>1 DEF ExactlyOnce, Served
  <1> QED
    BY <1>2, DeliveryHolds, PTL
=============================================================================
