-------------------------- MODULE AtomicPublisher --------------------------
(***************************************************************************)
(* What a Publisher promises, without locks, maps, slots or wakers: a       *)
(* message has a place promised to it in the inboxes of all who are         *)
(* subscribed ("Reserves a space for a message with the subscribers",       *)
(* src/src/message_publisher.rs), and is then put into all of these at      *)
(* once, or withdrawn.  The inboxes of PublishAll, which are served one by  *)
(* one while readers read, clone and leave, behave like that.               *)
(***************************************************************************)
EXTENDS Naturals, Sequences, FiniteSets

CONSTANTS Subscriber, Message, MaxQueueSize

VARIABLES
    open,       \* a strong publisher exists
    members,    \* the subscribers a message goes to
    stream,     \* of each subscriber: none, live, dropped
    inbox,
    message,    \* none, promised, sent, withdrawn
    promised,   \* the members that a message was promised to
    late,       \* a message that is sent after the last publisher was dropped
    received, ended

readers == <<received, ended>>
vars == <<open, members, stream, inbox, message, promised, late, readers>>

Promises(s) == {m \in Message : message[m] = "promised" /\ s \in promised[m]}
Room(s) == Len(inbox[s]) + Cardinality(Promises(s)) < MaxQueueSize

Init ==
    /\ open = TRUE
    /\ members = {}
    /\ stream = [s \in Subscriber |-> "none"]
    /\ inbox = [s \in Subscriber |-> <<>>]
    /\ message = [m \in Message |-> "none"]
    /\ promised = [m \in Message |-> {}]
    /\ late = {}
    /\ received = [s \in Subscriber |-> <<>>] /\ ended = {}

Close ==
    /\ open
    /\ open' = FALSE
    /\ UNCHANGED <<members, stream, inbox, message, promised, late, readers>>

\* Without a publisher a new stream may be one that is attached to nothing.
Join(s, queue) ==
    /\ stream[s] = "none"
    /\ stream' = [stream EXCEPT ![s] = "live"]
    /\ inbox' = [inbox EXCEPT ![s] = queue]
    /\ members' = members \cup {s} \/ (~open /\ members' = members)
    /\ UNCHANGED <<open, message, promised, late, readers>>

Clone(s, t) == stream[s] = "live" /\ Join(t, inbox[s])

Leave(s) ==
    /\ stream[s] = "live"
    /\ stream' = [stream EXCEPT ![s] = "dropped"]
    /\ members' = members \ {s}
    /\ UNCHANGED <<open, inbox, message, promised, late, readers>>

Promise(m) ==
    /\ message[m] = "none"
    /\ \A s \in members : Room(s)
    /\ message' = [message EXCEPT ![m] = "promised"]
    /\ promised' = [promised EXCEPT ![m] = members]
    /\ UNCHANGED <<open, members, stream, inbox, late, readers>>

Send(m) ==
    /\ message[m] = "promised"
    /\ message' = [message EXCEPT ![m] = "sent"]
    /\ inbox' = [s \in Subscriber |->
                    IF s \in promised[m] THEN Append(inbox[s], m) ELSE inbox[s]]
    /\ late' = IF open THEN {} ELSE {m}
    /\ UNCHANGED <<open, members, stream, promised, readers>>

Settle ==
    /\ late' = {}
    /\ UNCHANGED <<open, members, stream, inbox, message, promised, readers>>

Withdraw(m) ==
    /\ message[m] = "promised"
    /\ message' = [message EXCEPT ![m] = "withdrawn"]
    /\ UNCHANGED <<open, members, stream, inbox, promised, late, readers>>

Read(s) ==
    /\ stream[s] = "live"
    /\ inbox[s] # <<>>
    /\ inbox' = [inbox EXCEPT ![s] = Tail(@)]
    /\ received' = [received EXCEPT ![s] = Append(@, Head(inbox[s]))]
    /\ UNCHANGED <<open, members, stream, message, promised, late, ended>>

\* A stream ends when the publishers are gone and it has returned all that was sent before.
End(s) ==
    /\ stream[s] = "live"
    /\ ~open
    /\ \A i \in DOMAIN inbox[s] : inbox[s][i] \in late
    /\ ended' = ended \cup {s}
    /\ UNCHANGED <<open, members, stream, inbox, message, promised, late, received>>

Next ==
    \/ Close \/ Settle
    \/ \E s \in Subscriber : Join(s, <<>>) \/ Leave(s) \/ Read(s) \/ End(s)
    \/ \E s, t \in Subscriber : Clone(s, t)
    \/ \E m \in Message : Promise(m) \/ Send(m) \/ Withdraw(m)

Spec == Init /\ [][Next]_vars
=============================================================================
