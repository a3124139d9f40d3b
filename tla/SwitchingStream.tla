-------------------------- MODULE SwitchingStream --------------------------
(***************************************************************************)
(* switchable_stream (src/src/switching_stream.rs) over generators.  The    *)
(* core's lock is held while the stream within is polled, so a poll, a      *)
(* switch and the drop of the switch are one step each.                     *)
(***************************************************************************)
EXTENDS GeneratorStream

VARIABLES
    source,             \* the generator that is core.stream
    closed,
    switch_available,
    wake                \* wake is Some: the waker of the last poll is there

switchVars == <<source, closed, switch_available, wake>>
sourceVars == <<generatorVars, switchVars>>

SwitchInit ==
    /\ source \in Source
    /\ generating = [g \in Source |-> IF g = source THEN "running" ELSE "unused"]
    /\ generated = <<>>
    /\ closed = FALSE /\ switch_available = TRUE /\ wake = FALSE

\* poll_next returns a message
ReadMessage(yields) ==
    /\ ~closed
    /\ yields
    /\ wake' = TRUE
    /\ UNCHANGED <<source, closed, switch_available>>

\* poll_next finds the end of the stream within; what it returns depends on the switch.
ReachesEnd ==
    /\ IF closed THEN UNCHANGED generatorVars ELSE PollCompletes(source)
    /\ closed' = TRUE
    /\ wake' = TRUE
    /\ UNCHANGED <<source, switch_available>>

ReadEnd == ~switch_available /\ ReachesEnd

\* poll_next returns Pending
ReadPending ==
    \/ switch_available /\ ReachesEnd
    \/ /\ ~closed
       /\ PollAwaitsEvent(source)
       /\ wake' = TRUE
       /\ UNCHANGED <<source, closed, switch_available>>

\* switch_to_stream: the stream that was there is dropped, with its future.
SwitchToStream(g) ==
    /\ switch_available
    /\ generating[g] = "unused"
    /\ generating' = [generating EXCEPT ![source] = "dropped", ![g] = "running"]
    /\ source' = g
    /\ closed' = FALSE
    /\ wake' = FALSE
    /\ UNCHANGED <<generated, switch_available>>

DropSwitch ==
    /\ switch_available
    /\ switch_available' = FALSE
    /\ wake' = FALSE
    /\ UNCHANGED <<generatorVars, source, closed>>

=============================================================================
