-------------------------- MODULE GeneratorStream --------------------------
(***************************************************************************)
(* generator_stream (src/src/generator.rs): a future runs inside poll_next  *)
(* and yields messages, each of which it awaits before it yields the next   *)
(* one; only the last one before it waits for something else, or ends, may  *)
(* be left unawaited.  A poll returns what the future yields, so that none  *)
(* is waiting when poll_next begins.                                        *)
(***************************************************************************)
EXTENDS Naturals, Sequences, Functions

CONSTANTS
    Source,         \* the generators
    Message         \* bound: the messages there are to yield

VARIABLES
    generating,     \* of each generator: unused, running, waiting for an event of its own,
                    \* finished (future is None), dropped
    generated       \* history: all messages, in the order in which they were yielded

generatorVars == <<generating, generated>>

GeneratorInit ==
    /\ generating = [g \in Source |-> "unused"]
    /\ generated = <<>>

\* Only their names tell messages apart: any one that was not yielded yet will do.
Yields(g, after) ==
    /\ generating[g] = "running"
    /\ Message \ Range(generated) # {}
    /\ generated' = Append(generated, CHOOSE m \in Message : m \notin Range(generated))
    /\ generating' = [generating EXCEPT ![g] = after]

\* poll_next returns a message: the future yielded it and awaits it, or waits for something else, or
\* has ended.  Taking it completes the await, which calls the waker of the poll that is still on.
PollYieldsAwaited(g) == Yields(g, "running")
PollYieldsLast(g)    == Yields(g, "waiting") \/ Yields(g, "finished")

\* poll_next returns Pending
PollAwaitsEvent(g) ==
    /\ generating[g] \in {"running", "waiting"}
    /\ generating' = [generating EXCEPT ![g] = "waiting"]
    /\ UNCHANGED generated

\* poll_next returns None: the future ends, or had ended before
Completes(g) ==
    /\ generating[g] \in {"running", "finished"}
    /\ generating' = [generating EXCEPT ![g] = "finished"]
    /\ UNCHANGED generated

PollCompletesLosing(g) == Completes(g) \/ Yields(g, "finished")

PollCompletes(g) == Completes(g)

\* What the future waits for happens; it calls the waker of the last poll.
EventArrives(g) ==
    /\ generating[g] = "waiting"
    /\ generating' = [generating EXCEPT ![g] = "running"]
    /\ UNCHANGED generated

=============================================================================
