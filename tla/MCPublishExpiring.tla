------------------------- MODULE MCPublishExpiring -------------------------
(***************************************************************************)
(* A small instance of PublishExpiring for TLC.                             *)
(***************************************************************************)
EXTENDS PublishExpiring, Clients

\* No subscriber has to read anything for a publish to complete.
Fairness == SharedFairness /\ PollsWoken /\ SendersSend

SteadySpec == Init /\ [][Next /\ Disciplined /\ JoinsFirst /\ KeepsStreams]_vars /\ Fairness
=============================================================================
