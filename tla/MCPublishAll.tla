---------------------------- MODULE MCPublishAll ----------------------------
(***************************************************************************)
(* Small instances of PublishAll for TLC: with clients that do all they     *)
(* can, with disciplined clients, and with clients that break one           *)
(* discipline.                                                              *)
(***************************************************************************)
EXTENDS PublishAll, Clients, TLC

Symmetry == Permutations(Subscriber) \cup Permutations(Future)

Fairness == SharedFairness /\ PollsWoken /\ SendersSend /\ ReadersRead

DisciplinedSpec == Init /\ [][Next /\ Disciplined]_vars /\ Fairness
SteadySpec == Init /\ [][Next /\ Disciplined /\ JoinsFirst /\ KeepsStreams]_vars /\ Fairness

-----------------------------------------------------------------------------
\* All disciplines but JoinsACore: a weak publisher subscribes when its core is gone.
WeakJoinSpec ==
    /\ Init
    /\ [][Next /\ JoinsBetweenPublishes /\ JoinsWhileOpen /\ KeepsFutures
               /\ PublishesBeforeClose /\ FlushesBeforeClose]_vars
    /\ Fairness

\* All but JoinsBetweenPublishes; no stream is dropped or cloned and no publisher is dropped.
JoinDuringPublishSpec ==
    Init /\ [][Next /\ KeepsFutures /\ KeepsStreams /\ NoClones /\ publisher_count' = 1]_vars
=============================================================================
