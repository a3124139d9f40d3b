-------------------------- MODULE MCPublishSingle --------------------------
(***************************************************************************)
(* Small instances of PublishSingle for TLC.                                *)
(***************************************************************************)
EXTENDS PublishSingle, Clients

Fairness == SharedFairness /\ SinglesSend /\ ReadersRead

SteadySpec ==
    SingleInit /\ [][SingleNext /\ Disciplined /\ JoinsFirst /\ NoClones]_allVars /\ Fairness
=============================================================================
