----------------------------- MODULE MCScheduler -----------------------------
(* Instances of Scheduler for TLC. *)
EXTENDS Scheduler

\* One tenant, whose one lane grants one attempt.
OneTenant == [l \in Lanes |-> CHOOSE t \in Tenants : TRUE]
OneAttempt == [l \in Lanes |-> 1]
=============================================================================
