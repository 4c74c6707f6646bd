----------------------------- MODULE MCJobRunner -----------------------------
(* Instances of JobRunner for TLC. *)
EXTENDS JobRunner

\* Every lane belongs to the one tenant and walks a ladder of two attempts.
OneTenant == [l \in Lanes |-> CHOOSE t \in Tenants : TRUE]
TwoAttempts == [l \in Lanes |-> 2]
=============================================================================
