-------------------------- MODULE MCSubscription --------------------------
(* Instances of Subscription for TLC. *)
EXTENDS Subscription, TLC

\* Event ids, containers and tabs differ in nothing but their name.
Identities == Permutations(Events) \cup Permutations(Deliveries) \cup Permutations(Tabs)
=============================================================================
