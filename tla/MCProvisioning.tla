--------------------------- MODULE MCProvisioning ---------------------------
(* Instances of Provisioning for TLC. *)
EXTENDS Provisioning, TLC

\* Runs differ in nothing but their name, and so do languages.
Identities == Permutations(Runs) \cup Permutations(Languages)
=============================================================================
