--------------------------- MODULE MCOAuthGrants ---------------------------
(* Instances of OAuthGrants for TLC. *)
EXTENDS OAuthGrants, TLC

\* Requests differ in nothing but their name.
Identities == Permutations(Requests)
=============================================================================
