---------------------------- MODULE MCForgetting ----------------------------
(* Instances of Forgetting for TLC. *)
EXTENDS Forgetting
=============================================================================
