---------------------------- MODULE MCMembership ----------------------------
(* Membership for TLC.  Its run checks liveness, so it has no symmetry. *)
EXTENDS Membership
=============================================================================
