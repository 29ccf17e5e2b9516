--------------------------- MODULE MCProvisioning ---------------------------
(* Instances of Provisioning for TLC. *)
EXTENDS Provisioning, TLC

Symmetry ==
    Permutations(Attempts) \cup Permutations(Comms) \cup Permutations(Tasks)
=============================================================================
