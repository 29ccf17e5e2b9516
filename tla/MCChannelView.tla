--------------------------- MODULE MCChannelView ---------------------------
(* Instances of ChannelView for TLC. *)
EXTENDS ChannelView, TLC

Symmetry == Permutations(Roles)
=============================================================================
