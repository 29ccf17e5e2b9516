----------------------------- MODULE MCChatHub -----------------------------
(***************************************************************************)
(* Model values for ChatHub.  Sessions, conns, topics and broadcasts are   *)
(* interchangeable, so the safety runs use their permutations.             *)
(***************************************************************************)
EXTENDS ChatHub, TLC

Symmetry == Permutations(Sessions) \cup Permutations(Conns)
              \cup Permutations(Topics) \cup Permutations(Msgs)
=============================================================================
