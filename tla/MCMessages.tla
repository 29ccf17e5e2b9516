----------------------------- MODULE MCMessages -----------------------------
(***************************************************************************)
(* Model values for Messages: channel c1 is in group g1, c2 is yet to be   *)
(* made.  Requests are interchangeable.                                    *)
(***************************************************************************)
EXTENDS Messages, TLC

CONSTANTS c1, c2, g1

OneChannel == c1 :> g1 @@ c2 :> None

Symmetry == Permutations(Reqs)
=============================================================================
