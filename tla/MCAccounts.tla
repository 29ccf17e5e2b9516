----------------------------- MODULE MCAccounts -----------------------------
(***************************************************************************)
(* Model values for Accounts: one account to begin with, and one address   *)
(* on the wait list.  Requests are interchangeable.                        *)
(***************************************************************************)
EXTENDS Accounts, TLC

CONSTANTS e1, h1

OneUser == <<[email |-> e1, handle |-> h1, avatar |-> None]>>

Symmetry == Permutations(Reqs)
=============================================================================
