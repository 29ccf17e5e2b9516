--------------------------- MODULE MCPermissions ---------------------------
(* Instances of Permissions for TLC. *)
EXTENDS Permissions, TLC

CONSTANTS m, n, o, manage, send

OneMember == {{}, {m}}
SomeMembers == {{}, {m, n}}
SendOnly == {{send}}
AnyPerms == {{manage}, {send}}

Symmetry == Permutations(Reqs) \cup Permutations(Roles)

=============================================================================
