---------------------------- MODULE Permissions ----------------------------
(***************************************************************************)
(* What a member of one community may do, and how api_hot keeps it.  The   *)
(* permissions of a member are materialised in its communities_users row;  *)
(* they are the community's defaults and those of the roles the member     *)
(* holds, and every handler that edits defaults, roles or role members     *)
(* rewrites the rows inside a MySQL transaction.  HasCommunityPermission   *)
(* reads a row through a Redis key that lives for an hour; writers delete  *)
(* the key, readers fill it from a goroutine.                              *)
(*                                                                         *)
(* A request is one HTTP call; requests interleave.  A transaction reads   *)
(* the snapshot of its first SELECT (InnoDB, REPEATABLE READ, the driver's *)
(* default) and its own writes, locks the rows it updates, and shows its   *)
(* writes to others when it commits.  Two statements of a transaction are  *)
(* one step where no other step can tell.                                  *)
(***************************************************************************)

CONSTANTS
    Users,            \* users that are members or sign up with an invite
    Owner,            \* communities.owner_id
    FirstMembers,     \* who has joined when the model starts
    Perms,            \* model.Permission
    ManageCommunity,  \* the permission the editing handlers ask for
    FirstDefaults,    \* communities.* permission columns at the start
    Roles,            \* ids community_roles.id may take
    Reqs,             \* bound: HTTP requests ever made
    Ops,              \* the handlers the requests call
    PermsInputs,      \* the permission sets requests carry
    MembersInputs,    \* the member lists requests carry
    Sequential,       \* requests wait for the reply to the one before
    Faults,           \* "abort", "swallow": which errors happen
    None

AllOps == {"check", "create", "edit", "delete", "defaults", "join"}

ASSUME PermAssumption ==
    /\ Owner \in FirstMembers
    /\ FirstMembers \subseteq Users
    /\ ManageCommunity \in Perms
    /\ FirstDefaults \subseteq Perms
    /\ Ops \subseteq AllOps
    /\ PermsInputs \subseteq SUBSET Perms
    /\ MembersInputs \subseteq SUBSET Users
    /\ Sequential \in BOOLEAN
    /\ \A ps \in SUBSET Perms : ps # None
    /\ None \notin Roles

VARIABLES
    defaults,   \* the permission columns of communities
    roles,      \* community_roles: the permissions of a role, or None
    fresh,      \* ids AUTO_INCREMENT has not handed out
    holders,    \* community_roles_users
    row,        \* communities_users: the permissions of a member, or None
    cache,      \* user-<u>-<c>-permissions in Redis, None where absent
    setter,     \* what the request's Set goroutine has yet to write
    req,        \* the requests
    tx          \* their transactions

vars == <<defaults, roles, fresh, holders, row, cache, setter, req, tx>>

dbVars == <<defaults, roles, fresh, holders, row>>

MaybePerms == {None} \cup SUBSET Perms

\* Where a request is.  "get" to "lookup" precede the transaction; "refused"
\* is the reply "Not allowed", which a caller without the permission gets, and
\* one whose check failed: "failed" tells the two apart.
Pc == {"idle", "get", "select", "lookup", "update", "begin", "unassign",
       "grant", "recalc", "refused", "done"}

InTx == {"unassign", "grant", "recalc"}

Request ==
    [pc : Pc, op : AllOps \cup {"none"}, who : Users, role : Roles \cup {None},
     perms : SUBSET Perms, members : SUBSET Users, defs : SUBSET Perms,
     failed : BOOLEAN]

\* The state of an open transaction: its snapshot of communities_users, its
\* view of the role tables, the users found first, the users still to treat,
\* the rows inserted for the role, whether they are in, the rows it has
\* updated and holds locked, and their new values.
Transaction ==
    [seen : [Users -> MaybePerms], vroles : [Roles -> MaybePerms],
     vholders : [Roles -> SUBSET Users], before : SUBSET Users,
     todo : SUBSET Users, added : SUBSET Users, assigned : BOOLEAN,
     locked : SUBSET Users, value : [Users -> SUBSET Perms]]

NoTx ==
    [seen |-> [u \in Users |-> None], vroles |-> [r \in Roles |-> None],
     vholders |-> [r \in Roles |-> {}], before |-> {}, todo |-> {},
     added |-> {}, assigned |-> FALSE, locked |-> {},
     value |-> [u \in Users |-> {}]]

Snapshot ==
    [NoTx EXCEPT !.seen = row, !.vroles = roles, !.vholders = holders]

\* CreateCommunity has inserted the community and its owner's row, and the
\* first members have signed up with an invite; no role exists yet.
Init ==
    /\ defaults = FirstDefaults
    /\ roles = [r \in Roles |-> None]
    /\ fresh = Roles
    /\ holders = [r \in Roles |-> {}]
    /\ row = [u \in Users |-> IF u = Owner THEN Perms
                              ELSE IF u \in FirstMembers THEN FirstDefaults
                              ELSE None]
    /\ cache = [u \in Users |-> None]
    /\ setter = [q \in Reqs |-> None]
    /\ req = [q \in Reqs |->
                 [pc |-> "idle", op |-> "none", who |-> Owner, role |-> None,
                  perms |-> {}, members |-> {}, defs |-> {}, failed |-> FALSE]]
    /\ tx = [q \in Reqs |-> NoTx]

Goto(q, pc) == req' = [req EXCEPT ![q].pc = pc]

-----------------------------------------------------------------------------
(***************************************************************************)
(* Authorisation.                                                          *)
(***************************************************************************)

\* EditCommunityRole answers while its goroutine works; the others answer
\* when they have finished.
Replied(q) ==
    \/ req[q].pc \in {"idle", "refused", "done"}
    \/ req[q].op = "edit" /\ req[q].pc \in {"update", "begin"} \cup InTx

\* How every handler begins: the input is valid and the community row is read,
\* outside any transaction; defs is what the handler will compute with.
Start(q, op, u, r, ps, ms) ==
    /\ op \in Ops
    /\ req[q].pc = "idle"
    /\ Sequential => \A x \in Reqs : Replied(x)
    /\ req' = [req EXCEPT ![q] =
                 [pc |-> "get", op |-> op, who |-> u, role |-> r,
                  perms |-> ps, members |-> ms, defs |-> defaults,
                  failed |-> FALSE]]
    /\ UNCHANGED <<dbVars, cache, setter, tx>>

CreateCommunityRole(q, u, ps, ms) == Start(q, "create", u, None, ps, ms)

EditCommunityRole(q, u, r, ps, ms) == Start(q, "edit", u, r, ps, ms)

DeleteCommunityRole(q, u, r) == Start(q, "delete", u, r, {}, {})

EditCommunityDefaultPermissions(q, u, ps) ==
    Start(q, "defaults", u, None, ps, {})

\* Any other handler that asks for a permission and leaves these tables alone.
OtherHandler(q, u, ps) == Start(q, "check", u, None, ps, {})

Needed(q) ==
    IF req[q].op = "check" THEN req[q].perms ELSE {ManageCommunity}

\* Where an authorised request goes on.
Authorised(q) ==
    CASE req[q].op \in {"edit", "delete"} -> "lookup"
      [] req[q].op \in {"create", "defaults"} -> "begin"
      [] OTHER -> "done"

Decide(q, ps) ==
    Goto(q, IF Needed(q) \subseteq ps THEN Authorised(q) ELSE "refused")

\* HasCommunityPermission, the key is there.
CheckCached(q) ==
    /\ req[q].pc = "get"
    /\ cache[req[q].who] # None
    /\ Decide(q, cache[req[q].who])
    /\ UNCHANGED <<dbVars, cache, setter, tx>>

\* HasCommunityPermission, redis.Nil.
CheckMissed(q) ==
    /\ req[q].pc = "get"
    /\ cache[req[q].who] = None
    /\ Goto(q, "select")
    /\ UNCHANGED <<dbVars, cache, setter, tx>>

\* ... the committed row decides, and a goroutine will cache it.
CheckRow(q) ==
    /\ req[q].pc = "select"
    /\ row[req[q].who] # None
    /\ Decide(q, row[req[q].who])
    /\ setter' = [setter EXCEPT ![q] = row[req[q].who]]
    /\ UNCHANGED <<dbVars, cache, tx>>

\* Mutant of CheckNoRow: a missing row is not an error.
CheckNoRow_Allowed(q) ==
    /\ req[q].pc = "select"
    /\ row[req[q].who] = None
    /\ Goto(q, Authorised(q))
    /\ UNCHANGED <<dbVars, cache, setter, tx>>

\* ... no row: not a member.
CheckNoRow(q) ==
    /\ req[q].pc = "select"
    /\ row[req[q].who] = None
    /\ Goto(q, "refused")
    /\ UNCHANGED <<dbVars, cache, setter, tx>>

\* ... Redis answers neither a value nor redis.Nil, or the SELECT fails: no
\* permission is known, so none is granted.
CheckFails(q) ==
    /\ "abort" \in Faults
    /\ req[q].pc \in {"get", "select"}
    /\ req' = [req EXCEPT ![q] = [@ EXCEPT !.pc = "refused", !.failed = TRUE]]
    /\ UNCHANGED <<dbVars, cache, setter, tx>>

\* The goroutine's Set.
SetCache(q) ==
    /\ setter[q] # None
    /\ cache' = [cache EXCEPT ![req[q].who] = setter[q]]
    /\ setter' = [setter EXCEPT ![q] = None]
    /\ UNCHANGED <<dbVars, req, tx>>

\* The Set fails, and is only logged.
SetCacheFails(q) ==
    /\ "abort" \in Faults
    /\ setter[q] # None
    /\ setter' = [setter EXCEPT ![q] = None]
    /\ UNCHANGED <<dbVars, cache, req, tx>>

\* Mutant of Expire: the Set is made without a lifetime.
Expire_Never(u) ==
    /\ FALSE
    /\ UNCHANGED vars

\* The key's hour is over.
Expire(u) ==
    /\ cache[u] # None
    /\ cache' = [cache EXCEPT ![u] = None]
    /\ UNCHANGED <<dbVars, setter, req, tx>>

-----------------------------------------------------------------------------
(***************************************************************************)
(* Recalculation.                                                          *)
(***************************************************************************)

\* Mutant of Effective: the owner is a member like the others.
Effective_OwnerToo(u, defs, rs, hs) ==
    defs \cup UNION {rs[r] : r \in {x \in Roles : /\ rs[x] # None
                                                 /\ u \in hs[x]}}

\* The permissions a user has from the defaults given and the roles seen.
Effective(u, defs, rs, hs) ==
    IF u = Owner THEN Perms
    ELSE defs \cup UNION {rs[r] : r \in {x \in Roles : /\ rs[x] # None
                                                      /\ u \in hs[x]}}

\* The transaction t after the UPDATE of u's row, which it now holds locked.
Written(t, u, ps) ==
    [t EXCEPT !.todo = @ \ {u}, !.locked = @ \cup {u}, !.value[u] = ps]

RowFree(q, u) == \A x \in Reqs \ {q} : u \notin tx[x].locked

\* Mutant of Recalc: the roles of the user are stored, not their permissions.
Recalc_RoleIds(q, u) ==
    /\ req[q].pc = "recalc"
    /\ u \in tx[q].todo
    /\ RowFree(q, u)
    /\ tx' = [tx EXCEPT ![q] =
                Written(@, u, {r \in Roles : u \in @.vholders[r]})]
    /\ cache' = [cache EXCEPT ![u] = None]
    /\ UNCHANGED <<dbVars, setter, req>>

\* One turn of the loop over users: the UPDATE of the row, which waits for
\* its lock, and the Del of the key.
Recalc(q, u) ==
    /\ req[q].pc = "recalc"
    /\ u \in tx[q].todo
    /\ RowFree(q, u)
    /\ tx' = [tx EXCEPT ![q] =
                Written(@, u, Effective(u, req[q].defs, @.vroles, @.vholders))]
    /\ cache' = [cache EXCEPT ![u] = None]
    /\ UNCHANGED <<dbVars, setter, req>>

-----------------------------------------------------------------------------
(***************************************************************************)
(* The handlers' transactions.                                             *)
(***************************************************************************)

\* Edit and delete first look the role up; it may be gone when they use it.
LookupRole(q) ==
    /\ req[q].pc = "lookup"
    /\ Goto(q, IF roles[req[q].role] = None THEN "done"
               ELSE IF req[q].op = "edit" THEN "update" ELSE "begin")
    /\ UNCHANGED <<dbVars, cache, setter, tx>>

\* DELETE FROM community_roles locks the role until the transaction ends.
RoleFree(q) ==
    \A x \in Reqs \ {q} : ~ (/\ req[x].op = "delete"
                             /\ req[x].role = req[q].role
                             /\ req[x].pc \in InTx)

\* DELETE FROM community_roles_users locks the role's assignments; a delete
\* that found no user with a role does not run it.
HoldersFree(q) ==
    \A x \in Reqs \ {q} : ~ (/\ \/ req[x].op = "edit"
                                \/ req[x].op = "delete" /\ tx[x].before # {}
                             /\ req[x].role = req[q].role
                             /\ req[x].pc = "recalc")

\* CreateCommunityRole: the role is inserted under a new id and the listed
\* users that are members are selected.
BeginCreate(q) ==
    /\ req[q].pc = "begin"
    /\ req[q].op = "create"
    /\ \E r \in fresh :
         /\ fresh' = fresh \ {r}
         /\ req' = [req EXCEPT ![q] = [@ EXCEPT !.pc = "grant", !.role = r]]
    /\ tx' = [tx EXCEPT ![q] =
                [Snapshot EXCEPT !.todo = {u \in req[q].members :
                                              row[u] # None}]]
    /\ UNCHANGED <<defaults, roles, holders, row, cache, setter>>

\* The INSERT of a role when no id is left: the bound on Roles.
CreateExhausted(q) ==
    /\ req[q].pc = "begin"
    /\ req[q].op = "create"
    /\ fresh = {}
    /\ Goto(q, "done")
    /\ UNCHANGED <<dbVars, cache, setter, tx>>

\* The permissions of the new role that the selected row lacked.
Missing(q, u) == req[q].perms \ tx[q].seen[u]

\* The transaction t after the INSERT of u's assignment.
Assigned(t, u) == [t EXCEPT !.todo = @ \ {u}, !.added = @ \cup {u}]

\* One turn of the loop over members: the key is deleted, the role assigned,
\* and the columns of the missing permissions set, which waits for the row.
Grant(q, u) ==
    /\ req[q].pc = "grant"
    /\ u \in tx[q].todo
    /\ Missing(q, u) # {}
    /\ RowFree(q, u)
    /\ tx' = [tx EXCEPT ![q] = Written(Assigned(@, u), u,
                                       row[u] \cup Missing(q, u))]
    /\ cache' = [cache EXCEPT ![u] = None]
    /\ UNCHANGED <<dbVars, setter, req>>

\* ... or the row has them already and is left alone.
GrantHeld(q, u) ==
    /\ req[q].pc = "grant"
    /\ u \in tx[q].todo
    /\ Missing(q, u) = {}
    /\ tx' = [tx EXCEPT ![q] = Assigned(@, u)]
    /\ cache' = [cache EXCEPT ![u] = None]
    /\ UNCHANGED <<dbVars, setter, req>>

\* The INSERT of the assignment fails and an UPDATE after it overwrites err.
GrantUnassigned(q, u) ==
    /\ "swallow" \in Faults
    /\ req[q].pc = "grant"
    /\ u \in tx[q].todo
    /\ Missing(q, u) # {}
    /\ RowFree(q, u)
    /\ tx' = [tx EXCEPT ![q] =
                Written(@, u, row[u] \cup Missing(q, u))]
    /\ cache' = [cache EXCEPT ![u] = None]
    /\ UNCHANGED <<dbVars, setter, req>>

\* EditCommunityRole, the first transaction: the role's columns.  The UPDATE
\* of a role that is gone changes nothing and is no error.
UpdateRole(q) ==
    /\ req[q].pc = "update"
    /\ RoleFree(q)
    /\ roles' = [roles EXCEPT ![req[q].role] =
                    IF @ = None THEN None ELSE req[q].perms]
    /\ Goto(q, "begin")
    /\ UNCHANGED <<defaults, fresh, holders, row, cache, setter, tx>>

HoldersOfAny == UNION {holders[r] : r \in Roles}

\* EditCommunityRole, the second transaction: whoever holds any role of the
\* community is selected.
BeginEdit(q) ==
    /\ req[q].pc = "begin"
    /\ req[q].op = "edit"
    /\ tx' = [tx EXCEPT ![q] = [Snapshot EXCEPT !.before = HoldersOfAny]]
    /\ Goto(q, "unassign")
    /\ UNCHANGED <<dbVars, cache, setter>>

\* Mutant of BeginDelete: the users of the role are not recalculated.
BeginDelete_NoRecalc(q) ==
    /\ req[q].pc = "begin"
    /\ req[q].op = "delete"
    /\ RoleFree(q)
    /\ tx' = [tx EXCEPT ![q] = [Snapshot EXCEPT !.before = HoldersOfAny]]
    /\ Goto(q, "recalc")
    /\ UNCHANGED <<dbVars, cache, setter>>

\* DeleteCommunityRole: the role is deleted, the same users are selected.
BeginDelete(q) ==
    /\ req[q].pc = "begin"
    /\ req[q].op = "delete"
    /\ RoleFree(q)
    /\ tx' = [tx EXCEPT ![q] =
                [Snapshot EXCEPT !.vroles[req[q].role] = None,
                                 !.before = HoldersOfAny]]
    /\ Goto(q, IF HoldersOfAny = {} THEN "recalc" ELSE "unassign")
    /\ UNCHANGED <<dbVars, cache, setter>>

\* The transaction t after the DELETE of the rows us of role r.  It deletes the
\* rows there are; of those another transaction deleted since the snapshot was
\* taken, the snapshot still shows the version before.
Unassigned(t, r, us) ==
    [t EXCEPT !.vholders[r] = @ \ us, !.todo = t.before]

\* DELETE FROM community_roles_users, and on to the recalculation.
Unassign(q) ==
    /\ req[q].pc = "unassign"
    /\ HoldersFree(q)
    /\ tx' = [tx EXCEPT ![q] =
                Unassigned(@, req[q].role, holders[req[q].role])]
    /\ Goto(q, "recalc")
    /\ UNCHANGED <<dbVars, cache, setter>>

\* The transaction t after the INSERTs for the users ms of role r.
Reassigned(t, r, ms) ==
    [t EXCEPT !.vholders[r] = @ \cup ms, !.added = ms, !.assigned = TRUE,
              !.todo = t.before]

\* Mutant of Assign: the users listed are not looked up in communities_users.
Assign_AnyUser(q) ==
    /\ req[q].pc = "recalc"
    /\ req[q].op = "edit"
    /\ tx[q].todo = {}
    /\ ~ tx[q].assigned
    /\ req[q].members # {}
    /\ tx' = [tx EXCEPT ![q] = Reassigned(@, req[q].role, req[q].members)]
    /\ UNCHANGED <<dbVars, cache, setter, req>>

\* EditCommunityRole, the users listed: those the snapshot shows as members
\* are assigned the role, and the users selected before recalculated again.
Assign(q) ==
    /\ req[q].pc = "recalc"
    /\ req[q].op = "edit"
    /\ tx[q].todo = {}
    /\ ~ tx[q].assigned
    /\ req[q].members # {}
    /\ tx' = [tx EXCEPT ![q] =
                Reassigned(@, req[q].role,
                           {u \in req[q].members : tx[q].seen[u] # None})]
    /\ UNCHANGED <<dbVars, cache, setter, req>>

\* EditCommunityDefaultPermissions: the defaults are updated and all members
\* selected in the transaction; the community is read again outside it, where
\* the update is not visible yet.
BeginDefaults(q) ==
    /\ req[q].pc = "begin"
    /\ req[q].op = "defaults"
    /\ \A x \in Reqs \ {q} : ~ (req[x].op = "defaults" /\ req[x].pc \in InTx)
    /\ tx' = [tx EXCEPT ![q] =
                [Snapshot EXCEPT !.todo = {u \in Users : row[u] # None}]]
    /\ req' = [req EXCEPT ![q] =
                 [@ EXCEPT !.pc = "recalc", !.defs = defaults]]
    /\ UNCHANGED <<dbVars, cache, setter>>

\* SignUp with a valid invite: a new user's row is inserted in a transaction,
\* the community read outside it, and the user recalculated.
SignUp(q, u) ==
    /\ "join" \in Ops
    /\ req[q].pc = "idle"
    /\ Sequential => \A x \in Reqs : Replied(x)
    /\ row[u] = None
    /\ \A x \in Reqs : req[x].pc # "idle" => req[x].who # u
    /\ req' = [req EXCEPT ![q] =
                 [pc |-> "recalc", op |-> "join", who |-> u, role |-> None,
                  perms |-> {}, members |-> {}, defs |-> defaults,
                  failed |-> FALSE]]
    /\ tx' = [tx EXCEPT ![q] = [Snapshot EXCEPT !.todo = {u}]]
    /\ UNCHANGED <<dbVars, cache, setter>>

\* RecalculateAndUpdatePermissionsForUser fails, which SignUp ignores: the row
\* keeps the columns' DEFAULT 0.
SignUpUnset(q) ==
    /\ "swallow" \in Faults
    /\ req[q].pc = "recalc"
    /\ req[q].op = "join"
    /\ tx[q].todo # {}
    /\ tx' = [tx EXCEPT ![q] = Written(@, req[q].who, {})]
    /\ UNCHANGED <<dbVars, cache, setter, req>>

Complete(q) ==
    /\ req[q].pc \in {"grant", "recalc"}
    /\ tx[q].todo = {}
    /\ (req[q].op = "edit" /\ req[q].members # {}) => tx[q].assigned

\* tx.Commit().
Commit(q) ==
    LET r == req[q].role
    IN  /\ Complete(q)
        /\ row' = [u \in Users |-> IF u \in tx[q].locked THEN tx[q].value[u]
                                   ELSE row[u]]
        /\ defaults' = IF req[q].op = "defaults" THEN req[q].perms
                       ELSE defaults
        /\ roles' = CASE req[q].op = "create" -> [roles EXCEPT ![r] =
                                                    req[q].perms]
                      [] req[q].op = "delete" -> [roles EXCEPT ![r] = None]
                      [] OTHER -> roles
        /\ holders' = CASE req[q].op \in {"create", "edit"} ->
                               [holders EXCEPT ![r] = tx[q].added]
                        [] req[q].op = "delete" ->
                               [holders EXCEPT ![r] = @ \ tx[q].before]
                        [] OTHER -> holders
        /\ Goto(q, "done")
        /\ tx' = [tx EXCEPT ![q] = NoTx]
        /\ UNCHANGED <<fresh, cache, setter>>

\* A statement, a Del or the Commit fails, InnoDB breaks a deadlock, or the
\* process dies: the handler gives up and the transaction is rolled back.  In
\* HasCommunityPermission an error is a refusal (CheckFails).
Abort(q) ==
    /\ "abort" \in Faults
    /\ req[q].pc \notin {"idle", "get", "select", "refused", "done"}
    /\ Goto(q, "done")
    /\ tx' = [tx EXCEPT ![q] = NoTx]
    /\ UNCHANGED <<dbVars, cache, setter>>

-----------------------------------------------------------------------------

Progress(q) ==
    \/ CheckCached(q) \/ CheckMissed(q) \/ CheckRow(q) \/ CheckNoRow(q)
    \/ LookupRole(q) \/ UpdateRole(q)
    \/ CreateExhausted(q)
    \/ BeginCreate(q) \/ BeginEdit(q) \/ BeginDelete(q) \/ BeginDefaults(q)
    \/ \E u \in Users : Grant(q, u) \/ GrantHeld(q, u) \/ Recalc(q, u)
    \/ Unassign(q) \/ Assign(q) \/ Commit(q)

Arrive(q) ==
    \E u \in Users :
        \/ \E ps \in PermsInputs, ms \in MembersInputs :
             \/ CreateCommunityRole(q, u, ps, ms)
             \/ \E r \in Roles \ fresh : EditCommunityRole(q, u, r, ps, ms)
        \/ \E r \in Roles \ fresh : DeleteCommunityRole(q, u, r)
        \/ \E ps \in PermsInputs : \/ EditCommunityDefaultPermissions(q, u, ps)
                                   \/ OtherHandler(q, u, ps)
        \/ SignUp(q, u)

Fault(q) ==
    \/ \E u \in Users : GrantUnassigned(q, u)
    \/ CheckFails(q) \/ SignUpUnset(q) \/ SetCacheFails(q) \/ Abort(q)

Quiescent == \A q \in Reqs : req[q].pc \in {"idle", "refused", "done"}

\* Nothing is left to happen.
Finished ==
    /\ \A q \in Reqs : req[q].pc \in {"refused", "done"} /\ setter[q] = None
    /\ UNCHANGED vars

Next ==
    \/ \E q \in Reqs : Arrive(q) \/ Progress(q) \/ Fault(q) \/ SetCache(q)
    \/ \E u \in Users : Expire(u)
    \/ Finished

Spec == Init /\ [][Next]_vars

\* Redis expires keys, and the goroutines of a request are scheduled.
FairSpec ==
    /\ Spec
    /\ \A q \in Reqs : WF_vars(Progress(q)) /\ WF_vars(SetCache(q))
    /\ \A u \in Users : WF_vars(Expire(u))

-----------------------------------------------------------------------------

\* Every variable has its type.
TypeOK ==
    /\ defaults \in SUBSET Perms
    /\ roles \in [Roles -> MaybePerms]
    /\ fresh \in SUBSET Roles
    /\ holders \in [Roles -> SUBSET Users]
    /\ row \in [Users -> MaybePerms]
    /\ cache \in [Users -> MaybePerms]
    /\ setter \in [Reqs -> MaybePerms]
    /\ req \in [Reqs -> Request]
    /\ tx \in [Reqs -> Transaction]

\* HasCommunityPermission says no to the owner only when its own read of Redis
\* or MySQL failed: no edit of defaults or roles, interleaved with any other
\* and failing anywhere, leaves a row, a Redis key or a pending Set from which
\* the owner lacks a permission.
OwnerRefusedOnlyOnError ==
    \A q \in Reqs :
        (req[q].who = Owner /\ req[q].pc = "refused") => req[q].failed

\* All the permissions a request could ever hand to a member.
Grantable == FirstDefaults \cup UNION PermsInputs

\* A request gets past HasCommunityPermission only if it is the owner's or
\* asks for a permission that some default or role has been given: rows, keys
\* and recalculations never make one up.
NoEscalation ==
    \A q \in Reqs :
        (/\ req[q].pc \in {"lookup", "update", "begin"} \cup InTx
         /\ req[q].op # "join")
        => (req[q].who = Owner \/ ManageCommunity \in Grantable)

\* Roles are assigned only to users that have a row in communities_users,
\* whatever list of members a request carries.
HoldersAreMembers == \A r \in Roles : \A u \in holders[r] : row[u] # None

\* When no request is under way, a member's row holds the defaults and the
\* permissions of its roles, and the owner's all of them.
RowsAgree ==
    Quiescent => \A u \in Users :
        row[u] # None => row[u] = Effective(u, defaults, roles, holders)

\* EditCommunityRole: "If there's users to add with this role, add the role and
\* recalculate their permissions": once the edit is over, whoever holds a role
\* has its permissions.
AddedUsersRecalculated ==
    Quiescent => \A r \in Roles : \A u \in holders[r] :
        roles[r] # None => roles[r] \subseteq row[u]

\* EditCommunityDefaultPermissions recalculates with the "latest community
\* info": once the edit is over, members have the defaults it set.
DefaultsApplied ==
    Quiescent => \A u \in Users : row[u] # None => defaults \subseteq row[u]

\* Whatever order the Set of a reader, the Del of a writer and its Commit come
\* in, the Redis copy of a row in the end is the row again, or gone.
CacheCatchesUp == <>[](\A u \in Users : cache[u] \in {None, row[u]})

-----------------------------------------------------------------------------
(***************************************************************************)
(* The inductive invariant behind OwnerRefusedOnlyOnError, NoEscalation    *)
(* and HoldersAreMembers.                                                  *)
(***************************************************************************)

\* The Set goroutine belongs to a request that has been made.
SetterStarted == \A q \in Reqs : req[q].pc = "idle" => setter[q] = None

\* Only a user without a row signs up.
OwnerNeverJoins ==
    \A q \in Reqs : req[q].op = "join" => req[q].who # Owner

\* The owner's row, its copies and what will replace it are complete.
OwnerFull ==
    /\ row[Owner] = Perms
    /\ cache[Owner] \in {None, Perms}
    /\ \A q \in Reqs : req[q].who = Owner => setter[q] \in {None, Perms}
    /\ \A q \in Reqs : Owner \in tx[q].locked => tx[q].value[Owner] = Perms

\* A transaction sees, assigns and treats only rows that exist.
SeenStay ==
    \A q \in Reqs : \A u \in Users :
        (\/ tx[q].seen[u] # None
         \/ u \in tx[q].added
         \/ (req[q].pc = "grant" /\ u \in tx[q].todo))
        => row[u] # None

Granted(ps) == ps = None \/ ps \subseteq Grantable

\* Whatever is stored for somebody else than the owner was in some input.
GrantedOnly ==
    /\ defaults \subseteq Grantable
    /\ \A r \in Roles : Granted(roles[r])
    /\ \A u \in Users \ {Owner} : Granted(row[u]) /\ Granted(cache[u])
    /\ \A q \in Reqs :
         /\ req[q].who # Owner => Granted(setter[q])
         /\ req[q].perms \subseteq Grantable
         /\ req[q].defs \subseteq Grantable
         /\ \A r \in Roles : Granted(tx[q].vroles[r])
         /\ \A u \in Users \ {Owner} : tx[q].value[u] \subseteq Grantable

IndInv ==
    /\ TypeOK
    /\ SetterStarted
    /\ OwnerNeverJoins
    /\ OwnerFull
    /\ SeenStay
    /\ GrantedOnly
    /\ OwnerRefusedOnlyOnError
    /\ NoEscalation
    /\ HoldersAreMembers

-----------------------------------------------------------------------------
(***************************************************************************)
(* The inductive invariant behind RowsAgree, when a request waits for the  *)
(* reply to the one before and no role or default is edited.               *)
(***************************************************************************)

Active(q) == req[q].pc \notin {"idle", "refused", "done"}

\* No request overlaps another, none edits a role or the defaults, and no
\* error is swallowed.
OneAtATime ==
    /\ Sequential
    /\ Ops \cap {"edit", "defaults"} = {}
    /\ "swallow" \notin Faults

\* One request is under way at a time.
Alone == \A q, x \in Reqs : Active(q) /\ Active(x) => q = x

\* A request computes with the defaults there are.
CallCurrent(q) ==
    Active(q) =>
        /\ req[q].op \in Ops /\ req[q].defs = defaults
        /\ req[q].op = "delete" => req[q].role \in Roles
        /\ req[q].pc = "update" => req[q].op = "edit"
        /\ req[q].pc = "unassign" => req[q].op \in {"edit", "delete"}
        /\ req[q].pc = "recalc" =>
              req[q].op \in {"edit", "delete", "defaults", "join"}

\* A create is about to leave its members' rows with the new role's
\* permissions added, whether it updates them or finds them there.
GrantSound(q) ==
    req[q].pc = "grant" =>
        /\ req[q].op = "create" /\ req[q].role \in Roles \ fresh
        /\ roles[req[q].role] = None /\ holders[req[q].role] = {}
        /\ tx[q].seen = row
        /\ tx[q].locked \subseteq tx[q].added
        /\ \A u \in tx[q].added :
              IF u \in tx[q].locked
              THEN tx[q].value[u] = row[u] \cup req[q].perms
              ELSE req[q].perms \subseteq row[u]

\* A locked row is to become what the transaction sees.
LockedEffective(q) ==
    \A u \in tx[q].locked :
        tx[q].value[u] = Effective(u, defaults, tx[q].vroles, tx[q].vholders)

\* A delete sees the tables without the role and treats whoever has a role.
DeleteSound(q) ==
    (req[q].op = "delete" /\ req[q].pc \in InTx) =>
        /\ tx[q].vroles = [roles EXCEPT ![req[q].role] = None]
        /\ \A r \in Roles \ {req[q].role} : tx[q].vholders[r] = holders[r]
        /\ tx[q].before = HoldersOfAny
        /\ tx[q].locked \subseteq tx[q].before
        /\ tx[q].todo \subseteq tx[q].before
        /\ req[q].pc = "recalc" =>
              tx[q].before \subseteq tx[q].todo \cup tx[q].locked
        /\ LockedEffective(q)

\* A sign-up sees the tables and treats its own user.
JoinSound(q) ==
    (req[q].op = "join" /\ req[q].pc \in InTx) =>
        /\ tx[q].vroles = roles /\ tx[q].vholders = holders
        /\ tx[q].todo \cup tx[q].locked = {req[q].who}
        /\ LockedEffective(q)

CallSound(q) ==
    CallCurrent(q) /\ GrantSound(q) /\ DeleteSound(q) /\ JoinSound(q)

\* Ids that were not handed out have no rows.
FreshUnused == \A r \in fresh : roles[r] = None /\ holders[r] = {}

RowsEffective ==
    \A u \in Users :
        row[u] # None => row[u] = Effective(u, defaults, roles, holders)

SeqInv ==
    /\ Alone
    /\ \A q \in Reqs : CallSound(q)
    /\ FreshUnused
    /\ RowsEffective

=============================================================================
