----------------------------- MODULE Membership -----------------------------
(***************************************************************************)
(* Communities, their members and invites: the tables communities,         *)
(* communities_users and community_invites, the handlers that write them,  *)
(* and the MySQL connections that handlers hold.                           *)
(*                                                                         *)
(* A request is named where its checks outside the transaction have passed *)
(* (Arrive); a request refused before that changes nothing and is left     *)
(* out.  An invite is told by the community its code was made for.  What   *)
(* members are allowed to do is in Permissions, and what a SignUp does to  *)
(* users and beta_users in Accounts: here a newcomer signs up at most once *)
(* at a time.  EditCommunity, which changes a name, is left out.           *)
(*                                                                         *)
(* Transactions are InnoDB's (REPEATABLE READ): a write takes locks that   *)
(* last until the transaction is over, and shows at the commit.            *)
(***************************************************************************)
EXTENDS Naturals, FiniteSets

CONSTANTS
    Users,         \* accounts, and people who may sign up
    FirstUsers,    \* the accounts at the start
    Founder,       \* the owner of community 1, the only one at the start
    Handles,       \* lower-case names in the URL
    FirstHandle,   \* that of community 1
    PrivateInputs, \* bound: what CreateCommunity is asked for as private
    MaxComms,      \* bound: communities, that at the start included
    Reqs,          \* bound: requests ever made
    MaxConns,      \* connections MySQL accepts
    Faults,        \* "abort", "commit", "crash": which errors happen
    None

CommId == 1..MaxComms

ASSUME MembershipAssumption ==
    /\ FirstUsers \subseteq Users
    /\ Founder \in FirstUsers
    /\ FirstHandle \in Handles
    /\ PrivateInputs \subseteq BOOLEAN
    /\ MaxComms \in Nat \ {0}
    /\ MaxConns \in Nat
    /\ IsFiniteSet(Reqs)
    /\ None \notin [handle : Handles, owner : Users, private : BOOLEAN]

VARIABLES
    users,     \* users
    comm,      \* communities, None where absent
    nextId,    \* AUTO_INCREMENT of communities
    members,   \* communities_users: pairs of a community and a user
    invites,   \* community_invites: the communities that have one
    open,      \* the requests whose transaction has not ended
    req        \* the requests

vars == <<users, comm, nextId, members, invites, open, req>>

tables == <<users, comm, nextId, members, invites>>

Community == [handle : Handles, owner : Users, private : BOOLEAN]

Pc == {"idle", "begin", "write", "read", "bans", "roles", "commit", "done",
       "failed"}

Request ==
    [pc : Pc,
     op : {"none", "create", "delete", "join", "leave", "remove", "invite",
           "signup", "signin"},
     who : Users \cup {None}, comm : CommId \cup {0},
     handle : Handles \cup {None}, private : BOOLEAN,
     target : Users \cup {None}]

NoRequest ==
    [pc |-> "idle", op |-> "none", who |-> None, comm |-> 0, handle |-> None,
     private |-> FALSE, target |-> None]

Init ==
    /\ users = FirstUsers
    /\ comm = [c \in CommId |->
                 IF c = 1 THEN [handle |-> FirstHandle, owner |-> Founder,
                                private |-> TRUE]
                 ELSE None]
    /\ nextId = 2
    /\ members = {<<1, Founder>>}
    /\ invites = {1}
    /\ open = {}
    /\ req = [q \in Reqs |-> NoRequest]

-----------------------------------------------------------------------------
(***************************************************************************)
(* Requests, up to their transaction.                                      *)
(***************************************************************************)

\* User u calls handler op about community c.
Arrive(q, op, u, c) ==
    /\ req[q].pc = "idle"
    /\ req' = [req EXCEPT ![q] = [NoRequest EXCEPT !.pc = "begin", !.op = op,
                                    !.who = u, !.comm = c]]
    /\ UNCHANGED <<tables, open>>

\* The community is found by its handle.
Found(c) == comm[c] # None

\* "Unique name already taken" otherwise.
CreateCommunity(q, u, h, p) ==
    /\ u \in users
    /\ \A c \in CommId : Found(c) => comm[c].handle # h
    /\ Cardinality({x \in Reqs : req[x].op = "create"}) < MaxComms - 1
    /\ req[q].pc = "idle"
    /\ req' = [req EXCEPT ![q] = [NoRequest EXCEPT !.pc = "begin",
                                    !.op = "create", !.who = u, !.handle = h,
                                    !.private = p]]
    /\ UNCHANGED <<tables, open>>

\* Only by its owner.
DeleteCommunity(q, u, c) ==
    /\ Found(c) /\ comm[c].owner = u
    /\ Arrive(q, "delete", u, c)

\* A private community asks for the code of one of its invites.
JoinCommunity(q, u, c) ==
    /\ u \in users
    /\ Found(c)
    /\ comm[c].private => c \in invites
    /\ Arrive(q, "join", u, c)

\* "You must delete the community to leave it."
LeaveCommunity(q, u, c) ==
    /\ u \in users
    /\ Found(c) /\ comm[c].owner # u
    /\ Arrive(q, "leave", u, c)

\* HasCommunityPermission, where it could be granted: u has a row.
MayManage(u, c) == Found(c) /\ <<c, u>> \in members

\* A user t is removed: by KickUser,
KickUser(q, u, c, t) ==
    /\ MayManage(u, c)
    /\ t \in users
    /\ req[q].pc = "idle"
    /\ req' = [req EXCEPT ![q] = [NoRequest EXCEPT !.pc = "begin",
                                    !.op = "remove", !.who = u, !.comm = c,
                                    !.target = t]]
    /\ UNCHANGED <<tables, open>>

\* or, with the same statements but the last, by BanUser.
BanUser(q, u, c, t) == KickUser(q, u, c, t)

CreateCommunityInvite(q, u, c) ==
    /\ MayManage(u, c)
    /\ Arrive(q, "invite", u, c)

\* Somebody new signs up with the code of an invite.
SignUp(q, u, c) ==
    /\ u \notin users
    /\ \A x \in Reqs : req[x].op = "signup" /\ req[x].who = u =>
          req[x].pc = "failed"
    /\ c \in invites
    /\ Arrive(q, "signup", u, c)

\* A user signs in with one.
SignIn(q, u, c) ==
    /\ u \in users
    /\ c \in invites
    /\ Arrive(q, "signin", u, c)

-----------------------------------------------------------------------------
(***************************************************************************)
(* Connections and locks.                                                  *)
(***************************************************************************)

\* MySQL accepts one more connection.
Connects == Cardinality(open) < MaxConns

\* BEGIN takes a connection of its own; JoinCommunity's next query is that for
\* bans.
Begin(q) ==
    /\ req[q].pc = "begin"
    /\ Connects
    /\ open' = open \cup {q}
    /\ req' = [req EXCEPT ![q].pc =
                 IF req[q].op = "join" THEN "bans" ELSE "write"]
    /\ UNCHANGED tables

\* "Too many connections": an error, or in SignUp and SignIn, where it is not
\* looked at, a panic that the recover middleware answers.
BeginFails(q) ==
    /\ req[q].pc = "begin"
    /\ ~Connects
    /\ req' = [req EXCEPT ![q].pc = "failed"]
    /\ UNCHANGED <<tables, open>>

\* The rows of communities_users, present or not, that a request's statements
\* lock.
Rows(q) ==
    LET r == req[q]
    IN  CASE r.op \in {"signup", "signin"} -> {<<r.comm, r.who>>}
          [] r.op = "remove" -> {<<r.comm, r.target>>}
          [] r.op = "leave" -> CommId \X {r.who}
          [] r.op = "delete" -> {r.comm} \X Users
          [] OTHER -> {}

\* The entries of communities_handle_uq they lock.
Entries(q) ==
    CASE req[q].op = "create" -> {req[q].handle}
      [] req[q].op = "delete" /\ Found(req[q].comm) ->
            {comm[req[q].comm].handle}
      [] OTHER -> {}

\* x holds the locks of its statements: until its transaction ends.
Holds(x) == x \in open /\ req[x].pc \notin {"begin", "write"}

\* The statements of q have not to wait.
Unlocked(q) ==
    \A x \in Reqs \ {q} : Holds(x) =>
        Rows(x) \cap Rows(q) = {} /\ Entries(x) \cap Entries(q) = {}

-----------------------------------------------------------------------------
(***************************************************************************)
(* The statements of a transaction.                                        *)
(***************************************************************************)

Goto(q, pc) == req' = [req EXCEPT ![q].pc = pc]

\* The transaction of q ends and the handler answers.
Ends(q, pc) == open' = open \ {q} /\ Goto(q, pc)

\* communities_handle_uq refuses the handle.
Taken(h) == \E c \in CommId : Found(c) /\ comm[c].handle = h

\* Mutant: LAST_INSERT_ID is not read.
InsertCommunity_NoId(q) ==
    /\ req[q].pc = "write" /\ req[q].op = "create"
    /\ ~Taken(req[q].handle)
    /\ Unlocked(q)
    /\ Goto(q, "commit")
    /\ nextId' = nextId + 1
    /\ UNCHANGED <<users, comm, members, invites, open>>

\* INSERTs of the community, its group, its channel and the owner's row.
InsertCommunity(q) ==
    /\ req[q].pc = "write" /\ req[q].op = "create"
    /\ ~Taken(req[q].handle)
    /\ Unlocked(q)
    /\ req' = [req EXCEPT ![q].pc = "commit", ![q].comm = nextId]
    /\ nextId' = nextId + 1
    /\ UNCHANGED <<users, comm, members, invites, open>>

\* Mutant: the transaction is not rolled back, as in JoinCommunity.
InsertDuplicate_Leaks(q) ==
    /\ req[q].pc = "write" /\ req[q].op = "create"
    /\ Taken(req[q].handle)
    /\ Unlocked(q)
    /\ Goto(q, "failed")
    /\ UNCHANGED <<tables, open>>

\* A duplicate is rolled back.  (The id it used up is left out.)
InsertDuplicate(q) ==
    /\ req[q].pc = "write" /\ req[q].op = "create"
    /\ Taken(req[q].handle)
    /\ Unlocked(q)
    /\ Ends(q, "failed")
    /\ UNCHANGED tables

CommitCommunity(q) ==
    LET r == req[q]
    IN  /\ r.pc = "commit" /\ r.op = "create"
        /\ comm' = [comm EXCEPT ![r.comm] =
                      [handle |-> r.handle, owner |-> r.who,
                       private |-> r.private]]
        /\ members' = members \cup {<<r.comm, r.who>>}
        /\ Ends(q, "done")
        /\ UNCHANGED <<users, nextId, invites>>

\* The seven DELETEs, in order from communities_users to communities.
DeleteRows(q) ==
    /\ req[q].pc = "write" /\ req[q].op = "delete"
    /\ Unlocked(q)
    /\ Goto(q, "commit")
    /\ UNCHANGED <<tables, open>>

\* Invites, bans and files of the community stay.
CommitDelete(q) ==
    /\ req[q].pc = "commit" /\ req[q].op = "delete"
    /\ comm' = [comm EXCEPT ![req[q].comm] = None]
    /\ members' = members \ ({req[q].comm} \X Users)
    /\ Ends(q, "done")
    /\ UNCHANGED <<users, nextId, invites>>

\* INSERT INTO community_invites, with a code of its own.
InsertInvite(q) ==
    /\ req[q].pc = "write" /\ req[q].op = "invite"
    /\ Goto(q, "commit")
    /\ UNCHANGED <<tables, open>>

CommitInvite(q) ==
    /\ req[q].pc = "commit" /\ req[q].op = "invite"
    /\ invites' = invites \cup {req[q].comm}
    /\ Ends(q, "done")
    /\ UNCHANGED <<users, comm, nextId, members>>

\* SignUp inserts the user and the row of communities_users,
InsertMember(q) ==
    /\ req[q].pc = "write" /\ req[q].op = "signup"
    /\ Unlocked(q)
    /\ Goto(q, "read")
    /\ UNCHANGED <<tables, open>>

\* Mutant: the community is not looked at again.
CommunityThere_Assumed(c) == TRUE

\* What the SELECT finds that follows the INSERT, over another connection.
CommunityThere(c) == Found(c) /\ Connects

\* and only then reads the community; if it is not there, or no connection is
\* to be had, SignUp rolls back.
ReadCommunity(q) ==
    /\ req[q].pc = "read"
    /\ IF CommunityThere(req[q].comm)
       THEN Goto(q, "commit") /\ UNCHANGED open
       ELSE Ends(q, "failed")
    /\ UNCHANGED tables

\* The recalculation of the permissions, and the commit.
CommitMember(q) ==
    /\ req[q].pc = "commit" /\ req[q].op = "signup"
    /\ users' = users \cup {req[q].who}
    /\ members' = members \cup {<<req[q].comm, req[q].who>>}
    /\ Ends(q, "done")
    /\ UNCHANGED <<comm, nextId, invites>>

-----------------------------------------------------------------------------
(***************************************************************************)
(* Transactions that never commit.                                         *)
(***************************************************************************)

\* The query for bans has one placeholder and two arguments: an error, every
\* time.  JoinCommunity returns without Rollback.
JoinBanQuery(q) ==
    /\ req[q].pc = "bans" /\ req[q].op = "join"
    /\ Goto(q, "failed")
    /\ UNCHANGED <<tables, open>>

\* SignIn has inserted the row by then,
SignInInsert(q) ==
    /\ req[q].pc = "write" /\ req[q].op = "signin"
    /\ Unlocked(q)
    /\ Goto(q, "bans")
    /\ UNCHANGED <<tables, open>>

\* Mutant: without Rollback, as in JoinCommunity.
SignInBanQuery_Leaks(q) ==
    /\ req[q].pc = "bans" /\ req[q].op = "signin"
    /\ Goto(q, "failed")
    /\ UNCHANGED <<tables, open>>

\* and rolls back, because of the same query or before it because the community
\* is gone.
SignInBanQuery(q) ==
    /\ req[q].pc = "bans" /\ req[q].op = "signin"
    /\ Ends(q, "failed")
    /\ UNCHANGED tables

\* LeaveCommunity deletes the user's rows, those of every community,
LeaveRows(q) ==
    /\ req[q].pc = "write" /\ req[q].op = "leave"
    /\ Unlocked(q)
    /\ Goto(q, "roles")
    /\ UNCHANGED <<tables, open>>

\* and fails: there is no table communiy_roles_users.  No member ever leaves.
LeaveRoles(q) ==
    /\ req[q].pc = "roles" /\ req[q].op = "leave"
    /\ Ends(q, "failed")
    /\ UNCHANGED tables

\* KickUser and BanUser delete the row of the user,
RemoveRows(q) ==
    /\ req[q].pc = "write" /\ req[q].op = "remove"
    /\ Unlocked(q)
    /\ Goto(q, "roles")
    /\ UNCHANGED <<tables, open>>

\* and fail for the same reason.
RemoveRoles(q) ==
    /\ req[q].pc = "roles" /\ req[q].op = "remove"
    /\ Ends(q, "failed")
    /\ UNCHANGED tables

-----------------------------------------------------------------------------
(***************************************************************************)
(* Faults.                                                                 *)
(***************************************************************************)

\* A statement fails: rolled back.
Abort(q) ==
    /\ "abort" \in Faults
    /\ req[q].pc \in {"write", "read", "roles"}
    /\ Ends(q, "failed")
    /\ UNCHANGED tables

\* Commit returns an error.  DeleteCommunity logs it and answers "deleted".
CommitFails(q) ==
    /\ "commit" \in Faults
    /\ req[q].pc = "commit"
    /\ Ends(q, IF req[q].op = "delete" THEN "done" ELSE "failed")
    /\ UNCHANGED tables

\* The process is restarted: MySQL rolls back what its connections had open.
Restart ==
    /\ "crash" \in Faults
    /\ open # {}
    /\ open' = {}
    /\ req' = [q \in Reqs |-> IF req[q].pc \in {"idle", "done", "failed"}
                              THEN req[q] ELSE [req[q] EXCEPT !.pc = "failed"]]
    /\ UNCHANGED tables

-----------------------------------------------------------------------------

Call(q) ==
    \E u \in Users :
        \/ \E h \in Handles, p \in PrivateInputs : CreateCommunity(q, u, h, p)
        \/ \E c \in CommId :
              \/ DeleteCommunity(q, u, c) \/ JoinCommunity(q, u, c)
              \/ LeaveCommunity(q, u, c) \/ CreateCommunityInvite(q, u, c)
              \/ \E t \in Users : KickUser(q, u, c, t) \/ BanUser(q, u, c, t)
              \/ SignUp(q, u, c) \/ SignIn(q, u, c)

Progress(q) ==
    \/ Begin(q) \/ BeginFails(q)
    \/ InsertCommunity(q) \/ InsertDuplicate(q) \/ CommitCommunity(q)
    \/ DeleteRows(q) \/ CommitDelete(q)
    \/ InsertInvite(q) \/ CommitInvite(q)
    \/ InsertMember(q) \/ ReadCommunity(q) \/ CommitMember(q)
    \/ JoinBanQuery(q) \/ SignInInsert(q) \/ SignInBanQuery(q)
    \/ LeaveRows(q) \/ LeaveRoles(q) \/ RemoveRows(q) \/ RemoveRoles(q)

\* The bound on requests is used up.
Rest == (\A q \in Reqs : req[q].pc \in {"done", "failed"}) /\ UNCHANGED vars

Next ==
    \/ \E q \in Reqs : Call(q) \/ Progress(q) \/ Abort(q) \/ CommitFails(q)
    \/ Restart
    \/ Rest

Spec == Init /\ [][Next]_vars

\* A handler is run until it answers, and MySQL grants a lock once it is free.
FairSpec == Spec /\ \A q \in Reqs : WF_vars(Progress(q))

-----------------------------------------------------------------------------

\* Every variable has its type.
TypeOK ==
    /\ users \in SUBSET Users
    /\ comm \in [CommId -> Community \cup {None}]
    /\ nextId \in Nat
    /\ members \in SUBSET (CommId \X Users)
    /\ invites \in SUBSET CommId
    /\ open \in SUBSET Reqs
    /\ req \in [Reqs -> Request]

\* Whoever has a row in communities_users is in a community that exists,
\* however DeleteCommunity overlaps a SignUp with an invite: nothing in the
\* schema ties the two tables.
NoOrphanMembers == \A cu \in members : Found(cu[1])

\* A transaction that its handler has left open (JoinCommunity, which returns
\* without Rollback) keeps a connection and nothing else: whoever has executed a
\* statement that locks rows has ended its transaction when it answers, wherever
\* it failed.  A lock that stayed behind would stop every later request about
\* that community or handle.
LeftOpenHoldsNoLocks ==
    \A q \in open : req[q].pc \in {"done", "failed"} =>
        Rows(q) = {} /\ Entries(q) = {}

\* Every request is answered, although connections run out: nobody waits for
\* ever for the locks of another, not even of a JoinCommunity, which fails
\* without Rollback and leaves its transaction open.  (A request comes once, so
\* all are answered if there is always a time when none is under way.)
RequestsEnd ==
    (\E q \in Reqs : req[q].pc \notin {"idle", "done", "failed"})
        ~> (\A q \in Reqs : req[q].pc \in {"idle", "done", "failed"})

-----------------------------------------------------------------------------
(***************************************************************************)
(* The inductive invariant that the proofs in Membership_proofs use.       *)
(***************************************************************************)

Creates == {q \in Reqs : req[q].op = "create"}

\* Those whose INSERT has been given an id.
Inserted == {q \in Creates : req[q].comm # 0}

\* A request knows what its statements need.
Filled ==
    \A q \in Reqs :
        LET r == req[q]
        IN  /\ r.op # "none" => r.who \in Users
            /\ r.op \notin {"none", "create"} => r.comm \in CommId
            /\ r.op = "create" => r.handle \in Handles
            /\ r.op = "create" /\ r.pc \in {"begin", "write"} => r.comm = 0
            /\ r.op = "create" /\ r.pc = "commit" => r.comm \in CommId
            /\ r.pc = "idle" => r.op = "none"
            /\ r.pc = "read" => r.op = "signup"

\* Whoever executes statements has its transaction open.
InTransaction ==
    \A q \in Reqs : req[q].pc \in {"write", "read", "bans", "roles", "commit"}
                       => q \in open

\* AUTO_INCREMENT counts the INSERTs, and never leaves CommId before one.
IdsCounted ==
    /\ nextId = 2 + Cardinality(Inserted)
    /\ Cardinality(Creates) <= MaxComms - 1

\* Communities that are there, to be inserted or to be deleted have had an id.
IdsGiven ==
    /\ \A c \in CommId : Found(c) => c < nextId
    /\ \A q \in Reqs : req[q].op \in {"create", "delete"} =>
          req[q].comm < nextId

\* The id of an INSERT before its commit is that of no other community.
IdsFresh ==
    \A q \in Creates : req[q].pc = "commit" =>
        /\ ~Found(req[q].comm)
        /\ \A x \in Reqs \ {q} : req[x].op \in {"create", "delete"} =>
              req[x].comm # req[q].comm

\* No transaction is open before BEGIN, or after the answer but JoinCommunity's.
OpenUnderWay ==
    \A q \in open : /\ req[q].pc \notin {"idle", "begin"}
                    /\ req[q].pc \in {"done", "failed"} => req[q].op = "join"

\* A SignUp that has read the community finds it still there,
SignUpsFound ==
    \A q \in Reqs : req[q].op = "signup" /\ req[q].pc = "commit" =>
        Found(req[q].comm)

\* because the row it has inserted and those that DeleteCommunity has deleted
\* are locked.
SignUpsApart ==
    \A q, x \in Reqs :
        /\ req[q].op = "signup" /\ req[q].pc \in {"read", "commit"}
        /\ req[x].op = "delete" /\ req[x].pc = "commit"
        => req[q].comm # req[x].comm

IndInv ==
    /\ TypeOK
    /\ Filled
    /\ InTransaction
    /\ IdsCounted
    /\ IdsGiven
    /\ IdsFresh
    /\ OpenUnderWay
    /\ SignUpsFound
    /\ SignUpsApart
    /\ NoOrphanMembers
=============================================================================
