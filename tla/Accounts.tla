------------------------------ MODULE Accounts ------------------------------
(***************************************************************************)
(* The accounts: the tables users and beta_users, the key user-<id> that   *)
(* holds a user's row in Redis for an hour, and the handlers that write    *)
(* them.  Every request of a signed-in user begins in AuthorizationREST or *)
(* AuthorizationWS, which finds the viewer in Redis or else in MySQL.      *)
(*                                                                         *)
(* Of a row the model keeps the two columns with a unique index and the    *)
(* picture, which EditProfilePicture writes without reading the rest.      *)
(* Passwords and tokens are left out: a request to sign in has the right   *)
(* password, one with a token has that of an account.  What SignUp with an *)
(* invite does to communities_users is in Permissions; SignIn with one     *)
(* always rolls back.  Requests refused by their first check change        *)
(* nothing and are left out.                                               *)
(***************************************************************************)
EXTENDS Naturals, Sequences

CONSTANTS
    Emails,      \* lower-case addresses
    Handles,     \* lower-case handles
    FirstUsers,  \* the rows of users at the start, by id
    FirstBeta,   \* who is on the wait list at the start
    MaxId,       \* bound: users.id; one per request is enough
    Reqs,        \* bound: requests ever made
    Faults,      \* "abort", "redis", "upload": which errors happen
    Blank,       \* the empty string
    None         \* NULL, or nothing

Ids == 1..MaxId

\* A picture is named by the request that uploaded it.
Row == [email : Emails, handle : Handles, avatar : Reqs \cup {Blank, None}]

Waiting == [redeemed : BOOLEAN, enabled : BOOLEAN]

ASSUME AccountsAssumption ==
    /\ MaxId \in Nat
    /\ FirstUsers \in Seq(Row)
    /\ Len(FirstUsers) <= MaxId
    /\ \A i \in 1..Len(FirstUsers) : FirstUsers[i].avatar = None
    /\ \A i, j \in 1..Len(FirstUsers) : i # j =>
          /\ FirstUsers[i].email # FirstUsers[j].email
          /\ FirstUsers[i].handle # FirstUsers[j].handle
    /\ FirstBeta \subseteq Emails
    /\ Blank \notin Reqs /\ None \notin Reqs
    /\ None \notin Row /\ None \notin Waiting

VARIABLES
    users,    \* users, None where absent
    nextId,   \* AUTO_INCREMENT of users
    beta,     \* beta_users, None where absent
    cache,    \* user-<id> in Redis, None where absent
    setter,   \* what a request's goroutine has yet to Set
    req,      \* the requests
    row,      \* the row a request has read and will use
    past      \* auxiliary: every row an id has ever had, for the properties

vars == <<users, nextId, beta, cache, setter, req, row, past>>

Pc == {"idle", "email", "beta", "insert", "get", "select", "handle", "update",
       "upload", "commit", "set", "del", "done", "failed"}

Request ==
    [pc : Pc, op : {"none", "beta", "signup", "signin", "ws", "look",
                    "profile", "picture"},
     id : Ids \cup {0}, email : Emails \cup {None},
     handle : Handles \cup {None}, code : BOOLEAN]

NoRequest ==
    [pc |-> "idle", op |-> "none", id |-> 0, email |-> None, handle |-> None,
     code |-> FALSE]

Init ==
    /\ users = [i \in Ids |->
                  IF i \in 1..Len(FirstUsers) THEN FirstUsers[i] ELSE None]
    /\ nextId = Len(FirstUsers) + 1
    /\ beta = [e \in Emails |->
                 IF e \in FirstBeta
                 THEN [redeemed |-> FALSE, enabled |-> FALSE] ELSE None]
    /\ cache = [i \in Ids |-> None]
    /\ setter = [q \in Reqs |-> None]
    /\ req = [q \in Reqs |-> NoRequest]
    /\ row = [q \in Reqs |-> None]
    /\ past = [i \in Ids |-> {users[i]} \ {None}]

Enter(q, r) == req[q].pc = "idle" /\ req' = [req EXCEPT ![q] = r]

Goto(q, pc) == req' = [req EXCEPT ![q].pc = pc]

\* A transaction shows row r of user i to the others.
Shows(i, r) ==
    /\ users' = [users EXCEPT ![i] = r]
    /\ past' = [past EXCEPT ![i] = @ \cup {r}]

-----------------------------------------------------------------------------
(***************************************************************************)
(* Unique indexes and locks.                                               *)
(***************************************************************************)

\* Mutant: there is no index, and the handlers rely on their SELECTs.
Free_NoIndex(i, r) == TRUE

\* users_email_uq and users_handle_uq let user i have row r.
Free(i, r) ==
    \A j \in Ids \ {i} : users[j] # None =>
        users[j].email # r.email /\ users[j].handle # r.handle

\* Transaction x has written and holds locks that a write of r to i waits for:
\* of the row, or of an entry of a unique index, old or new.
Blocks(x, i, r) ==
    /\ req[x].pc = "commit"
    /\ \/ req[x].id = i
       \/ row[x].email = r.email
       \/ row[x].handle = r.handle
       \/ users[req[x].id] # None /\ users[req[x].id].handle = r.handle

\* A SignUp has written the row of beta_users, or locked the gap for it.
BetaLocked(e) ==
    \E x \in Reqs :
        req[x].pc = "commit" /\ req[x].op = "signup" /\ req[x].email = e

-----------------------------------------------------------------------------
(***************************************************************************)
(* The wait list.                                                          *)
(***************************************************************************)

\* The address is not on the list.
JoinBeta(q, e) ==
    /\ beta[e] = None
    /\ Enter(q, [NoRequest EXCEPT !.pc = "insert", !.op = "beta", !.email = e])
    /\ UNCHANGED <<users, nextId, beta, cache, setter, row, past>>

\* Mutant: enabled has no default.
InsertBeta_NullEnabled(q) ==
    LET e == req[q].email
    IN  /\ req[q].pc = "insert" /\ req[q].op = "beta"
        /\ ~BetaLocked(e)
        /\ IF beta[e] = None
           THEN /\ beta' = [beta EXCEPT ![e] =
                              [redeemed |-> FALSE, enabled |-> None]]
                /\ Goto(q, "done")
           ELSE UNCHANGED beta /\ Goto(q, "failed")
        /\ UNCHANGED <<users, nextId, cache, setter, row, past>>

\* INSERT INTO beta_users and the commit; beta_users_email_uq refuses a second.
InsertBeta(q) ==
    LET e == req[q].email
    IN  /\ req[q].pc = "insert" /\ req[q].op = "beta"
        /\ ~BetaLocked(e)
        /\ IF beta[e] = None
           THEN /\ beta' = [beta EXCEPT ![e] =
                              [redeemed |-> FALSE, enabled |-> FALSE]]
                /\ Goto(q, "done")
           ELSE UNCHANGED beta /\ Goto(q, "failed")
        /\ UNCHANGED <<users, nextId, cache, setter, row, past>>

\* The team lets an address in; nothing in the repository does it.
EnableBeta(e) ==
    /\ beta[e] # None
    /\ ~BetaLocked(e)
    /\ ~beta[e].enabled
    /\ beta' = [beta EXCEPT ![e].enabled = TRUE]
    /\ UNCHANGED <<users, nextId, cache, setter, req, row, past>>

-----------------------------------------------------------------------------
(***************************************************************************)
(* SignUp and SignIn.                                                      *)
(***************************************************************************)

\* The handle is not taken.
SignUp(q, e, h, code) ==
    /\ \A i \in Ids : users[i] # None => users[i].handle # h
    /\ Enter(q, [NoRequest EXCEPT !.pc = "email", !.op = "signup",
                    !.email = e, !.handle = h, !.code = code])
    /\ UNCHANGED <<users, nextId, beta, cache, setter, row, past>>

\* "Already signed up."
CheckEmail(q) ==
    /\ req[q].pc = "email"
    /\ Goto(q, IF \E i \in Ids :
                    users[i] # None /\ users[i].email = req[q].email
               THEN "failed" ELSE "beta")
    /\ UNCHANGED <<users, nextId, beta, cache, setter, row, past>>

\* Mutant: an address on the wait list will do.
CanBetaTest_Waiting(q) ==
    LET b == beta[req[q].email]
    IN  req[q].code \/ (b # None /\ ~b.redeemed)

\* An invite is found by its code, or the address is let in and not used.
CanBetaTest(q) ==
    LET b == beta[req[q].email]
    IN  req[q].code \/ (b # None /\ b.enabled /\ ~b.redeemed)

CheckBeta(q) ==
    /\ req[q].pc = "beta"
    /\ Goto(q, IF CanBetaTest(q) THEN "insert" ELSE "failed")
    /\ UNCHANGED <<users, nextId, beta, cache, setter, row, past>>

NewRow(q) ==
    [email |-> req[q].email, handle |-> req[q].handle, avatar |-> None]

Redeem(e) ==
    beta' = [beta EXCEPT ![e] =
               IF @ = None THEN None ELSE [@ EXCEPT !.redeemed = TRUE]]

\* Mutant: beta_users is updated outside the transaction.
InsertUser_RedeemsFirst(q) ==
    /\ req[q].pc = "insert" /\ req[q].op = "signup"
    /\ nextId \in Ids
    /\ \A x \in Reqs : ~Blocks(x, nextId, NewRow(q))
    /\ IF Free(nextId, NewRow(q))
       THEN /\ row' = [row EXCEPT ![q] = NewRow(q)]
            /\ req' = [req EXCEPT ![q].pc = "commit", ![q].id = nextId]
       ELSE UNCHANGED row /\ Goto(q, "failed")
    /\ nextId' = nextId + 1
    /\ Redeem(req[q].email)
    /\ UNCHANGED <<users, cache, setter, past>>

\* UPDATE beta_users, INSERT INTO users and the SELECT of the row inserted.  A
\* duplicate is rolled back; the id it took is gone.
InsertUser(q) ==
    /\ req[q].pc = "insert" /\ req[q].op = "signup"
    /\ nextId \in Ids
    /\ \A x \in Reqs : ~Blocks(x, nextId, NewRow(q))
    /\ IF Free(nextId, NewRow(q))
       THEN /\ row' = [row EXCEPT ![q] = NewRow(q)]
            /\ req' = [req EXCEPT ![q].pc = "commit", ![q].id = nextId]
       ELSE UNCHANGED row /\ Goto(q, "failed")
    /\ nextId' = nextId + 1
    /\ UNCHANGED <<users, beta, cache, setter, past>>

\* How a handler ends that has left the Set to a goroutine: the goroutine assigns
\* the handler's err, and its failure may be taken for one to sign the token.
Endings == {"done"} \cup (IF "redis" \in Faults THEN {"failed"} ELSE {})

\* The commit, the goroutine that Sets the key, and the token.
CommitUser(q) ==
    /\ req[q].pc = "commit" /\ req[q].op = "signup"
    /\ Shows(req[q].id, row[q])
    /\ Redeem(req[q].email)
    /\ setter' = [setter EXCEPT ![q] = row[q]]
    /\ row' = [row EXCEPT ![q] = None]
    /\ \E pc \in Endings : Goto(q, pc)
    /\ UNCHANGED <<nextId, cache>>

\* The row is read and a goroutine Sets the key.  With a code the user should
\* join a community too: the query for bans has one placeholder and two
\* arguments, so the INSERT is rolled back and the reply is "Not found".
SignIn(q, i, code) ==
    /\ users[i] # None
    /\ setter' = [setter EXCEPT ![q] = users[i]]
    /\ \E pc \in IF code THEN {"failed"} ELSE Endings :
          Enter(q, [NoRequest EXCEPT !.pc = pc, !.op = "signin", !.id = i,
                      !.code = code])
    /\ UNCHANGED <<users, nextId, beta, cache, row, past>>

-----------------------------------------------------------------------------
(***************************************************************************)
(* The viewer.                                                             *)
(***************************************************************************)

\* A request of user i with a token: "ws" opens a websocket, "look" is any
\* handler that leaves users alone, the others are below.
Authorization(q, op, i, h) ==
    /\ users[i] # None
    /\ Enter(q, [NoRequest EXCEPT !.pc = "get", !.op = op, !.id = i,
                    !.handle = h])
    /\ UNCHANGED <<users, nextId, beta, cache, setter, row, past>>

\* Where the handler after AuthorizationREST begins.
Handler(op) ==
    CASE op = "profile" -> "handle"
      [] op = "picture" -> "upload"
      [] OTHER -> "done"

GetViewer(q) ==
    /\ req[q].pc = "get"
    /\ cache[req[q].id] # None
    /\ Goto(q, Handler(req[q].op))
    /\ UNCHANGED <<users, nextId, beta, cache, setter, row, past>>

\* The key is absent, or Redis does not answer.
GetNothing(q) ==
    /\ req[q].pc = "get"
    /\ cache[req[q].id] = None \/ "redis" \in Faults
    /\ Goto(q, "select")
    /\ UNCHANGED <<users, nextId, beta, cache, setter, row, past>>

\* AuthorizationREST leaves the Set to a goroutine,
SelectREST(q) ==
    /\ req[q].pc = "select" /\ req[q].op # "ws"
    /\ setter' = [setter EXCEPT ![q] = users[req[q].id]]
    /\ Goto(q, Handler(req[q].op))
    /\ UNCHANGED <<users, nextId, beta, cache, row, past>>

\* AuthorizationWS waits for it (SetKey).
SelectWS(q) ==
    /\ req[q].pc = "select" /\ req[q].op = "ws"
    /\ row' = [row EXCEPT ![q] = users[req[q].id]]
    /\ Goto(q, "set")
    /\ UNCHANGED <<users, nextId, beta, cache, setter, past>>

-----------------------------------------------------------------------------
(***************************************************************************)
(* UpdateProfile and EditProfilePicture.                                   *)
(***************************************************************************)

\* "Already taken."
CheckHandle(q) ==
    /\ req[q].pc = "handle"
    /\ Goto(q, IF \E j \in Ids \ {req[q].id} :
                    users[j] # None /\ users[j].handle = req[q].handle
               THEN "failed" ELSE "update")
    /\ UNCHANGED <<users, nextId, beta, cache, setter, row, past>>

\* Mutant: the viewer is written back, from Redis where it was found there.
Updated_Viewer(q) ==
    LET i == req[q].id
    IN  [IF cache[i] = None THEN users[i] ELSE cache[i]
            EXCEPT !.handle = req[q].handle]

Updated(q) == [users[req[q].id] EXCEPT !.handle = req[q].handle]

\* Mutant: the key is Set before the commit.
UpdateUser_SetsFirst(q) ==
    LET i == req[q].id
    IN  /\ req[q].pc = "update"
        /\ \A x \in Reqs : ~Blocks(x, i, Updated(q))
        /\ IF Free(i, Updated(q))
           THEN /\ row' = [row EXCEPT ![q] = Updated(q)]
                /\ cache' = [cache EXCEPT ![i] = Updated(q)]
                /\ Goto(q, "commit")
           ELSE UNCHANGED <<row, cache>> /\ Goto(q, "failed")
        /\ UNCHANGED <<users, nextId, beta, setter, past>>

\* UPDATE users SET name, handle, about, and the SELECT of the row.
UpdateUser(q) ==
    LET i == req[q].id
    IN  /\ req[q].pc = "update"
        /\ \A x \in Reqs : ~Blocks(x, i, Updated(q))
        /\ IF Free(i, Updated(q))
           THEN row' = [row EXCEPT ![q] = Updated(q)] /\ Goto(q, "commit")
           ELSE UNCHANGED row /\ Goto(q, "failed")
        /\ UNCHANGED <<users, nextId, beta, cache, setter, past>>

CommitProfile(q) ==
    /\ req[q].pc = "commit" /\ req[q].op = "profile"
    /\ Shows(req[q].id, row[q])
    /\ Goto(q, "set")
    /\ UNCHANGED <<nextId, beta, cache, setter, row>>

\* Set, before the reply of UpdateProfile and of AuthorizationWS.
SetKey(q) ==
    /\ req[q].pc = "set"
    /\ cache' = [cache EXCEPT ![req[q].id] = row[q]]
    /\ row' = [row EXCEPT ![q] = None]
    /\ Goto(q, "done")
    /\ UNCHANGED <<users, nextId, beta, setter, past>>

\* The upload, whose error is not seen ("err != err") and leaves an empty id;
\* INSERT INTO files, UPDATE users SET avatar_file_id, cf_avatar_images_id, and
\* the commit.
UploadPicture(q, image) ==
    LET i == req[q].id
    IN  /\ req[q].pc = "upload"
        /\ image = q \/ (image = Blank /\ "upload" \in Faults)
        /\ ~\E x \in Reqs : req[x].pc = "commit" /\ req[x].id = i
        /\ Shows(i, [users[i] EXCEPT !.avatar = image])
        /\ Goto(q, "del")
        /\ UNCHANGED <<nextId, beta, cache, setter, row>>

\* Del, before the reply; its error is not looked at.
DelKey(q) ==
    /\ req[q].pc = "del"
    /\ \/ cache' = [cache EXCEPT ![req[q].id] = None]
       \/ "redis" \in Faults /\ UNCHANGED cache
    /\ Goto(q, "done")
    /\ UNCHANGED <<users, nextId, beta, setter, row, past>>

-----------------------------------------------------------------------------

\* The goroutine of SignUp, SignIn or AuthorizationREST; an error is logged.
SetLater(q) ==
    /\ setter[q] # None
    /\ \/ cache' = [cache EXCEPT ![req[q].id] = setter[q]]
       \/ "redis" \in Faults /\ UNCHANGED cache
    /\ setter' = [setter EXCEPT ![q] = None]
    /\ UNCHANGED <<users, nextId, beta, req, row, past>>

\* An hour after the Set.
Expire(i) ==
    /\ cache[i] # None
    /\ cache' = [cache EXCEPT ![i] = None]
    /\ UNCHANGED <<users, nextId, beta, setter, req, row, past>>

\* An error: what is not committed is rolled back, and the request fails.
Abort(q) ==
    /\ "abort" \in Faults
    /\ req[q].pc \notin {"idle", "del", "done", "failed"}
    /\ row' = [row EXCEPT ![q] = None]
    /\ Goto(q, "failed")
    /\ UNCHANGED <<users, nextId, beta, cache, setter, past>>

Arrive(q) ==
    \/ \E e \in Emails : JoinBeta(q, e)
    \/ \E e \in Emails, h \in Handles, code \in BOOLEAN : SignUp(q, e, h, code)
    \/ \E i \in Ids, code \in BOOLEAN : SignIn(q, i, code)
    \/ \E i \in Ids, op \in {"ws", "look", "picture"} :
          Authorization(q, op, i, None)
    \/ \E i \in Ids, h \in Handles : Authorization(q, "profile", i, h)

Progress(q) ==
    \/ InsertBeta(q)
    \/ CheckEmail(q) \/ CheckBeta(q) \/ InsertUser(q) \/ CommitUser(q)
    \/ GetViewer(q) \/ GetNothing(q) \/ SelectREST(q) \/ SelectWS(q)
    \/ CheckHandle(q) \/ UpdateUser(q) \/ CommitProfile(q) \/ SetKey(q)
    \/ \E image \in {q, Blank} : UploadPicture(q, image)
    \/ DelKey(q)

\* The bound on requests is used up and nothing is left to happen.
Rest ==
    /\ \A q \in Reqs : req[q].pc \in {"done", "failed"} /\ setter[q] = None
    /\ UNCHANGED vars

Next ==
    \/ \E q \in Reqs : Arrive(q) \/ Progress(q) \/ SetLater(q) \/ Abort(q)
    \/ \E e \in Emails : EnableBeta(e)
    \/ \E i \in Ids : Expire(i)
    \/ Rest

Spec == Init /\ [][Next]_vars

-----------------------------------------------------------------------------

\* Every variable has its type.
TypeOK ==
    /\ users \in [Ids -> {None} \cup Row]
    /\ nextId \in Nat \ {0}
    /\ beta \in [Emails -> {None} \cup Waiting]
    /\ cache \in [Ids -> {None} \cup Row]
    /\ setter \in [Reqs -> {None} \cup Row]
    /\ req \in [Reqs -> Request]
    /\ row \in [Reqs -> {None} \cup Row]
    /\ past \in [Ids -> SUBSET Row]

\* No two accounts have one address or one handle, although SignUp and
\* UpdateProfile look for them in SELECTs long before they write.
UniqueAccounts ==
    \A i, j \in Ids : i # j /\ users[i] # None /\ users[j] # None =>
        users[i].email # users[j].email /\ users[i].handle # users[j].handle

\* An address is marked as redeemed only together with its account: a SignUp
\* that fails after the UPDATE, say on a handle just taken, leaves it usable.
BetaSpentOnAccount ==
    \A e \in Emails : beta[e] # None /\ beta[e].redeemed =>
        \E i \in Ids : users[i] # None /\ users[i].email = e

\* An account is made by a SignUp with the code of an invite, or for an address
\* that was let in and is used up by it.
InvitedOnly ==
    \A i \in Ids : users[i] # None /\ i > Len(FirstUsers) =>
        \/ \E q \in Reqs : req[q].op = "signup" /\ req[q].id = i /\ req[q].code
        \/ LET b == beta[users[i].email]
           IN  b # None /\ b.enabled /\ b.redeemed

\* The viewer found in Redis is a row the user had at some time: nothing that
\* was rolled back, and no other user's, is ever in a key or on its way there.
CacheCommitted ==
    /\ \A i \in Ids : cache[i] # None => cache[i] \in past[i]
    /\ \A q \in Reqs : setter[q] # None => setter[q] \in past[req[q].id]

\* A picture that was replaced never comes back, though UpdateProfile writes to
\* the same row, with a viewer that can be an hour old.
ReplacedPictureStays ==
    [][\A i \in Ids :
          users[i] # None /\ users'[i].avatar \notin {users[i].avatar, Blank} =>
             \A r \in past[i] : r.avatar # users'[i].avatar]_vars

-----------------------------------------------------------------------------
(***************************************************************************)
(* The inductive invariant.                                                *)
(***************************************************************************)

Viewers == {"signin", "ws", "look", "profile", "picture"}

\* What the place and the handler of a request say of its fields.
RequestShape ==
    \A q \in Reqs :
        /\ req[q].pc = "idle" => req[q].op = "none"
        /\ req[q].op \in Viewers =>
              req[q].id \in Ids /\ users[req[q].id] # None
        /\ req[q].op \in {"signup", "beta"} => req[q].email \in Emails
        /\ req[q].op \in {"signup", "profile"} => req[q].handle \in Handles
        /\ req[q].op = "signup" /\ req[q].pc \in {"email", "beta", "insert"} =>
              req[q].id = 0
        /\ req[q].pc \in {"email", "beta"} => req[q].op = "signup"
        /\ req[q].pc = "insert" => req[q].op \in {"signup", "beta"}
        /\ req[q].pc \in {"get", "select", "del"} => req[q].op \in Viewers
        /\ req[q].pc \in {"handle", "update"} => req[q].op = "profile"
        /\ req[q].pc = "upload" => req[q].op = "picture"
        /\ req[q].pc = "commit" => req[q].op \in {"signup", "profile"}
        /\ req[q].pc = "set" => req[q].op \in {"ws", "profile"}
        /\ req[q].pc = "del" => req[q].op = "picture"

\* A request has a goroutine only once its user is known.
SetterShape ==
    \A q \in Reqs : setter[q] # None =>
        /\ req[q].op \in Viewers \cup {"signup"}
        /\ req[q].op = "signup" =>
              req[q].pc \in {"done", "failed"} /\ req[q].id \in Ids

\* Ids are handed out in order.
IdsInOrder == \A i \in Ids : users[i] # None => i < nextId

\* What a transaction has written is still allowed, and up to date, when it
\* commits.
WriterReady(q) ==
    /\ row[q] \in Row
    /\ req[q].id \in Ids /\ req[q].id < nextId
    /\ Free(req[q].id, row[q])
    /\ req[q].op = "signup" => users[req[q].id] = None /\ row[q] = NewRow(q)
    /\ req[q].op = "profile" => row[q] = Updated(q)

WritersReady == \A q \in Reqs : req[q].pc = "commit" => WriterReady(q)

\* No two transactions have written the same row or index entry.
WritersApart ==
    \A x, y \in Reqs : x # y /\ req[x].pc = "commit" /\ req[y].pc = "commit" =>
        /\ req[x].id # req[y].id
        /\ row[x].email # row[y].email
        /\ row[x].handle # row[y].handle

\* A row waiting to be Set was shown.
RowsToSet ==
    \A q \in Reqs : req[q].pc = "set" => row[q] \in past[req[q].id]

\* past has the present row, and pictures in it have been uploaded.
PastShape ==
    \A i \in Ids :
        /\ users[i] # None => users[i] \in past[i]
        /\ \A r \in past[i] : r.avatar \in Reqs =>
              /\ req[r.avatar].op = "picture"
              /\ req[r.avatar].pc \in {"del", "done"}

\* A SignUp without a code that got past its checks is of an address let in.
StillEnabled ==
    \A q \in Reqs :
        req[q].op = "signup" /\ req[q].pc \in {"insert", "commit"} =>
            \/ req[q].code
            \/ beta[req[q].email] # None /\ beta[req[q].email].enabled

IndInv ==
    /\ TypeOK /\ RequestShape /\ SetterShape /\ IdsInOrder
    /\ WritersReady /\ WritersApart /\ RowsToSet /\ PastShape /\ StillEnabled
    /\ UniqueAccounts /\ BetaSpentOnAccount /\ InvitedOnly /\ CacheCommitted
=============================================================================
