-------------------------- MODULE Accounts_proofs --------------------------
(***************************************************************************)
(* Proofs about Accounts, for any addresses, handles, accounts at the      *)
(* start and number of requests, and whatever errors happen.  IndInv, the  *)
(* inductive invariant, is in Accounts.  Most actions only move one        *)
(* request along; QuietStep says once what such a step keeps.              *)
(***************************************************************************)
EXTENDS Accounts, TLAPS

-----------------------------------------------------------------------------
(***************************************************************************)
(* What changes when a request moves.                                      *)
(***************************************************************************)

\* Goto changes the place of one request and nothing else.
LEMMA GotoFacts ==
  ASSUME TypeOK, NEW q \in Reqs, NEW pc \in Pc, Goto(q, pc)
  PROVE  /\ req' \in [Reqs -> Request]
         /\ req'[q].pc = pc
         /\ req'[q].op = req[q].op /\ req'[q].id = req[q].id
         /\ req'[q].email = req[q].email /\ req'[q].handle = req[q].handle
         /\ req'[q].code = req[q].code
         /\ \A x \in Reqs \ {q} : req'[x] = req[x]
BY DEF TypeOK, Request, Goto

\* Enter makes an idle request the one given.
LEMMA EnterFacts ==
  ASSUME TypeOK, NEW q \in Reqs, NEW r \in Request, Enter(q, r)
  PROVE  /\ req' \in [Reqs -> Request]
         /\ req[q].pc = "idle"
         /\ req'[q] = r
         /\ \A x \in Reqs \ {q} : req'[x] = req[x]
BY DEF TypeOK, Enter

\* An idle request has no user yet.
LEMMA IdleFacts ==
  ASSUME IndInv, NEW q \in Reqs, req[q].pc = "idle"
  PROVE  req[q].op = "none" /\ setter[q] = None
BY DEF IndInv, RequestShape, SetterShape, Viewers

\* Accounts that keep their addresses, and addresses that stay let in and used
\* up, keep InvitedOnly.
LEMMA InvitedFrame ==
  ASSUME TypeOK, InvitedOnly,
         NEW i \in Ids, users[i] # None, i > Len(FirstUsers),
         users'[i].email = users[i].email,
         \A e \in Emails :
            beta[e] # None /\ beta[e].enabled /\ beta[e].redeemed =>
               beta'[e] # None /\ beta'[e].enabled /\ beta'[e].redeemed,
         \A x \in Reqs : req[x].op = "signup" /\ req[x].id \in Ids =>
            /\ req'[x].op = "signup" /\ req'[x].id = req[x].id
            /\ req'[x].code = req[x].code
  PROVE  \/ \E x \in Reqs : /\ req'[x].op = "signup"
                            /\ req'[x].id = i /\ req'[x].code
         \/ LET b == beta'[users'[i].email]
            IN  b # None /\ b.enabled /\ b.redeemed
<1>1. users[i].email \in Emails
  BY DEF TypeOK, Row
<1>2. CASE \E x \in Reqs : req[x].op = "signup" /\ req[x].id = i /\ req[x].code
  <2>1. PICK x \in Reqs : req[x].op = "signup" /\ req[x].id = i /\ req[x].code
    BY <1>2
  <2>2. req'[x].op = "signup" /\ req'[x].id = i /\ req'[x].code
    BY <2>1
  <2>3. QED
    BY <2>2
<1>3. CASE LET b == beta[users[i].email]
           IN  b # None /\ b.enabled /\ b.redeemed
  BY <1>1, <1>3
<1>4. QED
  BY <1>2, <1>3 DEF InvitedOnly

\* A transaction stays ready while it and the accounts are left alone.
LEMMA WriterKept ==
  ASSUME IndInv, NEW x \in Reqs, req[x].pc = "commit",
         req'[x] = req[x], row'[x] = row[x], UNCHANGED users,
         nextId' \in {nextId, nextId + 1}
  PROVE  WriterReady(x)'
BY DEF IndInv, WritersReady, WriterReady, TypeOK, Ids, Free, NewRow, Updated

\* A step that leaves the accounts alone, adds to the wait list at most, and
\* does not take request q into the state of having written, keeps all that is
\* said about tables and transactions.
LEMMA QuietStep ==
  ASSUME IndInv, NEW q \in Reqs,
         UNCHANGED <<users, past>>,
         nextId' \in {nextId, nextId + 1},
         \A e \in Emails :
            /\ beta[e] # None =>
                  /\ beta'[e] # None
                  /\ beta'[e].redeemed = beta[e].redeemed
                  /\ beta[e].enabled => beta'[e].enabled
            /\ beta[e] = None /\ beta'[e] # None => ~beta'[e].redeemed,
         \A x \in Reqs \ {q} : req'[x] = req[x] /\ row'[x] = row[x],
         req'[q].pc # "commit",
         req'[q].pc = "set" => row'[q] \in past[req'[q].id],
         req'[q].op = "signup" /\ req'[q].pc = "insert" =>
            \/ req'[q].code
            \/ beta[req'[q].email] # None /\ beta[req'[q].email].enabled,
         req'[q].op = "signup" => req'[q].email \in Emails,
         req[q].op = "signup" /\ req[q].id \in Ids =>
            /\ req'[q].op = "signup" /\ req'[q].id = req[q].id
            /\ req'[q].code = req[q].code,
         req[q].op = "picture" /\ req[q].pc \in {"del", "done"} =>
            req'[q].op = "picture" /\ req'[q].pc \in {"del", "done"}
  PROVE  /\ IdsInOrder' /\ WritersReady' /\ WritersApart' /\ RowsToSet'
         /\ PastShape' /\ StillEnabled' /\ UniqueAccounts'
         /\ BetaSpentOnAccount' /\ InvitedOnly'
<1> USE DEF IndInv
<1>1. IdsInOrder'
  BY DEF IdsInOrder, TypeOK, Ids
<1>2. WritersReady'
  BY WriterKept DEF WritersReady
<1>3. WritersApart'
  BY DEF WritersApart
<1>4. RowsToSet'
  BY DEF RowsToSet
<1>5. PastShape'
  BY DEF PastShape
<1>6. StillEnabled'
  BY DEF StillEnabled, RequestShape
<1>7. UniqueAccounts'
  BY DEF UniqueAccounts
<1>8. BetaSpentOnAccount'
  BY DEF BetaSpentOnAccount
<1>9. InvitedOnly'
  BY InvitedFrame DEF InvitedOnly
<1>10. QED
  BY <1>1, <1>2, <1>3, <1>4, <1>5, <1>6, <1>7, <1>8, <1>9

-----------------------------------------------------------------------------
(***************************************************************************)
(* The actions.                                                            *)
(***************************************************************************)

\* JoinBeta begins.
LEMMA JoinBetaInd ==
  ASSUME IndInv, AccountsAssumption, NEW q \in Reqs, NEW e \in Emails,
         JoinBeta(q, e)
  PROVE  IndInv'
<1> DEFINE r == [NoRequest EXCEPT !.pc = "insert", !.op = "beta", !.email = e]
<1> USE DEF IndInv
<1>1. r \in Request
  BY DEF Request, NoRequest, Pc, Ids
<1>2. Enter(q, r)
  BY DEF JoinBeta
<1>3. req[q].op = "none" /\ setter[q] = None
  BY <1>2, IdleFacts DEF Enter
<1>4. req' \in [Reqs -> Request] /\ \A x \in Reqs \ {q} : req'[x] = req[x]
  BY <1>1, <1>2, EnterFacts
<1>5. /\ req'[q].pc = "insert" /\ req'[q].op = "beta"
      /\ req'[q].id = 0 /\ req'[q].email = e
      /\ req'[q].handle = None
  <2>1. req'[q] = r
    BY <1>1, <1>2, EnterFacts
  <2>2. QED
    BY <2>1 DEF NoRequest
<1>6. TypeOK'
  BY <1>4 DEF TypeOK, JoinBeta
<1>7. RequestShape'
  BY <1>4, <1>5 DEF RequestShape, JoinBeta, Viewers
<1>8. SetterShape'
  BY <1>3, <1>4, <1>5 DEF SetterShape, JoinBeta, Viewers
<1>9. CacheCommitted'
  BY <1>3, <1>4, <1>5 DEF CacheCommitted, JoinBeta
<1>10. /\ IdsInOrder' /\ WritersReady' /\ WritersApart' /\ RowsToSet'
       /\ PastShape' /\ StillEnabled' /\ UniqueAccounts'
       /\ BetaSpentOnAccount' /\ InvitedOnly'
  BY <1>3, <1>4, <1>5, QuietStep DEF JoinBeta
<1>11. QED
  BY <1>6, <1>7, <1>8, <1>9, <1>10

\* SignUp begins.
LEMMA SignUpInd ==
  ASSUME IndInv, AccountsAssumption, NEW q \in Reqs, NEW e \in Emails, NEW h \in Handles,
         NEW code \in BOOLEAN, SignUp(q, e, h, code)
  PROVE  IndInv'
<1> DEFINE r == [NoRequest EXCEPT !.pc = "email", !.op = "signup",
                 !.email = e, !.handle = h, !.code = code]
<1> USE DEF IndInv
<1>1. r \in Request
  BY DEF Request, NoRequest, Pc, Ids
<1>2. Enter(q, r)
  BY DEF SignUp
<1>3. req[q].op = "none" /\ setter[q] = None
  BY <1>2, IdleFacts DEF Enter
<1>4. req' \in [Reqs -> Request] /\ \A x \in Reqs \ {q} : req'[x] = req[x]
  BY <1>1, <1>2, EnterFacts
<1>5. /\ req'[q].pc = "email" /\ req'[q].op = "signup"
      /\ req'[q].id = 0 /\ req'[q].email = e
      /\ req'[q].handle = h
  <2>1. req'[q] = r
    BY <1>1, <1>2, EnterFacts
  <2>2. QED
    BY <2>1 DEF NoRequest
<1>6. TypeOK'
  BY <1>4 DEF TypeOK, SignUp
<1>7. RequestShape'
  BY <1>4, <1>5 DEF RequestShape, SignUp, Viewers
<1>8. SetterShape'
  BY <1>3, <1>4, <1>5 DEF SetterShape, SignUp, Viewers
<1>9. CacheCommitted'
  BY <1>3, <1>4, <1>5 DEF CacheCommitted, SignUp
<1>10. /\ IdsInOrder' /\ WritersReady' /\ WritersApart' /\ RowsToSet'
       /\ PastShape' /\ StillEnabled' /\ UniqueAccounts'
       /\ BetaSpentOnAccount' /\ InvitedOnly'
  BY <1>3, <1>4, <1>5, QuietStep DEF SignUp
<1>11. QED
  BY <1>6, <1>7, <1>8, <1>9, <1>10

\* SignIn, with its goroutine.
LEMMA SignInInd ==
  ASSUME IndInv, AccountsAssumption, NEW q \in Reqs, NEW i \in Ids, NEW code \in BOOLEAN,
         SignIn(q, i, code)
  PROVE  IndInv'
<1> USE DEF IndInv
<1>0. PICK pc \in {"done", "failed"} :
         Enter(q, [NoRequest EXCEPT !.pc = pc, !.op = "signin", !.id = i,
                     !.code = code])
  BY DEF SignIn, Endings
<1> DEFINE r == [NoRequest EXCEPT !.pc = pc, !.op = "signin", !.id = i,
                   !.code = code]
<1>1. r \in Request
  BY DEF Request, NoRequest, Pc, Ids
<1>2. Enter(q, r)
  BY <1>0
<1>3. req[q].op = "none" /\ setter[q] = None
  BY <1>2, IdleFacts DEF Enter
<1>4. req' \in [Reqs -> Request] /\ \A x \in Reqs \ {q} : req'[x] = req[x]
  BY <1>1, <1>2, EnterFacts
<1>5. /\ req'[q].pc \in {"done", "failed"} /\ req'[q].op = "signin"
      /\ req'[q].id = i /\ req'[q].email = None
      /\ req'[q].handle = None
  <2>1. req'[q] = r
    BY <1>1, <1>2, EnterFacts
  <2>2. QED
    BY <2>1 DEF NoRequest
<1>6. TypeOK'
  BY <1>4 DEF TypeOK, SignIn
<1>7. RequestShape'
  BY <1>4, <1>5 DEF RequestShape, SignIn, Viewers
<1>8. SetterShape'
  BY <1>3, <1>4, <1>5 DEF SetterShape, SignIn, Viewers, TypeOK
<1>9. CacheCommitted'
  BY <1>3, <1>4, <1>5 DEF CacheCommitted, SignIn, TypeOK, PastShape
<1>10. /\ IdsInOrder' /\ WritersReady' /\ WritersApart' /\ RowsToSet'
       /\ PastShape' /\ StillEnabled' /\ UniqueAccounts'
       /\ BetaSpentOnAccount' /\ InvitedOnly'
  BY <1>3, <1>4, <1>5, QuietStep DEF SignIn
<1>11. QED
  BY <1>6, <1>7, <1>8, <1>9, <1>10

\* A request with a token begins.
LEMMA AuthorizationInd ==
  ASSUME IndInv, AccountsAssumption, NEW q \in Reqs, NEW i \in Ids, NEW h \in Handles \cup {None},
         NEW op \in {"ws", "look", "picture", "profile"},
         op = "profile" => h \in Handles,
         Authorization(q, op, i, h)
  PROVE  IndInv'
<1> DEFINE r == [NoRequest EXCEPT !.pc = "get", !.op = op, !.id = i, !.handle = h]
<1> USE DEF IndInv
<1>1. r \in Request
  BY DEF Request, NoRequest, Pc, Ids
<1>2. Enter(q, r)
  BY DEF Authorization
<1>3. req[q].op = "none" /\ setter[q] = None
  BY <1>2, IdleFacts DEF Enter
<1>4. req' \in [Reqs -> Request] /\ \A x \in Reqs \ {q} : req'[x] = req[x]
  BY <1>1, <1>2, EnterFacts
<1>5. /\ req'[q].pc = "get" /\ req'[q].op = op
      /\ req'[q].id = i /\ req'[q].email = None
      /\ req'[q].handle = h
  <2>1. req'[q] = r
    BY <1>1, <1>2, EnterFacts
  <2>2. QED
    BY <2>1 DEF NoRequest
<1>6. TypeOK'
  BY <1>4 DEF TypeOK, Authorization
<1>7. RequestShape'
  BY <1>4, <1>5 DEF RequestShape, Authorization, Viewers
<1>8. SetterShape'
  BY <1>3, <1>4, <1>5 DEF SetterShape, Authorization, Viewers
<1>9. CacheCommitted'
  BY <1>3, <1>4, <1>5 DEF CacheCommitted, Authorization
<1>10. /\ IdsInOrder' /\ WritersReady' /\ WritersApart' /\ RowsToSet'
       /\ PastShape' /\ StillEnabled' /\ UniqueAccounts'
       /\ BetaSpentOnAccount' /\ InvitedOnly'
  BY <1>3, <1>4, <1>5, QuietStep DEF Authorization
<1>11. QED
  BY <1>6, <1>7, <1>8, <1>9, <1>10

\* The INSERT of JoinBeta.
LEMMA InsertBetaInd ==
  ASSUME IndInv, AccountsAssumption, NEW q \in Reqs, InsertBeta(q)
  PROVE  IndInv'
<1> USE DEF IndInv
<1>1. PICK pc \in {"done", "failed"} : Goto(q, pc)
  BY DEF InsertBeta
<1>2. /\ req' \in [Reqs -> Request]
      /\ req'[q].pc = pc
      /\ req'[q].op = req[q].op /\ req'[q].id = req[q].id
      /\ req'[q].email = req[q].email /\ req'[q].handle = req[q].handle
      /\ req'[q].code = req[q].code
      /\ \A x \in Reqs \ {q} : req'[x] = req[x]
  BY <1>1, GotoFacts DEF Pc
<1>3. TypeOK'
  <2>1. [redeemed |-> FALSE, enabled |-> FALSE] \in Waiting
    BY DEF Waiting
  <2>2. beta' \in [Emails -> {None} \cup Waiting]
    BY <2>1 DEF TypeOK, InsertBeta
  <2>3. QED
    BY <1>2, <2>2 DEF TypeOK, InsertBeta
<1>4. RequestShape'
  BY <1>1, <1>2 DEF RequestShape, Viewers, InsertBeta
<1>5. SetterShape'
  BY <1>1, <1>2 DEF SetterShape, InsertBeta
<1>6. CacheCommitted'
  BY <1>1, <1>2 DEF CacheCommitted, InsertBeta
<1>7. /\ IdsInOrder' /\ WritersReady' /\ WritersApart' /\ RowsToSet'
      /\ PastShape' /\ StillEnabled' /\ UniqueAccounts'
      /\ BetaSpentOnAccount' /\ InvitedOnly'
  BY <1>1, <1>2, QuietStep DEF InsertBeta, RequestShape, TypeOK, Waiting
<1>8. QED
  BY <1>3, <1>4, <1>5, <1>6, <1>7

\* SignUp looks for the address.
LEMMA CheckEmailInd ==
  ASSUME IndInv, AccountsAssumption, NEW q \in Reqs, CheckEmail(q)
  PROVE  IndInv'
<1> USE DEF IndInv
<1>1. PICK pc \in {"beta", "failed"} : Goto(q, pc)
  BY DEF CheckEmail
<1>2. /\ req' \in [Reqs -> Request]
      /\ req'[q].pc = pc
      /\ req'[q].op = req[q].op /\ req'[q].id = req[q].id
      /\ req'[q].email = req[q].email /\ req'[q].handle = req[q].handle
      /\ req'[q].code = req[q].code
      /\ \A x \in Reqs \ {q} : req'[x] = req[x]
  BY <1>1, GotoFacts DEF Pc
<1>3. TypeOK'
  BY <1>2 DEF TypeOK, CheckEmail
<1>4. RequestShape'
  BY <1>1, <1>2 DEF RequestShape, Viewers, CheckEmail
<1>5. SetterShape'
  BY <1>1, <1>2 DEF SetterShape, CheckEmail
<1>6. CacheCommitted'
  BY <1>1, <1>2 DEF CacheCommitted, CheckEmail
<1>7. /\ IdsInOrder' /\ WritersReady' /\ WritersApart' /\ RowsToSet'
      /\ PastShape' /\ StillEnabled' /\ UniqueAccounts'
      /\ BetaSpentOnAccount' /\ InvitedOnly'
  BY <1>1, <1>2, QuietStep DEF CheckEmail, RequestShape
<1>8. QED
  BY <1>3, <1>4, <1>5, <1>6, <1>7

\* SignUp looks at the wait list.
LEMMA CheckBetaInd ==
  ASSUME IndInv, AccountsAssumption, NEW q \in Reqs, CheckBeta(q)
  PROVE  IndInv'
<1> USE DEF IndInv
<1>1. PICK pc \in {"insert", "failed"} : Goto(q, pc)
  BY DEF CheckBeta
<1>2. /\ req' \in [Reqs -> Request]
      /\ req'[q].pc = pc
      /\ req'[q].op = req[q].op /\ req'[q].id = req[q].id
      /\ req'[q].email = req[q].email /\ req'[q].handle = req[q].handle
      /\ req'[q].code = req[q].code
      /\ \A x \in Reqs \ {q} : req'[x] = req[x]
  BY <1>1, GotoFacts DEF Pc
<1>3. TypeOK'
  BY <1>2 DEF TypeOK, CheckBeta
<1>4. RequestShape'
  BY <1>1, <1>2 DEF RequestShape, Viewers, CheckBeta
<1>5. SetterShape'
  BY <1>1, <1>2 DEF SetterShape, CheckBeta
<1>6. CacheCommitted'
  BY <1>1, <1>2 DEF CacheCommitted, CheckBeta
<1>7. /\ IdsInOrder' /\ WritersReady' /\ WritersApart' /\ RowsToSet'
      /\ PastShape' /\ StillEnabled' /\ UniqueAccounts'
      /\ BetaSpentOnAccount' /\ InvitedOnly'
  BY <1>1, <1>2, QuietStep DEF CheckBeta, RequestShape, CanBetaTest, Goto, TypeOK
<1>8. QED
  BY <1>3, <1>4, <1>5, <1>6, <1>7

\* The viewer is found in Redis.
LEMMA GetViewerInd ==
  ASSUME IndInv, AccountsAssumption, NEW q \in Reqs, GetViewer(q)
  PROVE  IndInv'
<1> USE DEF IndInv
<1>1. PICK pc \in {"handle", "upload", "done"} : Goto(q, pc)
  BY DEF GetViewer, Handler
<1>2. /\ req' \in [Reqs -> Request]
      /\ req'[q].pc = pc
      /\ req'[q].op = req[q].op /\ req'[q].id = req[q].id
      /\ req'[q].email = req[q].email /\ req'[q].handle = req[q].handle
      /\ req'[q].code = req[q].code
      /\ \A x \in Reqs \ {q} : req'[x] = req[x]
  BY <1>1, GotoFacts DEF Pc
<1>3. TypeOK'
  BY <1>2 DEF TypeOK, GetViewer
<1>4. RequestShape'
  BY <1>1, <1>2 DEF RequestShape, Viewers, GetViewer, Handler, Goto, TypeOK
<1>5. SetterShape'
  BY <1>1, <1>2 DEF SetterShape, GetViewer
<1>6. CacheCommitted'
  BY <1>1, <1>2 DEF CacheCommitted, GetViewer
<1>7. /\ IdsInOrder' /\ WritersReady' /\ WritersApart' /\ RowsToSet'
      /\ PastShape' /\ StillEnabled' /\ UniqueAccounts'
      /\ BetaSpentOnAccount' /\ InvitedOnly'
  BY <1>1, <1>2, QuietStep DEF GetViewer, RequestShape
<1>8. QED
  BY <1>3, <1>4, <1>5, <1>6, <1>7

\* The viewer is not found in Redis.
LEMMA GetNothingInd ==
  ASSUME IndInv, AccountsAssumption, NEW q \in Reqs, GetNothing(q)
  PROVE  IndInv'
<1> USE DEF IndInv
<1>1. PICK pc \in {"select"} : Goto(q, pc)
  BY DEF GetNothing
<1>2. /\ req' \in [Reqs -> Request]
      /\ req'[q].pc = pc
      /\ req'[q].op = req[q].op /\ req'[q].id = req[q].id
      /\ req'[q].email = req[q].email /\ req'[q].handle = req[q].handle
      /\ req'[q].code = req[q].code
      /\ \A x \in Reqs \ {q} : req'[x] = req[x]
  BY <1>1, GotoFacts DEF Pc
<1>3. TypeOK'
  BY <1>2 DEF TypeOK, GetNothing
<1>4. RequestShape'
  BY <1>1, <1>2 DEF RequestShape, Viewers, GetNothing
<1>5. SetterShape'
  BY <1>1, <1>2 DEF SetterShape, GetNothing
<1>6. CacheCommitted'
  BY <1>1, <1>2 DEF CacheCommitted, GetNothing
<1>7. /\ IdsInOrder' /\ WritersReady' /\ WritersApart' /\ RowsToSet'
      /\ PastShape' /\ StillEnabled' /\ UniqueAccounts'
      /\ BetaSpentOnAccount' /\ InvitedOnly'
  BY <1>1, <1>2, QuietStep DEF GetNothing, RequestShape
<1>8. QED
  BY <1>3, <1>4, <1>5, <1>6, <1>7

\* The viewer is read, and a goroutine has the row.
LEMMA SelectRESTInd ==
  ASSUME IndInv, AccountsAssumption, NEW q \in Reqs, SelectREST(q)
  PROVE  IndInv'
<1> USE DEF IndInv
<1>1. PICK pc \in {"handle", "upload", "done"} : Goto(q, pc)
  BY DEF SelectREST, Handler
<1>2. /\ req' \in [Reqs -> Request]
      /\ req'[q].pc = pc
      /\ req'[q].op = req[q].op /\ req'[q].id = req[q].id
      /\ req'[q].email = req[q].email /\ req'[q].handle = req[q].handle
      /\ req'[q].code = req[q].code
      /\ \A x \in Reqs \ {q} : req'[x] = req[x]
  BY <1>1, GotoFacts DEF Pc
<1>3. TypeOK'
  BY <1>2 DEF TypeOK, SelectREST, RequestShape
<1>4. RequestShape'
  BY <1>1, <1>2 DEF RequestShape, Viewers, SelectREST, Handler, Goto, TypeOK
<1>5. SetterShape'
  BY <1>1, <1>2 DEF SetterShape, SelectREST, RequestShape, TypeOK, Viewers
<1>6. CacheCommitted'
  BY <1>1, <1>2 DEF CacheCommitted, SelectREST, PastShape, RequestShape, TypeOK, Viewers
<1>7. /\ IdsInOrder' /\ WritersReady' /\ WritersApart' /\ RowsToSet'
      /\ PastShape' /\ StillEnabled' /\ UniqueAccounts'
      /\ BetaSpentOnAccount' /\ InvitedOnly'
  BY <1>1, <1>2, QuietStep DEF SelectREST, RequestShape
<1>8. QED
  BY <1>3, <1>4, <1>5, <1>6, <1>7

\* The viewer is read by AuthorizationWS.
LEMMA SelectWSInd ==
  ASSUME IndInv, AccountsAssumption, NEW q \in Reqs, SelectWS(q)
  PROVE  IndInv'
<1> USE DEF IndInv
<1>1. PICK pc \in {"set"} : Goto(q, pc)
  BY DEF SelectWS
<1>2. /\ req' \in [Reqs -> Request]
      /\ req'[q].pc = pc
      /\ req'[q].op = req[q].op /\ req'[q].id = req[q].id
      /\ req'[q].email = req[q].email /\ req'[q].handle = req[q].handle
      /\ req'[q].code = req[q].code
      /\ \A x \in Reqs \ {q} : req'[x] = req[x]
  BY <1>1, GotoFacts DEF Pc
<1>3. TypeOK'
  BY <1>2 DEF TypeOK, SelectWS, RequestShape
<1>4. RequestShape'
  BY <1>1, <1>2 DEF RequestShape, Viewers, SelectWS
<1>5. SetterShape'
  BY <1>1, <1>2 DEF SetterShape, SelectWS
<1>6. CacheCommitted'
  BY <1>1, <1>2 DEF CacheCommitted, SelectWS
<1>7. /\ IdsInOrder' /\ WritersReady' /\ WritersApart' /\ RowsToSet'
      /\ PastShape' /\ StillEnabled' /\ UniqueAccounts'
      /\ BetaSpentOnAccount' /\ InvitedOnly'
  BY <1>1, <1>2, QuietStep DEF SelectWS, RequestShape, TypeOK, PastShape, Viewers
<1>8. QED
  BY <1>3, <1>4, <1>5, <1>6, <1>7

\* UpdateProfile looks for the handle.
LEMMA CheckHandleInd ==
  ASSUME IndInv, AccountsAssumption, NEW q \in Reqs, CheckHandle(q)
  PROVE  IndInv'
<1> USE DEF IndInv
<1>1. PICK pc \in {"failed", "update"} : Goto(q, pc)
  BY DEF CheckHandle
<1>2. /\ req' \in [Reqs -> Request]
      /\ req'[q].pc = pc
      /\ req'[q].op = req[q].op /\ req'[q].id = req[q].id
      /\ req'[q].email = req[q].email /\ req'[q].handle = req[q].handle
      /\ req'[q].code = req[q].code
      /\ \A x \in Reqs \ {q} : req'[x] = req[x]
  BY <1>1, GotoFacts DEF Pc
<1>3. TypeOK'
  BY <1>2 DEF TypeOK, CheckHandle
<1>4. RequestShape'
  BY <1>1, <1>2 DEF RequestShape, Viewers, CheckHandle
<1>5. SetterShape'
  BY <1>1, <1>2 DEF SetterShape, CheckHandle
<1>6. CacheCommitted'
  BY <1>1, <1>2 DEF CacheCommitted, CheckHandle
<1>7. /\ IdsInOrder' /\ WritersReady' /\ WritersApart' /\ RowsToSet'
      /\ PastShape' /\ StillEnabled' /\ UniqueAccounts'
      /\ BetaSpentOnAccount' /\ InvitedOnly'
  BY <1>1, <1>2, QuietStep DEF CheckHandle, RequestShape
<1>8. QED
  BY <1>3, <1>4, <1>5, <1>6, <1>7

\* The key is Set before the reply.
LEMMA SetKeyInd ==
  ASSUME IndInv, AccountsAssumption, NEW q \in Reqs, SetKey(q)
  PROVE  IndInv'
<1> USE DEF IndInv
<1>1. PICK pc \in {"done"} : Goto(q, pc)
  BY DEF SetKey
<1>2. /\ req' \in [Reqs -> Request]
      /\ req'[q].pc = pc
      /\ req'[q].op = req[q].op /\ req'[q].id = req[q].id
      /\ req'[q].email = req[q].email /\ req'[q].handle = req[q].handle
      /\ req'[q].code = req[q].code
      /\ \A x \in Reqs \ {q} : req'[x] = req[x]
  BY <1>1, GotoFacts DEF Pc
<1>3. TypeOK'
  BY <1>2 DEF TypeOK, SetKey
<1>4. RequestShape'
  BY <1>1, <1>2 DEF RequestShape, Viewers, SetKey
<1>5. SetterShape'
  BY <1>1, <1>2 DEF SetterShape, SetKey
<1>6. CacheCommitted'
  BY <1>1, <1>2 DEF CacheCommitted, SetKey, RowsToSet, RequestShape, TypeOK, Viewers
<1>7. /\ IdsInOrder' /\ WritersReady' /\ WritersApart' /\ RowsToSet'
      /\ PastShape' /\ StillEnabled' /\ UniqueAccounts'
      /\ BetaSpentOnAccount' /\ InvitedOnly'
  BY <1>1, <1>2, QuietStep DEF SetKey, RequestShape, TypeOK
<1>8. QED
  BY <1>3, <1>4, <1>5, <1>6, <1>7

\* The key is deleted.
LEMMA DelKeyInd ==
  ASSUME IndInv, AccountsAssumption, NEW q \in Reqs, DelKey(q)
  PROVE  IndInv'
<1> USE DEF IndInv
<1>1. PICK pc \in {"done"} : Goto(q, pc)
  BY DEF DelKey
<1>2. /\ req' \in [Reqs -> Request]
      /\ req'[q].pc = pc
      /\ req'[q].op = req[q].op /\ req'[q].id = req[q].id
      /\ req'[q].email = req[q].email /\ req'[q].handle = req[q].handle
      /\ req'[q].code = req[q].code
      /\ \A x \in Reqs \ {q} : req'[x] = req[x]
  BY <1>1, GotoFacts DEF Pc
<1>3. TypeOK'
  BY <1>2 DEF TypeOK, DelKey
<1>4. RequestShape'
  BY <1>1, <1>2 DEF RequestShape, Viewers, DelKey
<1>5. SetterShape'
  BY <1>1, <1>2 DEF SetterShape, DelKey
<1>6. CacheCommitted'
  BY <1>1, <1>2 DEF CacheCommitted, DelKey, TypeOK
<1>7. /\ IdsInOrder' /\ WritersReady' /\ WritersApart' /\ RowsToSet'
      /\ PastShape' /\ StillEnabled' /\ UniqueAccounts'
      /\ BetaSpentOnAccount' /\ InvitedOnly'
  BY <1>1, <1>2, QuietStep DEF DelKey, RequestShape
<1>8. QED
  BY <1>3, <1>4, <1>5, <1>6, <1>7

\* A request fails.
LEMMA AbortInd ==
  ASSUME IndInv, AccountsAssumption, NEW q \in Reqs, Abort(q)
  PROVE  IndInv'
<1> USE DEF IndInv
<1>1. PICK pc \in {"failed"} : Goto(q, pc)
  BY DEF Abort
<1>2. /\ req' \in [Reqs -> Request]
      /\ req'[q].pc = pc
      /\ req'[q].op = req[q].op /\ req'[q].id = req[q].id
      /\ req'[q].email = req[q].email /\ req'[q].handle = req[q].handle
      /\ req'[q].code = req[q].code
      /\ \A x \in Reqs \ {q} : req'[x] = req[x]
  BY <1>1, GotoFacts DEF Pc
<1>3. TypeOK'
  BY <1>2 DEF TypeOK, Abort
<1>4. RequestShape'
  BY <1>1, <1>2 DEF RequestShape, Viewers, Abort
<1>5. SetterShape'
  BY <1>1, <1>2 DEF SetterShape, Abort
<1>6. CacheCommitted'
  BY <1>1, <1>2 DEF CacheCommitted, Abort
<1>7. /\ IdsInOrder' /\ WritersReady' /\ WritersApart' /\ RowsToSet'
      /\ PastShape' /\ StillEnabled' /\ UniqueAccounts'
      /\ BetaSpentOnAccount' /\ InvitedOnly'
  BY <1>1, <1>2, QuietStep DEF Abort, RequestShape, TypeOK, Viewers
<1>8. QED
  BY <1>3, <1>4, <1>5, <1>6, <1>7

\* A goroutine Sets the key.
LEMMA SetLaterInd ==
  ASSUME IndInv, AccountsAssumption, NEW q \in Reqs, SetLater(q)
  PROVE  IndInv'
<1> USE DEF IndInv, SetLater
<1>1. TypeOK'
  BY DEF TypeOK
<1>2. RequestShape'
  BY DEF RequestShape
<1>3. SetterShape'
  BY DEF SetterShape, TypeOK
<1>4. CacheCommitted'
  <2>1. \A i \in Ids : cache'[i] # None => cache'[i] \in past[i]
    BY DEF CacheCommitted, TypeOK
  <2>2. \A x \in Reqs : setter'[x] # None => setter'[x] \in past[req[x].id]
    BY DEF CacheCommitted, TypeOK
  <2>3. QED
    BY <2>1, <2>2 DEF CacheCommitted
<1>5. /\ IdsInOrder' /\ WritersReady' /\ WritersApart' /\ RowsToSet'
      /\ PastShape' /\ StillEnabled' /\ UniqueAccounts'
      /\ BetaSpentOnAccount' /\ InvitedOnly'
  BY DEF IdsInOrder, WritersReady, WriterReady, WritersApart, RowsToSet, PastShape,
         StillEnabled, UniqueAccounts, BetaSpentOnAccount, InvitedOnly, Free,
         NewRow, Updated
<1>6. QED
  BY <1>1, <1>2, <1>3, <1>4, <1>5

\* A key expires.
LEMMA ExpireInd ==
  ASSUME IndInv, NEW i \in Ids, Expire(i)
  PROVE  IndInv'
<1> USE DEF IndInv, Expire
<1>1. TypeOK' /\ RequestShape' /\ SetterShape' /\ CacheCommitted'
  BY DEF TypeOK, RequestShape, SetterShape, CacheCommitted
<1>2. /\ IdsInOrder' /\ WritersReady' /\ WritersApart' /\ RowsToSet'
      /\ PastShape' /\ StillEnabled' /\ UniqueAccounts'
      /\ BetaSpentOnAccount' /\ InvitedOnly'
  BY DEF IdsInOrder, WritersReady, WriterReady, WritersApart, RowsToSet, PastShape,
         StillEnabled, UniqueAccounts, BetaSpentOnAccount, InvitedOnly, Free,
         NewRow, Updated
<1>3. QED
  BY <1>1, <1>2

\* The team lets an address in.
LEMMA EnableBetaInd ==
  ASSUME IndInv, AccountsAssumption, NEW e \in Emails, EnableBeta(e)
  PROVE  IndInv'
<1> USE DEF IndInv, EnableBeta
<1>1. /\ beta' \in [Emails -> {None} \cup Waiting]
      /\ beta'[e] # None /\ beta'[e].redeemed = beta[e].redeemed
      /\ beta'[e].enabled
      /\ \A d \in Emails \ {e} : beta'[d] = beta[d]
  <2>1. beta[e] \in Waiting
    BY DEF TypeOK
  <2>2. /\ [beta[e] EXCEPT !.enabled = TRUE] \in Waiting
        /\ [beta[e] EXCEPT !.enabled = TRUE].redeemed = beta[e].redeemed
        /\ [beta[e] EXCEPT !.enabled = TRUE].enabled
    BY <2>1 DEF Waiting
  <2>3. /\ beta'[e] = [beta[e] EXCEPT !.enabled = TRUE]
        /\ \A d \in Emails \ {e} : beta'[d] = beta[d]
        /\ beta' \in [Emails -> {None} \cup Waiting]
    BY <2>2 DEF TypeOK
  <2>4. QED
    BY <2>2, <2>3 DEF AccountsAssumption
<1>2. \A d \in Emails :
         /\ beta'[d] # None => beta[d] # None
         /\ beta[d] # None => /\ beta'[d] # None
                              /\ beta'[d].redeemed = beta[d].redeemed
                              /\ beta[d].enabled => beta'[d].enabled
  BY <1>1
<1>3. TypeOK'
  BY <1>1 DEF TypeOK
<1>4. StillEnabled'
  BY <1>2 DEF StillEnabled, RequestShape
<1>5. BetaSpentOnAccount'
  BY <1>2 DEF BetaSpentOnAccount
<1>6. InvitedOnly'
  BY <1>2, InvitedFrame DEF InvitedOnly
<1>7. /\ RequestShape' /\ SetterShape' /\ IdsInOrder' /\ WritersReady'
      /\ WritersApart' /\ RowsToSet' /\ PastShape' /\ UniqueAccounts'
      /\ CacheCommitted'
  BY DEF RequestShape, SetterShape, IdsInOrder, WritersReady, WriterReady,
         WritersApart,
         RowsToSet, PastShape, UniqueAccounts, CacheCommitted, Free, NewRow,
         Updated
<1>8. QED
  BY <1>3, <1>4, <1>5, <1>6, <1>7

\* SignUp has written the new row, or found that the index refuses it.
LEMMA InsertUserInd ==
  ASSUME IndInv, AccountsAssumption, NEW q \in Reqs, InsertUser(q)
  PROVE  IndInv'
<1> USE DEF IndInv
<1>1. CASE ~Free(nextId, NewRow(q))
  <2>1. Goto(q, "failed") /\ nextId' = nextId + 1
        /\ UNCHANGED <<users, beta, cache, setter, past, row>>
    BY <1>1 DEF InsertUser
  <2>2. /\ req' \in [Reqs -> Request]
        /\ req'[q].pc = "failed"
        /\ req'[q].op = req[q].op /\ req'[q].id = req[q].id
        /\ req'[q].email = req[q].email /\ req'[q].handle = req[q].handle
        /\ req'[q].code = req[q].code
        /\ \A x \in Reqs \ {q} : req'[x] = req[x]
    BY <2>1, GotoFacts DEF Pc
  <2>3. TypeOK' /\ RequestShape' /\ SetterShape' /\ CacheCommitted'
    BY <2>1, <2>2 DEF TypeOK, RequestShape, SetterShape, CacheCommitted,
                      InsertUser, Viewers
  <2>4. /\ IdsInOrder' /\ WritersReady' /\ WritersApart' /\ RowsToSet'
        /\ PastShape' /\ StillEnabled' /\ UniqueAccounts'
        /\ BetaSpentOnAccount' /\ InvitedOnly'
    BY <2>1, <2>2, QuietStep DEF InsertUser, RequestShape
  <2>5. QED
    BY <2>3, <2>4
<1>2. CASE Free(nextId, NewRow(q))
  <2>1. /\ req[q].pc = "insert" /\ req[q].op = "signup" /\ nextId \in Ids
        /\ req[q].email \in Emails /\ req[q].handle \in Handles
        /\ req[q].id = 0 /\ setter[q] = None
        /\ nextId' = nextId + 1
        /\ UNCHANGED <<users, beta, cache, setter, past>>
    BY DEF InsertUser, RequestShape, SetterShape
  <2>2. /\ req' \in [Reqs -> Request]
        /\ req'[q].pc = "commit" /\ req'[q].id = nextId
        /\ req'[q].op = req[q].op /\ req'[q].email = req[q].email
        /\ req'[q].handle = req[q].handle /\ req'[q].code = req[q].code
        /\ \A x \in Reqs \ {q} : req'[x] = req[x]
    BY <1>2, <2>1 DEF InsertUser, TypeOK, Request, Pc
  <2>3. /\ NewRow(q) \in Row /\ row' = [row EXCEPT ![q] = NewRow(q)]
        /\ row'[q] = NewRow(q) /\ \A x \in Reqs \ {q} : row'[x] = row[x]
        /\ NewRow(q)' = NewRow(q)
    BY <1>2, <2>1, <2>2 DEF InsertUser, NewRow, Row, TypeOK
  <2>4. TypeOK'
    BY <2>1, <2>2, <2>3 DEF TypeOK
  <2>5. RequestShape'
    BY <2>1, <2>2 DEF RequestShape, Viewers
  <2>6. SetterShape' /\ CacheCommitted'
    BY <2>1, <2>2 DEF SetterShape, CacheCommitted
  <2>7. IdsInOrder'
    BY <2>1 DEF IdsInOrder, TypeOK, Ids
  <2>8. WritersReady'
    <3>1. users[nextId] = None /\ nextId < nextId'
      BY <2>1 DEF IdsInOrder, Ids, AccountsAssumption
    <3>2. Free(req[q].id, row[q])'
      BY <1>2, <2>1, <2>2, <2>3 DEF Free
    <3>3. WriterReady(q)'
      BY <2>1, <2>2, <2>3, <3>1, <3>2 DEF WriterReady
    <3>4. QED
      BY <2>1, <2>2, <2>3, <3>3, WriterKept DEF WritersReady
  <2>9. WritersApart'
    <3>1. \A x \in Reqs \ {q} : req[x].pc = "commit" =>
             /\ req[x].id # nextId /\ row[x].email # NewRow(q).email
             /\ row[x].handle # NewRow(q).handle
      BY DEF InsertUser, Blocks
    <3>2. QED
      BY <2>2, <2>3, <3>1 DEF WritersApart
  <2>10. RowsToSet' /\ PastShape'
    BY <2>1, <2>2, <2>3 DEF RowsToSet, PastShape
  <2>11. StillEnabled'
    BY <2>1, <2>2 DEF StillEnabled
  <2>12. UniqueAccounts' /\ BetaSpentOnAccount'
    BY <2>1 DEF UniqueAccounts, BetaSpentOnAccount
  <2>13. InvitedOnly'
    BY <2>1, <2>2, InvitedFrame DEF InvitedOnly, Ids
  <2>14. QED
    BY <2>4, <2>5, <2>6, <2>7, <2>8, <2>9, <2>10, <2>11, <2>12, <2>13
<1>3. QED
  BY <1>1, <1>2

\* UpdateProfile has written its row, or found that the index refuses it.
LEMMA UpdateUserInd ==
  ASSUME IndInv, AccountsAssumption, NEW q \in Reqs, UpdateUser(q)
  PROVE  IndInv'
<1> USE DEF IndInv
<1>1. /\ req[q].pc = "update" /\ req[q].op = "profile"
      /\ req[q].id \in Ids /\ users[req[q].id] \in Row
      /\ req[q].handle \in Handles /\ users[req[q].id] # None
      /\ UNCHANGED <<users, nextId, beta, cache, setter, past>>
  BY DEF UpdateUser, RequestShape, Viewers, TypeOK
<1>2. PICK pc \in {"failed", "commit"} : Goto(q, pc)
  BY DEF UpdateUser
<1>3. /\ req' \in [Reqs -> Request]
      /\ req'[q].pc = pc
      /\ req'[q].op = req[q].op /\ req'[q].id = req[q].id
      /\ req'[q].email = req[q].email /\ req'[q].handle = req[q].handle
      /\ req'[q].code = req[q].code
      /\ \A x \in Reqs \ {q} : req'[x] = req[x]
  BY <1>2, GotoFacts DEF Pc
<1>4. Updated(q) \in Row /\ Updated(q)' = Updated(q)
  <2>1. [users[req[q].id] EXCEPT !.handle = req[q].handle] \in Row
    BY <1>1 DEF Row
  <2>2. QED
    BY <1>1, <1>3, <2>1 DEF Updated
<1>5. row' \in [Reqs -> {None} \cup Row]
      /\ \A x \in Reqs \ {q} : row'[x] = row[x]
  BY <1>4 DEF UpdateUser, TypeOK
<1>6. TypeOK'
  BY <1>1, <1>3, <1>5 DEF TypeOK
<1>7. RequestShape' /\ SetterShape' /\ CacheCommitted'
  BY <1>1, <1>2, <1>3 DEF RequestShape, SetterShape, CacheCommitted, Viewers
<1>8. CASE ~Free(req[q].id, Updated(q))
  <2>1. req'[q].pc = "failed"
    BY <1>8, <1>3, GotoFacts DEF UpdateUser, Pc
  <2>2. /\ IdsInOrder' /\ WritersReady' /\ WritersApart' /\ RowsToSet'
        /\ PastShape' /\ StillEnabled' /\ UniqueAccounts'
        /\ BetaSpentOnAccount' /\ InvitedOnly'
    BY <1>1, <1>3, <1>5, <2>1, QuietStep
  <2>3. QED
    BY <1>6, <1>7, <2>2
<1>9. CASE Free(req[q].id, Updated(q))
  <2>1. req'[q].pc = "commit" /\ row'[q] = Updated(q)
    BY <1>9, <1>3, GotoFacts DEF UpdateUser, Pc, TypeOK
  <2>2. WritersReady'
    <3>1. Free(req[q].id, row[q])'
      BY <1>1, <1>3, <1>9, <2>1 DEF Free
    <3>2. WriterReady(q)'
      BY <1>1, <1>3, <1>4, <2>1, <3>1 DEF WriterReady, IdsInOrder
    <3>3. QED
      BY <1>1, <1>3, <1>5, <3>2, WriterKept DEF WritersReady
  <2>3. WritersApart'
    <3>1. \A x \in Reqs \ {q} : req[x].pc = "commit" =>
             /\ req[x].id # req[q].id /\ row[x].email # Updated(q).email
             /\ row[x].handle # Updated(q).handle
      BY DEF UpdateUser, Blocks
    <3>2. QED
      BY <1>3, <1>5, <2>1, <3>1 DEF WritersApart
  <2>4. RowsToSet' /\ PastShape' /\ StillEnabled' /\ IdsInOrder'
    BY <1>1, <1>3, <1>5, <2>1 DEF RowsToSet, PastShape, StillEnabled, IdsInOrder
  <2>5. UniqueAccounts' /\ BetaSpentOnAccount'
    BY <1>1 DEF UniqueAccounts, BetaSpentOnAccount
  <2>6. InvitedOnly'
    BY <1>1, <1>3, InvitedFrame DEF InvitedOnly
  <2>7. QED
    BY <1>6, <1>7, <2>2, <2>3, <2>4, <2>5, <2>6
<1>10. QED
  BY <1>8, <1>9

\* The account of a SignUp appears.
LEMMA CommitUserInd ==
  ASSUME IndInv, AccountsAssumption, NEW q \in Reqs, CommitUser(q)
  PROVE  IndInv'
<1> DEFINE i == req[q].id
           e == req[q].email
<1> USE DEF IndInv
<1>1. /\ req[q].pc = "commit" /\ req[q].op = "signup" /\ i \in Ids
      /\ e \in Emails /\ row[q] \in Row /\ users[i] = None /\ i < nextId
      /\ row[q].email = e /\ row[q].avatar = None /\ row[q] # None
      /\ UNCHANGED <<nextId, cache>>
  <2>1. req[q].pc = "commit" /\ req[q].op = "signup" /\ WriterReady(q)
    BY DEF CommitUser, WritersReady
  <2>2. row[q].email = e /\ row[q].avatar = None
    BY <2>1 DEF WriterReady, NewRow
  <2>3. e \in Emails /\ UNCHANGED <<nextId, cache>>
    BY <2>1 DEF CommitUser, RequestShape
  <2>4. QED
    BY <2>1, <2>2, <2>3 DEF WriterReady, AccountsAssumption
<1>2. /\ req' \in [Reqs -> Request]
      /\ req'[q].pc \in {"done", "failed"}
      /\ req'[q].op = req[q].op /\ req'[q].id = req[q].id
      /\ req'[q].email = req[q].email /\ req'[q].handle = req[q].handle
      /\ req'[q].code = req[q].code
      /\ \A x \in Reqs \ {q} : req'[x] = req[x]
  <2>1. PICK pc \in {"done", "failed"} : Goto(q, pc)
    BY DEF CommitUser, Endings
  <2>2. QED
    BY <2>1, GotoFacts DEF Pc
<1>3. /\ users' \in [Ids -> {None} \cup Row] /\ users'[i] = row[q]
      /\ \A j \in Ids \ {i} : users'[j] = users[j]
  BY <1>1 DEF CommitUser, Shows, TypeOK
<1>4. /\ past' \in [Ids -> SUBSET Row] /\ past'[i] = past[i] \cup {row[q]}
      /\ \A j \in Ids \ {i} : past'[j] = past[j]
  BY <1>1 DEF CommitUser, Shows, TypeOK
<1>5. /\ beta' \in [Emails -> {None} \cup Waiting]
      /\ \A d \in Emails \ {e} : beta'[d] = beta[d]
      /\ beta[e] = None => beta'[e] = None
      /\ beta[e] # None => /\ beta'[e] # None /\ beta'[e].redeemed
                           /\ beta'[e].enabled = beta[e].enabled
  <2>1. CASE beta[e] = None
    BY <1>1, <2>1 DEF CommitUser, Redeem, TypeOK
  <2>2. CASE beta[e] # None
    <3>1. beta[e] \in Waiting
      BY <1>1, <2>2 DEF TypeOK
    <3>2. /\ [beta[e] EXCEPT !.redeemed = TRUE] \in Waiting
          /\ [beta[e] EXCEPT !.redeemed = TRUE].redeemed
          /\ [beta[e] EXCEPT !.redeemed = TRUE].enabled = beta[e].enabled
      BY <3>1 DEF Waiting
    <3>3. /\ beta' \in [Emails -> {None} \cup Waiting]
          /\ beta'[e] = [beta[e] EXCEPT !.redeemed = TRUE]
          /\ \A d \in Emails \ {e} : beta'[d] = beta[d]
      BY <1>1, <2>2, <3>2 DEF CommitUser, Redeem, TypeOK
    <3>4. QED
      BY <2>2, <3>2, <3>3 DEF AccountsAssumption
  <2>3. QED
    BY <2>1, <2>2
<1>6. /\ setter' \in [Reqs -> {None} \cup Row] /\ setter'[q] = row[q]
      /\ \A x \in Reqs \ {q} : setter'[x] = setter[x]
      /\ row' \in [Reqs -> {None} \cup Row]
      /\ \A x \in Reqs \ {q} : row'[x] = row[x]
  BY <1>1 DEF CommitUser, TypeOK
<1> HIDE DEF i, e
<1>7. TypeOK'
  BY <1>1, <1>2, <1>3, <1>4, <1>5, <1>6 DEF TypeOK
<1>8. \A j \in Ids : users[j] # None => users'[j] # None
  BY <1>1, <1>3
<1>9. RequestShape'
  BY <1>1, <1>2, <1>8 DEF RequestShape, Viewers
<1>10. SetterShape'
  BY <1>1, <1>2, <1>6 DEF SetterShape, Viewers, i
<1>11. IdsInOrder'
  BY <1>1, <1>3 DEF IdsInOrder
<1>12. WritersReady'
  <2> SUFFICES ASSUME NEW x \in Reqs, req'[x].pc = "commit"
               PROVE  WriterReady(x)'
    BY DEF WritersReady
  <2>1. /\ x # q /\ req'[x] = req[x] /\ row'[x] = row[x] /\ WriterReady(x)
        /\ req[x].id # i /\ row[x].email # row[q].email
        /\ row[x].handle # row[q].handle
    BY <1>1, <1>2, <1>6 DEF WritersReady, WritersApart, i
  <2>2. req[x].id \in Ids /\ users'[req[x].id] = users[req[x].id]
    BY <1>3, <2>1 DEF WriterReady
  <2>3. Free(req[x].id, row[x])'
    BY <1>3, <2>1 DEF Free, WriterReady
  <2>4. QED
    BY <1>1, <2>1, <2>2, <2>3 DEF WriterReady, NewRow, Updated
<1>13. WritersApart'
  BY <1>2, <1>6 DEF WritersApart
<1>14. RowsToSet'
  <2> SUFFICES ASSUME NEW x \in Reqs, req'[x].pc = "set"
               PROVE  row'[x] \in past'[req'[x].id]
    BY DEF RowsToSet
  <2>1. x # q /\ req'[x] = req[x] /\ row'[x] = row[x] /\ req[x].id \in Ids
    BY <1>2, <1>6 DEF RequestShape, Viewers
  <2>2. QED
    BY <1>4, <2>1 DEF RowsToSet
<1>15. PastShape'
  <2>1. \A j \in Ids : users'[j] # None => users'[j] \in past'[j]
    BY <1>3, <1>4 DEF PastShape
  <2>2. \A j \in Ids : \A r \in past'[j] : r.avatar \in Reqs =>
           req[r.avatar].op = "picture" /\ req[r.avatar].pc \in {"del", "done"}
    BY <1>1, <1>4 DEF PastShape, AccountsAssumption
  <2>3. QED
    BY <1>1, <1>2, <2>1, <2>2 DEF PastShape
<1>16. StillEnabled'
  BY <1>2, <1>5 DEF StillEnabled, RequestShape
<1>17. UniqueAccounts'
  <2>1. \A j \in Ids \ {i} : users[j] # None =>
           users[j].email # row[q].email /\ users[j].handle # row[q].handle
    BY <1>1 DEF WritersReady, WriterReady, Free, i
  <2>2. QED
    BY <1>3, <2>1 DEF UniqueAccounts
<1>18. BetaSpentOnAccount'
  <2> SUFFICES ASSUME NEW d \in Emails, beta'[d] # None, beta'[d].redeemed
               PROVE  \E j \in Ids : users'[j] # None /\ users'[j].email = d
    BY DEF BetaSpentOnAccount
  <2>1. CASE d = e
    BY <1>1, <1>3, <2>1
  <2>2. CASE d # e
    <3>1. PICK j \in Ids : users[j] # None /\ users[j].email = d
      BY <1>5, <2>2 DEF BetaSpentOnAccount
    <3>2. users'[j] = users[j]
      BY <1>1, <1>3, <3>1
    <3>3. QED
      BY <3>1, <3>2
  <2>3. QED
    BY <2>1, <2>2
<1>19. InvitedOnly'
  <2> SUFFICES ASSUME NEW j \in Ids, users'[j] # None, j > Len(FirstUsers)
               PROVE  \/ \E x \in Reqs : /\ req'[x].op = "signup"
                                         /\ req'[x].id = j /\ req'[x].code
                      \/ LET b == beta'[users'[j].email]
                         IN  b # None /\ b.enabled /\ b.redeemed
    BY DEF InvitedOnly
  <2>1. CASE j = i /\ req[q].code
    BY <1>1, <1>2, <2>1 DEF i
  <2>2. CASE j = i /\ ~req[q].code
    <3>1. beta[e] # None /\ beta[e].enabled
      BY <1>1, <2>2 DEF StillEnabled, e
    <3>2. QED
      BY <1>1, <1>3, <1>5, <2>2, <3>1
  <2>3. CASE j # i
    <3>1. users[j] # None /\ users'[j].email = users[j].email
      BY <1>3, <2>3
    <3>2. \A d \in Emails :
             beta[d] # None /\ beta[d].enabled /\ beta[d].redeemed =>
                beta'[d] # None /\ beta'[d].enabled /\ beta'[d].redeemed
      BY <1>5
    <3>3. \A x \in Reqs : req[x].op = "signup" /\ req[x].id \in Ids =>
             /\ req'[x].op = "signup" /\ req'[x].id = req[x].id
             /\ req'[x].code = req[x].code
      BY <1>2
    <3>4. QED
      BY <3>1, <3>2, <3>3, InvitedFrame
  <2>4. QED
    BY <2>1, <2>2, <2>3
<1>20. CacheCommitted'
  <2>1. \A j \in Ids : cache'[j] # None => cache'[j] \in past'[j]
    BY <1>1, <1>4 DEF CacheCommitted
  <2>2. \A x \in Reqs \ {q} : setter'[x] # None =>
           setter'[x] \in past'[req'[x].id]
    <3> SUFFICES ASSUME NEW x \in Reqs \ {q}, setter[x] # None
                 PROVE  setter[x] \in past'[req[x].id]
      BY <1>2, <1>6
    <3>1. req[x].id \in Ids
      BY DEF SetterShape, RequestShape
    <3>2. QED
      BY <1>4, <3>1 DEF CacheCommitted
  <2>3. setter'[q] \in past'[req'[q].id]
    BY <1>2, <1>4, <1>6 DEF i
  <2>4. QED
    BY <2>1, <2>2, <2>3 DEF CacheCommitted
<1>21. QED
  BY <1>7, <1>9, <1>10, <1>11, <1>12, <1>13, <1>14, <1>15, <1>16, <1>17, <1>18,
     <1>19, <1>20

\* A request shows a new row of its user, with the old address.
LEMMA RewriteStep ==
  ASSUME IndInv, AccountsAssumption, NEW q \in Reqs, NEW r \in Row,
         NEW pc \in {"set", "del"}, Goto(q, pc), Shows(req[q].id, r),
         UNCHANGED <<nextId, beta, cache, setter, row>>,
         req[q].op \in Viewers,
         r.email = users[req[q].id].email, Free(req[q].id, r),
         \A x \in Reqs \ {q} : req[x].pc = "commit" =>
            req[x].id # req[q].id /\ row[x].handle # r.handle,
         req[q].pc \notin {"del", "done"},
         pc = "set" => req[q].op = "profile" /\ row[q] = r,
         pc = "del" => req[q].op = "picture",
         \/ r.avatar = users[req[q].id].avatar
         \/ r.avatar = q /\ pc = "del"
         \/ r.avatar \notin Reqs
  PROVE  IndInv'
<1> DEFINE i == req[q].id
<1> USE DEF IndInv
<1>1. i \in Ids /\ users[i] # None /\ users[i] \in Row /\ r # None
  BY DEF RequestShape, TypeOK, AccountsAssumption
<1>2. /\ req' \in [Reqs -> Request]
      /\ req'[q].pc = pc
      /\ req'[q].op = req[q].op /\ req'[q].id = req[q].id
      /\ req'[q].email = req[q].email /\ req'[q].handle = req[q].handle
      /\ req'[q].code = req[q].code
      /\ \A x \in Reqs \ {q} : req'[x] = req[x]
  BY GotoFacts DEF Pc
<1>3. /\ users' \in [Ids -> {None} \cup Row] /\ users'[i] = r
      /\ \A j \in Ids \ {i} : users'[j] = users[j]
      /\ \A j \in Ids : /\ users'[j] # None <=> users[j] # None
                        /\ users'[j].email = users[j].email
  BY <1>1 DEF Shows, TypeOK
<1>4. /\ past' \in [Ids -> SUBSET Row] /\ past'[i] = past[i] \cup {r}
      /\ \A j \in Ids \ {i} : past'[j] = past[j]
  BY <1>1 DEF Shows, TypeOK
<1> HIDE DEF i
<1>5. TypeOK'
  BY <1>2, <1>3, <1>4 DEF TypeOK
<1>6. RequestShape'
  BY <1>2, <1>3 DEF RequestShape, Viewers
<1>7. SetterShape' /\ IdsInOrder'
  BY <1>2, <1>3 DEF SetterShape, IdsInOrder, Viewers
<1>8. WritersReady'
  <2> SUFFICES ASSUME NEW x \in Reqs, req'[x].pc = "commit"
               PROVE  WriterReady(x)'
    BY DEF WritersReady
  <2>1. /\ x # q /\ req'[x] = req[x] /\ WriterReady(x)
        /\ req[x].id # i /\ row[x].handle # r.handle
    BY <1>2 DEF WritersReady, i
  <2>2. req[x].id \in Ids /\ users'[req[x].id] = users[req[x].id]
    BY <1>3, <2>1 DEF WriterReady
  <2>3. row[x].email # r.email
    BY <1>1, <2>1 DEF WriterReady, Free, i
  <2>4. Free(req[x].id, row[x])'
    BY <1>3, <2>1, <2>3 DEF Free, WriterReady
  <2>5. QED
    BY <2>1, <2>2, <2>4 DEF WriterReady, NewRow, Updated
<1>9. WritersApart'
  BY <1>2 DEF WritersApart
<1>10. RowsToSet'
  <2> SUFFICES ASSUME NEW x \in Reqs, req'[x].pc = "set"
               PROVE  row[x] \in past'[req'[x].id]
    BY DEF RowsToSet
  <2>1. CASE x = q
    BY <1>2, <1>4, <2>1 DEF i
  <2>2. CASE x # q
    <3>1. req'[x] = req[x] /\ req[x].id \in Ids
      BY <1>2, <2>2 DEF RequestShape, Viewers
    <3>2. QED
      BY <1>4, <3>1 DEF RowsToSet
  <2>3. QED
    BY <2>1, <2>2
<1>11. PastShape'
  <2>1. \A j \in Ids : users'[j] # None => users'[j] \in past'[j]
    BY <1>3, <1>4 DEF PastShape
  <2>2. \A j \in Ids : \A s \in past'[j] : s.avatar \in Reqs =>
           req'[s.avatar].op = "picture" /\ req'[s.avatar].pc \in {"del", "done"}
    <3> SUFFICES ASSUME NEW j \in Ids, NEW s \in past'[j], s.avatar \in Reqs
                 PROVE  /\ req'[s.avatar].op = "picture"
                        /\ req'[s.avatar].pc \in {"del", "done"}
      OBVIOUS
    <3>1. CASE s \in past[j] \/ s.avatar = users[i].avatar
      <4>1. /\ req[s.avatar].op = "picture"
            /\ req[s.avatar].pc \in {"del", "done"}
        BY <1>1, <3>1 DEF PastShape
      <4>2. QED
        BY <1>2, <4>1
    <3>2. CASE s = r /\ r.avatar = q /\ pc = "del"
      BY <1>2, <3>2
    <3>3. QED
      BY <1>4, <3>1, <3>2 DEF i
  <2>3. QED
    BY <2>1, <2>2 DEF PastShape
<1>12. StillEnabled'
  BY <1>2 DEF StillEnabled
<1>13. UniqueAccounts'
  <2>1. \A j \in Ids \ {i} : users[j] # None =>
           users[j].email # r.email /\ users[j].handle # r.handle
    BY DEF Free, i
  <2>2. QED
    BY <1>3, <2>1 DEF UniqueAccounts
<1>14. BetaSpentOnAccount'
  BY <1>3 DEF BetaSpentOnAccount
<1>15. InvitedOnly'
  BY <1>2, <1>3, InvitedFrame DEF InvitedOnly
<1>16. CacheCommitted'
  <2>1. \A j \in Ids : cache[j] # None => cache[j] \in past'[j]
    BY <1>4 DEF CacheCommitted
  <2>2. \A x \in Reqs : setter[x] # None => setter[x] \in past'[req'[x].id]
    <3> SUFFICES ASSUME NEW x \in Reqs, setter[x] # None
                 PROVE  setter[x] \in past'[req[x].id]
      BY <1>2
    <3>1. req[x].id \in Ids
      BY DEF SetterShape, RequestShape
    <3>2. QED
      BY <1>4, <3>1 DEF CacheCommitted
  <2>3. QED
    BY <2>1, <2>2 DEF CacheCommitted
<1>17. QED
  BY <1>5, <1>6, <1>7, <1>8, <1>9, <1>10, <1>11, <1>12, <1>13, <1>14, <1>15,
     <1>16

\* The profile of an UpdateProfile appears.
LEMMA CommitProfileInd ==
  ASSUME IndInv, AccountsAssumption, NEW q \in Reqs, CommitProfile(q)
  PROVE  IndInv' /\ users'[req[q].id].avatar = users[req[q].id].avatar
<1> USE DEF IndInv
<1>1. /\ req[q].pc = "commit" /\ req[q].op = "profile"
      /\ WriterReady(q) /\ row[q] = Updated(q) /\ row[q] \in Row
      /\ req[q].id \in Ids /\ users[req[q].id] \in Row
  BY DEF CommitProfile, WritersReady, WriterReady, RequestShape, Viewers, TypeOK
<1>2. /\ row[q].email = users[req[q].id].email
      /\ row[q].avatar = users[req[q].id].avatar
  BY <1>1 DEF Updated, Row
<1>3. \A x \in Reqs \ {q} : req[x].pc = "commit" =>
         req[x].id # req[q].id /\ row[x].handle # row[q].handle
  BY <1>1 DEF WritersApart
<1>4. IndInv'
  BY <1>1, <1>2, <1>3, RewriteStep DEF CommitProfile, WriterReady, Viewers
<1>5. users'[req[q].id] = row[q]
  BY <1>1 DEF CommitProfile, Shows, TypeOK
<1>6. QED
  BY <1>2, <1>4, <1>5

\* A new picture appears.
LEMMA UploadPictureInd ==
  ASSUME IndInv, AccountsAssumption, NEW q \in Reqs, NEW image \in {q, Blank},
         UploadPicture(q, image)
  PROVE  IndInv'
<1> DEFINE r == [users[req[q].id] EXCEPT !.avatar = image]
<1> USE DEF IndInv
<1>1. /\ req[q].pc = "upload" /\ req[q].op = "picture" /\ req[q].id \in Ids
      /\ users[req[q].id] # None /\ users[req[q].id] \in Row
      /\ \A x \in Reqs : req[x].pc = "commit" => req[x].id # req[q].id
  BY DEF UploadPicture, RequestShape, Viewers, TypeOK
<1>2. /\ r \in Row /\ r.avatar = image
      /\ r.email = users[req[q].id].email /\ r.handle = users[req[q].id].handle
  BY <1>1 DEF Row
<1>3. Shows(req[q].id, r) /\ Goto(q, "del")
  BY DEF UploadPicture
<1> HIDE DEF r
<1>4. Free(req[q].id, r)
  BY <1>1, <1>2 DEF Free, UniqueAccounts
<1>5. \A x \in Reqs \ {q} : req[x].pc = "commit" => row[x].handle # r.handle
  BY <1>1, <1>2 DEF WritersReady, WriterReady, Free
<1>6. image = q \/ image \notin Reqs
  BY DEF AccountsAssumption
<1>7. QED
  BY <1>1, <1>2, <1>3, <1>4, <1>5, <1>6, RewriteStep DEF UploadPicture, Viewers

-----------------------------------------------------------------------------
(***************************************************************************)
(* The inductive invariant, and what follows from it.                      *)
(***************************************************************************)

\* It holds at the start.
LEMMA InitInd ==
  ASSUME Init, AccountsAssumption
  PROVE  IndInv
<1>1. /\ Len(FirstUsers) \in Nat
      /\ \A i \in 1..Len(FirstUsers) : FirstUsers[i] \in Row
  BY DEF AccountsAssumption
<1>2. \A i \in Ids :
         /\ i \in 1..Len(FirstUsers) => users[i] = FirstUsers[i]
         /\ i \notin 1..Len(FirstUsers) => users[i] = None
  BY DEF Init
<1>3. \A q \in Reqs : /\ req[q] = NoRequest
                      /\ req[q].pc = "idle" /\ req[q].op = "none"
  BY DEF Init, NoRequest
<1>4. \A i \in Ids : past[i] = {users[i]} \ {None}
  BY DEF Init
<1>5. TypeOK
  <2>1. NoRequest \in Request
    BY DEF NoRequest, Request, Pc
  <2>2. users \in [Ids -> {None} \cup Row]
    BY <1>1 DEF Init
  <2>3. past \in [Ids -> SUBSET Row]
    BY <2>2 DEF Init
  <2>4. [redeemed |-> FALSE, enabled |-> FALSE] \in Waiting
    BY DEF Waiting
  <2>5. beta \in [Emails -> {None} \cup Waiting]
    BY <2>4 DEF Init
  <2>6. nextId \in Nat \ {0}
    BY <1>1 DEF Init
  <2>7. QED
    BY <2>1, <2>2, <2>3, <2>5, <2>6 DEF TypeOK, Init
<1>6. RequestShape /\ WritersReady /\ WritersApart /\ RowsToSet /\ StillEnabled
  BY <1>3 DEF RequestShape, WritersReady, WritersApart, RowsToSet,
              StillEnabled, Viewers
<1>7. SetterShape /\ CacheCommitted
  BY DEF Init, SetterShape, CacheCommitted
<1>8. IdsInOrder
  BY <1>1, <1>2 DEF Init, IdsInOrder, Ids, AccountsAssumption
<1>9. PastShape
  <2>1. \A i \in Ids : users[i] # None => users[i].avatar = None
    BY <1>2 DEF AccountsAssumption
  <2>2. QED
    BY <1>4, <2>1 DEF PastShape, AccountsAssumption
<1>10. UniqueAccounts
  BY <1>2 DEF UniqueAccounts, AccountsAssumption
<1>11. BetaSpentOnAccount
  BY DEF Init, BetaSpentOnAccount
<1>12. InvitedOnly
  BY <1>1, <1>2 DEF InvitedOnly, Ids, AccountsAssumption
<1>13. QED
  BY <1>5, <1>6, <1>7, <1>8, <1>9, <1>10, <1>11, <1>12 DEF IndInv

\* A step in which nothing changes keeps it.
LEMMA StutterInd ==
  ASSUME IndInv, UNCHANGED vars
  PROVE  IndInv'
BY DEF vars, IndInv, TypeOK, RequestShape, SetterShape, IdsInOrder,
       WritersReady, WriterReady, WritersApart, RowsToSet, PastShape,
       StillEnabled, UniqueAccounts, BetaSpentOnAccount, InvitedOnly,
       CacheCommitted, Free, NewRow, Updated

\* Every step keeps it.
LEMMA NextInd ==
  ASSUME IndInv, AccountsAssumption, [Next]_vars
  PROVE  IndInv'
<1>1. ASSUME NEW q \in Reqs, Arrive(q)
      PROVE  IndInv'
  <2>1. CASE \E e \in Emails : JoinBeta(q, e)
    BY <2>1, JoinBetaInd
  <2>2. CASE \E e \in Emails, h \in Handles, code \in BOOLEAN :
                SignUp(q, e, h, code)
    BY <2>2, SignUpInd
  <2>3. CASE \E i \in Ids, code \in BOOLEAN : SignIn(q, i, code)
    BY <2>3, SignInInd
  <2>4. CASE \E i \in Ids, op \in {"ws", "look", "picture"} :
                Authorization(q, op, i, None)
    BY <2>4, AuthorizationInd
  <2>5. CASE \E i \in Ids, h \in Handles : Authorization(q, "profile", i, h)
    BY <2>5, AuthorizationInd
  <2>6. QED
    BY <1>1, <2>1, <2>2, <2>3, <2>4, <2>5 DEF Arrive
<1>2. ASSUME NEW q \in Reqs, Progress(q)
      PROVE  IndInv'
  BY <1>2, InsertBetaInd, CheckEmailInd, CheckBetaInd, InsertUserInd,
     CommitUserInd, GetViewerInd, GetNothingInd, SelectRESTInd, SelectWSInd,
     CheckHandleInd, UpdateUserInd, CommitProfileInd, SetKeyInd,
     UploadPictureInd, DelKeyInd
  DEF Progress
<1>3. QED
  BY <1>1, <1>2, SetLaterInd, AbortInd, EnableBetaInd, ExpireInd, StutterInd
  DEF Next, Rest

\* IndInv is an invariant.
LEMMA Inductive == Spec => []IndInv
<1>1. Init => IndInv
  BY InitInd, AccountsAssumption
<1>2. IndInv /\ [Next]_vars => IndInv'
  BY NextInd, AccountsAssumption
<1>3. QED
  BY <1>1, <1>2, PTL DEF Spec

\* Every variable of Accounts keeps its type.
THEOREM AccountsTypeCorrect == Spec => []TypeOK
<1>1. IndInv => TypeOK
  BY DEF IndInv
<1>2. QED
  BY <1>1, Inductive, PTL

\* Whatever SignUps and UpdateProfiles overlap, addresses and handles stay
\* unique.
THEOREM AccountsAreUnique == Spec => []UniqueAccounts
<1>1. IndInv => UniqueAccounts
  BY DEF IndInv
<1>2. QED
  BY <1>1, Inductive, PTL

\* No place on the wait list is used up without an account.
THEOREM NoBetaWasted == Spec => []BetaSpentOnAccount
<1>1. IndInv => BetaSpentOnAccount
  BY DEF IndInv
<1>2. QED
  BY <1>1, Inductive, PTL

\* Nobody has an account who was not invited or let in.
THEOREM NobodyUninvited == Spec => []InvitedOnly
<1>1. IndInv => InvitedOnly
  BY DEF IndInv
<1>2. QED
  BY <1>1, Inductive, PTL

\* Redis never holds a row its user did not have.
THEOREM ViewersAreCommitted == Spec => []CacheCommitted
<1>1. IndInv => CacheCommitted
  BY DEF IndInv
<1>2. QED
  BY <1>1, Inductive, PTL

\* A step that leaves users alone replaces no picture; so does a commit of
\* UpdateProfile; EditProfilePicture brings one that was never seen before.
LEMMA PicturesAreNew ==
  ASSUME IndInv, AccountsAssumption, [Next]_vars, NEW i \in Ids,
         users[i] # None, users'[i].avatar \notin {users[i].avatar, Blank},
         NEW r \in past[i]
  PROVE  r.avatar # users'[i].avatar
<1> USE DEF IndInv
<1>1. CASE \E q \in Reqs : CommitUser(q)
  <2>1. PICK q \in Reqs : CommitUser(q)
    BY <1>1
  <2>2. req[q].id \in Ids /\ users[req[q].id] = None
    BY <2>1 DEF CommitUser, WritersReady, WriterReady
  <2>3. users'[i] = users[i]
    BY <2>1, <2>2 DEF CommitUser, Shows, TypeOK
  <2>4. QED
    BY <2>3
<1>2. CASE \E q \in Reqs : CommitProfile(q)
  <2>1. PICK q \in Reqs : CommitProfile(q)
    BY <1>2
  <2>2. users'[req[q].id].avatar = users[req[q].id].avatar
    BY <2>1, CommitProfileInd
  <2>3. i # req[q].id => users'[i] = users[i]
    BY <2>1 DEF CommitProfile, Shows, TypeOK
  <2>4. QED
    BY <2>2, <2>3
<1>3. CASE \E q \in Reqs : \E image \in {q, Blank} : UploadPicture(q, image)
  <2>1. PICK q \in Reqs :
           \E image \in {q, Blank} : UploadPicture(q, image)
    BY <1>3
  <2> PICK image \in {q, Blank} : UploadPicture(q, image)
    BY <2>1
  <2>2. req[q].pc = "upload" /\ req[q].id \in Ids /\ users[req[q].id] \in Row
    BY DEF UploadPicture, RequestShape, Viewers, TypeOK
  <2>3. i # req[q].id => users'[i] = users[i]
    BY <2>2 DEF UploadPicture, Shows, TypeOK
  <2>4. users'[req[q].id] = [users[req[q].id] EXCEPT !.avatar = image]
    BY <2>2 DEF UploadPicture, Shows, TypeOK
  <2>5. users'[req[q].id].avatar = image
    BY <2>2, <2>4 DEF Row
  <2>6. users'[i].avatar = q
    BY <2>3, <2>5
  <2>7. r.avatar # q
    BY <2>2 DEF PastShape
  <2>8. QED
    BY <2>6, <2>7
<1>4. CASE users' = users
  BY <1>4
<1>5. QED
  <2>1. ASSUME NEW q \in Reqs, Arrive(q)
        PROVE  users' = users
    BY <2>1 DEF Arrive, JoinBeta, SignUp, SignIn, Authorization
  <2>2. ASSUME NEW q \in Reqs, Progress(q), ~CommitUser(q), ~CommitProfile(q),
               ~\E image \in {q, Blank} : UploadPicture(q, image)
        PROVE  users' = users
    BY <2>2 DEF Progress, InsertBeta, CheckEmail, CheckBeta, InsertUser,
                GetViewer, GetNothing, SelectREST, SelectWS, CheckHandle,
                UpdateUser, SetKey, DelKey
  <2>3. ASSUME NEW q \in Reqs, SetLater(q) \/ Abort(q)
        PROVE  users' = users
    BY <2>3 DEF SetLater, Abort
  <2>4. ASSUME NEW e \in Emails, EnableBeta(e)
        PROVE  users' = users
    BY <2>4 DEF EnableBeta
  <2>5. ASSUME NEW j \in Ids, Expire(j)
        PROVE  users' = users
    BY <2>5 DEF Expire
  <2>6. QED
    BY <1>1, <1>2, <1>3, <1>4, <2>1, <2>2, <2>3, <2>4, <2>5
    DEF Next, Rest, vars

\* No picture that was replaced comes back.
THEOREM PicturesStayReplaced == Spec => ReplacedPictureStays
<1>1. IndInv /\ [Next]_vars =>
         [\A i \in Ids :
             users[i] # None /\ users'[i].avatar \notin {users[i].avatar, Blank}
                => \A r \in past[i] : r.avatar # users'[i].avatar]_vars
  BY PicturesAreNew, AccountsAssumption
<1>2. QED
  BY <1>1, Inductive, PTL DEF Spec, ReplacedPictureStays
=============================================================================
