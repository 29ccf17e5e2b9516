------------------------- MODULE Membership_proofs -------------------------
(***************************************************************************)
(* Proofs about Membership, for any users, handles, requests and bounds.   *)
(* IndInv, the inductive invariant, is in Membership.  Most steps move one *)
(* request along while the tables stay: QuietStep says what they keep.     *)
(***************************************************************************)
EXTENDS Membership, FiniteSetTheorems, TLAPS

-----------------------------------------------------------------------------
(***************************************************************************)
(* Counting the requests that create a community.                          *)
(***************************************************************************)

\* The sets that are counted are finite, and INSERTs are among the creates.
LEMMA CreatesFinite ==
  ASSUME TypeOK
  PROVE  /\ IsFiniteSet(Creates) /\ IsFiniteSet(Inserted)
         /\ Cardinality(Creates) \in Nat /\ Cardinality(Inserted) \in Nat
         /\ Inserted \subseteq Creates
<1>1. Creates \subseteq Reqs /\ Inserted \subseteq Creates
  BY DEF Creates, Inserted
<1>2. IsFiniteSet(Creates) /\ IsFiniteSet(Inserted)
  BY <1>1, FS_Subset, MembershipAssumption
<1>3. QED
  BY <1>1, <1>2, FS_CardinalityType

\* A create before its INSERT leaves room in CommId for the id it is given.
LEMMA NextIdInRange ==
  ASSUME TypeOK, IdsCounted, NEW q \in Creates, q \notin Inserted
  PROVE  nextId \in CommId
<1>1. /\ IsFiniteSet(Creates) /\ IsFiniteSet(Inserted)
      /\ Cardinality(Creates) \in Nat /\ Cardinality(Inserted) \in Nat
      /\ Inserted \subseteq Creates
  BY CreatesFinite
<1>2. Cardinality(Inserted \cup {q}) = Cardinality(Inserted) + 1
  BY <1>1, FS_AddElement
<1>3. Cardinality(Inserted \cup {q}) <= Cardinality(Creates)
  <2>1. Inserted \cup {q} \subseteq Creates
    BY <1>1
  <2>2. QED
    BY <2>1, <1>1, FS_Subset
<1>4. Cardinality(Inserted) + 1 <= Cardinality(Creates)
  BY <1>2, <1>3
<1>5. nextId >= 2 /\ nextId <= MaxComms
  BY <1>1, <1>4, MembershipAssumption DEF IdsCounted
<1>6. nextId \in Nat
  BY DEF TypeOK
<1>7. QED
  BY <1>5, <1>6, MembershipAssumption DEF CommId

-----------------------------------------------------------------------------
(***************************************************************************)
(* Steps that leave the tables alone.                                      *)
(***************************************************************************)

\* Goto changes the place of one request and nothing else.
LEMMA GotoFacts ==
  ASSUME TypeOK, NEW q \in Reqs, NEW pc \in Pc, Goto(q, pc)
  PROVE  /\ req' \in [Reqs -> Request]
         /\ req'[q].pc = pc /\ req'[q].op = req[q].op
         /\ req'[q].who = req[q].who /\ req'[q].comm = req[q].comm
         /\ req'[q].handle = req[q].handle
         /\ req'[q].private = req[q].private
         /\ \A x \in Reqs \ {q} : req'[x] = req[x]
BY DEF TypeOK, Request, Goto

\* A request that moves on without an INSERT of a community is counted as
\* before.
LEMMA GotoCounts ==
  ASSUME TypeOK, IdsCounted, NEW q \in Reqs, NEW pc \in Pc, Goto(q, pc),
         UNCHANGED nextId
  PROVE  IdsCounted' /\ Creates' = Creates
<1>1. /\ req'[q].op = req[q].op /\ req'[q].comm = req[q].comm
      /\ \A x \in Reqs \ {q} : req'[x] = req[x]
  BY GotoFacts
<1>2. Creates' = Creates /\ Inserted' = Inserted
  BY <1>1 DEF Creates, Inserted
<1>3. QED
  BY <1>2 DEF IdsCounted

\* A request moves on, in its transaction or out of it, and commits nothing.
LEMMA QuietStep ==
  ASSUME IndInv, NEW q \in Reqs, NEW pc \in Pc \ {"idle"}, Goto(q, pc),
         UNCHANGED tables,
         req[q].pc # "idle",
         open' \in SUBSET Reqs,
         open' \in SUBSET (open \cup {q}),
         \A x \in open \ {q} : x \in open',
         q \in open' => /\ pc # "begin"
                        /\ pc \in {"done", "failed"} => req[q].op = "join",
         pc \in {"write", "read", "bans", "roles", "commit"} => q \in open',
         pc = "read" => req[q].op = "signup",
         req[q].op = "create" => pc # "commit",
         req[q].op = "create" /\ pc \in {"begin", "write"} =>
            req[q].pc \in {"begin", "write"},
         req[q].op = "signup" /\ pc = "commit" => Found(req[q].comm),
         req[q].op = "signup" /\ pc \in {"read", "commit"} =>
            \A x \in Reqs : req[x].op = "delete" /\ req[x].pc = "commit" =>
               req[q].comm # req[x].comm,
         req[q].op = "delete" /\ pc = "commit" =>
            \A x \in Reqs :
               req[x].op = "signup" /\ req[x].pc \in {"read", "commit"} =>
                  req[x].comm # req[q].comm
  PROVE  IndInv'
<1> USE DEF IndInv
<1>1. /\ req' \in [Reqs -> Request]
      /\ req'[q].pc = pc /\ req'[q].op = req[q].op
      /\ req'[q].who = req[q].who /\ req'[q].comm = req[q].comm
      /\ req'[q].handle = req[q].handle
      /\ \A x \in Reqs \ {q} : req'[x] = req[x]
  BY GotoFacts
<1>2. UNCHANGED <<users, comm, nextId, members, invites>>
  BY DEF tables
<1>3. \A c : Found(c)' <=> Found(c)
  BY <1>2 DEF Found
<1>4. TypeOK'
  BY <1>1, <1>2 DEF TypeOK
<1>5. Filled'
  BY <1>1 DEF Filled
<1>6. InTransaction'
  BY <1>1 DEF InTransaction
<1>7. IdsCounted' /\ Creates' = Creates
  BY <1>2, GotoCounts
<1>8. IdsGiven'
  BY <1>1, <1>2, <1>3 DEF IdsGiven
<1>9. IdsFresh'
  BY <1>1, <1>3, <1>7 DEF IdsFresh, Creates
<1>10. OpenUnderWay'
  BY <1>1 DEF OpenUnderWay
<1>11. SignUpsFound'
  BY <1>1, <1>3 DEF SignUpsFound
<1>12. SignUpsApart'
  BY <1>1 DEF SignUpsApart
<1>13. NoOrphanMembers'
  BY <1>2, <1>3 DEF NoOrphanMembers
<1>14. QED
  BY <1>4, <1>5, <1>6, <1>7, <1>8, <1>9, <1>10, <1>11, <1>12, <1>13

\* A request that ends commits nothing of it unless its action says so.
LEMMA EndStep ==
  ASSUME IndInv, NEW q \in Reqs, NEW pc \in {"done", "failed"}, Ends(q, pc),
         UNCHANGED tables, req[q].pc # "idle"
  PROVE  IndInv'
<1>1. Goto(q, pc) /\ open' = open \ {q}
  BY DEF Ends
<1>2. /\ open' \in SUBSET Reqs /\ open' \in SUBSET (open \cup {q})
      /\ \A x \in open \ {q} : x \in open'
      /\ q \notin open'
  BY <1>1 DEF IndInv, TypeOK
<1>3. QED
  BY <1>1, <1>2, QuietStep DEF Pc

\* Locks keep a SignUp and a DeleteCommunity of the same community apart, when
\* both have executed their statements.
LEMMA LocksKeepApart ==
  ASSUME IndInv, NEW q \in Reqs, NEW x \in Reqs, Unlocked(q),
         req[x].pc \in {"read", "commit"},
         \/ req[q].op = "signup" /\ req[x].op = "delete"
         \/ req[q].op = "delete" /\ req[x].op = "signup"
  PROVE  req[q].comm # req[x].comm
<1> USE DEF IndInv
<1>1. x # q /\ Holds(x)
  BY DEF Holds, InTransaction
<1>2. Rows(x) \cap Rows(q) = {}
  BY <1>1 DEF Unlocked
<1>3. CASE req[q].op = "signup" /\ req[x].op = "delete"
  <2>1. req[q].who \in Users
    BY <1>3 DEF Filled
  <2>2. Rows(q) = {<<req[q].comm, req[q].who>>} /\ Rows(x) = {req[x].comm} \X Users
    BY <1>3 DEF Rows
  <2>3. QED
    BY <2>1, <2>2, <1>2
<1>4. CASE req[q].op = "delete" /\ req[x].op = "signup"
  <2>1. req[x].who \in Users
    BY <1>4 DEF Filled
  <2>2. Rows(x) = {<<req[x].comm, req[x].who>>} /\ Rows(q) = {req[q].comm} \X Users
    BY <1>4 DEF Rows
  <2>3. QED
    BY <2>1, <2>2, <1>2
<1>5. QED
  BY <1>3, <1>4

-----------------------------------------------------------------------------
(***************************************************************************)
(* A request arrives.                                                      *)
(***************************************************************************)

\* Whichever the handler: r is the request.
LEMMA ArriveStep ==
  ASSUME IndInv, NEW q \in Reqs, NEW r \in Request,
         req[q].pc = "idle", req' = [req EXCEPT ![q] = r],
         UNCHANGED <<tables, open>>,
         r.pc = "begin", r.op # "none", r.who \in Users,
         r.op # "create" => r.comm \in CommId,
         r.op = "create" => /\ r.comm = 0 /\ r.handle \in Handles
                            /\ Cardinality(Creates) < MaxComms - 1,
         r.op = "delete" => Found(r.comm)
  PROVE  IndInv'
<1> USE DEF IndInv
<1>1. /\ req' \in [Reqs -> Request]
      /\ req'[q] = r
      /\ \A x \in Reqs \ {q} : req'[x] = req[x]
  BY DEF TypeOK
<1>2. UNCHANGED <<users, comm, nextId, members, invites, open>>
  BY DEF tables
<1>3. \A c : Found(c)' <=> Found(c)
  BY <1>2 DEF Found
<1>4. req[q].op = "none"
  BY DEF Filled
<1>5. TypeOK'
  BY <1>1, <1>2 DEF TypeOK
<1>6. Filled'
  BY <1>1 DEF Filled
<1>7. InTransaction'
  BY <1>1, <1>2 DEF InTransaction
<1>8. IdsCounted'
  <2>1. Inserted' = Inserted
    BY <1>1, <1>4 DEF Inserted, Creates
  <2>2. Cardinality(Creates') <= MaxComms - 1
    <3>1. CASE r.op = "create"
      <4>1. Creates' = Creates \cup {q} /\ q \notin Creates
        BY <1>1, <1>4, <3>1 DEF Creates
      <4>2. Cardinality(Creates') = Cardinality(Creates) + 1
        BY <4>1, CreatesFinite, FS_AddElement
      <4>3. QED
        BY <4>2, <3>1, CreatesFinite, MembershipAssumption
    <3>2. CASE r.op # "create"
      <4>1. Creates' = Creates
        BY <1>1, <1>4, <3>2 DEF Creates
      <4>2. QED
        BY <4>1 DEF IdsCounted
    <3>3. QED
      BY <3>1, <3>2
  <2>3. QED
    BY <2>1, <2>2, <1>2 DEF IdsCounted
<1>9. IdsGiven'
  <2>1. nextId >= 2
    BY CreatesFinite DEF IdsCounted
  <2>2. r.op \in {"create", "delete"} => r.comm < nextId
    BY <2>1 DEF IdsGiven, TypeOK
  <2>3. QED
    BY <1>1, <1>2, <1>3, <2>2 DEF IdsGiven
<1>10. IdsFresh'
  BY <1>1, <1>3, <1>4 DEF IdsFresh, Creates, Filled, CommId
<1>11. OpenUnderWay'
  BY <1>1, <1>2 DEF OpenUnderWay, TypeOK
<1>12. SignUpsFound'
  BY <1>1, <1>3 DEF SignUpsFound
<1>13. SignUpsApart'
  BY <1>1 DEF SignUpsApart
<1>14. NoOrphanMembers'
  BY <1>2, <1>3 DEF NoOrphanMembers
<1>15. QED
  BY <1>5, <1>6, <1>7, <1>8, <1>9, <1>10, <1>11, <1>12, <1>13, <1>14

\* The handlers that are told only a community.
LEMMA ArriveInd ==
  ASSUME IndInv, NEW q \in Reqs, NEW u \in Users, NEW c \in CommId,
         NEW op \in {"delete", "join", "leave", "invite", "signup", "signin"},
         Arrive(q, op, u, c),
         op = "delete" => Found(c)
  PROVE  IndInv'
<1> DEFINE r == [NoRequest EXCEPT !.pc = "begin", !.op = op, !.who = u,
                                  !.comm = c]
<1>1. /\ r \in Request
      /\ r.pc = "begin" /\ r.op = op /\ r.who = u /\ r.comm = c
  BY DEF NoRequest, Request, Pc
<1>2. req[q].pc = "idle" /\ req' = [req EXCEPT ![q] = r]
  BY DEF Arrive
<1>3. UNCHANGED <<tables, open>>
  BY DEF Arrive
<1> HIDE DEF r
<1>4. QED
  BY <1>1, <1>2, <1>3, ArriveStep

\* CreateCommunity.
LEMMA CreateCommunityInd ==
  ASSUME IndInv, NEW q \in Reqs, NEW u \in Users, NEW h \in Handles,
         NEW p \in BOOLEAN, CreateCommunity(q, u, h, p)
  PROVE  IndInv'
<1> DEFINE r == [NoRequest EXCEPT !.pc = "begin", !.op = "create", !.who = u,
                                  !.handle = h, !.private = p]
<1>1. /\ r \in Request
      /\ r.pc = "begin" /\ r.op = "create" /\ r.who = u /\ r.comm = 0
      /\ r.handle = h
  BY DEF NoRequest, Request, Pc
<1>2. req[q].pc = "idle" /\ req' = [req EXCEPT ![q] = r]
  BY DEF CreateCommunity
<1>3. UNCHANGED <<tables, open>> /\ Cardinality(Creates) < MaxComms - 1
  BY DEF CreateCommunity, Creates
<1> HIDE DEF r
<1>4. QED
  BY <1>1, <1>2, <1>3, ArriveStep

\* KickUser, and BanUser, which is the same here.
LEMMA KickUserInd ==
  ASSUME IndInv, NEW q \in Reqs, NEW u \in Users, NEW c \in CommId,
         NEW t \in Users, KickUser(q, u, c, t)
  PROVE  IndInv'
<1> DEFINE r == [NoRequest EXCEPT !.pc = "begin", !.op = "remove", !.who = u,
                                  !.comm = c, !.target = t]
<1>1. /\ r \in Request
      /\ r.pc = "begin" /\ r.op = "remove" /\ r.who = u /\ r.comm = c
  BY DEF NoRequest, Request, Pc
<1>2. req[q].pc = "idle" /\ req' = [req EXCEPT ![q] = r]
  BY DEF KickUser
<1>3. UNCHANGED <<tables, open>>
  BY DEF KickUser
<1> HIDE DEF r
<1>4. QED
  BY <1>1, <1>2, <1>3, ArriveStep

\* Every handler.
LEMMA CallInd ==
  ASSUME IndInv, NEW q \in Reqs, Call(q)
  PROVE  IndInv'
<1>1. PICK u \in Users :
        \/ \E h \in Handles, p \in BOOLEAN : CreateCommunity(q, u, h, p)
        \/ \E c \in CommId :
              \/ DeleteCommunity(q, u, c) \/ JoinCommunity(q, u, c)
              \/ LeaveCommunity(q, u, c) \/ CreateCommunityInvite(q, u, c)
              \/ \E t \in Users : KickUser(q, u, c, t) \/ BanUser(q, u, c, t)
              \/ SignUp(q, u, c) \/ SignIn(q, u, c)
  BY MembershipAssumption DEF Call
<1>2. CASE \E h \in Handles, p \in BOOLEAN : CreateCommunity(q, u, h, p)
  BY <1>2, CreateCommunityInd
<1>3. ASSUME NEW c \in CommId, DeleteCommunity(q, u, c)
      PROVE  IndInv'
  BY <1>3, ArriveInd DEF DeleteCommunity
<1>4. ASSUME NEW c \in CommId, JoinCommunity(q, u, c)
      PROVE  IndInv'
  BY <1>4, ArriveInd DEF JoinCommunity
<1>5. ASSUME NEW c \in CommId, LeaveCommunity(q, u, c)
      PROVE  IndInv'
  BY <1>5, ArriveInd DEF LeaveCommunity
<1>6. ASSUME NEW c \in CommId, CreateCommunityInvite(q, u, c)
      PROVE  IndInv'
  BY <1>6, ArriveInd DEF CreateCommunityInvite
<1>7. ASSUME NEW c \in CommId, NEW t \in Users,
             KickUser(q, u, c, t) \/ BanUser(q, u, c, t)
      PROVE  IndInv'
  BY <1>7, KickUserInd DEF BanUser
<1>8. ASSUME NEW c \in CommId, SignUp(q, u, c)
      PROVE  IndInv'
  BY <1>8, ArriveInd DEF SignUp
<1>9. ASSUME NEW c \in CommId, SignIn(q, u, c)
      PROVE  IndInv'
  BY <1>9, ArriveInd DEF SignIn
<1>10. QED
  BY <1>1, <1>2, <1>3, <1>4, <1>5, <1>6, <1>7, <1>8, <1>9

-----------------------------------------------------------------------------
(***************************************************************************)
(* The steps of a handler that commit nothing.                             *)
(***************************************************************************)

\* BEGIN.
LEMMA BeginInd ==
  ASSUME IndInv, NEW q \in Reqs, Begin(q)
  PROVE  IndInv'
<1>1. PICK pc \in {"bans", "write"} : Goto(q, pc)
  BY DEF Begin, Goto
<1>2. /\ open' \in SUBSET Reqs /\ open' \in SUBSET (open \cup {q})
      /\ q \in open' /\ \A x \in open \ {q} : x \in open'
  BY DEF IndInv, TypeOK, Begin
<1>3. req[q].pc = "begin" /\ UNCHANGED tables
  BY DEF Begin
<1>4. QED
  BY <1>1, <1>2, <1>3, QuietStep DEF Pc

\* No connection for it.
LEMMA BeginFailsInd ==
  ASSUME IndInv, NEW q \in Reqs, BeginFails(q)
  PROVE  IndInv'
<1>1. Goto(q, "failed") /\ req[q].pc = "begin" /\ UNCHANGED <<tables, open>>
  BY DEF BeginFails, Goto
<1>2. /\ open' \in SUBSET Reqs /\ open' \in SUBSET (open \cup {q})
      /\ \A x \in open \ {q} : x \in open'
      /\ q \notin open'
  BY <1>1 DEF IndInv, TypeOK, OpenUnderWay
<1>3. QED
  BY <1>1, <1>2, QuietStep DEF Pc

\* A step inside the transaction to a place other than those of SignUp and the
\* commits, or of an "invite", which the invariant says nothing of.
LEMMA WithinStep ==
  ASSUME IndInv, NEW q \in Reqs, NEW pc \in {"bans", "roles", "commit", "failed"},
         Goto(q, pc), UNCHANGED <<tables, open>>,
         req[q].pc \in {"write", "bans"},
         pc = "commit" => req[q].op = "invite",
         pc = "failed" => req[q].op = "join"
  PROVE  IndInv'
<1>1. /\ open' \in SUBSET Reqs /\ open' \in SUBSET (open \cup {q})
      /\ q \in open' /\ \A x \in open \ {q} : x \in open'
  BY DEF IndInv, TypeOK, InTransaction
<1>2. QED
  BY <1>1, QuietStep DEF Pc

\* The DELETEs of DeleteCommunity.
LEMMA DeleteRowsInd ==
  ASSUME IndInv, NEW q \in Reqs, DeleteRows(q)
  PROVE  IndInv'
<1>1. /\ open' \in SUBSET Reqs /\ open' \in SUBSET (open \cup {q})
      /\ q \in open' /\ \A x \in open \ {q} : x \in open'
  BY DEF IndInv, TypeOK, InTransaction, DeleteRows
<1>2. \A x \in Reqs :
        req[x].op = "signup" /\ req[x].pc \in {"read", "commit"} =>
           req[x].comm # req[q].comm
  BY LocksKeepApart DEF DeleteRows
<1>3. QED
  BY <1>1, <1>2, QuietStep DEF DeleteRows, Pc

\* The INSERTs of SignUp.
LEMMA InsertMemberInd ==
  ASSUME IndInv, NEW q \in Reqs, InsertMember(q)
  PROVE  IndInv'
<1>1. /\ open' \in SUBSET Reqs /\ open' \in SUBSET (open \cup {q})
      /\ q \in open' /\ \A x \in open \ {q} : x \in open'
  BY DEF IndInv, TypeOK, InTransaction, InsertMember
<1>2. \A x \in Reqs :
        req[x].op = "delete" /\ req[x].pc = "commit" =>
           req[q].comm # req[x].comm
  BY LocksKeepApart DEF InsertMember
<1>3. QED
  BY <1>1, <1>2, QuietStep DEF InsertMember, Pc

\* SignUp reads the community, or rolls back.
LEMMA ReadCommunityInd ==
  ASSUME IndInv, NEW q \in Reqs, ReadCommunity(q)
  PROVE  IndInv'
<1>1. req[q].pc = "read" /\ req[q].op = "signup" /\ UNCHANGED tables
  BY DEF ReadCommunity, IndInv, Filled
<1>2. CASE CommunityThere(req[q].comm)
  <2>1. Goto(q, "commit") /\ UNCHANGED open /\ Found(req[q].comm)
    BY <1>2 DEF ReadCommunity, CommunityThere
  <2>2. /\ open' \in SUBSET Reqs /\ open' \in SUBSET (open \cup {q})
        /\ q \in open' /\ \A x \in open \ {q} : x \in open'
    BY <1>1, <2>1 DEF IndInv, TypeOK, InTransaction
  <2>3. \A x \in Reqs :
          req[x].op = "delete" /\ req[x].pc = "commit" =>
             req[q].comm # req[x].comm
    BY <1>1 DEF IndInv, SignUpsApart
  <2>4. QED
    BY <1>1, <2>1, <2>2, <2>3, QuietStep DEF Pc
<1>3. CASE ~CommunityThere(req[q].comm)
  BY <1>1, <1>3, EndStep DEF ReadCommunity
<1>4. QED
  BY <1>2, <1>3

\* A crash ends what was going on.
LEMMA RestartInd ==
  ASSUME IndInv, Restart
  PROVE  IndInv'
<1> USE DEF IndInv
<1>1. /\ req' \in [Reqs -> Request]
      /\ \A x \in Reqs :
            /\ req'[x].op = req[x].op /\ req'[x].comm = req[x].comm
            /\ req'[x].who = req[x].who /\ req'[x].handle = req[x].handle
            /\ req'[x].pc \in {"idle", "done", "failed"}
            /\ req'[x].pc = "idle" => req[x].pc = "idle"
  BY DEF Restart, TypeOK, Request, Pc
<1>2. UNCHANGED <<users, comm, nextId, members, invites>> /\ open' = {}
  BY DEF Restart, tables
<1>3. \A c : Found(c)' <=> Found(c)
  BY <1>2 DEF Found
<1>4. TypeOK'
  BY <1>1, <1>2 DEF TypeOK
<1>5. Filled'
  BY <1>1 DEF Filled
<1>6. InTransaction'
  BY <1>1 DEF InTransaction
<1>7. IdsCounted'
  <2>1. Creates' = Creates /\ Inserted' = Inserted
    BY <1>1 DEF Creates, Inserted
  <2>2. QED
    BY <1>2, <2>1 DEF IdsCounted
<1>8. IdsGiven'
  BY <1>1, <1>2, <1>3 DEF IdsGiven
<1>9. IdsFresh' /\ SignUpsFound' /\ SignUpsApart'
  BY <1>1 DEF IdsFresh, Creates, SignUpsFound, SignUpsApart
<1>10. OpenUnderWay'
  BY <1>2 DEF OpenUnderWay
<1>11. NoOrphanMembers'
  BY <1>2, <1>3 DEF NoOrphanMembers
<1>12. QED
  BY <1>4, <1>5, <1>6, <1>7, <1>8, <1>9, <1>10, <1>11

-----------------------------------------------------------------------------
(***************************************************************************)
(* The steps that change a table.                                          *)
(***************************************************************************)

\* The INSERT of a community gives it an id.
LEMMA InsertCommunityInd ==
  ASSUME IndInv, NEW q \in Reqs, InsertCommunity(q)
  PROVE  IndInv'
<1> USE DEF IndInv
<1>1. /\ req[q].op = "create" /\ req[q].pc = "write" /\ req[q].comm = 0
      /\ q \in Creates /\ q \notin Inserted
  BY DEF InsertCommunity, Filled, Creates, Inserted
<1>2. nextId \in CommId /\ nextId \in Nat /\ nextId >= 2
  BY <1>1, NextIdInRange, CreatesFinite DEF TypeOK, IdsCounted
<1>3. /\ req' \in [Reqs -> Request]
      /\ req'[q].pc = "commit" /\ req'[q].op = "create"
      /\ req'[q].comm = nextId /\ req'[q].who = req[q].who
      /\ req'[q].handle = req[q].handle
      /\ \A x \in Reqs \ {q} : req'[x] = req[x]
  BY <1>1, <1>2 DEF InsertCommunity, TypeOK, Request, Pc
<1>4. nextId' = nextId + 1 /\ UNCHANGED <<users, comm, members, invites, open>>
  BY DEF InsertCommunity
<1>5. \A c : Found(c)' <=> Found(c)
  BY <1>4 DEF Found
<1>6. TypeOK'
  BY <1>2, <1>3, <1>4 DEF TypeOK
<1>7. Filled'
  BY <1>1, <1>2, <1>3 DEF Filled
<1>8. InTransaction'
  BY <1>1, <1>3, <1>4 DEF InTransaction
<1>9. IdsCounted'
  <2>1. Creates' = Creates
    BY <1>1, <1>3 DEF Creates
  <2>2. Inserted' = Inserted \cup {q}
    <3>1. \A x \in Creates : req'[x].comm # 0 <=> req[x].comm # 0 \/ x = q
      BY <1>2, <1>3 DEF Creates
    <3>2. QED
      BY <2>1, <3>1, <1>1 DEF Inserted
  <2>3. Cardinality(Inserted') = Cardinality(Inserted) + 1
    BY <2>2, <1>1, CreatesFinite, FS_AddElement
  <2>4. Cardinality(Inserted) \in Nat
    BY CreatesFinite
  <2>5. QED
    BY <2>1, <2>3, <2>4, <1>4 DEF IdsCounted
<1>10. IdsGiven'
  BY <1>2, <1>3, <1>4, <1>5 DEF IdsGiven, TypeOK, CommId, Request
<1>11. IdsFresh'
  <2>1. ~Found(nextId) /\ \A x \in Reqs : req[x].op \in {"create", "delete"} =>
                              req[x].comm # nextId
    BY <1>2 DEF IdsGiven, TypeOK, Request, CommId
  <2>2. QED
    BY <2>1, <1>3, <1>5 DEF IdsFresh, Creates
<1>12. OpenUnderWay'
  BY <1>3, <1>4 DEF OpenUnderWay, TypeOK
<1>13. SignUpsFound' /\ SignUpsApart'
  BY <1>3, <1>5 DEF SignUpsFound, SignUpsApart
<1>14. NoOrphanMembers'
  BY <1>4, <1>5 DEF NoOrphanMembers
<1>15. QED
  BY <1>6, <1>7, <1>8, <1>9, <1>10, <1>11, <1>12, <1>13, <1>14

\* The community is there, and its owner a member of it.
LEMMA CommitCommunityInd ==
  ASSUME IndInv, NEW q \in Reqs, CommitCommunity(q)
  PROVE  IndInv'
<1> USE DEF IndInv
<1>1. /\ req[q].op = "create" /\ req[q].pc = "commit"
      /\ Goto(q, "done") /\ open' = open \ {q}
      /\ UNCHANGED <<users, nextId, invites>>
  BY DEF CommitCommunity, Ends
<1>2. /\ req' \in [Reqs -> Request]
      /\ req'[q].pc = "done" /\ req'[q].op = req[q].op
      /\ req'[q].who = req[q].who /\ req'[q].comm = req[q].comm
      /\ req'[q].handle = req[q].handle
      /\ \A x \in Reqs \ {q} : req'[x] = req[x]
  BY <1>1, GotoFacts DEF Pc
<1>3. PICK k : k = req[q].comm
  OBVIOUS
<1>4. k \in CommId /\ req[q].who \in Users /\ req[q].handle \in Handles
  BY <1>1, <1>3 DEF Filled
<1>5. PICK com \in Community : comm' = [comm EXCEPT ![k] = com]
  <2>1. req[q].private \in BOOLEAN
    BY DEF TypeOK, Request
  <2>2. QED
    BY <1>3, <1>4, <2>1 DEF CommitCommunity, Community
<1>6. members' = members \cup {<<k, req[q].who>>}
  BY <1>3 DEF CommitCommunity
<1>7. com # None
  BY MembershipAssumption DEF Community
<1>8. \A c \in CommId : Found(c)' <=> Found(c) \/ c = k
  BY <1>4, <1>5, <1>7 DEF Found, TypeOK
<1>9. TypeOK'
  BY <1>1, <1>2, <1>4, <1>5, <1>6 DEF TypeOK
<1>10. Filled'
  BY <1>1, <1>2 DEF Filled
<1>11. InTransaction'
  BY <1>1, <1>2 DEF InTransaction
<1>12. IdsCounted' /\ Creates' = Creates
  BY <1>1, GotoCounts DEF Pc
<1>13. IdsGiven'
  BY <1>1, <1>2, <1>3, <1>8 DEF IdsGiven
<1>14. IdsFresh'
  <2> SUFFICES ASSUME NEW x \in Creates, req'[x].pc = "commit"
               PROVE  /\ ~Found(req[x].comm)'
                      /\ \A y \in Reqs \ {x} :
                            req'[y].op \in {"create", "delete"} =>
                               req'[y].comm # req'[x].comm
    BY <1>12 DEF IdsFresh
  <2>1. x \in Reqs /\ x # q /\ req'[x] = req[x] /\ req[x].op = "create"
    BY <1>2 DEF Creates
  <2>2. req[x].comm \in CommId /\ ~Found(req[x].comm)
    BY <2>1 DEF Filled, IdsFresh
  <2>3. req[x].comm # k
    BY <1>1, <1>3, <2>1 DEF IdsFresh
  <2>4. QED
    BY <1>2, <1>8, <2>1, <2>2, <2>3 DEF IdsFresh
<1>15. OpenUnderWay'
  BY <1>1, <1>2 DEF OpenUnderWay, TypeOK
<1>16. SignUpsFound'
  BY <1>1, <1>2, <1>8 DEF SignUpsFound, Filled
<1>17. SignUpsApart'
  BY <1>1, <1>2 DEF SignUpsApart
<1>18. NoOrphanMembers'
  BY <1>4, <1>6, <1>8 DEF NoOrphanMembers, TypeOK
<1>19. QED
  BY <1>9, <1>10, <1>11, <1>12, <1>13, <1>14, <1>15, <1>16, <1>17, <1>18

\* The community and the rows of its members are gone.
LEMMA CommitDeleteInd ==
  ASSUME IndInv, NEW q \in Reqs, CommitDelete(q)
  PROVE  IndInv'
<1> USE DEF IndInv
<1>1. /\ req[q].op = "delete" /\ req[q].pc = "commit"
      /\ Goto(q, "done") /\ open' = open \ {q}
      /\ UNCHANGED <<users, nextId, invites>>
  BY DEF CommitDelete, Ends
<1>2. /\ req' \in [Reqs -> Request]
      /\ req'[q].pc = "done" /\ req'[q].op = req[q].op
      /\ req'[q].who = req[q].who /\ req'[q].comm = req[q].comm
      /\ req'[q].handle = req[q].handle
      /\ \A x \in Reqs \ {q} : req'[x] = req[x]
  BY <1>1, GotoFacts DEF Pc
<1>3. PICK k : k = req[q].comm
  OBVIOUS
<1>4. /\ k \in CommId
      /\ comm' = [comm EXCEPT ![k] = None]
      /\ members' = members \ ({k} \X Users)
  BY <1>1, <1>3 DEF Filled, CommitDelete
<1>5. \A c \in CommId : Found(c)' <=> Found(c) /\ c # k
  BY <1>4 DEF Found, TypeOK
<1>6. TypeOK'
  BY <1>1, <1>2, <1>4 DEF TypeOK
<1>7. Filled'
  BY <1>1, <1>2 DEF Filled
<1>8. InTransaction'
  BY <1>1, <1>2 DEF InTransaction
<1>9. IdsCounted' /\ Creates' = Creates
  BY <1>1, GotoCounts DEF Pc
<1>10. IdsGiven'
  BY <1>1, <1>2, <1>5 DEF IdsGiven
<1>11. IdsFresh'
  BY <1>1, <1>2, <1>5, <1>9 DEF IdsFresh, Creates, Filled
<1>12. OpenUnderWay'
  BY <1>1, <1>2 DEF OpenUnderWay, TypeOK
<1>13. SignUpsFound'
  BY <1>1, <1>2, <1>3, <1>5 DEF SignUpsFound, SignUpsApart, Filled
<1>14. SignUpsApart'
  BY <1>1, <1>2 DEF SignUpsApart
<1>15. NoOrphanMembers'
  BY <1>4, <1>5 DEF NoOrphanMembers, TypeOK
<1>16. QED
  BY <1>6, <1>7, <1>8, <1>9, <1>10, <1>11, <1>12, <1>13, <1>14, <1>15

\* There is an invite.
LEMMA CommitInviteInd ==
  ASSUME IndInv, NEW q \in Reqs, CommitInvite(q)
  PROVE  IndInv'
<1> USE DEF IndInv
<1>1. /\ req[q].op = "invite" /\ req[q].pc = "commit"
      /\ Goto(q, "done") /\ open' = open \ {q}
      /\ UNCHANGED <<users, comm, nextId, members>>
      /\ invites' = invites \cup {req[q].comm}
  BY DEF CommitInvite, Ends
<1>2. /\ req' \in [Reqs -> Request]
      /\ req'[q].pc = "done" /\ req'[q].op = req[q].op
      /\ req'[q].who = req[q].who /\ req'[q].comm = req[q].comm
      /\ req'[q].handle = req[q].handle
      /\ \A x \in Reqs \ {q} : req'[x] = req[x]
  BY <1>1, GotoFacts DEF Pc
<1>3. req[q].comm \in CommId
  BY <1>1 DEF Filled
<1>4. \A c : Found(c)' <=> Found(c)
  BY <1>1 DEF Found
<1>5. TypeOK'
  BY <1>1, <1>2, <1>3 DEF TypeOK
<1>6. Filled'
  BY <1>1, <1>2 DEF Filled
<1>7. InTransaction'
  BY <1>1, <1>2 DEF InTransaction
<1>8. IdsCounted' /\ Creates' = Creates
  BY <1>1, GotoCounts DEF Pc
<1>9. IdsGiven'
  BY <1>1, <1>2, <1>4 DEF IdsGiven
<1>10. IdsFresh'
  BY <1>1, <1>2, <1>4, <1>8 DEF IdsFresh, Creates
<1>11. OpenUnderWay'
  BY <1>1, <1>2 DEF OpenUnderWay, TypeOK
<1>12. SignUpsFound' /\ SignUpsApart'
  BY <1>1, <1>2, <1>4 DEF SignUpsFound, SignUpsApart
<1>13. NoOrphanMembers'
  BY <1>1, <1>4 DEF NoOrphanMembers
<1>14. QED
  BY <1>5, <1>6, <1>7, <1>8, <1>9, <1>10, <1>11, <1>12, <1>13

\* The newcomer is a user and a member.
LEMMA CommitMemberInd ==
  ASSUME IndInv, NEW q \in Reqs, CommitMember(q)
  PROVE  IndInv'
<1> USE DEF IndInv
<1>1. /\ req[q].op = "signup" /\ req[q].pc = "commit"
      /\ Goto(q, "done") /\ open' = open \ {q}
      /\ UNCHANGED <<comm, nextId, invites>>
      /\ users' = users \cup {req[q].who}
      /\ members' = members \cup {<<req[q].comm, req[q].who>>}
  BY DEF CommitMember, Ends
<1>2. /\ req' \in [Reqs -> Request]
      /\ req'[q].pc = "done" /\ req'[q].op = req[q].op
      /\ req'[q].who = req[q].who /\ req'[q].comm = req[q].comm
      /\ req'[q].handle = req[q].handle
      /\ \A x \in Reqs \ {q} : req'[x] = req[x]
  BY <1>1, GotoFacts DEF Pc
<1>3. req[q].comm \in CommId /\ req[q].who \in Users /\ Found(req[q].comm)
  BY <1>1 DEF Filled, SignUpsFound
<1>4. \A c : Found(c)' <=> Found(c)
  BY <1>1 DEF Found
<1>5. TypeOK'
  BY <1>1, <1>2, <1>3 DEF TypeOK
<1>6. Filled'
  BY <1>1, <1>2 DEF Filled
<1>7. InTransaction'
  BY <1>1, <1>2 DEF InTransaction
<1>8. IdsCounted' /\ Creates' = Creates
  BY <1>1, GotoCounts DEF Pc
<1>9. IdsGiven'
  BY <1>1, <1>2, <1>4 DEF IdsGiven
<1>10. IdsFresh'
  BY <1>1, <1>2, <1>4, <1>8 DEF IdsFresh, Creates
<1>11. OpenUnderWay'
  BY <1>1, <1>2 DEF OpenUnderWay, TypeOK
<1>12. SignUpsFound' /\ SignUpsApart'
  BY <1>1, <1>2, <1>4 DEF SignUpsFound, SignUpsApart
<1>13. NoOrphanMembers'
  BY <1>1, <1>3, <1>4 DEF NoOrphanMembers
<1>14. QED
  BY <1>5, <1>6, <1>7, <1>8, <1>9, <1>10, <1>11, <1>12, <1>13

-----------------------------------------------------------------------------
(***************************************************************************)
(* The theorems.                                                           *)
(***************************************************************************)

\* One community, with its owner, and no request.
LEMMA InitInd == Init => IndInv
<1> SUFFICES ASSUME Init PROVE IndInv
  OBVIOUS
<1> USE MembershipAssumption
<1>1. \A q \in Reqs : req[q].pc = "idle" /\ req[q].op = "none"
  BY DEF Init, NoRequest
<1>2. 1 \in CommId
  BY DEF CommId
<1>3. TypeOK
  BY <1>2 DEF Init, TypeOK, NoRequest, Request, Community, Pc
<1>4. IdsCounted
  <2>1. Creates = {} /\ Inserted = {}
    BY <1>1 DEF Creates, Inserted
  <2>2. QED
    BY <2>1, FS_EmptySet DEF Init, IdsCounted
<1>5. IdsGiven
  BY <1>1 DEF Init, IdsGiven, Found, CommId
<1>6. NoOrphanMembers
  <2>1. comm[1] \in Community
    BY <1>2 DEF Init, Community
  <2>2. comm[1] # None
    BY <2>1 DEF Community
  <2>3. QED
    BY <2>2 DEF Init, NoOrphanMembers, Found
<1>7. Filled /\ InTransaction
  BY <1>1 DEF Filled, InTransaction
<1>8. IdsFresh /\ OpenUnderWay /\ SignUpsFound /\ SignUpsApart
  BY <1>1 DEF Init, IdsFresh, Creates, OpenUnderWay, SignUpsFound, SignUpsApart
<1>9. QED
  BY <1>3, <1>4, <1>5, <1>6, <1>7, <1>8 DEF IndInv

\* The steps of a handler.
LEMMA ProgressInd ==
  ASSUME IndInv, NEW q \in Reqs, Progress(q)
  PROVE  IndInv'
<1>1. CASE InsertDuplicate(q)
  BY <1>1, EndStep DEF InsertDuplicate
<1>2. CASE InsertInvite(q)
  BY <1>2, WithinStep DEF InsertInvite
<1>3. CASE JoinBanQuery(q)
  BY <1>3, WithinStep DEF JoinBanQuery
<1>4. CASE SignInInsert(q)
  BY <1>4, WithinStep DEF SignInInsert
<1>5. CASE SignInBanQuery(q)
  BY <1>5, EndStep DEF SignInBanQuery
<1>6. CASE LeaveRows(q)
  BY <1>6, WithinStep DEF LeaveRows
<1>7. CASE LeaveRoles(q)
  BY <1>7, EndStep DEF LeaveRoles
<1>8. CASE RemoveRows(q)
  BY <1>8, WithinStep DEF RemoveRows
<1>9. CASE RemoveRoles(q)
  BY <1>9, EndStep DEF RemoveRoles
<1>10. QED
  BY <1>1, <1>2, <1>3, <1>4, <1>5, <1>6, <1>7, <1>8, <1>9, BeginInd,
     BeginFailsInd, InsertCommunityInd, CommitCommunityInd, DeleteRowsInd,
     CommitDeleteInd, CommitInviteInd, InsertMemberInd, ReadCommunityInd,
     CommitMemberInd DEF Progress

\* Every step.
LEMMA NextInd == IndInv /\ [Next]_vars => IndInv'
<1> SUFFICES ASSUME IndInv, [Next]_vars PROVE IndInv'
  OBVIOUS
<1>1. ASSUME NEW q \in Reqs, Abort(q)
      PROVE  IndInv'
  BY <1>1, EndStep DEF Abort
<1>2. ASSUME NEW q \in Reqs, CommitFails(q)
      PROVE  IndInv'
  BY <1>2, EndStep DEF CommitFails
<1>3. CASE UNCHANGED vars
  BY <1>3 DEF vars, IndInv, TypeOK, Filled, InTransaction, IdsCounted, Creates,
     Inserted, IdsGiven, IdsFresh, OpenUnderWay, SignUpsFound, SignUpsApart,
     NoOrphanMembers, Found
<1>4. QED
  BY <1>1, <1>2, <1>3, CallInd, ProgressInd, RestartInd DEF Next, Rest

LEMMA Inductive == Spec => []IndInv
BY InitInd, NextInd, PTL DEF Spec

\* Every variable keeps its type: no INSERT is given an id outside CommId, which
\* holds because AUTO_INCREMENT counts the creates.
THEOREM MembershipTypeCorrect == Spec => []TypeOK
<1>1. IndInv => TypeOK
  BY DEF IndInv
<1>2. QED
  BY <1>1, Inductive, PTL

\* Nobody has a row in communities_users of a community that is gone, however
\* SignUp and DeleteCommunity overlap, and wherever they fail.
THEOREM MembersHaveCommunity == Spec => []NoOrphanMembers
<1>1. IndInv => NoOrphanMembers
  BY DEF IndInv
<1>2. QED
  BY <1>1, Inductive, PTL

\* A transaction left open holds no locks: it is JoinCommunity's, which fails
\* before a statement that locks anything.
THEOREM NoLockIsLeftBehind == Spec => []LeftOpenHoldsNoLocks
<1>1. IndInv => LeftOpenHoldsNoLocks
  <2> SUFFICES ASSUME IndInv, NEW q \in open, req[q].pc \in {"done", "failed"}
               PROVE  Rows(q) = {} /\ Entries(q) = {}
    BY DEF LeftOpenHoldsNoLocks
  <2>1. req[q].op = "join"
    BY DEF IndInv, OpenUnderWay
  <2>2. QED
    BY <2>1 DEF Rows, Entries
<1>2. QED
  BY <1>1, Inductive, PTL
=============================================================================
