------------------------ MODULE Permissions_proofs ------------------------
(***************************************************************************)
(* Proofs about Permissions, for any users, roles, permissions and number  *)
(* of requests, and whatever errors happen: the type invariant, and that   *)
(* the owner is refused only when the check itself failed, that no         *)
(* permission is made up, and that roles are held by members only.  When   *)
(* roles are created and deleted and users sign up one request at a time   *)
(* (OneAtATime), the stored rows are exactly what the roles say.  IndInv   *)
(* and SeqInv, the inductive invariants, are in Permissions; each action   *)
(* has a lemma that it preserves them.                                     *)
(***************************************************************************)
EXTENDS Permissions, TLAPS

-----------------------------------------------------------------------------
(***************************************************************************)
(* Types of what the actions compute.                                      *)
(***************************************************************************)

\* Moving a request to another place keeps its type.
LEMMA GotoType ==
  ASSUME TypeOK, NEW q \in Reqs, NEW pc \in Pc, Goto(q, pc)
  PROVE  req' \in [Reqs -> Request]
BY DEF TypeOK, Goto, Request

\* So does the outcome of HasCommunityPermission.
LEMMA DecideType ==
  ASSUME TypeOK, NEW q \in Reqs, NEW ps, Decide(q, ps)
  PROVE  req' \in [Reqs -> Request]
<1> DEFINE pc == IF Needed(q) \subseteq ps THEN Authorised(q) ELSE "refused"
<1>1. pc \in Pc
  BY DEF Authorised, Pc
<1>2. Goto(q, pc)
  BY DEF Decide
<1> HIDE DEF pc
<1>3. QED
  BY <1>1, <1>2, GotoType

\* Recalculation yields permissions.
LEMMA EffectiveType ==
  ASSUME NEW u, NEW defs \in SUBSET Perms, NEW rs \in [Roles -> MaybePerms],
         NEW hs
  PROVE  Effective(u, defs, rs, hs) \in SUBSET Perms
BY DEF Effective, MaybePerms

\* An UPDATE in a transaction keeps its type.
LEMMA WrittenType ==
  ASSUME NEW t \in Transaction, NEW u \in Users, NEW ps \in SUBSET Perms
  PROVE  Written(t, u, ps) \in Transaction
BY DEF Written, Transaction

\* The INSERT of an assignment keeps it.
LEMMA AssignedType ==
  ASSUME NEW t \in Transaction, NEW u \in Users
  PROVE  Assigned(t, u) \in Transaction
BY DEF Assigned, Transaction

\* The DELETE of the assignments of a role keeps it.
LEMMA UnassignedType ==
  ASSUME NEW t \in Transaction, NEW r, NEW us
  PROVE  Unassigned(t, r, us) \in Transaction
BY DEF Unassigned, Transaction

\* The INSERTs that replace them keep it.
LEMMA ReassignedType ==
  ASSUME NEW t \in Transaction, NEW r, NEW ms \in SUBSET Users
  PROVE  Reassigned(t, r, ms) \in Transaction
BY DEF Reassigned, Transaction

\* EditCommunityRole notes the users with a role.
LEMMA BeginEditType ==
  ASSUME NEW t \in Transaction, NEW us \in SUBSET Users
  PROVE  [t EXCEPT !.before = us] \in Transaction
BY DEF Transaction

\* DeleteCommunityRole notes the users and that the role is gone.
LEMMA BeginDeleteType ==
  ASSUME NEW t \in Transaction, NEW r, NEW us \in SUBSET Users
  PROVE  [t EXCEPT !.vroles[r] = None, !.before = us] \in Transaction
BY DEF Transaction, MaybePerms

\* CreateCommunityRole notes the id of the role.
LEMMA BeginCreateType ==
  ASSUME NEW t \in Request, NEW r \in Roles, NEW pc \in Pc
  PROVE  [t EXCEPT !.pc = pc, !.role = r] \in Request
BY DEF Request

\* EditCommunityDefaultPermissions notes the defaults it reads again.
LEMMA BeginDefaultsType ==
  ASSUME NEW t \in Request, NEW ps \in SUBSET Perms, NEW pc \in Pc
  PROVE  [t EXCEPT !.pc = pc, !.defs = ps] \in Request
BY DEF Request

\* A request whose check failed is refused.
LEMMA RefusedType ==
  ASSUME NEW t \in Request
  PROVE  [t EXCEPT !.pc = "refused", !.failed = TRUE] \in Request
BY DEF Request, Pc

\* The state of a request that has no transaction open.
LEMMA NoTxType == NoTx \in Transaction
BY DEF NoTx, Transaction, MaybePerms

\* The first SELECT of a transaction.
LEMMA SnapshotType ==
  ASSUME TypeOK
  PROVE  Snapshot \in Transaction
BY NoTxType DEF Snapshot, Transaction, TypeOK

-----------------------------------------------------------------------------
(***************************************************************************)
(* Each action preserves the inductive invariant.                          *)
(***************************************************************************)

\* A request arrives: its permissions come from the input, the defaults it
\* will compute with from the community row.
LEMMA Start_Ind ==
  ASSUME IndInv, NEW q \in Reqs, NEW op \in AllOps \ {"join"},
         NEW x \in Users, NEW r \in Roles \cup {None},
         NEW ps \in PermsInputs \cup {{}}, NEW ms \in SUBSET Users,
         Start(q, op, x, r, ps, ms)
  PROVE  IndInv'
<1> USE DEF IndInv, Start, dbVars
<1>1. TypeOK'
  <2>1. req' \in [Reqs -> Request]
    BY PermAssumption DEF TypeOK, Request, Pc
  <2>2. QED
    BY <2>1 DEF TypeOK
<1>2. SetterStarted'
  BY DEF SetterStarted, TypeOK, Request
<1>3. OwnerNeverJoins'
  BY DEF OwnerNeverJoins, TypeOK, Request
<1>4. OwnerFull'
  BY PermAssumption DEF OwnerFull, OwnerNeverJoins, TypeOK, Request,
     Transaction, MaybePerms, SetterStarted
<1>5. SeenStay'
  BY PermAssumption DEF SeenStay, TypeOK, Request, Transaction, MaybePerms
<1>6. GrantedOnly'
  BY PermAssumption DEF GrantedOnly, SetterStarted, Granted, TypeOK, Request,
     Transaction, MaybePerms, Grantable
<1>7. OwnerRefusedOnlyOnError'
  BY PermAssumption DEF OwnerRefusedOnlyOnError, OwnerFull, TypeOK, Request
<1>8. NoEscalation'
  BY PermAssumption DEF NoEscalation, GrantedOnly, Granted, TypeOK, Request,
     InTx
<1>9. HoldersAreMembers'
  BY DEF HoldersAreMembers
<1> QED
  BY <1>1, <1>2, <1>3, <1>4, <1>5, <1>6, <1>7, <1>8, <1>9 DEF IndInv

\* HasCommunityPermission answers from Redis: the copy of the owner is
\* complete, anyone else has only what was granted.
LEMMA CheckCached_Ind ==
  ASSUME IndInv, NEW q \in Reqs, CheckCached(q)
  PROVE  IndInv'
<1> USE DEF IndInv, CheckCached, dbVars
<1>1. TypeOK'
  <2>1. req' \in [Reqs -> Request]
    BY DecideType DEF TypeOK, Request
  <2>2. QED
    BY <2>1 DEF TypeOK
<1> USE DEF Decide, Goto, Needed, Authorised
<1>2. SetterStarted'
  BY DEF SetterStarted, TypeOK, Request
<1>3. OwnerNeverJoins'
  BY DEF OwnerNeverJoins, TypeOK, Request
<1>4. OwnerFull'
  BY PermAssumption DEF OwnerFull, OwnerNeverJoins, TypeOK, Request,
     Transaction, MaybePerms
<1>5. SeenStay'
  BY PermAssumption DEF SeenStay, TypeOK, Request, Transaction, MaybePerms
<1>6. GrantedOnly'
  BY PermAssumption DEF GrantedOnly, SetterStarted, Granted, TypeOK, Request,
     Transaction, MaybePerms
<1>7. OwnerRefusedOnlyOnError'
  BY PermAssumption DEF OwnerRefusedOnlyOnError, OwnerFull, TypeOK, Request
<1>8. NoEscalation'
  BY PermAssumption DEF NoEscalation, GrantedOnly, Granted, TypeOK, Request,
     InTx
<1>9. HoldersAreMembers'
  BY DEF HoldersAreMembers
<1> QED
  BY <1>1, <1>2, <1>3, <1>4, <1>5, <1>6, <1>7, <1>8, <1>9 DEF IndInv

\* HasCommunityPermission finds no key.
LEMMA CheckMissed_Ind ==
  ASSUME IndInv, NEW q \in Reqs, CheckMissed(q)
  PROVE  IndInv'
<1> USE DEF IndInv, CheckMissed, dbVars
<1>1. TypeOK'
  <2>1. req' \in [Reqs -> Request]
    BY GotoType DEF Pc
  <2>2. QED
    BY <2>1 DEF TypeOK
<1> USE DEF Goto
<1>2. SetterStarted'
  BY DEF SetterStarted, TypeOK, Request
<1>3. OwnerNeverJoins'
  BY DEF OwnerNeverJoins, TypeOK, Request
<1>4. OwnerFull'
  BY PermAssumption DEF OwnerFull, OwnerNeverJoins, TypeOK, Request,
     Transaction, MaybePerms
<1>5. SeenStay'
  BY PermAssumption DEF SeenStay, TypeOK, Request, Transaction, MaybePerms
<1>6. GrantedOnly'
  BY PermAssumption DEF GrantedOnly, SetterStarted, Granted, TypeOK, Request,
     Transaction, MaybePerms
<1>7. OwnerRefusedOnlyOnError'
  BY PermAssumption DEF OwnerRefusedOnlyOnError, OwnerFull, TypeOK, Request
<1>8. NoEscalation'
  BY PermAssumption DEF NoEscalation, GrantedOnly, Granted, TypeOK, Request,
     InTx
<1>9. HoldersAreMembers'
  BY DEF HoldersAreMembers
<1> QED
  BY <1>1, <1>2, <1>3, <1>4, <1>5, <1>6, <1>7, <1>8, <1>9 DEF IndInv

\* HasCommunityPermission answers from the row and leaves a copy to its
\* goroutine.
LEMMA CheckRow_Ind ==
  ASSUME IndInv, NEW q \in Reqs, CheckRow(q)
  PROVE  IndInv'
<1> USE DEF IndInv, CheckRow, dbVars
<1>1. TypeOK'
  <2>1. req' \in [Reqs -> Request]
    BY DecideType DEF TypeOK, Request
  <2>2. setter' \in [Reqs -> MaybePerms]
    BY DEF TypeOK, Request, MaybePerms
  <2>3. QED
    BY <2>1, <2>2 DEF TypeOK
<1> USE DEF Decide, Goto, Needed, Authorised
<1>2. SetterStarted'
  BY DEF SetterStarted, TypeOK, Request
<1>3. OwnerNeverJoins'
  BY DEF OwnerNeverJoins, TypeOK, Request
<1>4. OwnerFull'
  BY PermAssumption DEF OwnerFull, OwnerNeverJoins, TypeOK, Request,
     Transaction, MaybePerms
<1>5. SeenStay'
  BY PermAssumption DEF SeenStay, TypeOK, Request, Transaction, MaybePerms
<1>6. GrantedOnly'
  BY PermAssumption DEF GrantedOnly, SetterStarted, Granted, TypeOK, Request,
     Transaction, MaybePerms
<1>7. OwnerRefusedOnlyOnError'
  BY PermAssumption DEF OwnerRefusedOnlyOnError, OwnerFull, TypeOK, Request
<1>8. NoEscalation'
  BY PermAssumption DEF NoEscalation, GrantedOnly, Granted, TypeOK, Request,
     InTx
<1>9. HoldersAreMembers'
  BY DEF HoldersAreMembers
<1> QED
  BY <1>1, <1>2, <1>3, <1>4, <1>5, <1>6, <1>7, <1>8, <1>9 DEF IndInv

\* HasCommunityPermission finds no row, so the caller is not the owner.
LEMMA CheckNoRow_Ind ==
  ASSUME IndInv, NEW q \in Reqs, CheckNoRow(q)
  PROVE  IndInv'
<1> USE DEF IndInv, CheckNoRow, dbVars
<1>1. TypeOK'
  <2>1. req' \in [Reqs -> Request]
    BY GotoType DEF Pc
  <2>2. QED
    BY <2>1 DEF TypeOK
<1> USE DEF Goto
<1>2. SetterStarted'
  BY DEF SetterStarted, TypeOK, Request
<1>3. OwnerNeverJoins'
  BY DEF OwnerNeverJoins, TypeOK, Request
<1>4. OwnerFull'
  BY PermAssumption DEF OwnerFull, OwnerNeverJoins, TypeOK, Request,
     Transaction, MaybePerms
<1>5. SeenStay'
  BY PermAssumption DEF SeenStay, TypeOK, Request, Transaction, MaybePerms
<1>6. GrantedOnly'
  BY PermAssumption DEF GrantedOnly, SetterStarted, Granted, TypeOK, Request,
     Transaction, MaybePerms
<1>7. OwnerRefusedOnlyOnError'
  BY PermAssumption DEF OwnerRefusedOnlyOnError, OwnerFull, TypeOK, Request
<1>8. NoEscalation'
  BY PermAssumption DEF NoEscalation, GrantedOnly, Granted, TypeOK, Request,
     InTx
<1>9. HoldersAreMembers'
  BY DEF HoldersAreMembers
<1> QED
  BY <1>1, <1>2, <1>3, <1>4, <1>5, <1>6, <1>7, <1>8, <1>9 DEF IndInv

\* HasCommunityPermission fails, and the request says so.
LEMMA CheckFails_Ind ==
  ASSUME IndInv, NEW q \in Reqs, CheckFails(q)
  PROVE  IndInv'
<1> USE DEF IndInv, CheckFails, dbVars
<1>1. TypeOK'
  <2>1. req' \in [Reqs -> Request]
    BY RefusedType DEF TypeOK
  <2>2. QED
    BY <2>1 DEF TypeOK
<1>2. SetterStarted'
  BY DEF SetterStarted, TypeOK, Request
<1>3. OwnerNeverJoins'
  BY DEF OwnerNeverJoins, TypeOK, Request
<1>4. OwnerFull'
  BY PermAssumption DEF OwnerFull, OwnerNeverJoins, TypeOK, Request,
     Transaction, MaybePerms
<1>5. SeenStay'
  BY PermAssumption DEF SeenStay, TypeOK, Request, Transaction, MaybePerms
<1>6. GrantedOnly'
  BY PermAssumption DEF GrantedOnly, SetterStarted, Granted, TypeOK, Request,
     Transaction, MaybePerms
<1>7. OwnerRefusedOnlyOnError'
  BY PermAssumption DEF OwnerRefusedOnlyOnError, OwnerFull, TypeOK, Request
<1>8. NoEscalation'
  BY PermAssumption DEF NoEscalation, GrantedOnly, Granted, TypeOK, Request,
     InTx
<1>9. HoldersAreMembers'
  BY DEF HoldersAreMembers
<1> QED
  BY <1>1, <1>2, <1>3, <1>4, <1>5, <1>6, <1>7, <1>8, <1>9 DEF IndInv

\* The goroutine writes its copy to Redis.
LEMMA SetCache_Ind ==
  ASSUME IndInv, NEW q \in Reqs, SetCache(q)
  PROVE  IndInv'
<1> USE DEF IndInv, SetCache, dbVars
<1>1. TypeOK'
  <2>1. cache' \in [Users -> MaybePerms]
    BY DEF TypeOK, Request
  <2>2. setter' \in [Reqs -> MaybePerms]
    BY DEF TypeOK, MaybePerms
  <2>3. QED
    BY <2>1, <2>2 DEF TypeOK
<1>2. SetterStarted'
  BY DEF SetterStarted, TypeOK, Request
<1>3. OwnerFull'
  BY PermAssumption DEF OwnerFull, OwnerNeverJoins, TypeOK, Request,
     Transaction, MaybePerms
<1>4. SeenStay'
  BY PermAssumption DEF SeenStay, TypeOK, Request, Transaction, MaybePerms
<1>5. GrantedOnly'
  BY PermAssumption DEF GrantedOnly, SetterStarted, Granted, TypeOK, Request,
     Transaction, MaybePerms
<1>6. OwnerNeverJoins' /\ OwnerRefusedOnlyOnError' /\ NoEscalation' /\
        HoldersAreMembers'
  BY DEF OwnerNeverJoins, OwnerRefusedOnlyOnError, NoEscalation, HoldersAreMembers
<1> QED
  BY <1>1, <1>2, <1>3, <1>4, <1>5, <1>6 DEF IndInv

\* The goroutine cannot write its copy.
LEMMA SetCacheFails_Ind ==
  ASSUME IndInv, NEW q \in Reqs, SetCacheFails(q)
  PROVE  IndInv'
<1> USE DEF IndInv, SetCacheFails, dbVars
<1>1. TypeOK'
  <2>1. setter' \in [Reqs -> MaybePerms]
    BY DEF TypeOK, MaybePerms
  <2>2. QED
    BY <2>1 DEF TypeOK
<1>2. SetterStarted'
  BY DEF SetterStarted, TypeOK, Request
<1>3. OwnerFull'
  BY PermAssumption DEF OwnerFull, OwnerNeverJoins, TypeOK, Request,
     Transaction, MaybePerms
<1>4. SeenStay'
  BY PermAssumption DEF SeenStay, TypeOK, Request, Transaction, MaybePerms
<1>5. GrantedOnly'
  BY PermAssumption DEF GrantedOnly, SetterStarted, Granted, TypeOK, Request,
     Transaction, MaybePerms
<1>6. OwnerNeverJoins' /\ OwnerRefusedOnlyOnError' /\ NoEscalation' /\
        HoldersAreMembers'
  BY DEF OwnerNeverJoins, OwnerRefusedOnlyOnError, NoEscalation, HoldersAreMembers
<1> QED
  BY <1>1, <1>2, <1>3, <1>4, <1>5, <1>6 DEF IndInv

\* A key expires.
LEMMA Expire_Ind ==
  ASSUME IndInv, NEW u \in Users, Expire(u)
  PROVE  IndInv'
<1> USE DEF IndInv, Expire, dbVars
<1>1. TypeOK'
  <2>1. cache' \in [Users -> MaybePerms]
    BY DEF TypeOK, MaybePerms
  <2>2. QED
    BY <2>1 DEF TypeOK
<1>2. OwnerFull'
  BY PermAssumption DEF OwnerFull, OwnerNeverJoins, TypeOK, Request,
     Transaction, MaybePerms
<1>3. SeenStay'
  BY PermAssumption DEF SeenStay, TypeOK, Request, Transaction, MaybePerms
<1>4. GrantedOnly'
  BY PermAssumption DEF GrantedOnly, SetterStarted, Granted, TypeOK, Request,
     Transaction, MaybePerms
<1>5. SetterStarted' /\ OwnerNeverJoins' /\ OwnerRefusedOnlyOnError' /\
        NoEscalation' /\ HoldersAreMembers'
  BY DEF SetterStarted, OwnerNeverJoins, OwnerRefusedOnlyOnError, NoEscalation,
     HoldersAreMembers
<1> QED
  BY <1>1, <1>2, <1>3, <1>4, <1>5 DEF IndInv

\* RecalculateAndUpdatePermissionsForUsers treats one user: the owner gets
\* everything, others what defaults and roles grant.
LEMMA Recalc_Ind ==
  ASSUME IndInv, NEW q \in Reqs, NEW u \in Users, Recalc(q, u)
  PROVE  IndInv'
<1> USE DEF IndInv, Recalc, dbVars
<1>1. TypeOK'
  <2>1. Effective(u, req[q].defs, tx[q].vroles, tx[q].vholders)
            \in SUBSET Perms
    BY EffectiveType DEF TypeOK, Request, Transaction
  <2>2. tx' \in [Reqs -> Transaction]
    BY WrittenType, <2>1 DEF TypeOK
  <2>3. cache' \in [Users -> MaybePerms]
    BY DEF TypeOK, MaybePerms
  <2>4. QED
    BY <2>1, <2>2, <2>3 DEF TypeOK
<1> USE DEF Written, Effective
<1>2. OwnerFull'
  BY PermAssumption DEF OwnerFull, OwnerNeverJoins, TypeOK, Request,
     Transaction, MaybePerms
<1>3. SeenStay'
  BY PermAssumption DEF SeenStay, TypeOK, Request, Transaction, MaybePerms
<1>4. GrantedOnly'
  BY PermAssumption DEF GrantedOnly, SetterStarted, Granted, TypeOK, Request,
     Transaction, MaybePerms
<1>5. SetterStarted' /\ OwnerNeverJoins' /\ OwnerRefusedOnlyOnError' /\
        NoEscalation' /\ HoldersAreMembers'
  BY DEF SetterStarted, OwnerNeverJoins, OwnerRefusedOnlyOnError, NoEscalation,
     HoldersAreMembers
<1> QED
  BY <1>1, <1>2, <1>3, <1>4, <1>5 DEF IndInv

\* An edit or a delete looks its role up.
LEMMA LookupRole_Ind ==
  ASSUME IndInv, NEW q \in Reqs, LookupRole(q)
  PROVE  IndInv'
<1> USE DEF IndInv, LookupRole, dbVars
<1>1. TypeOK'
  <2>1. req' \in [Reqs -> Request]
    BY GotoType DEF Pc
  <2>2. QED
    BY <2>1 DEF TypeOK
<1> USE DEF Goto
<1>2. SetterStarted'
  BY DEF SetterStarted, TypeOK, Request
<1>3. OwnerNeverJoins'
  BY DEF OwnerNeverJoins, TypeOK, Request
<1>4. OwnerFull'
  BY PermAssumption DEF OwnerFull, OwnerNeverJoins, TypeOK, Request,
     Transaction, MaybePerms
<1>5. SeenStay'
  BY PermAssumption DEF SeenStay, TypeOK, Request, Transaction, MaybePerms
<1>6. GrantedOnly'
  BY PermAssumption DEF GrantedOnly, SetterStarted, Granted, TypeOK, Request,
     Transaction, MaybePerms
<1>7. OwnerRefusedOnlyOnError'
  BY PermAssumption DEF OwnerRefusedOnlyOnError, OwnerFull, TypeOK, Request
<1>8. NoEscalation'
  BY PermAssumption DEF NoEscalation, GrantedOnly, Granted, TypeOK, Request,
     InTx
<1>9. HoldersAreMembers'
  BY DEF HoldersAreMembers
<1> QED
  BY <1>1, <1>2, <1>3, <1>4, <1>5, <1>6, <1>7, <1>8, <1>9 DEF IndInv

\* CreateCommunityRole selects the listed users that have a row.
LEMMA BeginCreate_Ind ==
  ASSUME IndInv, NEW q \in Reqs, BeginCreate(q)
  PROVE  IndInv'
<1> USE DEF IndInv, BeginCreate, dbVars
<1>1. TypeOK'
  <2>1. PICK r \in fresh :
         req' = [req EXCEPT ![q] = [@ EXCEPT !.pc = "grant", !.role = r]]
    BY DEF BeginCreate
  <2>2. [req[q] EXCEPT !.pc = "grant", !.role = r] \in Request
    BY BeginCreateType DEF TypeOK, Pc
  <2>3. req' \in [Reqs -> Request]
    BY <2>1, <2>2 DEF TypeOK
  <2>4. tx' \in [Reqs -> Transaction]
    BY SnapshotType DEF TypeOK, Transaction, Request
  <2>5. fresh' \in SUBSET Roles
    BY DEF TypeOK
  <2>6. QED
    BY <2>1, <2>2, <2>3, <2>4, <2>5 DEF TypeOK
<1> USE DEF Snapshot, NoTx
<1>2. SetterStarted'
  BY DEF SetterStarted, TypeOK, Request
<1>3. OwnerNeverJoins'
  BY DEF OwnerNeverJoins, TypeOK, Request
<1>4. OwnerFull'
  BY PermAssumption DEF OwnerFull, OwnerNeverJoins, TypeOK, Request,
     Transaction, MaybePerms
<1>5. SeenStay'
  BY PermAssumption DEF SeenStay, TypeOK, Request, Transaction, MaybePerms
<1>6. GrantedOnly'
  BY PermAssumption DEF GrantedOnly, SetterStarted, Granted, TypeOK, Request,
     Transaction, MaybePerms
<1>7. OwnerRefusedOnlyOnError'
  BY PermAssumption DEF OwnerRefusedOnlyOnError, OwnerFull, TypeOK, Request
<1>8. NoEscalation'
  BY PermAssumption DEF NoEscalation, GrantedOnly, Granted, TypeOK, Request,
     InTx
<1>9. HoldersAreMembers'
  BY DEF HoldersAreMembers
<1> QED
  BY <1>1, <1>2, <1>3, <1>4, <1>5, <1>6, <1>7, <1>8, <1>9 DEF IndInv

\* CreateCommunityRole cannot insert the role.
LEMMA CreateExhausted_Ind ==
  ASSUME IndInv, NEW q \in Reqs, CreateExhausted(q)
  PROVE  IndInv'
<1> USE DEF IndInv, CreateExhausted, dbVars
<1>1. TypeOK'
  <2>1. req' \in [Reqs -> Request]
    BY GotoType DEF Pc
  <2>2. QED
    BY <2>1 DEF TypeOK
<1> USE DEF Goto
<1>2. SetterStarted'
  BY DEF SetterStarted, TypeOK, Request
<1>3. OwnerNeverJoins'
  BY DEF OwnerNeverJoins, TypeOK, Request
<1>4. OwnerFull'
  BY PermAssumption DEF OwnerFull, OwnerNeverJoins, TypeOK, Request,
     Transaction, MaybePerms
<1>5. SeenStay'
  BY PermAssumption DEF SeenStay, TypeOK, Request, Transaction, MaybePerms
<1>6. GrantedOnly'
  BY PermAssumption DEF GrantedOnly, SetterStarted, Granted, TypeOK, Request,
     Transaction, MaybePerms
<1>7. OwnerRefusedOnlyOnError'
  BY PermAssumption DEF OwnerRefusedOnlyOnError, OwnerFull, TypeOK, Request
<1>8. NoEscalation'
  BY PermAssumption DEF NoEscalation, GrantedOnly, Granted, TypeOK, Request,
     InTx
<1>9. HoldersAreMembers'
  BY DEF HoldersAreMembers
<1> QED
  BY <1>1, <1>2, <1>3, <1>4, <1>5, <1>6, <1>7, <1>8, <1>9 DEF IndInv

\* CreateCommunityRole gives one member the role and what it lacked.
LEMMA Grant_Ind ==
  ASSUME IndInv, NEW q \in Reqs, NEW u \in Users, Grant(q, u)
  PROVE  IndInv'
<1> USE DEF IndInv, Grant, dbVars
<1>1. TypeOK'
  <2>1. row[u] \cup Missing(q, u) \in SUBSET Perms
    BY DEF TypeOK, SeenStay, MaybePerms, Missing, Request
  <2>2. Assigned(tx[q], u) \in Transaction
    BY AssignedType DEF TypeOK
  <2>3. tx' \in [Reqs -> Transaction]
    BY WrittenType, <2>2, <2>1 DEF TypeOK
  <2>4. cache' \in [Users -> MaybePerms]
    BY DEF TypeOK, MaybePerms
  <2>5. QED
    BY <2>1, <2>2, <2>3, <2>4 DEF TypeOK
<1> USE DEF Written, Assigned, Missing
<1>2. OwnerFull'
  BY PermAssumption DEF OwnerFull, OwnerNeverJoins, TypeOK, Request,
     Transaction, MaybePerms, SeenStay
<1>3. SeenStay'
  BY PermAssumption DEF SeenStay, TypeOK, Request, Transaction, MaybePerms
<1>4. GrantedOnly'
  BY PermAssumption DEF GrantedOnly, SetterStarted, Granted, TypeOK, Request,
     Transaction, MaybePerms, SeenStay
<1>5. SetterStarted' /\ OwnerNeverJoins' /\ OwnerRefusedOnlyOnError' /\
        NoEscalation' /\ HoldersAreMembers'
  BY DEF SetterStarted, OwnerNeverJoins, OwnerRefusedOnlyOnError, NoEscalation,
     HoldersAreMembers
<1> QED
  BY <1>1, <1>2, <1>3, <1>4, <1>5 DEF IndInv

\* CreateCommunityRole gives the role to a member that lacked nothing.
LEMMA GrantHeld_Ind ==
  ASSUME IndInv, NEW q \in Reqs, NEW u \in Users, GrantHeld(q, u)
  PROVE  IndInv'
<1> USE DEF IndInv, GrantHeld, dbVars
<1>1. TypeOK'
  <2>1. tx' \in [Reqs -> Transaction]
    BY AssignedType DEF TypeOK
  <2>2. cache' \in [Users -> MaybePerms]
    BY DEF TypeOK, MaybePerms
  <2>3. QED
    BY <2>1, <2>2 DEF TypeOK
<1> USE DEF Assigned
<1>2. OwnerFull'
  BY PermAssumption DEF OwnerFull, OwnerNeverJoins, TypeOK, Request,
     Transaction, MaybePerms
<1>3. SeenStay'
  BY PermAssumption DEF SeenStay, TypeOK, Request, Transaction, MaybePerms
<1>4. GrantedOnly'
  BY PermAssumption DEF GrantedOnly, SetterStarted, Granted, TypeOK, Request,
     Transaction, MaybePerms
<1>5. SetterStarted' /\ OwnerNeverJoins' /\ OwnerRefusedOnlyOnError' /\
        NoEscalation' /\ HoldersAreMembers'
  BY DEF SetterStarted, OwnerNeverJoins, OwnerRefusedOnlyOnError, NoEscalation,
     HoldersAreMembers
<1> QED
  BY <1>1, <1>2, <1>3, <1>4, <1>5 DEF IndInv

\* CreateCommunityRole updates the row although the assignment failed.
LEMMA GrantUnassigned_Ind ==
  ASSUME IndInv, NEW q \in Reqs, NEW u \in Users, GrantUnassigned(q, u)
  PROVE  IndInv'
<1> USE DEF IndInv, GrantUnassigned, dbVars
<1>1. TypeOK'
  <2>1. row[u] \cup Missing(q, u) \in SUBSET Perms
    BY DEF TypeOK, SeenStay, MaybePerms, Missing, Request
  <2>2. tx' \in [Reqs -> Transaction]
    BY WrittenType, <2>1 DEF TypeOK
  <2>3. cache' \in [Users -> MaybePerms]
    BY DEF TypeOK, MaybePerms
  <2>4. QED
    BY <2>1, <2>2, <2>3 DEF TypeOK
<1> USE DEF Written, Missing
<1>2. OwnerFull'
  BY PermAssumption DEF OwnerFull, OwnerNeverJoins, TypeOK, Request,
     Transaction, MaybePerms
<1>3. SeenStay'
  BY PermAssumption DEF SeenStay, TypeOK, Request, Transaction, MaybePerms
<1>4. GrantedOnly'
  BY PermAssumption DEF GrantedOnly, SetterStarted, Granted, TypeOK, Request,
     Transaction, MaybePerms, SeenStay
<1>5. SetterStarted' /\ OwnerNeverJoins' /\ OwnerRefusedOnlyOnError' /\
        NoEscalation' /\ HoldersAreMembers'
  BY DEF SetterStarted, OwnerNeverJoins, OwnerRefusedOnlyOnError, NoEscalation,
     HoldersAreMembers
<1> QED
  BY <1>1, <1>2, <1>3, <1>4, <1>5 DEF IndInv

\* EditCommunityRole commits the new permissions of the role.
LEMMA UpdateRole_Ind ==
  ASSUME IndInv, NEW q \in Reqs, UpdateRole(q)
  PROVE  IndInv'
<1> USE DEF IndInv, UpdateRole, dbVars
<1>1. TypeOK'
  <2>1. req' \in [Reqs -> Request]
    BY GotoType DEF Pc
  <2>2. roles' \in [Roles -> MaybePerms]
    BY DEF TypeOK, Request, MaybePerms
  <2>3. QED
    BY <2>1, <2>2 DEF TypeOK
<1> USE DEF Goto
<1>2. SetterStarted'
  BY DEF SetterStarted, TypeOK, Request
<1>3. OwnerNeverJoins'
  BY DEF OwnerNeverJoins, TypeOK, Request
<1>4. OwnerFull'
  BY PermAssumption DEF OwnerFull, OwnerNeverJoins, TypeOK, Request,
     Transaction, MaybePerms
<1>5. SeenStay'
  BY PermAssumption DEF SeenStay, TypeOK, Request, Transaction, MaybePerms
<1>6. GrantedOnly'
  BY PermAssumption DEF GrantedOnly, SetterStarted, Granted, TypeOK, Request,
     Transaction, MaybePerms
<1>7. OwnerRefusedOnlyOnError'
  BY PermAssumption DEF OwnerRefusedOnlyOnError, OwnerFull, TypeOK, Request
<1>8. NoEscalation'
  BY PermAssumption DEF NoEscalation, GrantedOnly, Granted, TypeOK, Request,
     InTx
<1>9. HoldersAreMembers'
  BY DEF HoldersAreMembers
<1> QED
  BY <1>1, <1>2, <1>3, <1>4, <1>5, <1>6, <1>7, <1>8, <1>9 DEF IndInv

\* EditCommunityRole selects the users with a role.
LEMMA BeginEdit_Ind ==
  ASSUME IndInv, NEW q \in Reqs, BeginEdit(q)
  PROVE  IndInv'
<1> USE DEF IndInv, BeginEdit, dbVars
<1>1. TypeOK'
  <2>1. req' \in [Reqs -> Request]
    BY GotoType DEF Pc
  <2>2. HoldersOfAny \in SUBSET Users
    BY DEF TypeOK, HoldersOfAny
  <2>3. tx' \in [Reqs -> Transaction]
    BY SnapshotType, BeginEditType, <2>2 DEF TypeOK
  <2>4. QED
    BY <2>1, <2>2, <2>3 DEF TypeOK
<1> USE DEF Goto, Snapshot, NoTx, HoldersOfAny
<1>2. SetterStarted'
  BY DEF SetterStarted, TypeOK, Request
<1>3. OwnerNeverJoins'
  BY DEF OwnerNeverJoins, TypeOK, Request
<1>4. OwnerFull'
  BY PermAssumption DEF OwnerFull, OwnerNeverJoins, TypeOK, Request,
     Transaction, MaybePerms
<1>5. SeenStay'
  BY PermAssumption DEF SeenStay, TypeOK, Request, Transaction, MaybePerms
<1>6. GrantedOnly'
  BY PermAssumption DEF GrantedOnly, SetterStarted, Granted, TypeOK, Request,
     Transaction, MaybePerms
<1>7. OwnerRefusedOnlyOnError'
  BY PermAssumption DEF OwnerRefusedOnlyOnError, OwnerFull, TypeOK, Request
<1>8. NoEscalation'
  BY PermAssumption DEF NoEscalation, GrantedOnly, Granted, TypeOK, Request,
     InTx
<1>9. HoldersAreMembers'
  BY DEF HoldersAreMembers
<1> QED
  BY <1>1, <1>2, <1>3, <1>4, <1>5, <1>6, <1>7, <1>8, <1>9 DEF IndInv

\* DeleteCommunityRole deletes the role and selects the users with one.
LEMMA BeginDelete_Ind ==
  ASSUME IndInv, NEW q \in Reqs, BeginDelete(q)
  PROVE  IndInv'
<1> USE DEF IndInv, BeginDelete, dbVars
<1>1. TypeOK'
  <2>1. req' \in [Reqs -> Request]
    BY GotoType DEF Pc
  <2>2. HoldersOfAny \in SUBSET Users
    BY DEF TypeOK, HoldersOfAny
  <2>3. tx' \in [Reqs -> Transaction]
    BY SnapshotType, BeginDeleteType, <2>2 DEF TypeOK
  <2>4. QED
    BY <2>1, <2>2, <2>3 DEF TypeOK
<1> USE DEF Goto, Snapshot, NoTx, HoldersOfAny
<1>2. SetterStarted'
  BY DEF SetterStarted, TypeOK, Request
<1>3. OwnerNeverJoins'
  BY DEF OwnerNeverJoins, TypeOK, Request
<1>4. OwnerFull'
  BY PermAssumption DEF OwnerFull, OwnerNeverJoins, TypeOK, Request,
     Transaction, MaybePerms
<1>5. SeenStay'
  BY PermAssumption DEF SeenStay, TypeOK, Request, Transaction, MaybePerms
<1>6. GrantedOnly'
  BY PermAssumption DEF GrantedOnly, SetterStarted, Granted, TypeOK, Request,
     Transaction, MaybePerms
<1>7. OwnerRefusedOnlyOnError'
  BY PermAssumption DEF OwnerRefusedOnlyOnError, OwnerFull, TypeOK, Request
<1>8. NoEscalation'
  BY PermAssumption DEF NoEscalation, GrantedOnly, Granted, TypeOK, Request,
     InTx
<1>9. HoldersAreMembers'
  BY DEF HoldersAreMembers
<1> QED
  BY <1>1, <1>2, <1>3, <1>4, <1>5, <1>6, <1>7, <1>8, <1>9 DEF IndInv

\* The assignments of the role are deleted.
LEMMA Unassign_Ind ==
  ASSUME IndInv, NEW q \in Reqs, Unassign(q)
  PROVE  IndInv'
<1> USE DEF IndInv, Unassign, dbVars
<1>1. TypeOK'
  <2>1. req' \in [Reqs -> Request]
    BY GotoType DEF Pc
  <2>2. Unassigned(tx[q], req[q].role, holders[req[q].role]) \in Transaction
    BY UnassignedType DEF TypeOK
  <2>3. tx' \in [Reqs -> Transaction]
    BY <2>2 DEF TypeOK
  <2>4. QED
    BY <2>1, <2>2, <2>3 DEF TypeOK
<1> USE DEF Goto, Unassigned
<1>2. SetterStarted'
  BY DEF SetterStarted, TypeOK, Request
<1>3. OwnerNeverJoins'
  BY DEF OwnerNeverJoins, TypeOK, Request
<1>4. OwnerFull'
  BY PermAssumption DEF OwnerFull, OwnerNeverJoins, TypeOK, Request,
     Transaction, MaybePerms
<1>5. SeenStay'
  BY PermAssumption DEF SeenStay, TypeOK, Request, Transaction, MaybePerms
<1>6. GrantedOnly'
  BY PermAssumption DEF GrantedOnly, SetterStarted, Granted, TypeOK, Request,
     Transaction, MaybePerms
<1>7. OwnerRefusedOnlyOnError'
  BY PermAssumption DEF OwnerRefusedOnlyOnError, OwnerFull, TypeOK, Request
<1>8. NoEscalation'
  BY PermAssumption DEF NoEscalation, GrantedOnly, Granted, TypeOK, Request,
     InTx
<1>9. HoldersAreMembers'
  BY DEF HoldersAreMembers
<1> QED
  BY <1>1, <1>2, <1>3, <1>4, <1>5, <1>6, <1>7, <1>8, <1>9 DEF IndInv

\* EditCommunityRole assigns the listed users that have a row.
LEMMA Assign_Ind ==
  ASSUME IndInv, NEW q \in Reqs, Assign(q)
  PROVE  IndInv'
<1> USE DEF IndInv, Assign, dbVars
<1>1. TypeOK'
  <2>1. tx' \in [Reqs -> Transaction]
    BY ReassignedType DEF TypeOK, Request
  <2>2. QED
    BY <2>1 DEF TypeOK
<1> USE DEF Reassigned
<1>2. OwnerFull'
  BY PermAssumption DEF OwnerFull, OwnerNeverJoins, TypeOK, Request,
     Transaction, MaybePerms
<1>3. SeenStay'
  BY PermAssumption DEF SeenStay, TypeOK, Request, Transaction, MaybePerms
<1>4. GrantedOnly'
  BY PermAssumption DEF GrantedOnly, SetterStarted, Granted, TypeOK, Request,
     Transaction, MaybePerms
<1>5. SetterStarted' /\ OwnerNeverJoins' /\ OwnerRefusedOnlyOnError' /\
        NoEscalation' /\ HoldersAreMembers'
  BY DEF SetterStarted, OwnerNeverJoins, OwnerRefusedOnlyOnError, NoEscalation,
     HoldersAreMembers
<1> QED
  BY <1>1, <1>2, <1>3, <1>4, <1>5 DEF IndInv

\* EditCommunityDefaultPermissions selects all members.
LEMMA BeginDefaults_Ind ==
  ASSUME IndInv, NEW q \in Reqs, BeginDefaults(q)
  PROVE  IndInv'
<1> USE DEF IndInv, BeginDefaults, dbVars
<1>1. TypeOK'
  <2>1. req' \in [Reqs -> Request]
    BY BeginDefaultsType DEF TypeOK, Pc
  <2>2. tx' \in [Reqs -> Transaction]
    BY SnapshotType DEF TypeOK, Transaction
  <2>3. QED
    BY <2>1, <2>2 DEF TypeOK
<1> USE DEF Snapshot, NoTx
<1>2. SetterStarted'
  BY DEF SetterStarted, TypeOK, Request
<1>3. OwnerNeverJoins'
  BY DEF OwnerNeverJoins, TypeOK, Request
<1>4. OwnerFull'
  BY PermAssumption DEF OwnerFull, OwnerNeverJoins, TypeOK, Request,
     Transaction, MaybePerms
<1>5. SeenStay'
  BY PermAssumption DEF SeenStay, TypeOK, Request, Transaction, MaybePerms
<1>6. GrantedOnly'
  BY PermAssumption DEF GrantedOnly, SetterStarted, Granted, TypeOK, Request,
     Transaction, MaybePerms
<1>7. OwnerRefusedOnlyOnError'
  BY PermAssumption DEF OwnerRefusedOnlyOnError, OwnerFull, TypeOK, Request
<1>8. NoEscalation'
  BY PermAssumption DEF NoEscalation, GrantedOnly, Granted, TypeOK, Request,
     InTx
<1>9. HoldersAreMembers'
  BY DEF HoldersAreMembers
<1> QED
  BY <1>1, <1>2, <1>3, <1>4, <1>5, <1>6, <1>7, <1>8, <1>9 DEF IndInv

\* A user without a row signs up.
LEMMA SignUp_Ind ==
  ASSUME IndInv, NEW q \in Reqs, NEW u \in Users, SignUp(q, u)
  PROVE  IndInv'
<1> USE DEF IndInv, SignUp, dbVars
<1>1. TypeOK'
  <2>1. req' \in [Reqs -> Request]
    BY DEF TypeOK, Request, Pc, AllOps
  <2>2. tx' \in [Reqs -> Transaction]
    BY SnapshotType DEF TypeOK, Transaction
  <2>3. QED
    BY <2>1, <2>2 DEF TypeOK
<1> USE DEF Snapshot, NoTx
<1>2. SetterStarted'
  BY DEF SetterStarted, TypeOK, Request
<1>3. OwnerNeverJoins'
  BY PermAssumption DEF OwnerNeverJoins, TypeOK, Request, OwnerFull
<1>4. OwnerFull'
  BY PermAssumption DEF OwnerFull, OwnerNeverJoins, TypeOK, Request,
     Transaction, MaybePerms, SetterStarted
<1>5. SeenStay'
  BY PermAssumption DEF SeenStay, TypeOK, Request, Transaction, MaybePerms
<1>6. GrantedOnly'
  BY PermAssumption DEF GrantedOnly, SetterStarted, Granted, TypeOK, Request,
     Transaction, MaybePerms
<1>7. OwnerRefusedOnlyOnError'
  BY PermAssumption DEF OwnerRefusedOnlyOnError, OwnerFull, TypeOK, Request
<1>8. NoEscalation'
  BY PermAssumption DEF NoEscalation, GrantedOnly, Granted, TypeOK, Request,
     InTx
<1>9. HoldersAreMembers'
  BY DEF HoldersAreMembers
<1> QED
  BY <1>1, <1>2, <1>3, <1>4, <1>5, <1>6, <1>7, <1>8, <1>9 DEF IndInv

\* A sign-up leaves the new row without permissions.
LEMMA SignUpUnset_Ind ==
  ASSUME IndInv, NEW q \in Reqs, SignUpUnset(q)
  PROVE  IndInv'
<1> USE DEF IndInv, SignUpUnset, dbVars
<1>1. TypeOK'
  <2>1. tx' \in [Reqs -> Transaction]
    BY WrittenType DEF TypeOK, Request
  <2>2. QED
    BY <2>1 DEF TypeOK
<1> USE DEF Written
<1>2. OwnerFull'
  BY PermAssumption DEF OwnerFull, OwnerNeverJoins, TypeOK, Request,
     Transaction, MaybePerms
<1>3. SeenStay'
  BY PermAssumption DEF SeenStay, TypeOK, Request, Transaction, MaybePerms
<1>4. GrantedOnly'
  BY PermAssumption DEF GrantedOnly, SetterStarted, Granted, TypeOK, Request,
     Transaction, MaybePerms
<1>5. SetterStarted' /\ OwnerNeverJoins' /\ OwnerRefusedOnlyOnError' /\
        NoEscalation' /\ HoldersAreMembers'
  BY DEF SetterStarted, OwnerNeverJoins, OwnerRefusedOnlyOnError, NoEscalation,
     HoldersAreMembers
<1> QED
  BY <1>1, <1>2, <1>3, <1>4, <1>5 DEF IndInv

\* A transaction is committed: rows appear and change, none goes.
LEMMA Commit_Ind ==
  ASSUME IndInv, NEW q \in Reqs, Commit(q)
  PROVE  IndInv'
<1> USE DEF IndInv, Commit, dbVars
<1>1. TypeOK'
  <2>1. req' \in [Reqs -> Request]
    BY GotoType DEF Pc
  <2>2. tx' \in [Reqs -> Transaction]
    BY NoTxType DEF TypeOK
  <2>3. row' \in [Users -> MaybePerms]
    BY DEF TypeOK, Transaction, MaybePerms
  <2>4. roles' \in [Roles -> MaybePerms]
    BY DEF TypeOK, Request, MaybePerms
  <2>5. holders' \in [Roles -> SUBSET Users]
    BY DEF TypeOK, Transaction
  <2>6. defaults' \in SUBSET Perms
    BY DEF TypeOK, Request
  <2>7. QED
    BY <2>1, <2>2, <2>3, <2>4, <2>5, <2>6 DEF TypeOK
<1> USE DEF Goto, Complete, NoTx
<1>2. SetterStarted'
  BY DEF SetterStarted, TypeOK, Request
<1>3. OwnerNeverJoins'
  BY DEF OwnerNeverJoins, TypeOK, Request
<1>4. OwnerFull'
  BY PermAssumption DEF OwnerFull, OwnerNeverJoins, TypeOK, Request,
     Transaction, MaybePerms
<1>5. SeenStay'
  BY PermAssumption DEF SeenStay, TypeOK, Request, Transaction, MaybePerms
<1>6. GrantedOnly'
  BY PermAssumption DEF GrantedOnly, SetterStarted, Granted, TypeOK, Request,
     Transaction, MaybePerms
<1>7. OwnerRefusedOnlyOnError'
  BY PermAssumption DEF OwnerRefusedOnlyOnError, OwnerFull, TypeOK, Request
<1>8. NoEscalation'
  BY PermAssumption DEF NoEscalation, GrantedOnly, Granted, TypeOK, Request,
     InTx
<1>9. HoldersAreMembers'
  BY PermAssumption DEF HoldersAreMembers, SeenStay, TypeOK, Transaction,
     Request, MaybePerms
<1> QED
  BY <1>1, <1>2, <1>3, <1>4, <1>5, <1>6, <1>7, <1>8, <1>9 DEF IndInv

\* A request gives up and its transaction is rolled back.
LEMMA Abort_Ind ==
  ASSUME IndInv, NEW q \in Reqs, Abort(q)
  PROVE  IndInv'
<1> USE DEF IndInv, Abort, dbVars
<1>1. TypeOK'
  <2>1. req' \in [Reqs -> Request]
    BY GotoType DEF Pc
  <2>2. tx' \in [Reqs -> Transaction]
    BY NoTxType DEF TypeOK
  <2>3. QED
    BY <2>1, <2>2 DEF TypeOK
<1> USE DEF Goto, NoTx
<1>2. SetterStarted'
  BY DEF SetterStarted, TypeOK, Request
<1>3. OwnerNeverJoins'
  BY DEF OwnerNeverJoins, TypeOK, Request
<1>4. OwnerFull'
  BY PermAssumption DEF OwnerFull, OwnerNeverJoins, TypeOK, Request,
     Transaction, MaybePerms
<1>5. SeenStay'
  BY PermAssumption DEF SeenStay, TypeOK, Request, Transaction, MaybePerms
<1>6. GrantedOnly'
  BY PermAssumption DEF GrantedOnly, SetterStarted, Granted, TypeOK, Request,
     Transaction, MaybePerms
<1>7. OwnerRefusedOnlyOnError'
  BY PermAssumption DEF OwnerRefusedOnlyOnError, OwnerFull, TypeOK, Request
<1>8. NoEscalation'
  BY PermAssumption DEF NoEscalation, GrantedOnly, Granted, TypeOK, Request,
     InTx
<1>9. HoldersAreMembers'
  BY DEF HoldersAreMembers
<1> QED
  BY <1>1, <1>2, <1>3, <1>4, <1>5, <1>6, <1>7, <1>8, <1>9 DEF IndInv

-----------------------------------------------------------------------------
(***************************************************************************)
(* The theorems.                                                           *)
(***************************************************************************)

\* The community as CreateCommunity and the first sign-ups leave it.
LEMMA InitInd == Init => IndInv
<1> SUFFICES ASSUME Init PROVE IndInv
  OBVIOUS
<1> USE PermAssumption DEF Init
<1>1. TypeOK
  <2>1. req \in [Reqs -> Request]
    BY DEF Request, Pc
  <2>2. tx \in [Reqs -> Transaction]
    BY NoTxType
  <2>3. QED
    BY <2>1, <2>2 DEF TypeOK, MaybePerms
<1>2. SetterStarted /\ OwnerNeverJoins /\ OwnerFull /\ SeenStay
  BY DEF SetterStarted, OwnerNeverJoins, OwnerFull, SeenStay, NoTx
<1>3. GrantedOnly
  BY DEF GrantedOnly, Granted, Grantable, NoTx
<1>4. OwnerRefusedOnlyOnError /\ NoEscalation /\ HoldersAreMembers
  BY DEF OwnerRefusedOnlyOnError, NoEscalation, HoldersAreMembers, InTx
<1>5. QED
  BY <1>1, <1>2, <1>3, <1>4 DEF IndInv

\* No step of any request, and no fault, leaves the inductive invariant.
LEMMA NextInd == IndInv /\ [Next]_vars => IndInv'
<1> SUFFICES ASSUME IndInv, [Next]_vars PROVE IndInv'
  OBVIOUS
<1>1. ASSUME NEW q \in Reqs, Arrive(q) PROVE IndInv'
  <2>1. PICK u \in Users :
          \/ \E op \in AllOps \ {"join"}, x \in Roles \cup {None},
               ps \in PermsInputs \cup {{}}, ms \in SUBSET Users :
               Start(q, op, u, x, ps, ms)
          \/ SignUp(q, u)
    BY <1>1, PermAssumption
       DEF AllOps, Arrive, CreateCommunityRole, EditCommunityRole,
           DeleteCommunityRole, EditCommunityDefaultPermissions, OtherHandler
  <2>2. QED
    BY <2>1, Start_Ind, SignUp_Ind
<1>2. ASSUME NEW q \in Reqs, Progress(q) PROVE IndInv'
  BY <1>2, CheckCached_Ind, CheckMissed_Ind, CheckRow_Ind, CheckNoRow_Ind,
     LookupRole_Ind, UpdateRole_Ind, CreateExhausted_Ind, BeginCreate_Ind,
     BeginEdit_Ind, BeginDelete_Ind, BeginDefaults_Ind, Grant_Ind,
     GrantHeld_Ind, Recalc_Ind, Unassign_Ind, Assign_Ind, Commit_Ind
     DEF Progress
<1>3. ASSUME NEW q \in Reqs, Fault(q) PROVE IndInv'
  BY <1>3, CheckFails_Ind, GrantUnassigned_Ind, SignUpUnset_Ind,
     SetCacheFails_Ind, Abort_Ind
     DEF Fault
<1>4. CASE UNCHANGED vars
  BY <1>4 DEF IndInv, vars, TypeOK, SetterStarted, OwnerNeverJoins, OwnerFull,
     SeenStay, GrantedOnly, OwnerRefusedOnlyOnError, NoEscalation, HoldersAreMembers
<1>5. QED
  BY <1>1, <1>2, <1>3, <1>4, SetCache_Ind, Expire_Ind DEF Next, Finished

\* The inductive invariant holds in every state the handlers, the goroutines
\* and their failures reach.
THEOREM PermInvHolds == Spec => []IndInv
BY InitInd, NextInd, PTL DEF Spec

\* Every variable keeps its type.
THEOREM PermTypeCorrect == Spec => []TypeOK
<1>1. IndInv => TypeOK
  BY DEF IndInv
<1>2. QED
  BY <1>1, PermInvHolds, PTL

\* HasCommunityPermission refuses the owner only when its own read fails,
\* however many requests race to edit roles and defaults and wherever they
\* fail.
THEOREM OwnerRefusalsAreErrors == Spec => []OwnerRefusedOnlyOnError
<1>1. IndInv => OwnerRefusedOnlyOnError
  BY DEF IndInv
<1>2. QED
  BY <1>1, PermInvHolds, PTL

\* A caller other than the owner reaches an editing handler's transaction only
\* if ManageCommunity was in the defaults or in a request's input.
THEOREM NothingEscalates == Spec => []NoEscalation
<1>1. IndInv => NoEscalation
  BY DEF IndInv
<1>2. QED
  BY <1>1, PermInvHolds, PTL

\* The role handlers assign roles to members only.
THEOREM RolesHeldByMembers == Spec => []HoldersAreMembers
<1>1. IndInv => HoldersAreMembers
  BY DEF IndInv
<1>2. QED
  BY <1>1, PermInvHolds, PTL

-----------------------------------------------------------------------------
(***************************************************************************)
(* Rows agree with roles when requests do not overlap.                     *)
(***************************************************************************)

\* A member other than the owner has a permission from the defaults or from a
\* role.
LEMMA EffectiveMember ==
  ASSUME NEW u, u # Owner, NEW d, NEW rs, NEW hs, NEW x
  PROVE  x \in Effective(u, d, rs, hs) <=>
           x \in d \/ \E r \in Roles : rs[r] # None /\ u \in hs[r] /\ x \in rs[r]
  BY DEF Effective

\* Only the roles a user holds count.
LEMMA EffectiveSame ==
  ASSUME NEW u, NEW d, NEW rs, NEW hs, NEW rt, NEW ht,
         \A r \in Roles :
            /\ (rs[r] # None /\ u \in hs[r]) <=> (rt[r] # None /\ u \in ht[r])
            /\ (rs[r] # None /\ u \in hs[r]) => rs[r] = rt[r]
  PROVE  Effective(u, d, rs, hs) = Effective(u, d, rt, ht)
<1>1. CASE u = Owner
  BY <1>1 DEF Effective
<1>2. CASE u # Owner
  <2>1. ASSUME NEW x
        PROVE  x \in Effective(u, d, rs, hs) <=> x \in Effective(u, d, rt, ht)
    <3>1. x \in Effective(u, d, rs, hs) <=>
            x \in d \/ \E r \in Roles : rs[r] # None /\ u \in hs[r] /\ x \in rs[r]
      BY <1>2, EffectiveMember, Zenon
    <3>2. x \in Effective(u, d, rt, ht) <=>
            x \in d \/ \E r \in Roles : rt[r] # None /\ u \in ht[r] /\ x \in rt[r]
      BY <1>2, EffectiveMember, Zenon
    <3>3. QED
      BY <3>1, <3>2
  <2>2. QED
    BY <2>1
<1>3. QED
  BY <1>1, <1>2

\* A new role adds its permissions for those who get it.
LEMMA EffectiveGrant ==
  ASSUME NEW u, NEW d, NEW r \in Roles, NEW ps \in SUBSET Perms, NEW us, u \in us,
         NEW rs, NEW hs, rs[r] = None, NEW rt, NEW ht,
         rt[r] = ps, ht[r] = us, ps # None,
         \A x \in Roles \ {r} : rt[x] = rs[x] /\ ht[x] = hs[x]
  PROVE  Effective(u, d, rt, ht) = Effective(u, d, rs, hs) \cup ps
<1>1. CASE u = Owner
  BY <1>1 DEF Effective
<1>2. CASE u # Owner
  <2>1. ASSUME NEW x
        PROVE  x \in Effective(u, d, rt, ht) <=>
                 x \in Effective(u, d, rs, hs) \/ x \in ps
    <3>1. x \in Effective(u, d, rs, hs) <=>
            x \in d \/ \E y \in Roles : rs[y] # None /\ u \in hs[y] /\ x \in rs[y]
      BY <1>2, EffectiveMember, Zenon
    <3>2. x \in Effective(u, d, rt, ht) <=>
            x \in d \/ \E y \in Roles : rt[y] # None /\ u \in ht[y] /\ x \in rt[y]
      BY <1>2, EffectiveMember, Zenon
    <3>3. QED
      BY <3>1, <3>2
  <2>2. QED
    BY <2>1
<1>3. QED
  BY <1>1, <1>2

\* What Goto leaves of a request.
LEMMA GotoFacts ==
  ASSUME TypeOK, NEW q \in Reqs, NEW pc, Goto(q, pc)
  PROVE  /\ req'[q].pc = pc /\ req'[q].op = req[q].op
         /\ req'[q].who = req[q].who /\ req'[q].role = req[q].role
         /\ req'[q].perms = req[q].perms /\ req'[q].defs = req[q].defs
         /\ \A x \in Reqs \ {q} : req'[x] = req[x]
  BY DEF TypeOK, Goto, Request

\* A request under way is the only one.
LEMMA OthersRest ==
  ASSUME SeqInv, NEW q \in Reqs, Active(q)
  PROVE  \A x \in Reqs \ {q} : ~Active(x)
  BY DEF SeqInv, Alone

\* A step of the one request that leaves the tables alone.
LEMMA OwnStep ==
  ASSUME SeqInv, NEW q \in Reqs, fresh' \subseteq fresh,
         UNCHANGED <<defaults, roles, holders, row>>,
         \A x \in Reqs \ {q} : ~Active(x) /\ req'[x] = req[x],
         CallSound(q)'
  PROVE  SeqInv'
<1>1. \A x \in Reqs \ {q} : ~Active(x)'
  BY DEF Active
<1>2. Alone'
  BY <1>1 DEF Alone
<1>3. ASSUME NEW x \in Reqs \ {q} PROVE CallSound(x)'
  BY <1>1 DEF CallSound, CallCurrent, GrantSound, DeleteSound, JoinSound, InTx,
              Active
<1>4. FreshUnused' /\ RowsEffective'
  BY DEF SeqInv, FreshUnused, RowsEffective
<1>5. QED
  BY <1>2, <1>3, <1>4 DEF SeqInv

\* A step outside the transaction.
LEMMA EarlyStep ==
  ASSUME TypeOK, SeqInv, NEW q \in Reqs, Active(q), UNCHANGED dbVars,
         NEW pc, pc \notin InTx \cup {"update"}, Goto(q, pc)
  PROVE  SeqInv'
<1>1. CallSound(q)
  BY DEF SeqInv
<1>2. CallSound(q)'
  BY <1>1, GotoFacts
  DEF CallSound, CallCurrent, GrantSound, DeleteSound, JoinSound, InTx, Active,
      dbVars
<1>3. QED
  BY <1>2, GotoFacts, OthersRest, OwnStep DEF dbVars

\* The request whose check failed is over.
LEMMA CheckFailsSeq ==
  ASSUME TypeOK, SeqInv, NEW q \in Reqs, CheckFails(q)
  PROVE  SeqInv'
<1>1. /\ Active(q) /\ UNCHANGED dbVars /\ req'[q].pc = "refused"
      /\ \A x \in Reqs \ {q} : req'[x] = req[x]
  BY DEF CheckFails, Active, TypeOK, Request
<1>2. CallSound(q)'
  BY <1>1 DEF CallSound, CallCurrent, GrantSound, DeleteSound, JoinSound, InTx,
              Active
<1>3. QED
  BY <1>1, <1>2, OthersRest, OwnStep DEF dbVars

\* Goroutines of the cache and the expiry of keys do not touch the tables.
LEMMA CacheStep ==
  ASSUME SeqInv, UNCHANGED <<dbVars, req, tx>>
  PROVE  SeqInv'
<1>1. Alone' /\ FreshUnused' /\ RowsEffective'
  BY DEF SeqInv, Alone, Active, FreshUnused, RowsEffective, dbVars
<1>2. ASSUME NEW q \in Reqs PROVE CallSound(q)'
  <2>1. CallSound(q)
    BY DEF SeqInv
  <2>2. CallCurrent(q)' /\ GrantSound(q)'
    BY <2>1 DEF CallSound, CallCurrent, GrantSound, Active, dbVars
  <2>3. DeleteSound(q)' /\ JoinSound(q)'
    BY <2>1 DEF CallSound, DeleteSound, JoinSound, LockedEffective,
                HoldersOfAny, dbVars
  <2>4. QED
    BY <2>2, <2>3 DEF CallSound
<1>3. QED
  BY <1>1, <1>2 DEF SeqInv

\* A request arrives when the others have been answered.
LEMMA StartSeq ==
  ASSUME OneAtATime, TypeOK, SeqInv, NEW q \in Reqs, NEW op, NEW u, NEW r, NEW ps,
         NEW ms, Start(q, op, u, r, ps, ms), op = "delete" => r \in Roles
  PROVE  SeqInv'
<1>1. \A x \in Reqs \ {q} : ~Active(x)
  BY DEF Start, OneAtATime, Replied, SeqInv, CallSound, CallCurrent, Active
<1>2. /\ req'[q].pc = "get" /\ req'[q].op = op /\ req'[q].role = r
      /\ req'[q].defs = defaults /\ op \in Ops
      /\ \A x \in Reqs \ {q} : req'[x] = req[x]
      /\ UNCHANGED dbVars
  BY DEF Start, TypeOK
<1>3. CallSound(q)'
  BY <1>2 DEF CallSound, CallCurrent, GrantSound, DeleteSound, JoinSound, InTx,
              Active, dbVars
<1>4. QED
  BY <1>1, <1>2, <1>3, OwnStep DEF dbVars

\* What a transaction's snapshot shows.
LEMMA SnapshotFacts ==
  /\ Snapshot.seen = row /\ Snapshot.vroles = roles
  /\ Snapshot.vholders = holders /\ Snapshot.locked = {} /\ Snapshot.added = {}
  /\ Snapshot.todo = {}
  BY DEF Snapshot, NoTx

\* A sign-up begins.
LEMMA SignUpSeq ==
  ASSUME OneAtATime, TypeOK, SeqInv, NEW q \in Reqs, NEW u, SignUp(q, u)
  PROVE  SeqInv'
<1>1. \A x \in Reqs \ {q} : ~Active(x)
  BY DEF SignUp, OneAtATime, Replied, SeqInv, CallSound, CallCurrent, Active
<1>2. /\ req'[q].pc = "recalc" /\ req'[q].op = "join" /\ req'[q].who = u
      /\ req'[q].defs = defaults /\ "join" \in Ops
      /\ \A x \in Reqs \ {q} : req'[x] = req[x]
      /\ UNCHANGED dbVars
  BY DEF SignUp, TypeOK
<1>3. /\ tx'[q].vroles = roles /\ tx'[q].vholders = holders
      /\ tx'[q].todo = {u} /\ tx'[q].locked = {}
  <2>1. tx'[q] = [Snapshot EXCEPT !.todo = {u}]
    BY DEF SignUp, TypeOK
  <2>2. QED
    BY <2>1 DEF Snapshot, NoTx
<1>4. CallSound(q)'
  BY <1>2, <1>3 DEF CallSound, CallCurrent, GrantSound, DeleteSound, JoinSound,
                    LockedEffective, dbVars
<1>5. QED
  BY <1>1, <1>2, <1>4, OwnStep DEF dbVars

\* A create begins with a role id nobody had.
LEMMA BeginCreateSeq ==
  ASSUME TypeOK, SeqInv, NEW q \in Reqs, BeginCreate(q)
  PROVE  SeqInv'
<1>1. Active(q) /\ CallSound(q) /\ FreshUnused
  BY DEF BeginCreate, Active, SeqInv
<1>2. PICK r \in fresh :
        /\ fresh' = fresh \ {r}
        /\ req' = [req EXCEPT ![q] = [@ EXCEPT !.pc = "grant", !.role = r]]
  BY DEF BeginCreate
<1>3. /\ req'[q].pc = "grant" /\ req'[q].op = "create" /\ req'[q].role = r
      /\ req'[q].defs = req[q].defs /\ r \in Roles
      /\ \A x \in Reqs \ {q} : req'[x] = req[x]
      /\ UNCHANGED <<defaults, roles, holders, row>>
  BY <1>2 DEF BeginCreate, TypeOK, Request
<1>4. tx'[q].seen = row /\ tx'[q].locked = {} /\ tx'[q].added = {}
  <2>1. tx'[q] = [Snapshot EXCEPT !.todo = {u \in req[q].members :
                                              row[u] # None}]
    BY DEF BeginCreate, TypeOK
  <2>2. QED
    BY <2>1 DEF Snapshot, NoTx
<1>5. roles[r] = None /\ holders[r] = {}
  BY <1>1 DEF FreshUnused
<1>6. GrantSound(q)'
  BY <1>2, <1>3, <1>4, <1>5 DEF GrantSound
<1>7. CallCurrent(q)' /\ DeleteSound(q)' /\ JoinSound(q)'
  BY <1>1, <1>3 DEF BeginCreate, CallSound, CallCurrent, DeleteSound,
                    JoinSound, Active
<1>8. QED
  BY <1>1, <1>2, <1>3, <1>6, <1>7, OthersRest, OwnStep DEF CallSound

\* Transactions after the UPDATE of a row, and after the INSERT of an
\* assignment.
LEMMA WrittenFacts ==
  ASSUME NEW t \in Transaction, NEW u \in Users, NEW ps
  PROVE  LET w == Written(t, u, ps)
         IN  /\ w.seen = t.seen /\ w.vroles = t.vroles
             /\ w.vholders = t.vholders /\ w.before = t.before
             /\ w.todo = t.todo \ {u} /\ w.added = t.added
             /\ w.locked = t.locked \cup {u} /\ w.value[u] = ps
             /\ \A x \in Users \ {u} : w.value[x] = t.value[x]
  BY DEF Written, Transaction

\* The other.
LEMMA AssignedFacts ==
  ASSUME NEW t \in Transaction, NEW u \in Users
  PROVE  LET w == Assigned(t, u)
         IN  /\ w.seen = t.seen /\ w.added = t.added \cup {u}
             /\ w.locked = t.locked /\ w.value = t.value
  BY DEF Assigned, Transaction

\* A member is assigned the new role, and its row is updated or has it all.
LEMMA GrantSeq ==
  ASSUME TypeOK, SeqInv, NEW q \in Reqs, NEW u \in Users,
         Grant(q, u) \/ GrantHeld(q, u)
  PROVE  SeqInv'
<1>1. /\ Active(q) /\ CallSound(q) /\ req[q].pc = "grant"
      /\ tx[q] \in Transaction /\ UNCHANGED <<dbVars, req>>
  BY DEF Grant, GrantHeld, Active, SeqInv, TypeOK
<1>2. GrantSound(q)
  BY <1>1 DEF CallSound
<1>3. /\ tx'[q].seen = tx[q].seen /\ tx'[q].added = tx[q].added \cup {u}
      /\ \/ /\ tx'[q].locked = tx[q].locked \cup {u}
            /\ tx'[q].value[u] = row[u] \cup req[q].perms
            /\ \A x \in Users \ {u} : tx'[q].value[x] = tx[q].value[x]
         \/ /\ tx'[q].locked = tx[q].locked /\ tx'[q].value = tx[q].value
            /\ req[q].perms \subseteq row[u]
  <2>1. CASE Grant(q, u)
    <3> DEFINE t == Assigned(tx[q], u)
               ps == row[u] \cup Missing(q, u)
    <3>1. tx'[q] = Written(t, u, ps)
      BY <2>1 DEF Grant, TypeOK
    <3>2. t \in Transaction
      BY <1>1, AssignedType
    <3>3. /\ t.seen = tx[q].seen /\ t.added = tx[q].added \cup {u}
          /\ t.locked = tx[q].locked /\ t.value = tx[q].value
      BY <1>1, AssignedFacts
    <3>4. ps = row[u] \cup req[q].perms
      BY <1>1, <1>2 DEF Missing, GrantSound
    <3> HIDE DEF t, ps
    <3>5. QED
      BY <3>1, <3>2, <3>3, <3>4, WrittenFacts
  <2>2. CASE GrantHeld(q, u)
    <3>1. tx'[q] = Assigned(tx[q], u)
      BY <2>2 DEF GrantHeld, TypeOK
    <3>2. req[q].perms \subseteq row[u]
      BY <1>1, <1>2, <2>2 DEF GrantHeld, Missing, GrantSound
    <3>3. QED
      BY <1>1, <3>1, <3>2, AssignedFacts
  <2>3. QED
    BY <2>1, <2>2
<1>4. GrantSound(q)'
  <2>1. tx[q].locked \subseteq Users /\ tx[q].added \subseteq Users
    BY <1>1 DEF Transaction
  <2>2. /\ req'[q] = req[q] /\ roles' = roles /\ holders' = holders
        /\ row' = row /\ fresh' = fresh
    BY <1>1 DEF dbVars
  <2>3. tx'[q].locked \subseteq tx'[q].added
    BY <1>1, <1>2, <1>3 DEF GrantSound
  <2>4. ASSUME NEW x \in tx'[q].added
        PROVE  IF x \in tx'[q].locked
               THEN tx'[q].value[x] = row[x] \cup req[q].perms
               ELSE req[q].perms \subseteq row[x]
    BY <1>1, <1>2, <1>3, <2>1 DEF GrantSound
  <2>5. QED
    BY <1>1, <1>2, <1>3, <2>2, <2>3, <2>4 DEF GrantSound
<1>5. CallCurrent(q)' /\ DeleteSound(q)' /\ JoinSound(q)'
  BY <1>1, <1>2 DEF CallSound, CallCurrent, GrantSound, DeleteSound, JoinSound,
                    Active, dbVars
<1>6. QED
  BY <1>1, <1>4, <1>5, OthersRest, OwnStep DEF CallSound, dbVars

\* A delete begins: the snapshot without the role, and whoever has one.
LEMMA BeginDeleteSeq ==
  ASSUME TypeOK, SeqInv, NEW q \in Reqs, BeginDelete(q)
  PROVE  SeqInv'
<1>1. /\ Active(q) /\ CallSound(q) /\ req[q].op = "delete"
      /\ req[q].role \in Roles /\ UNCHANGED dbVars
  BY DEF BeginDelete, Active, SeqInv, CallSound, CallCurrent
<1>2. PICK pc \in {"recalc", "unassign"} :
        Goto(q, pc) /\ (pc = "recalc" => HoldersOfAny = {})
  BY DEF BeginDelete
<1>3. /\ tx'[q].vroles = [roles EXCEPT ![req[q].role] = None]
      /\ tx'[q].vholders = holders /\ tx'[q].before = HoldersOfAny
      /\ tx'[q].todo = {} /\ tx'[q].locked = {}
  <2>1. tx'[q] = [Snapshot EXCEPT !.vroles[req[q].role] = None,
                                  !.before = HoldersOfAny]
    BY DEF BeginDelete, TypeOK
  <2>2. QED
    BY <2>1 DEF Snapshot, NoTx
<1>4. DeleteSound(q)'
  <2>1. /\ req'[q].role = req[q].role /\ req'[q].pc = pc
        /\ roles' = roles /\ holders' = holders
    BY <1>1, <1>2, GotoFacts DEF dbVars
  <2>2. HoldersOfAny' = HoldersOfAny
    BY <2>1 DEF HoldersOfAny
  <2>3. LockedEffective(q)'
    BY <1>3 DEF LockedEffective
  <2>4. QED
    BY <1>2, <1>3, <2>1, <2>2, <2>3 DEF DeleteSound
<1>5. CallCurrent(q)' /\ GrantSound(q)' /\ JoinSound(q)'
  BY <1>1, <1>2, GotoFacts
  DEF CallSound, CallCurrent, GrantSound, JoinSound, Active, dbVars
<1>6. QED
  BY <1>1, <1>2, <1>4, <1>5, GotoFacts, OthersRest, OwnStep
  DEF CallSound, dbVars

\* The role's assignments go.
LEMMA UnassignSeq ==
  ASSUME OneAtATime, TypeOK, SeqInv, NEW q \in Reqs, Unassign(q)
  PROVE  SeqInv'
<1>1. /\ Active(q) /\ CallSound(q) /\ req[q].op = "delete"
      /\ req[q].role \in Roles /\ UNCHANGED dbVars /\ Goto(q, "recalc")
      /\ req[q].pc = "unassign" /\ tx[q] \in Transaction
  BY DEF Unassign, Active, SeqInv, CallSound, CallCurrent, OneAtATime, TypeOK
<1>2. DeleteSound(q)
  BY <1>1 DEF CallSound
<1>3. /\ tx'[q].vroles = tx[q].vroles /\ tx'[q].before = tx[q].before
      /\ \A r \in Roles \ {req[q].role} :
            tx'[q].vholders[r] = tx[q].vholders[r]
      /\ tx'[q].todo = tx[q].before /\ tx'[q].locked = tx[q].locked
      /\ tx'[q].value = tx[q].value
  <2>1. tx'[q] = Unassigned(tx[q], req[q].role, holders[req[q].role])
    BY DEF Unassign, TypeOK
  <2>2. QED
    BY <1>1, <2>1 DEF Unassigned, Transaction
<1>4. LockedEffective(q)'
  <2> SUFFICES ASSUME NEW u \in tx[q].locked
               PROVE  tx[q].value[u] =
                        Effective(u, defaults, tx[q].vroles, tx'[q].vholders)
    BY <1>1, <1>3 DEF LockedEffective, dbVars
  <2>1. tx[q].value[u] = Effective(u, defaults, tx[q].vroles, tx[q].vholders)
    BY <1>1, <1>2 DEF DeleteSound, LockedEffective, InTx
  <2>2. tx[q].vroles[req[q].role] = None
    BY <1>1, <1>2 DEF DeleteSound, InTx, TypeOK
  <2>3. Effective(u, defaults, tx[q].vroles, tx[q].vholders) =
          Effective(u, defaults, tx[q].vroles, tx'[q].vholders)
    BY <1>3, <2>2, EffectiveSame
  <2>4. QED
    BY <2>1, <2>3
<1>5. DeleteSound(q)'
  <2>1. /\ req'[q].role = req[q].role /\ req'[q].pc = "recalc"
        /\ roles' = roles /\ holders' = holders
    BY <1>1, GotoFacts DEF dbVars
  <2>2. HoldersOfAny' = HoldersOfAny
    BY <2>1 DEF HoldersOfAny
  <2>3. /\ tx[q].vroles = [roles EXCEPT ![req[q].role] = None]
        /\ \A r \in Roles \ {req[q].role} : tx[q].vholders[r] = holders[r]
        /\ tx[q].before = HoldersOfAny /\ tx[q].locked \subseteq tx[q].before
    BY <1>1, <1>2 DEF DeleteSound, InTx
  <2>4. QED
    BY <1>3, <1>4, <2>1, <2>2, <2>3 DEF DeleteSound
<1>6. CallCurrent(q)' /\ GrantSound(q)' /\ JoinSound(q)'
  BY <1>1, GotoFacts
  DEF CallSound, CallCurrent, GrantSound, JoinSound, Active, dbVars
<1>7. QED
  BY <1>1, <1>5, <1>6, GotoFacts, OthersRest, OwnStep DEF CallSound, dbVars

\* A row is recalculated from what the transaction sees.
LEMMA RecalcSeq ==
  ASSUME OneAtATime, TypeOK, SeqInv, NEW q \in Reqs, NEW u \in Users, Recalc(q, u)
  PROVE  SeqInv'
<1>1. /\ Active(q) /\ CallSound(q) /\ req[q].pc = "recalc"
      /\ req[q].op \in {"delete", "join"} /\ req[q].defs = defaults
      /\ tx[q] \in Transaction /\ UNCHANGED <<dbVars, req>> /\ u \in tx[q].todo
  BY DEF Recalc, Active, SeqInv, CallSound, CallCurrent, OneAtATime, TypeOK
<1>2. /\ tx'[q].vroles = tx[q].vroles /\ tx'[q].vholders = tx[q].vholders
      /\ tx'[q].before = tx[q].before /\ tx'[q].todo = tx[q].todo \ {u}
      /\ tx'[q].locked = tx[q].locked \cup {u}
      /\ tx'[q].value[u] =
            Effective(u, defaults, tx[q].vroles, tx[q].vholders)
      /\ \A x \in Users \ {u} : tx'[q].value[x] = tx[q].value[x]
  <2> DEFINE ps == Effective(u, req[q].defs, tx[q].vroles, tx[q].vholders)
  <2>1. tx'[q] = Written(tx[q], u, ps)
    BY DEF Recalc, TypeOK
  <2>2. ps = Effective(u, defaults, tx[q].vroles, tx[q].vholders)
    BY <1>1
  <2> HIDE DEF ps
  <2>3. QED
    BY <1>1, <2>1, <2>2, WrittenFacts
<1>3. LockedEffective(q)
  BY <1>1 DEF CallSound, DeleteSound, JoinSound, InTx
<1>4. LockedEffective(q)'
  <2>1. tx[q].locked \subseteq Users
    BY <1>1 DEF Transaction
  <2>2. defaults' = defaults
    BY <1>1 DEF dbVars
  <2>3. ASSUME NEW x \in tx'[q].locked
        PROVE  tx'[q].value[x] =
                 Effective(x, defaults, tx[q].vroles, tx[q].vholders)
    BY <1>2, <1>3, <2>1 DEF LockedEffective
  <2>4. QED
    BY <1>2, <2>2, <2>3 DEF LockedEffective
<1>5. /\ roles' = roles /\ holders' = holders /\ req'[q] = req[q]
      /\ HoldersOfAny' = HoldersOfAny
  BY <1>1 DEF dbVars, HoldersOfAny
<1>6. DeleteSound(q)'
  <2> SUFFICES ASSUME req[q].op = "delete" PROVE DeleteSound(q)'
    BY <1>5 DEF DeleteSound
  <2>1. DeleteSound(q)
    BY <1>1 DEF CallSound
  <2>2. /\ tx[q].vroles = [roles EXCEPT ![req[q].role] = None]
        /\ \A r \in Roles \ {req[q].role} : tx[q].vholders[r] = holders[r]
        /\ tx[q].before = HoldersOfAny /\ tx[q].locked \subseteq tx[q].before
        /\ tx[q].todo \subseteq tx[q].before
        /\ tx[q].before \subseteq tx[q].todo \cup tx[q].locked
    BY <1>1, <2>1 DEF DeleteSound, InTx
  <2>3. /\ tx'[q].locked \subseteq tx[q].before /\ tx'[q].todo \subseteq tx[q].before
        /\ tx[q].before \subseteq tx'[q].todo \cup tx'[q].locked
    BY <1>1, <1>2, <2>2
  <2>4. QED
    BY <1>2, <1>4, <1>5, <2>2, <2>3 DEF DeleteSound
<1>7. JoinSound(q)'
  <2> SUFFICES ASSUME req[q].op = "join" PROVE JoinSound(q)'
    BY <1>5 DEF JoinSound
  <2>1. /\ tx[q].vroles = roles /\ tx[q].vholders = holders
        /\ tx[q].todo \cup tx[q].locked = {req[q].who}
    BY <1>1 DEF CallSound, JoinSound, InTx
  <2>2. tx'[q].todo \cup tx'[q].locked = {req[q].who}
    BY <1>1, <1>2, <2>1
  <2>3. QED
    BY <1>2, <1>4, <1>5, <2>1, <2>2 DEF JoinSound
<1>8. CallCurrent(q)' /\ GrantSound(q)'
  BY <1>1 DEF CallSound, CallCurrent, GrantSound, Active, dbVars
<1>9. QED
  BY <1>1, <1>6, <1>7, <1>8, OthersRest, OwnStep DEF CallSound, dbVars

\* The rows after a commit agree with the tables after it.
LEMMA CommitRows ==
  ASSUME OneAtATime, IndInv, SeqInv, NEW q \in Reqs, Commit(q),
         NEW u \in Users, row'[u] # None
  PROVE  row'[u] = Effective(u, defaults', roles', holders')
<1> USE DEF IndInv
<1>1. /\ CallSound(q) /\ RowsEffective /\ Active(q)
      /\ \/ req[q].pc = "grant" /\ req[q].op = "create"
         \/ req[q].pc = "recalc" /\ req[q].op \in {"delete", "join"}
      /\ tx[q].todo = {} /\ tx[q] \in Transaction
  BY DEF Commit, Complete, Active, SeqInv, CallSound, CallCurrent, GrantSound,
         OneAtATime, TypeOK
<1>2. /\ defaults' = defaults
      /\ row'[u] = IF u \in tx[q].locked THEN tx[q].value[u] ELSE row[u]
  BY <1>1 DEF Commit
<1>3. row[u] # None => row[u] = Effective(u, defaults, roles, holders)
  BY <1>1 DEF RowsEffective
<1>4. CASE req[q].op = "create"
  <2> DEFINE r == req[q].role
             ps == req[q].perms
             us == tx[q].added
  <2>1. /\ r \in Roles /\ roles[r] = None /\ holders[r] = {}
        /\ tx[q].locked \subseteq us
        /\ \A x \in us : IF x \in tx[q].locked
                         THEN tx[q].value[x] = row[x] \cup ps
                         ELSE ps \subseteq row[x]
    BY <1>1, <1>4 DEF CallSound, GrantSound
  <2>2. ps \in SUBSET Perms /\ ps # None
    BY PermAssumption DEF TypeOK, Request
  <2>3. /\ roles'[r] = ps /\ holders'[r] = us
        /\ \A x \in Roles \ {r} : roles'[x] = roles[x] /\ holders'[x] = holders[x]
    BY <1>4, <2>1 DEF Commit, TypeOK
  <2>4. CASE u \in us
    <3>1. row[u] # None
      BY <2>4 DEF SeenStay
    <3> HIDE DEF r, ps, us
    <3>2. row'[u] = row[u] \cup ps
      BY <1>2, <2>1, <2>4
    <3>3. Effective(u, defaults, roles', holders') =
            Effective(u, defaults, roles, holders) \cup ps
      BY <2>1, <2>2, <2>3, <2>4, EffectiveGrant
    <3>4. QED
      BY <1>2, <1>3, <3>1, <3>2, <3>3
  <2>5. CASE u \notin us
    <3> HIDE DEF r, ps, us
    <3>1. row'[u] = row[u]
      BY <1>2, <2>1, <2>5
    <3>2. Effective(u, defaults, roles, holders) =
            Effective(u, defaults, roles', holders')
      BY <2>1, <2>3, <2>5, EffectiveSame
    <3>3. QED
      BY <1>2, <1>3, <3>1, <3>2
  <2>6. QED
    BY <2>4, <2>5
<1>5. CASE req[q].op = "delete"
  <2> DEFINE r == req[q].role
  <2>1. /\ r \in Roles /\ tx[q].vroles = [roles EXCEPT ![r] = None]
        /\ \A x \in Roles \ {r} : tx[q].vholders[x] = holders[x]
        /\ tx[q].before = HoldersOfAny /\ tx[q].before \subseteq tx[q].locked
        /\ tx[q].locked \subseteq tx[q].before /\ LockedEffective(q)
    BY <1>1, <1>5 DEF CallSound, CallCurrent, DeleteSound, InTx
  <2>2. roles'[r] = None /\ \A x \in Roles \ {r} : roles'[x] = roles[x]
    BY <1>5, <2>1 DEF Commit, TypeOK
  <2>3. \A x \in Roles \ {r} : holders'[x] = holders[x]
    BY <1>5, <2>1 DEF Commit, TypeOK
  <2>4. /\ tx[q].vroles[r] = None
        /\ \A x \in Roles \ {r} : tx[q].vroles[x] = roles[x]
    BY <2>1 DEF TypeOK
  <2> HIDE DEF r
  <2>5. CASE u \in tx[q].locked
    <3>1. row'[u] = Effective(u, defaults, tx[q].vroles, tx[q].vholders)
      BY <1>2, <2>1, <2>5 DEF LockedEffective
    <3> DEFINE vr == tx[q].vroles
               vh == tx[q].vholders
    <3>2. /\ vr[r] = None /\ roles'[r] = None
          /\ \A x \in Roles \ {r} : vr[x] = roles'[x] /\ vh[x] = holders'[x]
      BY <2>1, <2>2, <2>3, <2>4
    <3> HIDE DEF vr, vh
    <3>3. \A x \in Roles :
             /\ (vr[x] # None /\ u \in vh[x]) <=>
                  (roles'[x] # None /\ u \in holders'[x])
             /\ (vr[x] # None /\ u \in vh[x]) => vr[x] = roles'[x]
      BY <3>2
    <3>4. Effective(u, defaults, vr, vh) = Effective(u, defaults, roles', holders')
      BY <3>3, EffectiveSame
    <3>5. QED
      BY <1>2, <3>1, <3>4 DEF vr, vh
  <2>6. CASE u \notin tx[q].locked
    <3>1. row'[u] = row[u] /\ \A x \in Roles : u \notin holders[x]
      BY <1>2, <2>1, <2>6 DEF HoldersOfAny
    <3>2. Effective(u, defaults, roles, holders) =
            Effective(u, defaults, roles', holders')
      BY <2>2, <2>3, <3>1, EffectiveSame
    <3>3. QED
      BY <1>2, <1>3, <3>1, <3>2
  <2>7. QED
    BY <2>5, <2>6
<1>6. CASE req[q].op = "join"
  <2>1. roles' = roles /\ holders' = holders
    BY <1>6 DEF Commit
  <2>2. /\ tx[q].vroles = roles /\ tx[q].vholders = holders
        /\ LockedEffective(q)
    BY <1>1, <1>6 DEF CallSound, JoinSound, InTx
  <2>3. QED
    BY <1>2, <1>3, <2>1, <2>2 DEF LockedEffective
<1>7. QED
  BY <1>1, <1>4, <1>5, <1>6

\* After a commit nothing is under way.
LEMMA CommitSeq ==
  ASSUME OneAtATime, IndInv, SeqInv, NEW q \in Reqs, Commit(q)
  PROVE  SeqInv'
<1> USE DEF IndInv
<1>1. /\ CallSound(q) /\ FreshUnused /\ Active(q) /\ Goto(q, "done")
      /\ fresh' = fresh /\ row' \in [Users -> MaybePerms]
      /\ \/ req[q].pc = "grant" /\ req[q].op = "create"
         \/ req[q].pc = "recalc" /\ req[q].op \in {"delete", "join"}
  BY Commit_Ind
  DEF Commit, Complete, Active, SeqInv, CallSound, CallCurrent, GrantSound,
      OneAtATime, TypeOK
<1>2. \A x \in Reqs : ~Active(x)'
  BY <1>1, GotoFacts, OthersRest DEF Active
<1>3. Alone' /\ \A x \in Reqs : CallSound(x)'
  BY <1>2 DEF Alone, CallSound, CallCurrent, GrantSound, DeleteSound,
              JoinSound, Active, InTx
<1>4. FreshUnused'
  <2>1. CASE req[q].op = "create"
    <3>1. req[q].role \notin fresh
      BY <1>1, <2>1 DEF CallSound, GrantSound
    <3>2. \A r \in fresh : roles'[r] = roles[r] /\ holders'[r] = holders[r]
      BY <2>1, <3>1 DEF Commit, TypeOK
    <3>3. QED
      BY <1>1, <3>2 DEF FreshUnused
  <2>2. CASE req[q].op = "delete"
    BY <1>1, <2>2 DEF Commit, TypeOK, FreshUnused
  <2>3. CASE req[q].op = "join"
    BY <1>1, <2>3 DEF Commit, FreshUnused
  <2>4. QED
    BY <1>1, <2>1, <2>2, <2>3
<1>5. RowsEffective'
  BY CommitRows DEF RowsEffective
<1>6. QED
  BY <1>3, <1>4, <1>5 DEF SeqInv

\* Every step keeps SeqInv; edits and swallowed errors do not happen.
LEMMA NextSeq ==
  ASSUME OneAtATime, IndInv, SeqInv, [Next]_vars
  PROVE  SeqInv'
<1>1. TypeOK
  BY DEF IndInv
<1>2. ASSUME NEW q \in Reqs, Arrive(q) PROVE SeqInv'
  <2>1. PICK u \in Users :
          \/ \E op, r, ps, ms : /\ Start(q, op, u, r, ps, ms)
                                /\ op = "delete" => r \in Roles
          \/ SignUp(q, u)
    BY <1>2
       DEF Arrive, CreateCommunityRole, EditCommunityRole,
           DeleteCommunityRole, EditCommunityDefaultPermissions, OtherHandler
  <2>2. QED
    BY <1>1, <2>1, StartSeq, SignUpSeq
<1>3. ASSUME NEW q \in Reqs, Active(q), UNCHANGED dbVars, NEW pc,
             pc \notin InTx \cup {"update"}, Goto(q, pc)
      PROVE  SeqInv'
  BY <1>1, <1>3, EarlyStep
<1>4. ASSUME NEW q \in Reqs,
             \/ CheckCached(q) \/ CheckMissed(q) \/ CheckRow(q) \/ CheckNoRow(q)
             \/ LookupRole(q) \/ CreateExhausted(q) \/ Abort(q)
      PROVE  SeqInv'
  <2>1. Active(q) /\ UNCHANGED dbVars /\ CallSound(q)
    BY <1>4 DEF CheckCached, CheckMissed, CheckRow, CheckNoRow, LookupRole,
                CreateExhausted, Abort, Active, SeqInv
  <2>2. CASE CheckCached(q) \/ CheckRow(q)
    <3>1. PICK ps : Decide(q, ps)
      BY <2>2 DEF CheckCached, CheckRow
    <3>2. PICK pc \in {"lookup", "begin", "done", "refused"} : Goto(q, pc)
      BY <3>1 DEF Decide, Authorised
    <3>3. QED
      BY <1>3, <2>1, <3>2 DEF InTx
  <2>3. CASE LookupRole(q)
    <3>1. req[q].op # "edit"
      BY <2>1 DEF CallSound, CallCurrent, OneAtATime
    <3>2. PICK pc \in {"done", "begin"} : Goto(q, pc)
      BY <2>3, <3>1 DEF LookupRole
    <3>3. QED
      BY <1>3, <2>1, <3>2 DEF InTx
  <2>4. CASE CheckMissed(q) \/ CheckNoRow(q) \/ CreateExhausted(q) \/ Abort(q)
    <3>1. PICK pc \in {"select", "refused", "done"} : Goto(q, pc)
      BY <2>4 DEF CheckMissed, CheckNoRow, CreateExhausted, Abort
    <3>2. QED
      BY <1>3, <2>1, <3>1 DEF InTx
  <2>5. QED
    BY <1>4, <2>2, <2>3, <2>4
<1>5. ASSUME NEW q \in Reqs
      PROVE  /\ ~UpdateRole(q) /\ ~BeginEdit(q) /\ ~BeginDefaults(q)
             /\ ~Assign(q) /\ ~SignUpUnset(q)
             /\ \A u \in Users : ~GrantUnassigned(q, u)
  <2>1. CallSound(q)
    BY DEF SeqInv
  <2>2. QED
    BY <2>1 DEF UpdateRole, BeginEdit, BeginDefaults, Assign, SignUpUnset,
                GrantUnassigned, CallSound, CallCurrent, OneAtATime, Active
<1>6. ASSUME NEW q \in Reqs, Progress(q) PROVE SeqInv'
  BY <1>1, <1>4, <1>5, <1>6, BeginCreateSeq, BeginDeleteSeq, GrantSeq,
     RecalcSeq, UnassignSeq, CommitSeq
  DEF Progress
<1>7. ASSUME NEW q \in Reqs, SetCache(q) \/ SetCacheFails(q) PROVE SeqInv'
  BY <1>7, CacheStep DEF SetCache, SetCacheFails
<1>8. ASSUME NEW q \in Reqs, Fault(q) PROVE SeqInv'
  BY <1>1, <1>4, <1>5, <1>7, <1>8, CheckFailsSeq DEF Fault
<1>9. ASSUME NEW u \in Users, Expire(u) PROVE SeqInv'
  BY <1>9, CacheStep DEF Expire
<1>10. CASE UNCHANGED vars
  BY <1>10, CacheStep DEF vars, dbVars
<1>11. QED
  BY <1>2, <1>6, <1>7, <1>8, <1>9, <1>10 DEF Next, Finished

\* Creating and deleting roles and signing up, one request after the other and
\* failing anywhere, leave every member's row with exactly the defaults and
\* the permissions of its roles.
THEOREM RowsStayInAgreement ==
  ASSUME OneAtATime
  PROVE  Spec => []RowsAgree
<1>1. Init => SeqInv
  <2> SUFFICES ASSUME Init PROVE SeqInv
    OBVIOUS
  <2>1. \A q \in Reqs : req[q].pc = "idle"
    BY DEF Init
  <2>2. Alone /\ \A q \in Reqs : CallSound(q)
    BY <2>1 DEF Alone, CallSound, CallCurrent, GrantSound, DeleteSound,
                JoinSound, Active, InTx
  <2>3. FreshUnused
    BY DEF Init, FreshUnused
  <2>4. RowsEffective
    BY DEF Init, RowsEffective, Effective
  <2>5. QED
    BY <2>2, <2>3, <2>4 DEF SeqInv
<1>2. IndInv /\ SeqInv /\ [Next]_vars => SeqInv'
  BY NextSeq
<1>3. SeqInv => RowsAgree
  BY DEF SeqInv, RowsEffective, RowsAgree
<1>4. QED
  BY <1>1, <1>2, <1>3, PermInvHolds, PTL DEF Spec

=============================================================================
