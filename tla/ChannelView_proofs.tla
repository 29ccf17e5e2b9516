------------------------- MODULE ChannelView_proofs -------------------------
(***************************************************************************)
(* Proofs about ChannelView, for any users, roles, page size and bounds.   *)
(* The argument of PagingMissesNothing is in IndInv: no message ever has   *)
(* fewer newer ones than before, unless all are deleted.  A client that    *)
(* was once shown another channel is left out of it.                       *)
(***************************************************************************)
EXTENDS ChannelView, FiniteSetTheorems, TLAPS

-----------------------------------------------------------------------------
(***************************************************************************)
(* Counting.                                                               *)
(***************************************************************************)

\* Sets of messages are finite.
LEMMA MsgsFinite ==
  ASSUME NEW S \in SUBSET MsgId
  PROVE  IsFiniteSet(S) /\ Cardinality(S) \in Nat
<1>1. IsFiniteSet(MsgId)
  BY ViewAssumption, FS_Interval DEF MsgId
<1>2. QED
  BY <1>1, FS_Subset, FS_CardinalityType

\* A message is counted by a number, and there is one more than its newer ones.
LEMMA NewerCounts ==
  ASSUME NEW m \in Posted
  PROVE  /\ Newer(m) \in Nat /\ Cardinality(Posted) \in Nat
         /\ Newer(m) < Cardinality(Posted)
<1> DEFINE N == {n \in Posted : n > m}
<1>1. Posted \in SUBSET MsgId /\ N \in SUBSET MsgId /\ N \in SUBSET Posted
  BY DEF Posted
<1>2. /\ IsFiniteSet(Posted) /\ Cardinality(Posted) \in Nat
      /\ IsFiniteSet(N) /\ Cardinality(N) \in Nat
  BY <1>1, MsgsFinite
<1>3. N # Posted
  BY ViewAssumption DEF Posted, MsgId
<1>4. Cardinality(N) <= Cardinality(Posted) /\ Cardinality(N) # Cardinality(Posted)
  BY <1>1, <1>2, <1>3, FS_Subset
<1>5. QED
  BY <1>2, <1>4 DEF Newer

\* Messages that come do not take newer ones away from any message.
LEMMA NewerGrows ==
  ASSUME Posted \subseteq Posted', NEW m \in Posted
  PROVE  Newer(m) <= Newer(m)'
<1> DEFINE N == {n \in Posted : n > m}
           M == {n \in Posted' : n > m}
<1>1. N \in SUBSET M /\ M \in SUBSET MsgId
  BY DEF Posted, MsgId
<1>2. IsFiniteSet(M)
  BY <1>1, MsgsFinite
<1>3. Cardinality(N) <= Cardinality(M)
  BY <1>1, <1>2, FS_Subset
<1>4. QED
  BY <1>3 DEF Newer

\* OFFSETs are numbers.
LEMMA OffsetsNatural ==
  ASSUME NEW p \in Nat
  PROVE  p * PageSize \in Nat /\ (p + 1) * PageSize \in Nat
  BY ViewAssumption

-----------------------------------------------------------------------------
(***************************************************************************)
(* Types.                                                                  *)
(***************************************************************************)

\* The initial state has its types.
LEMMA InitType == Init => TypeOK
<1> SUFFICES ASSUME Init PROVE TypeOK
  OBVIOUS
<1>1. FirstMsgs \in Nat /\ MaxMsgs \in Nat
  BY ViewAssumption
<1>2. msg \in [MsgId -> Users \cup {None}]
  <2>1. ASSUME NEW m \in MsgId, m <= FirstMsgs
        PROVE  (CHOOSE u \in FirstMembers : TRUE) \in Users
    <3>1. FirstMembers # {}
      BY <2>1, ViewAssumption DEF MsgId
    <3>2. QED
      BY <3>1, ViewAssumption
  <2>2. QED
    BY <2>1 DEF Init
<1>3. view \in View
  BY DEF Init, View, Lists, NoLists
<1>4. QED
  BY <1>1, <1>2, <1>3, ViewAssumption DEF Init, TypeOK, Channels

\* The priority a new role is given is in range.
LEMMA PriorityInRange ==
  ASSUME NEW S \in SUBSET Roles
  PROVE  Cardinality(S) \in 0..Cardinality(Roles)
<1>1. /\ IsFiniteSet(S) /\ Cardinality(S) <= Cardinality(Roles)
      /\ Cardinality(Roles) \in Nat
  BY ViewAssumption, FS_Subset, FS_CardinalityType
<1>2. QED
  BY <1>1, FS_CardinalityType

\* So is the one a list of two roles gives.
LEMMA PlaceInRange ==
  ASSUME NEW a \in Roles, NEW b \in Roles, NEW r \in Roles,
         NEW S, S = {i \in 1..Len(<<a, b>>) : <<a, b>>[i] = r}, S # {}
  PROVE  Max(S) - 1 \in 0..Cardinality(Roles)
<1>1. S \subseteq {1, 2}
  OBVIOUS
<1>2. Max(S) \in S
  <2>1. \E x \in S : \A y \in S : x >= y
    BY <1>1
  <2>2. QED
    BY <2>1 DEF Max
<1>3. Cardinality(Roles) \in Nat /\ Cardinality(Roles) >= 1
  <2>1. Cardinality({r}) = 1 /\ {r} \in SUBSET Roles
    BY FS_Singleton
  <2>2. 1 \in 0..Cardinality(Roles)
    BY <2>1, PriorityInRange
  <2>3. QED
    BY <2>2, ViewAssumption, FS_CardinalityType
<1>4. Max(S) = 1 \/ Max(S) = 2
  BY <1>1, <1>2
<1>5. QED
  BY <1>3, <1>4

\* What other handlers commit has its type.
LEMMA OthersType ==
  ASSUME TypeOK,
         \/ \E u \in Users : InsertMessage(u) \/ SignUp(u)
         \/ \E m \in MsgId : CommitMessage(m)
         \/ \E c \in Channels :
               DeleteChannel(c) \/ EditChannel(c) \/ ChannelSelect(c)
         \/ UpdateSelected
  PROVE  TypeOK'
<1>1. ASSUME NEW u \in Users, InsertMessage(u) PROVE TypeOK'
  BY <1>1 DEF TypeOK, InsertMessage, Called, channelVars, roleVars, readerVars
<1>2. ASSUME NEW u \in Users, SignUp(u) PROVE TypeOK'
  BY <1>2 DEF TypeOK, SignUp, Called, channelVars, msgVars, readerVars
<1>3. ASSUME NEW m \in MsgId, CommitMessage(m) PROVE TypeOK'
  BY <1>3 DEF TypeOK, CommitMessage, channelVars, roleVars, readerVars
<1>4. ASSUME NEW c \in Channels, DeleteChannel(c) PROVE TypeOK'
  BY <1>4 DEF TypeOK, DeleteChannel, Called, roleVars, readerVars
<1>5. ASSUME NEW c \in Channels, ChannelSelect(c) PROVE TypeOK'
  BY <1>5 DEF TypeOK, ChannelSelect, Called, roleVars, msgVars, readerVars
<1>6. ASSUME UpdateSelected PROVE TypeOK'
  BY <1>6 DEF TypeOK, UpdateSelected, roleVars, msgVars, readerVars
<1>7. ASSUME NEW c \in Channels, EditChannel(c) PROVE TypeOK'
  BY <1>7 DEF TypeOK, EditChannel, Called, roleVars, msgVars, readerVars
<1>8. QED
  BY <1>1, <1>2, <1>3, <1>4, <1>5, <1>6, <1>7

\* So has what becomes of the roles.
LEMMA RolesType ==
  ASSUME TypeOK,
         \/ \E r \in Roles :
               \/ \E us \in SUBSET members :
                     \/ \E b \in BOOLEAN : CreateCommunityRole(r, b, us)
                     \/ EditRoleUsers(r, us)
               \/ EditCommunityRole(r) \/ DeleteCommunityRole(r)
         \/ \E r, x \in Roles : EditCommunityRolesPriority(<<r, x>>)
  PROVE  TypeOK'
<1>1. ASSUME NEW r \in Roles, NEW us \in SUBSET members, NEW b \in BOOLEAN,
             CreateCommunityRole(r, b, us)
      PROVE  TypeOK'
  <2>1. Cardinality({x \in Roles : roles[x] # None}) \in 0..Cardinality(Roles)
    BY PriorityInRange
  <2>2. roles' \in [Roles -> Role \cup {None}]
    BY <1>1, <2>1 DEF TypeOK, CreateCommunityRole, Role
  <2>3. holders' \in SUBSET (Users \X Roles) /\ fresh' \in SUBSET Roles
    BY <1>1 DEF TypeOK, CreateCommunityRole
  <2>4. QED
    BY <1>1, <2>2, <2>3
    DEF TypeOK, CreateCommunityRole, Called, channelVars, msgVars, readerVars
<1>2. ASSUME NEW r \in Roles, NEW us \in SUBSET members, EditRoleUsers(r, us)
      PROVE  TypeOK'
  <2>1. holders' \in SUBSET (Users \X Roles)
    BY <1>2 DEF TypeOK, EditRoleUsers
  <2>2. QED
    BY <1>2, <2>1
    DEF TypeOK, EditRoleUsers, Called, channelVars, msgVars, readerVars
<1>3. ASSUME NEW r \in Roles, EditCommunityRole(r) PROVE TypeOK'
  <2>1. roles[r] \in Role
    BY <1>3 DEF TypeOK, EditCommunityRole
  <2>2. [roles[r] EXCEPT !.prominent = ~@] \in Role
    BY <2>1 DEF Role
  <2>3. roles' \in [Roles -> Role \cup {None}]
    BY <1>3, <2>2 DEF TypeOK, EditCommunityRole
  <2>4. QED
    BY <1>3, <2>3
    DEF TypeOK, EditCommunityRole, Called, channelVars, msgVars, readerVars
<1>4. ASSUME NEW r \in Roles, DeleteCommunityRole(r) PROVE TypeOK'
  <2>1. roles' \in [Roles -> Role \cup {None}]
    BY <1>4 DEF TypeOK, DeleteCommunityRole
  <2>2. QED
    BY <1>4, <2>1
    DEF TypeOK, DeleteCommunityRole, Called, channelVars, msgVars, readerVars
<1>5. ASSUME NEW a \in Roles, NEW b \in Roles,
             EditCommunityRolesPriority(<<a, b>>)
      PROVE  TypeOK'
  <2> DEFINE places(r) == {i \in 1..Len(<<a, b>>) : <<a, b>>[i] = r}
             now(r) == IF roles[r] = None \/ places(r) = {} THEN roles[r]
                       ELSE [roles[r] EXCEPT !.priority = Max(places(r)) - 1]
  <2>1. ASSUME NEW r \in Roles PROVE now(r) \in Role \cup {None}
    <3>1. CASE roles[r] = None \/ places(r) = {}
      BY <3>1 DEF TypeOK
    <3>2. CASE roles[r] # None /\ places(r) # {}
      <4>1. Max(places(r)) - 1 \in 0..Cardinality(Roles)
        BY <3>2, PlaceInRange
      <4>2. roles[r] \in Role
        BY <3>2 DEF TypeOK
      <4>3. QED
        BY <3>2, <4>1, <4>2 DEF Role
    <3>3. QED
      BY <3>1, <3>2
  <2>2. roles' = [r \in Roles |-> now(r)]
    BY <1>5 DEF EditCommunityRolesPriority
  <2>3. roles' \in [Roles -> Role \cup {None}]
    BY <2>1, <2>2
  <2>4. /\ calls' = calls + 1
        /\ UNCHANGED <<channelVars, members, fresh, holders, msgVars, readerVars>>
    BY <1>5, Zenon DEF EditCommunityRolesPriority, Called
  <2>5. QED
    BY <2>3, <2>4 DEF TypeOK, channelVars, msgVars, readerVars
<1>6. QED
  BY <1>1, <1>2, <1>3, <1>4, <1>5

\* A reply puts every user under first[u], and the client turns the page.
LEMMA ReplyFacts ==
  ASSUME TypeOK, ReadRolesUsers
  PROVE  /\ view' \in View
         /\ view'.users = view.users /\ view'.remaining = view.remaining
         /\ view'.stray = view.stray
         /\ view.remaining = 0 => view'.pc = "over"
         /\ view.remaining # 0 => view'.pc = "start"
                                /\ view'.page = view.page + 1
         /\ \E first \in [view.users -> Roles \cup {Others}] :
              /\ \A u \in view.users :
                    IF ProminentRoles(u) = {} THEN first[u] = Others
                    ELSE Heads(u, first[u])
              /\ \A h \in Roles \cup {Others} :
                    view'.lists[h] =
                      IF h = Others \/ (/\ view.roles[h] # None
                                        /\ view.roles[h].prominent)
                      THEN {u \in view.users : first[u] = h} ELSE {}
<1>1. PICK first \in [view.users -> Roles \cup {Others}] :
        /\ \A u \in view.users :
              IF ProminentRoles(u) = {} THEN first[u] = Others
              ELSE Heads(u, first[u])
        /\ view' =
             [view EXCEPT
                !.pc = IF view.remaining = 0 THEN "over" ELSE "start",
                !.page = IF view.remaining = 0 THEN @ ELSE @ + 1,
                !.lists = [h \in Roles \cup {Others} |->
                             IF h = Others \/ (/\ view.roles[h] # None
                                               /\ view.roles[h].prominent)
                             THEN {u \in view.users : first[u] = h}
                             ELSE {}]]
  BY DEF ReadRolesUsers
<1> DEFINE lists == [h \in Roles \cup {Others} |->
                       IF h = Others \/ (/\ view.roles[h] # None
                                         /\ view.roles[h].prominent)
                       THEN {u \in view.users : first[u] = h}
                       ELSE {}]
           pc == IF view.remaining = 0 THEN "over" ELSE "start"
           page == IF view.remaining = 0 THEN view.page ELSE view.page + 1
<1>2. lists \in Lists
  BY DEF TypeOK, View, Lists
<1>3. /\ pc \in {"over", "start"} /\ page \in Nat
      /\ view.remaining = 0 => pc = "over"
      /\ view.remaining # 0 => pc = "start" /\ page = view.page + 1
  BY DEF TypeOK, View
<1>4. view' = [view EXCEPT !.pc = pc, !.page = page, !.lists = lists]
  BY <1>1 DEF TypeOK, View
<1>5. \A h \in Roles \cup {Others} :
        lists[h] = IF h = Others \/ (/\ view.roles[h] # None
                                     /\ view.roles[h].prominent)
                   THEN {u \in view.users : first[u] = h} ELSE {}
  OBVIOUS
<1> HIDE DEF lists, pc, page
<1>6. /\ view' \in View
      /\ view'.users = view.users /\ view'.remaining = view.remaining
      /\ view'.stray = view.stray
      /\ view'.pc = pc /\ view'.page = page /\ view'.lists = lists
  BY <1>2, <1>3, <1>4 DEF TypeOK, View
<1>7. QED
  BY <1>1, <1>3, <1>5, <1>6

\* The call of Channel keeps its own types, whatever it reads.
LEMMA ChannelType ==
  ASSUME TypeOK, Channel
  PROVE  TypeOK'
<1>1. ASSUME ReadDefaultChannel PROVE TypeOK'
  BY <1>1 DEF TypeOK, ReadDefaultChannel, View, channelVars, roleVars, msgVars
<1>2. ASSUME ReadChannel PROVE TypeOK'
  BY <1>2 DEF TypeOK, ReadChannel, View, channelVars, roleVars, msgVars
<1>3. ASSUME ReadRoles PROVE TypeOK'
  BY <1>3 DEF TypeOK, ReadRoles, View, channelVars, roleVars, msgVars
<1>4. ASSUME ReadMessages PROVE TypeOK'
  <2> DEFINE shown == Page(view.page)
             authors == {msg[m] : m \in shown}
  <2>1. shown \subseteq Posted /\ Posted \subseteq MsgId
    BY DEF Page, Posted
  <2>2. authors \in SUBSET Users
    BY <2>1 DEF TypeOK, Posted
  <2>3. view' = [view EXCEPT !.pc = "count", !.users = @ \cup authors]
    BY <1>4 DEF ReadMessages
  <2>4. view' \in View
    BY <2>2, <2>3 DEF TypeOK, View
  <2>5. seen' \in SUBSET MsgId /\ base' \in SUBSET MsgId
    BY <1>4, <2>1 DEF ReadMessages, TypeOK
  <2>6. QED
    BY <1>4, <2>4, <2>5
    DEF TypeOK, ReadMessages, channelVars, roleVars, msgVars
<1>5. ASSUME CountMessages PROVE TypeOK'
  <2>1. Remaining(view.page) \in Nat
    <3>1. Total \in Nat
      BY MsgsFinite, ViewAssumption DEF Posted, Total
    <3>2. view.page \in Nat
      BY DEF TypeOK, View
    <3>3. (view.page + 1) * PageSize \in Nat
      BY <3>2, OffsetsNatural
    <3>4. QED
      BY <3>1, <3>3 DEF Remaining
  <2>2. view' \in View
    BY <1>5, <2>1 DEF TypeOK, CountMessages, View
  <2>3. QED
    BY <1>5, <2>2 DEF TypeOK, CountMessages, channelVars, roleVars, msgVars
<1>6. ASSUME ReadRolesUsers PROVE TypeOK'
  <2>1. view' \in View
    BY <1>6, ReplyFacts
  <2>2. UNCHANGED <<channelVars, roleVars, msgVars, calls, base, seen>>
    BY <1>6 DEF ReadRolesUsers
  <2>3. QED
    BY <2>1, <2>2 DEF TypeOK, channelVars, roleVars, msgVars
<1>7. ASSUME QueryFails PROVE TypeOK'
  BY <1>7 DEF TypeOK, QueryFails, View, channelVars, roleVars, msgVars
<1>8. QED
  BY <1>1, <1>2, <1>3, <1>4, <1>5, <1>6, <1>7 DEF Channel

\* Every step keeps the types.
LEMMA NextType == TypeOK /\ [Next]_vars => TypeOK'
<1> SUFFICES ASSUME TypeOK, [Next]_vars PROVE TypeOK'
  OBVIOUS
<1>1. CASE UNCHANGED vars
  BY <1>1 DEF TypeOK, vars
<1>2. CASE Next
  <2>1. CASE Rest
    BY <2>1, <1>1 DEF Rest
  <2>2. QED
    BY <1>2, <2>1, OthersType, RolesType, ChannelType DEF Next
<1>3. QED
  BY <1>1, <1>2

\* Tables, ids and the call of Channel keep their types.
THEOREM ChannelViewTypeCorrect == Spec => []TypeOK
  BY InitType, NextType, PTL DEF Spec

-----------------------------------------------------------------------------
(***************************************************************************)
(* Everybody is listed once.                                               *)
(***************************************************************************)

\* The other handlers do not touch what the reader holds.
LEMMA OthersKeepReader ==
  ASSUME Next, ~Channel
  PROVE  UNCHANGED readerVars
  BY DEF Next, InsertMessage, SignUp, CommitMessage, DeleteChannel,
         EditChannel, ChannelSelect, UpdateSelected, CreateCommunityRole, EditRoleUsers,
         EditCommunityRole, DeleteCommunityRole, EditCommunityRolesPriority,
         Rest, readerVars, vars

\* Whoever has a role that was read as prominent is under one of those, and
\* only there: the role that was chosen is among the ones that get a list.
LEMMA ReplyListsOnce ==
  ASSUME TypeOK, ReadRolesUsers, NEW u \in view.users
  PROVE  Cardinality({h \in Roles \cup {Others} : u \in view'.lists[h]}) = 1
<1>1. PICK first \in [view.users -> Roles \cup {Others}] :
        /\ \A v \in view.users :
              IF ProminentRoles(v) = {} THEN first[v] = Others
              ELSE Heads(v, first[v])
        /\ \A h \in Roles \cup {Others} :
              view'.lists[h] =
                IF h = Others \/ (/\ view.roles[h] # None
                                  /\ view.roles[h].prominent)
                THEN {v \in view.users : first[v] = h} ELSE {}
  BY ReplyFacts
<1> DEFINE f == first[u]
<1>2. f \in Roles \cup {Others}
  OBVIOUS
<1>3. f # Others => view.roles[f] # None /\ view.roles[f].prominent
  BY <1>1 DEF Heads, ProminentRoles, RoleOf
<1>4. u \in view'.lists[f]
  <2>1. view'.lists[f] = {v \in view.users : first[v] = f}
    <3>1. CASE f = Others
      BY <1>1, <1>2, <3>1
    <3>2. CASE f # Others
      BY <1>1, <1>2, <1>3, <3>2, Zenon
    <3>3. QED
      BY <3>1, <3>2
  <2>2. QED
    BY <2>1
<1>5. \A h \in Roles \cup {Others} : u \in view'.lists[h] => h = f
  BY <1>1
<1>6. {h \in Roles \cup {Others} : u \in view'.lists[h]} = {f}
  BY <1>2, <1>4, <1>5
<1>7. QED
  BY <1>6, FS_Singleton

\* A step keeps EveryoneListedOnce: the lists and the users change together.
LEMMA NextListsOnce ==
  TypeOK /\ EveryoneListedOnce /\ [Next]_vars => EveryoneListedOnce'
<1> SUFFICES ASSUME TypeOK, EveryoneListedOnce, [Next]_vars
             PROVE  EveryoneListedOnce'
  OBVIOUS
<1>1. CASE UNCHANGED readerVars
  BY <1>1 DEF readerVars, EveryoneListedOnce
<1>2. CASE ReadRolesUsers
  <2>1. view'.users = view.users
    BY <1>2, ReplyFacts
  <2>2. QED
    BY <1>2, <2>1, ReplyListsOnce DEF EveryoneListedOnce
<1>3. CASE ReadDefaultChannel
  <2>1. /\ view.pc = "start"
        /\ view'.users = view.users /\ view'.lists = view.lists
    BY <1>3 DEF ReadDefaultChannel, TypeOK, View
  <2>2. QED
    BY <2>1 DEF EveryoneListedOnce
<1>4. CASE ReadChannel \/ ReadRoles \/ ReadMessages \/ CountMessages \/ QueryFails
  <2>1. view'.pc \in {"roles", "messages", "count", "users", "failed"}
    BY <1>4 DEF ReadChannel, ReadRoles, ReadMessages, CountMessages,
                QueryFails, TypeOK, View
  <2>2. QED
    BY <2>1 DEF EveryoneListedOnce
<1>5. CASE UNCHANGED vars
  BY <1>1, <1>5 DEF vars, readerVars
<1>6. QED
  BY <1>1, <1>2, <1>3, <1>4, <1>5, OthersKeepReader DEF Channel

\* A reply of Channel lists everybody it has read, members and authors, under
\* exactly one heading, though roles and their users are read at different
\* times and two roles may have one priority.
THEOREM EverybodyIsListedOnce == Spec => []EveryoneListedOnce
<1>1. Init => EveryoneListedOnce
  BY DEF Init, EveryoneListedOnce
<1>2. QED
  BY <1>1, NextListsOnce, ChannelViewTypeCorrect, PTL DEF Spec

-----------------------------------------------------------------------------
(***************************************************************************)
(* Paging misses nothing.                                                  *)
(***************************************************************************)

\* There is nothing to miss before the newest page is read.
LEMMA InitInv == Init => IndInv
<1> SUFFICES ASSUME Init PROVE IndInv
  OBVIOUS
<1>1. TypeOK
  BY InitType
<1>2. IdsOnce
  BY ViewAssumption DEF Init, IdsOnce, MsgId
<1>3. BaseSettled /\ ReadsHere /\ UnseenBeyond /\ CountedOut
  BY DEF Init, BaseSettled, ReadsHere, UnseenBeyond, CountedOut
<1>4. QED
  BY <1>1, <1>2, <1>3 DEF IndInv

\* What a step of the other handlers leaves to the reader: the messages it
\* began with are there as before, or the channel was emptied.
Steady ==
    /\ UNCHANGED readerVars
    /\ \/ Posted \subseteq Posted' /\ base \cap Posted' \subseteq Posted
       \/ Posted' = {}

\* Such a step keeps a message not shown yet beyond the pages read.
LEMMA SteadyKeeps ==
  ASSUME TypeOK, ReadsHere, UnseenBeyond, CountedOut, Steady
  PROVE  ReadsHere' /\ UnseenBeyond' /\ CountedOut'
<1>1. view' = view /\ base' = base /\ seen' = seen
  BY DEF Steady, readerVars
<1>2. CountedOut'
  BY <1>1 DEF CountedOut, Steady
<1>3. UnseenBeyond'
  <2> SUFFICES ASSUME view.pc \notin {"over", "failed"}, ~view.stray,
                      NEW m \in (base \cap Posted') \ seen
               PROVE  PagesRead * PageSize <= Newer(m)'
    BY <1>1 DEF UnseenBeyond, PagesRead
  <2>1. Posted \subseteq Posted' /\ m \in Posted
    BY DEF Steady
  <2>2. PagesRead * PageSize <= Newer(m)
    BY <2>1 DEF UnseenBeyond
  <2>3. Newer(m) <= Newer(m)'
    BY <2>1, NewerGrows
  <2>4. Newer(m) \in Nat /\ Newer(m)' \in Nat
    <3>1. {n \in Posted : n > m} \in SUBSET MsgId
      BY DEF Posted
    <3>2. {n \in Posted' : n > m} \in SUBSET MsgId
      BY DEF Posted, MsgId
    <3>3. QED
      BY <3>1, <3>2, MsgsFinite DEF Newer
  <2>5. PagesRead * PageSize \in Nat
    BY OffsetsNatural DEF PagesRead, TypeOK, View
  <2>6. QED
    BY <2>2, <2>3, <2>4, <2>5
<1>4. ReadsHere'
  BY <1>1 DEF ReadsHere
<1>5. QED
  BY <1>2, <1>3, <1>4

\* A step that leaves the messages and the reader alone.
LEMMA IdleSteady ==
  ASSUME IdsOnce, BaseSettled, UNCHANGED <<msgVars, readerVars>>
  PROVE  Steady /\ IdsOnce' /\ BaseSettled'
  BY DEF Steady, IdsOnce, BaseSettled, Posted, msgVars, readerVars

\* The other handlers post messages under new ids, and delete all of them.
LEMMA OthersSteady ==
  ASSUME TypeOK, IdsOnce, BaseSettled, Next, ~Channel
  PROVE  Steady /\ IdsOnce' /\ BaseSettled'
<1>1. ASSUME NEW u \in Users, InsertMessage(u)
      PROVE  Steady /\ IdsOnce' /\ BaseSettled'
  <2>1. Steady
    BY <1>1 DEF InsertMessage, Steady, Posted
  <2>2. IdsOnce'
    BY <1>1, ViewAssumption DEF InsertMessage, IdsOnce, TypeOK, MsgId
  <2>3. BaseSettled'
    BY <1>1, ViewAssumption
    DEF InsertMessage, BaseSettled, readerVars, TypeOK, MsgId
  <2>4. QED
    BY <2>1, <2>2, <2>3
<1>2. ASSUME NEW m \in MsgId, CommitMessage(m)
      PROVE  Steady /\ IdsOnce' /\ BaseSettled'
  <2>1. m \notin base /\ m < nextId /\ msg[m] = None
    BY <1>2, ViewAssumption
    DEF CommitMessage, BaseSettled, IdsOnce, TypeOK, MsgId
  <2>2. Posted \subseteq Posted' /\ Posted' \subseteq Posted \cup {m}
    BY <1>2, <2>1 DEF CommitMessage, Posted, TypeOK
  <2>3. Steady
    BY <1>2, <2>1, <2>2 DEF CommitMessage, Steady
  <2>4. IdsOnce'
    BY <1>2, <2>1, ViewAssumption DEF CommitMessage, IdsOnce, TypeOK, MsgId
  <2>5. BaseSettled'
    BY <1>2 DEF CommitMessage, BaseSettled, readerVars, TypeOK
  <2>6. QED
    BY <2>3, <2>4, <2>5
<1>3. ASSUME NEW c \in Channels, DeleteChannel(c)
      PROVE  Steady /\ IdsOnce' /\ BaseSettled'
  <2>1. CASE c = Here
    <3>1. Posted' = {}
      BY <1>3, <2>1 DEF DeleteChannel, Posted
    <3>2. Steady
      BY <1>3, <3>1 DEF DeleteChannel, Steady
    <3>3. IdsOnce' /\ BaseSettled'
      BY <1>3, <2>1 DEF DeleteChannel, IdsOnce, BaseSettled, readerVars
    <3>4. QED
      BY <3>2, <3>3
  <2>2. CASE c # Here
    BY <1>3, <2>2, IdleSteady DEF DeleteChannel, msgVars
  <2>3. QED
    BY <2>1, <2>2
<1>4. CASE \/ \E u \in Users : SignUp(u)
           \/ \E c \in Channels : EditChannel(c) \/ ChannelSelect(c)
           \/ UpdateSelected
           \/ \E r \in Roles :
                 \/ \E us \in SUBSET members :
                       \/ \E b \in BOOLEAN : CreateCommunityRole(r, b, us)
                       \/ EditRoleUsers(r, us)
                 \/ EditCommunityRole(r) \/ DeleteCommunityRole(r)
           \/ \E r, x \in Roles : EditCommunityRolesPriority(<<r, x>>)
           \/ Rest
  <2>1. UNCHANGED <<msgVars, readerVars>>
    BY <1>4
    DEF SignUp, EditChannel, ChannelSelect, UpdateSelected, CreateCommunityRole,
        EditRoleUsers, EditCommunityRole, DeleteCommunityRole,
        EditCommunityRolesPriority, Rest, vars, msgVars, readerVars
  <2>2. QED
    BY <2>1, IdleSteady
<1>5. QED
  BY <1>1, <1>2, <1>3, <1>4 DEF Next

\* Reading a page shows what is between its two OFFSETs.
LEMMA ReadMessagesKeeps ==
  ASSUME IndInv, ReadMessages
  PROVE  BaseSettled' /\ UnseenBeyond' /\ CountedOut'
<1> USE DEF IndInv
<1>1. /\ view'.pc = "count" /\ view'.page = view.page
      /\ view'.stray = view.stray
      /\ seen' = seen \cup Page(view.page)
      /\ base' = IF view.page = 0 THEN Posted ELSE base
      /\ msg' = msg /\ posting' = posting /\ nextId' = nextId
  BY DEF ReadMessages, msgVars, TypeOK, View
<1>2. view.page \in Nat /\ view.pc = "messages"
  BY DEF TypeOK, View, ReadMessages
<1>3. BaseSettled'
  <2>1. \A m \in Posted : m < nextId /\ posting[m] = None
    BY ViewAssumption DEF Posted, IdsOnce, TypeOK, MsgId
  <2>2. QED
    BY <1>1, <2>1 DEF BaseSettled
<1>4. Posted' = Posted
  BY <1>1 DEF Posted
<1>5. UnseenBeyond'
  <2> SUFFICES ASSUME ~view.stray, NEW m \in (base' \cap Posted) \ seen'
               PROVE  (view.page + 1) * PageSize <= Newer(m)
    BY <1>1, <1>4 DEF UnseenBeyond, PagesRead, Newer
  <2>1. Newer(m) \in Nat
    BY NewerCounts
  <2>2. view.page * PageSize \in Nat /\ (view.page + 1) * PageSize \in Nat
    BY <1>2, OffsetsNatural
  <2>3. view.page * PageSize <= Newer(m)
    <3>1. CASE view.page = 0
      BY <3>1, <2>1, ViewAssumption
    <3>2. CASE view.page # 0
      BY <3>2, <1>1, <1>2 DEF UnseenBeyond, PagesRead
    <3>3. QED
      BY <3>1, <3>2
  <2>4. m \notin Page(view.page)
    BY <1>1
  <2>5. QED
    BY <1>2, <2>1, <2>2, <2>3, <2>4 DEF Page, ReadsHere
<1>6. CountedOut'
  BY <1>1 DEF CountedOut
<1>7. QED
  BY <1>3, <1>5, <1>6

\* When the count leaves nothing after the pages read, nothing is beyond them.
LEMMA CountMessagesKeeps ==
  ASSUME IndInv, CountMessages
  PROVE  UnseenBeyond' /\ CountedOut'
<1> USE DEF IndInv
<1>1. /\ view'.pc = "users" /\ view'.page = view.page
      /\ view'.stray = view.stray
      /\ view'.remaining = Remaining(view.page)
      /\ seen' = seen /\ base' = base /\ msg' = msg
  BY DEF CountMessages, msgVars, TypeOK, View
<1>2. view.page \in Nat /\ view.pc = "count"
  BY DEF TypeOK, View, CountMessages
<1>3. Posted' = Posted
  BY <1>1 DEF Posted
<1>4. ~view.stray => \A m \in (base \cap Posted) \ seen :
        (view.page + 1) * PageSize <= Newer(m)
  BY <1>2 DEF UnseenBeyond, PagesRead
<1>5. UnseenBeyond'
  BY <1>1, <1>3, <1>4 DEF UnseenBeyond, PagesRead, Newer
<1>6. ASSUME ~view.stray, Remaining(view.page) = 0,
             NEW m \in (base \cap Posted) \ seen
      PROVE  FALSE
  <2>1. /\ Newer(m) \in Nat /\ Cardinality(Posted) \in Nat
        /\ Newer(m) < Cardinality(Posted)
    BY NewerCounts
  <2>2. (view.page + 1) * PageSize \in Nat
    BY <1>2, OffsetsNatural
  <2>3. (view.page + 1) * PageSize <= Newer(m)
    BY <1>4, <1>6
  <2>4. Total = Cardinality(Posted)
    BY <1>2, <1>6 DEF Total, ReadsHere
  <2>5. QED
    BY <1>6, <2>1, <2>2, <2>3, <2>4 DEF Remaining
<1>7. CountedOut'
  BY <1>1, <1>3, <1>6 DEF CountedOut
<1>8. QED
  BY <1>5, <1>7

\* A step of Channel keeps IndInv.
LEMMA ChannelKeeps ==
  ASSUME IndInv, Channel
  PROVE  /\ IdsOnce' /\ BaseSettled' /\ ReadsHere'
         /\ UnseenBeyond' /\ CountedOut'
<1> USE DEF IndInv
<1>1. UNCHANGED msgVars
  BY DEF Channel, ReadDefaultChannel, ReadChannel, ReadRoles, ReadMessages,
         CountMessages, ReadRolesUsers, QueryFails
<1>2. IdsOnce'
  BY <1>1 DEF IdsOnce, msgVars
<1>3. ReadsHere'
  <2>1. CASE ReadRolesUsers
    BY <2>1, ReplyFacts DEF ReadsHere
  <2>2. CASE \/ ReadDefaultChannel \/ ReadRoles \/ ReadMessages
             \/ CountMessages \/ QueryFails
    <3>1. /\ view'.of = view.of /\ view'.stray = view.stray
          /\ \/ view'.pc \in {"channel", "failed"}
             \/ view.pc \in {"roles", "messages", "count"}
      <4>1. CASE ReadDefaultChannel
        BY <4>1 DEF ReadDefaultChannel, TypeOK, View
      <4>2. CASE ReadRoles
        BY <4>2 DEF ReadRoles, TypeOK, View
      <4>3. CASE ReadMessages
        BY <4>3 DEF ReadMessages, TypeOK, View
      <4>4. CASE CountMessages
        BY <4>4 DEF CountMessages, TypeOK, View
      <4>5. CASE QueryFails
        BY <4>5 DEF QueryFails, TypeOK, View
      <4>6. QED
        BY <2>2, <4>1, <4>2, <4>3, <4>4, <4>5
    <3>2. QED
      BY <3>1 DEF ReadsHere
  <2>3. CASE ReadChannel
    BY <2>3 DEF ReadChannel, ReadsHere, TypeOK, View
  <2>4. QED
    BY <2>1, <2>2, <2>3 DEF Channel
<1>4. CASE ReadMessages
  BY <1>2, <1>3, <1>4, ReadMessagesKeeps
<1>5. CASE ~ReadMessages
  <2>1. base' = base /\ seen' = seen
    BY <1>5 DEF Channel, ReadDefaultChannel, ReadChannel, ReadRoles,
                CountMessages, ReadRolesUsers, QueryFails
  <2>2. BaseSettled'
    BY <1>1, <2>1 DEF BaseSettled, msgVars
  <2>3. Posted' = Posted /\ \A m : Newer(m)' = Newer(m)
    BY <1>1 DEF Posted, Newer, msgVars
  <2>4. CASE CountMessages
    BY <1>2, <1>3, <2>2, <2>4, CountMessagesKeeps
  <2>5. CASE ReadDefaultChannel \/ ReadChannel \/ ReadRoles
    <3>1. /\ view.pc \in {"start", "channel", "roles"}
          /\ view'.pc \in {"channel", "roles", "messages", "failed"}
          /\ view'.page = view.page /\ (view'.stray = FALSE => ~view.stray)
          /\ view'.stray \in BOOLEAN /\ view.stray \in BOOLEAN
      BY <2>5 DEF ReadDefaultChannel, ReadChannel, ReadRoles, TypeOK, View
    <3>2. UnseenBeyond'
      BY <2>1, <2>3, <3>1 DEF UnseenBeyond, PagesRead
    <3>3. CountedOut'
      BY <3>1 DEF CountedOut
    <3>4. QED
      BY <1>2, <1>3, <2>2, <3>2, <3>3
  <2>6. CASE ReadRolesUsers
    <3>1. /\ view.remaining = 0 => view'.pc = "over"
          /\ view.remaining # 0 => view'.pc = "start"
                                 /\ view'.page = view.page + 1
          /\ view'.stray = view.stray
      BY <2>6, ReplyFacts
    <3>2. view.pc = "users"
      BY <2>6 DEF ReadRolesUsers
    <3>3. UnseenBeyond'
      BY <2>1, <2>3, <3>1, <3>2 DEF UnseenBeyond, PagesRead
    <3>4. CountedOut'
      BY <2>1, <2>3, <3>1, <3>2 DEF CountedOut
    <3>5. QED
      BY <1>2, <1>3, <2>2, <3>3, <3>4
  <2>7. CASE QueryFails
    <3>1. view'.pc = "failed"
      BY <2>7 DEF QueryFails, TypeOK, View
    <3>2. QED
      BY <1>2, <1>3, <2>2, <3>1 DEF UnseenBeyond, CountedOut
  <2>8. QED
    BY <1>5, <2>4, <2>5, <2>6, <2>7 DEF Channel
<1>6. QED
  BY <1>4, <1>5

\* Every step keeps IndInv.
LEMMA NextInv == IndInv /\ [Next]_vars => IndInv'
<1> SUFFICES ASSUME IndInv, [Next]_vars PROVE IndInv'
  OBVIOUS
<1> USE DEF IndInv
<1>1. TypeOK'
  BY NextType
<1>2. CASE UNCHANGED vars
  <2>1. UNCHANGED <<msgVars, readerVars>>
    BY <1>2 DEF vars, msgVars, readerVars
  <2>2. QED
    BY <1>1, <2>1, IdleSteady, SteadyKeeps
<1>3. CASE Next /\ ~Channel
  BY <1>1, <1>3, OthersSteady, SteadyKeeps
<1>4. CASE Channel
  BY <1>1, <1>4, ChannelKeeps
<1>5. QED
  BY <1>2, <1>3, <1>4

\* A client that follows remaining_messages to 0 has been shown every message
\* there was when it began, though each page is counted from the newest message
\* of the moment, and the count is taken after the page: if the handle led to
\* the same channel every time.
THEOREM NothingIsMissed == Spec => []PagingMissesNothing
<1>1. IndInv => PagingMissesNothing
  BY DEF IndInv, CountedOut, PagingMissesNothing
<1>2. QED
  BY <1>1, InitInv, NextInv, PTL DEF Spec
=============================================================================
