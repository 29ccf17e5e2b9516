--------------------------- MODULE Messages_proofs ---------------------------
(***************************************************************************)
(* Proofs about Messages, for any users, channels, groups, requests and    *)
(* bounds.  The invariants are in Messages, in layers: TypeInv first, then *)
(* TextInv, which needs it, and then what is broadcast.                    *)
(***************************************************************************)
EXTENDS Messages, SequenceTheorems, TLAPS

-----------------------------------------------------------------------------
(***************************************************************************)
(* Lists of users who reacted.                                             *)
(***************************************************************************)

\* In a list without duplicates the place of a user is where the user is.
LEMMA PlaceFacts ==
  ASSUME NEW S, NEW us \in Seq(S), NoDuplicates(us), NEW u
  PROVE  \/ PlaceOf(u, us) = 0 /\ \A i \in 1..Len(us) : us[i] # u
         \/ PlaceOf(u, us) \in 1..Len(us)
<1>1. CASE \E i \in 1..Len(us) : us[i] = u
  <2>1. PICK i \in 1..Len(us) : us[i] = u
    BY <1>1
  <2>2. \A j \in 1..Len(us) : us[j] = u => j <= i
    BY <2>1 DEF NoDuplicates
  <2>3. (CHOOSE k \in 1..Len(us) :
            us[k] = u /\ \A j \in 1..Len(us) : us[j] = u => j <= k)
           \in 1..Len(us)
    BY <2>1, <2>2
  <2>4. QED
    BY <1>1, <2>3 DEF PlaceOf
<1>2. CASE ~\E i \in 1..Len(us) : us[i] = u
  BY <1>2 DEF PlaceOf
<1>3. QED
  BY <1>1, <1>2

\* Removing a place leaves the others, in order.
LEMMA RemoveFacts ==
  ASSUME NEW S, NEW us \in Seq(S), NEW s \in 1..Len(us)
  PROVE  LET vs == RemoveReactionUser(us, s)
         IN  /\ vs \in Seq(S)
             /\ Len(vs) = Len(us) - 1
             /\ \A i \in 1..Len(vs) : vs[i] = IF i < s THEN us[i] ELSE us[i + 1]
<1> DEFINE a == SubSeq(us, 1, s - 1)
           b == SubSeq(us, s + 1, Len(us))
<1>1. /\ a \in Seq(S) /\ Len(a) = s - 1
      /\ \A i \in 1..(s - 1) : a[i] = us[i]
  OBVIOUS
<1>2. /\ b \in Seq(S) /\ Len(b) = Len(us) - s
      /\ \A i \in 1..(Len(us) - s) : b[i] = us[i + s]
  OBVIOUS
<1> HIDE DEF a, b
<1>3. /\ a \o b \in Seq(S) /\ Len(a \o b) = Len(us) - 1
      /\ \A i \in 1..(Len(us) - 1) :
            (a \o b)[i] = IF i < s THEN a[i] ELSE b[i - (s - 1)]
  <2>1. /\ a \o b \in Seq(S) /\ Len(a \o b) = Len(a) + Len(b)
        /\ \A i \in 1..(Len(a) + Len(b)) :
              (a \o b)[i] = IF i <= Len(a) THEN a[i] ELSE b[i - Len(a)]
    BY <1>1, <1>2, ConcatProperties
  <2>2. Len(us) \in Nat
    OBVIOUS
  <2>3. QED
    BY <1>1, <1>2, <2>1, <2>2
<1>4. \A i \in 1..(Len(us) - 1) :
         (a \o b)[i] = IF i < s THEN us[i] ELSE us[i + 1]
  BY <1>1, <1>2, <1>3
<1>5. QED
  BY <1>3, <1>4 DEF RemoveReactionUser, a, b

\* Toggled keeps a list free of duplicates.
LEMMA ToggledFacts ==
  ASSUME NEW us \in Seq(Users), NoDuplicates(us), NEW u \in Users
  PROVE  Toggled(u, us) \in Seq(Users) /\ NoDuplicates(Toggled(u, us))
<1>1. CASE PlaceOf(u, us) = 0
  <2>1. \A i \in 1..Len(us) : us[i] # u
    BY <1>1, PlaceFacts
  <2>2. Toggled(u, us) = Append(us, u)
    BY <1>1 DEF Toggled
  <2>3. NoDuplicates(Append(us, u))
    BY <2>1 DEF NoDuplicates
  <2>4. QED
    BY <2>2, <2>3
<1>2. CASE PlaceOf(u, us) # 0
  <2>1. PICK s \in 1..Len(us) : s = PlaceOf(u, us)
    BY <1>2, PlaceFacts
  <2>2. PICK vs : vs = RemoveReactionUser(us, s)
    OBVIOUS
  <2>3. /\ vs \in Seq(Users) /\ Len(vs) = Len(us) - 1
        /\ \A i \in 1..Len(vs) : vs[i] = IF i < s THEN us[i] ELSE us[i + 1]
    BY <2>2, RemoveFacts
  <2>4. NoDuplicates(vs)
    <3> SUFFICES ASSUME NEW i \in 1..Len(vs), NEW j \in 1..Len(vs), vs[i] = vs[j]
                 PROVE  i = j
      BY DEF NoDuplicates
    <3>1. /\ i \in 1..Len(us) /\ i + 1 \in 1..Len(us)
          /\ j \in 1..Len(us) /\ j + 1 \in 1..Len(us)
      BY <2>3
    <3>2. (IF i < s THEN us[i] ELSE us[i + 1]) = (IF j < s THEN us[j] ELSE us[j + 1])
      BY <2>3
    <3>3. QED
      BY <3>1, <3>2 DEF NoDuplicates
  <2>5. Toggled(u, us) = vs
    BY <1>2, <2>1, <2>2 DEF Toggled
  <2>6. QED
    BY <2>3, <2>4, <2>5
<1>3. QED
  BY <1>1, <1>2

-----------------------------------------------------------------------------
(***************************************************************************)
(* Types.                                                                  *)
(***************************************************************************)

\* Goto changes the place of one request and nothing else.
LEMMA GotoFacts ==
  ASSUME TypeOK, NEW q \in Reqs, NEW pc \in Pc, Goto(q, pc)
  PROVE  /\ req' \in [Reqs -> Request]
         /\ req'[q].pc = pc /\ req'[q].op = req[q].op
         /\ req'[q].who = req[q].who /\ req'[q].chan = req[q].chan
         /\ req'[q].group = req[q].group /\ req'[q].msg = req[q].msg
         /\ req'[q].files = req[q].files /\ req'[q].emoji = req[q].emoji
         /\ req'[q].mid = req[q].mid /\ req'[q].unseen = req[q].unseen
         /\ \A x \in Reqs \ {q} : req'[x] = req[x]
BY DEF TypeOK, Request, Goto

\* A request moves on, and may have overlooked an error.
Moves(q, pc) ==
    /\ req' \in [Reqs -> Request]
    /\ req'[q].pc = pc /\ req'[q].op = req[q].op
    /\ req'[q].who = req[q].who /\ req'[q].chan = req[q].chan
    /\ req'[q].msg = req[q].msg /\ req'[q].emoji = req[q].emoji
    /\ req'[q].mid = req[q].mid /\ req[q].unseen \subseteq req'[q].unseen
    /\ \A x \in Reqs \ {q} : req'[x] = req[x]

\* Goto is such a move.
LEMMA GotoMoves ==
  ASSUME TypeOK, NEW q \in Reqs, NEW pc \in Pc, Goto(q, pc)
  PROVE  Moves(q, pc)
BY GotoFacts DEF Moves

\* What a request is after it has overlooked an error.
LEMMA OverlooksFacts ==
  ASSUME TypeOK, NEW q \in Reqs, NEW e \in {"count", "read"}
  PROVE  LET r == Overlooks(q, e)
         IN  /\ r \in Request /\ r.unseen = req[q].unseen \cup {e}
             /\ r.op = req[q].op /\ r.who = req[q].who /\ r.chan = req[q].chan
             /\ r.group = req[q].group /\ r.msg = req[q].msg
             /\ r.files = req[q].files /\ r.emoji = req[q].emoji
             /\ r.mid = req[q].mid
BY DEF TypeOK, Request, Overlooks

\* So is the end of a request that overlooked the error of its last read.
LEMMA RacedMoves ==
  ASSUME TypeOK, NEW q \in Reqs, ReadBackRaced(q)
  PROVE  Moves(q, "done") /\ "read" \in req'[q].unseen
<1>1. PICK r \in Request : r = Overlooks(q, "read")
  BY OverlooksFacts
<1>2. /\ r.unseen = req[q].unseen \cup {"read"}
      /\ r.op = req[q].op /\ r.who = req[q].who /\ r.chan = req[q].chan
      /\ r.msg = req[q].msg /\ r.emoji = req[q].emoji /\ r.mid = req[q].mid
  BY <1>1, OverlooksFacts
<1>3. PICK w : w = [r EXCEPT !.pc = "done"]
  OBVIOUS
<1>4. /\ w \in Request /\ w.pc = "done" /\ w.unseen = r.unseen /\ w.op = r.op
      /\ w.who = r.who /\ w.chan = r.chan /\ w.msg = r.msg
      /\ w.emoji = r.emoji /\ w.mid = r.mid
  BY <1>3 DEF Request, Pc
<1>5. req' = [req EXCEPT ![q] = w]
  BY <1>1, <1>3 DEF ReadBackRaced, Enter
<1>6. /\ req' \in [Reqs -> Request] /\ req'[q] = w
      /\ \A x \in Reqs \ {q} : req'[x] = req[x]
  BY <1>4, <1>5 DEF TypeOK
<1>7. QED
  BY <1>2, <1>4, <1>6 DEF Moves

\* What Filled says after one request has moved on.
LEMMA MovesFilled ==
  ASSUME TypeInv, NEW q \in Reqs, NEW pc \in Pc \ {"idle"}, Moves(q, pc), Busy(q),
         \A x \in Reqs \ {q} : /\ tx'[x] = tx[x] /\ poster'[x] = poster[x]
                               /\ sent'[x] = sent[x],
         \A x \in Reqs : setter'[x] # None => req[x].op = "react",
         pc \in {"begin", "commit", "read"} => req[q].op = "create",
         pc = "get" => req[q].op = "react",
         pc = "write" => req[q].op = "create" /\ ~tx'[q].merge,
         req[q].op = "create" /\ pc \in {"commit", "read", "done"} =>
            req[q].mid \in MsgId
  PROVE  Filled'
<1>1. /\ req'[q].pc = pc /\ req'[q].op = req[q].op
      /\ req'[q].who = req[q].who /\ req'[q].chan = req[q].chan
      /\ req'[q].msg = req[q].msg /\ req'[q].emoji = req[q].emoji
      /\ req'[q].mid = req[q].mid
      /\ \A x \in Reqs \ {q} : req'[x] = req[x]
  BY DEF Moves
<1>2. QED
  BY <1>1 DEF TypeInv, Filled, Pc

\* A request moves on and at most tx, poster and sent change with it.
LEMMA MovesType ==
  ASSUME TypeInv, NEW q \in Reqs, NEW pc \in Pc \ {"idle"}, Moves(q, pc), Busy(q),
         chan' \in [Channels -> Groups \cup {Top, None}],
         groups' \in SUBSET Groups,
         fresh' \in SUBSET (Channels \cup Groups),
         msg' \in [MsgId -> {None} \cup Row],
         UNCHANGED <<nextId, reactVars, sent>>,
         poster' \in [Reqs -> {None} \cup SUBSET Reqs],
         tx' \in [Reqs -> Transaction],
         \A x \in Reqs \ {q} : tx'[x] = tx[x] /\ poster'[x] = poster[x],
         pc \in {"begin", "commit", "read"} => req[q].op = "create",
         pc # "get",
         pc = "write" => req[q].op = "create" /\ ~tx'[q].merge,
         req[q].op = "create" /\ pc \in {"commit", "read", "done"} =>
            req[q].mid \in MsgId
  PROVE  TypeInv'
<1>1. UNCHANGED <<nextId, react, setter, sent>>
  BY DEF reactVars
<1>2. req' \in [Reqs -> Request]
  BY DEF Moves
<1>3. TypeOK'
  BY <1>1, <1>2 DEF TypeInv, TypeOK
<1>4. Filled'
  <2>1. \A x \in Reqs : setter'[x] # None => req[x].op = "react"
    BY <1>1 DEF TypeInv, Filled
  <2>2. QED
    BY <1>1, <2>1, MovesFilled
<1>5. ReactionsOnce'
  BY <1>1 DEF TypeInv, ReactionsOnce
<1>6. QED
  BY <1>3, <1>4, <1>5 DEF TypeInv

\* The same for Goto.
LEMMA GotoType ==
  ASSUME TypeInv, NEW q \in Reqs, NEW pc \in Pc \ {"idle"}, Goto(q, pc), Busy(q),
         chan' \in [Channels -> Groups \cup {Top, None}],
         groups' \in SUBSET Groups,
         fresh' \in SUBSET (Channels \cup Groups),
         msg' \in [MsgId -> {None} \cup Row],
         UNCHANGED <<nextId, reactVars, sent>>,
         poster' \in [Reqs -> {None} \cup SUBSET Reqs],
         tx' \in [Reqs -> Transaction],
         \A x \in Reqs \ {q} : tx'[x] = tx[x] /\ poster'[x] = poster[x],
         pc \in {"begin", "commit", "read"} => req[q].op = "create",
         pc # "get",
         pc = "write" => req[q].op = "create" /\ ~tx'[q].merge,
         req[q].op = "create" /\ pc \in {"commit", "read", "done"} =>
            req[q].mid \in MsgId
  PROVE  TypeInv'
BY GotoMoves, MovesType DEF TypeInv

\* A request is made; one about channels or groups may change them at once.
LEMMA EnterType ==
  ASSUME TypeInv, NEW q \in Reqs, NEW r \in Request, Enter(q, r),
         req[q].pc = "idle",
         chan' \in [Channels -> Groups \cup {Top, None}],
         groups' \in SUBSET Groups,
         fresh' \in SUBSET (Channels \cup Groups),
         msg' \in [MsgId -> {None} \cup Row],
         UNCHANGED <<nextId, reactVars, postVars, tx>>,
         r.pc \in {"begin", "write", "get", "done"},
         r.pc = "begin" => r.op = "create",
         r.op = "create" => r.pc = "begin" /\ r.chan \in Channels,
         r.pc = "get" => r.op = "react",
         r.who \in Users,
         r.op \in {"edit", "react"} => r.msg \in MsgId,
         r.op = "react" => r.emoji \in Emojis
  PROVE  TypeInv'
<1>1. UNCHANGED <<nextId, react, setter, poster, sent, tx>>
  BY DEF reactVars, postVars
<1>2. /\ req' \in [Reqs -> Request] /\ req'[q] = r
      /\ \A x \in Reqs \ {q} : req'[x] = req[x]
  BY DEF TypeInv, TypeOK, Enter
<1>3. TypeOK'
  BY <1>1, <1>2 DEF TypeInv, TypeOK
<1>4. setter[q] = None
  BY DEF TypeInv, Filled, NoRequest
<1>5. Filled'
  BY <1>1, <1>2, <1>4 DEF TypeInv, Filled
<1>6. ReactionsOnce'
  BY <1>1 DEF TypeInv, ReactionsOnce
<1>7. QED
  BY <1>3, <1>5, <1>6 DEF TypeInv

-----------------------------------------------------------------------------
(***************************************************************************)
(* The ways a request r of user u arrives, with what is read and changed.  *)
(***************************************************************************)

Made(q, u, r) ==
    /\ r \in Request /\ r.who = u /\ r.mid = 0
    /\ Makes(q, u) /\ Enter(q, r)
    /\ UNCHANGED <<nextId, react, setter, poster, sent, tx>>

MadeCreate(r) ==
    /\ r.pc = "begin" /\ r.op = "create"
    /\ r.chan \in Channels /\ chan[r.chan] # None
    /\ UNCHANGED <<chan, groups, fresh, msg>>

MadeEdit(r) ==
    /\ r.pc = "write" /\ r.op = "edit"
    /\ r.msg \in MsgId /\ msg[r.msg] # None /\ msg[r.msg].user = r.who
    /\ UNCHANGED <<chan, groups, fresh, msg>>

MadeReact(r) ==
    /\ r.pc = "get" /\ r.op = "react"
    /\ r.msg \in MsgId /\ r.emoji \in Emojis
    /\ UNCHANGED <<chan, groups, fresh, msg>>

MadeManage(r) ==
    /\ r.pc = "write" /\ r.who \in Managers
    /\ \/ r.op = "deletegroup"
       \/ r.op \in {"createchannel", "editchannel"} /\ GroupFound(r.group)
    /\ UNCHANGED <<chan, groups, fresh, msg>>

DoneDelete(r, c) ==
    /\ r.pc = "done" /\ r.op = "other" /\ r.who \in Managers
    /\ \A x \in Reqs : req[x].pc = "commit" => req[x].chan # c
    /\ chan' = [chan EXCEPT ![c] = None]
    /\ msg' = [m \in MsgId |-> IF m \in InChannel(c) THEN None ELSE msg[m]]
    /\ UNCHANGED <<groups, fresh>>

DoneGroup(r, g) ==
    /\ r.pc = "done" /\ r.op = "other" /\ r.who \in Managers
    /\ groups' = groups \cup {g} /\ fresh' = fresh \ {g}
    /\ UNCHANGED <<chan, msg>>

\* A request arrives in one of these ways.
LEMMA ArriveFacts ==
  ASSUME NEW q \in Reqs, Arrive(q)
  PROVE  \E u \in Users, r \in Request :
            /\ Made(q, u, r)
            /\ \/ MadeCreate(r) \/ MadeEdit(r) \/ MadeReact(r) \/ MadeManage(r)
               \/ \E c \in Channels : DoneDelete(r, c)
               \/ \E g \in Groups : DoneGroup(r, g)
<1> USE DEF Made, channelVars, reactVars, postVars
<1> DEFINE Goal == \E u \in Users, r \in Request :
            /\ Made(q, u, r)
            /\ \/ MadeCreate(r) \/ MadeEdit(r) \/ MadeReact(r) \/ MadeManage(r)
               \/ \E c \in Channels : DoneDelete(r, c)
               \/ \E g \in Groups : DoneGroup(r, g)
<1>1. ASSUME NEW u \in Users, NEW c \in Channels, NEW p \in MsgId \cup {0},
             NEW f \in BOOLEAN, CreateMessage(q, u, c, p, f)
      PROVE  Goal
  <2> DEFINE r == [NoRequest EXCEPT !.pc = "begin", !.op = "create", !.who = u,
                     !.chan = c, !.msg = p, !.files = f]
  <2>1. /\ r \in Request /\ r.pc = "begin" /\ r.op = "create"
        /\ r.who = u /\ r.mid = 0 /\ r.chan = c
    BY DEF Request, NoRequest, Pc, AllOps
  <2>2. Makes(q, u) /\ Enter(q, r) /\ chan[c] # None
    BY <1>1 DEF CreateMessage
  <2>3. UNCHANGED <<chan, groups, fresh, msg, nextId, react, setter, poster, sent,
                    tx>>
    BY <1>1 DEF CreateMessage
  <2> HIDE DEF r
  <2>4. Made(q, u, r) /\ MadeCreate(r)
    BY <2>1, <2>2, <2>3 DEF MadeCreate
  <2>5. QED
    BY <2>1, <2>4
<1>2. ASSUME NEW u \in Users, NEW m \in MsgId, EditMessage(q, u, m)
      PROVE  Goal
  <2> DEFINE r == [NoRequest EXCEPT !.pc = "write", !.op = "edit", !.who = u,
                     !.msg = m]
  <2>1. /\ r \in Request /\ r.pc = "write" /\ r.op = "edit"
        /\ r.who = u /\ r.mid = 0 /\ r.msg = m
    BY DEF Request, NoRequest, Pc, AllOps
  <2>2. Makes(q, u) /\ Enter(q, r) /\ msg[m] # None /\ msg[m].user = u
    BY <1>2 DEF EditMessage
  <2>3. UNCHANGED <<chan, groups, fresh, msg, nextId, react, setter, poster, sent,
                    tx>>
    BY <1>2 DEF EditMessage
  <2> HIDE DEF r
  <2>4. Made(q, u, r) /\ MadeEdit(r)
    BY <2>1, <2>2, <2>3 DEF MadeEdit
  <2>5. QED
    BY <2>1, <2>4
<1>3. ASSUME NEW u \in Users, NEW m \in MsgId, NEW e \in Emojis,
             ReactToMessage(q, u, m, e)
      PROVE  Goal
  <2> DEFINE r == [NoRequest EXCEPT !.pc = "get", !.op = "react", !.who = u,
                     !.msg = m, !.emoji = e]
  <2>1. /\ r \in Request /\ r.pc = "get" /\ r.op = "react"
        /\ r.who = u /\ r.mid = 0 /\ r.msg = m /\ r.emoji = e
    BY DEF Request, NoRequest, Pc, AllOps
  <2>2. Makes(q, u) /\ Enter(q, r)
    BY <1>3 DEF ReactToMessage
  <2>3. UNCHANGED <<chan, groups, fresh, msg, nextId, react, setter, poster, sent,
                    tx>>
    BY <1>3 DEF ReactToMessage
  <2> HIDE DEF r
  <2>4. Made(q, u, r) /\ MadeReact(r)
    BY <2>1, <2>2, <2>3 DEF MadeReact
  <2>5. QED
    BY <2>1, <2>4
<1>4. ASSUME NEW u \in Users, NEW c \in Channels, DeleteChannel(q, u, c)
      PROVE  Goal
  <2> DEFINE r == [NoRequest EXCEPT !.pc = "done", !.who = u]
  <2>1. /\ r \in Request /\ r.pc = "done" /\ r.op = "other"
        /\ r.who = u /\ r.mid = 0
    BY DEF Request, NoRequest, Pc, AllOps
  <2>2. Makes(q, u) /\ Enter(q, r) /\ u \in Managers
    BY <1>4 DEF DeleteChannel, Manages, Finished
  <2>3. UNCHANGED <<groups, fresh, nextId, react, setter, poster, sent, tx>>
    BY <1>4 DEF DeleteChannel
  <2> HIDE DEF r
  <2>4. Made(q, u, r) /\ DoneDelete(r, c)
    BY <1>4, <2>1, <2>2, <2>3 DEF DoneDelete, DeleteChannel
  <2>5. QED
    BY <2>1, <2>4
<1>5. ASSUME NEW u \in Users, NEW g \in Groups, CreateGroup(q, u, g)
      PROVE  Goal
  <2> DEFINE r == [NoRequest EXCEPT !.pc = "done", !.who = u]
  <2>1. /\ r \in Request /\ r.pc = "done" /\ r.op = "other"
        /\ r.who = u /\ r.mid = 0
    BY DEF Request, NoRequest, Pc, AllOps
  <2>2. Makes(q, u) /\ Enter(q, r) /\ u \in Managers
    BY <1>5 DEF CreateGroup, Manages, Finished
  <2>3. UNCHANGED <<chan, msg, nextId, react, setter, poster, sent, tx>>
    BY <1>5 DEF CreateGroup
  <2> HIDE DEF r
  <2>4. Made(q, u, r) /\ DoneGroup(r, g)
    BY <1>5, <2>1, <2>2, <2>3 DEF DoneGroup, CreateGroup
  <2>5. QED
    BY <2>1, <2>4
<1>6. ASSUME NEW u \in Users, NEW g \in Groups \cup {Top},
             NEW op \in {"deletegroup", "createchannel"},
             \/ op = "deletegroup" /\ DeleteGroup(q, u, g)
             \/ op = "createchannel" /\ CreateChannel(q, u, g)
      PROVE  Goal
  <2> DEFINE r == [NoRequest EXCEPT !.pc = "write", !.op = op, !.who = u,
                     !.group = g]
  <2>1. /\ r \in Request /\ r.pc = "write" /\ r.op = op
        /\ r.who = u /\ r.mid = 0 /\ r.group = g
    BY DEF Request, NoRequest, Pc, AllOps
  <2>2. Makes(q, u) /\ Enter(q, r) /\ u \in Managers
    BY <1>6 DEF DeleteGroup, CreateChannel, Manages
  <2>3. op = "createchannel" => GroupFound(g)
    BY <1>6 DEF DeleteGroup, CreateChannel
  <2>4. UNCHANGED <<chan, groups, fresh, msg, nextId, react, setter, poster, sent,
                    tx>>
    BY <1>6 DEF DeleteGroup, CreateChannel
  <2> HIDE DEF r
  <2>5. Made(q, u, r) /\ MadeManage(r)
    BY <2>1, <2>2, <2>3, <2>4 DEF MadeManage
  <2>6. QED
    BY <2>1, <2>5
<1>7. ASSUME NEW u \in Users, NEW c \in Channels, NEW g \in Groups \cup {Top},
             EditChannel(q, u, c, g)
      PROVE  Goal
  <2> DEFINE r == [NoRequest EXCEPT !.pc = "write", !.op = "editchannel",
                     !.who = u, !.chan = c, !.group = g]
  <2>1. /\ r \in Request /\ r.pc = "write" /\ r.op = "editchannel"
        /\ r.who = u /\ r.mid = 0 /\ r.group = g
    BY DEF Request, NoRequest, Pc, AllOps
  <2>2. Makes(q, u) /\ Enter(q, r) /\ u \in Managers /\ GroupFound(g)
    BY <1>7 DEF EditChannel, Manages
  <2>3. UNCHANGED <<chan, groups, fresh, msg, nextId, react, setter, poster, sent,
                    tx>>
    BY <1>7 DEF EditChannel
  <2> HIDE DEF r
  <2>4. Made(q, u, r) /\ MadeManage(r)
    BY <2>1, <2>2, <2>3 DEF MadeManage
  <2>5. QED
    BY <2>1, <2>4
<1>8. QED
  BY <1>1, <1>2, <1>3, <1>4, <1>5, <1>6, <1>7 DEF Arrive


\* A request arrives.
LEMMA ArriveType ==
  ASSUME TypeInv, NEW q \in Reqs, Arrive(q)
  PROVE  TypeInv'
<1>1. PICK u \in Users, r \in Request :
        /\ Made(q, u, r)
        /\ \/ MadeCreate(r) \/ MadeEdit(r) \/ MadeReact(r) \/ MadeManage(r)
           \/ \E c \in Channels : DoneDelete(r, c)
           \/ \E g \in Groups : DoneGroup(r, g)
  BY ArriveFacts
<1>2. /\ Enter(q, r) /\ req[q].pc = "idle" /\ r.who \in Users
      /\ UNCHANGED <<nextId, reactVars, postVars, tx>>
  BY <1>1 DEF Made, Makes, reactVars, postVars
<1>3. /\ chan' \in [Channels -> Groups \cup {Top, None}]
      /\ groups' \in SUBSET Groups
      /\ fresh' \in SUBSET (Channels \cup Groups)
  BY <1>1 DEF TypeInv, TypeOK, MadeCreate, MadeEdit, MadeReact, MadeManage,
     DoneDelete, DoneGroup
<1>4. msg' \in [MsgId -> {None} \cup Row]
  BY <1>1 DEF TypeInv, TypeOK, MadeCreate, MadeEdit, MadeReact, MadeManage,
     DoneDelete, DoneGroup
<1>5. /\ r.pc \in {"begin", "write", "get", "done"}
      /\ r.pc = "begin" => r.op = "create"
      /\ r.op = "create" => r.pc = "begin" /\ r.chan \in Channels
      /\ r.pc = "get" => r.op = "react"
      /\ r.op \in {"edit", "react"} => r.msg \in MsgId
      /\ r.op = "react" => r.emoji \in Emojis
  BY <1>1 DEF MadeCreate, MadeEdit, MadeReact, MadeManage, DoneDelete, DoneGroup
<1>6. QED
  BY <1>2, <1>3, <1>4, <1>5, EnterType

\* A request moves on and learns the id of its message.
GotoMid(q, pc, m) == req' = [req EXCEPT ![q].pc = pc, ![q].mid = m]

\* GotoMid changes nothing else.
LEMMA GotoMidFacts ==
  ASSUME TypeOK, NEW q \in Reqs, NEW pc \in Pc, NEW m \in MsgId,
         GotoMid(q, pc, m)
  PROVE  /\ req' \in [Reqs -> Request]
         /\ req'[q].pc = pc /\ req'[q].op = req[q].op
         /\ req'[q].who = req[q].who /\ req'[q].chan = req[q].chan
         /\ req'[q].group = req[q].group /\ req'[q].msg = req[q].msg
         /\ req'[q].files = req[q].files /\ req'[q].emoji = req[q].emoji
         /\ req'[q].mid = m /\ req'[q].unseen = req[q].unseen
         /\ \A x \in Reqs \ {q} : req'[x] = req[x]
<1>1. req[q] \in Request
  BY DEF TypeOK
<1>2. PICK r : r = [[req[q] EXCEPT !.pc = pc] EXCEPT !.mid = m]
  OBVIOUS
<1>3. /\ r \in Request
      /\ r.pc = pc /\ r.op = req[q].op /\ r.who = req[q].who
      /\ r.chan = req[q].chan /\ r.group = req[q].group /\ r.msg = req[q].msg
      /\ r.files = req[q].files /\ r.emoji = req[q].emoji /\ r.mid = m
      /\ r.unseen = req[q].unseen
  BY <1>1, <1>2 DEF Request
<1>4. req' = [req EXCEPT ![q] = r]
  BY <1>1, <1>2 DEF TypeOK, GotoMid
<1>5. req' \in [Reqs -> Request]
  BY <1>3, <1>4 DEF TypeOK
<1>6. req'[q] = r /\ \A x \in Reqs \ {q} : req'[x] = req[x]
  BY <1>4 DEF TypeOK
<1>7. QED
  BY <1>3, <1>5, <1>6

\* The text joins a message, with or without its files counted.
LEMMA JoinFacts ==
  ASSUME TypeInv, NEW q \in Reqs, NEW m \in MsgId,
         BeginJoin(q, m) \/ BeginJoinUncounted(q, m)
  PROVE  /\ req[q].pc = "begin" /\ req[q].op = "create"
         /\ msg[m] # None /\ msg[m].channel = req[q].chan
         /\ msg[m].user = req[q].who
         /\ UNCHANGED <<chan, groups, fresh, msg, nextId, react, setter, poster,
                        sent>>
         /\ tx' = [tx EXCEPT ![q] = [merge |-> TRUE,
                                     texts |-> msg[m].texts \cup {q}]]
         /\ req' \in [Reqs -> Request]
         /\ req'[q].pc = "write" /\ req'[q].op = req[q].op
         /\ req'[q].who = req[q].who /\ req'[q].chan = req[q].chan
         /\ req'[q].msg = req[q].msg /\ req'[q].mid = m
         /\ req[q].unseen \subseteq req'[q].unseen
         /\ ~msg[m].files \/ "count" \in req'[q].unseen
         /\ \A x \in Reqs \ {q} : req'[x] = req[x]
<1>1. /\ req[q].pc = "begin" /\ req[q].op = "create" /\ OwnLast(q, m)
      /\ BeginJoin(q, m) => ~msg[m].files
  BY DEF BeginJoin, BeginJoinUncounted, Joins, TypeInv, Filled
<1>2. /\ msg[m] # None /\ msg[m].channel = req[q].chan
      /\ msg[m].user = req[q].who
  BY <1>1 DEF OwnLast, InChannel
<1>3. /\ UNCHANGED <<chan, groups, fresh, msg, nextId, react, setter, poster, sent>>
      /\ tx' = [tx EXCEPT ![q] = [merge |-> TRUE,
                                  texts |-> msg[m].texts \cup {q}]]
  BY DEF BeginJoin, BeginJoinUncounted, channelVars, reactVars, postVars
<1>4. /\ req' \in [Reqs -> Request]
      /\ req'[q].pc = "write" /\ req'[q].op = req[q].op
      /\ req'[q].who = req[q].who /\ req'[q].chan = req[q].chan
      /\ req'[q].msg = req[q].msg /\ req'[q].mid = m
      /\ req[q].unseen \subseteq req'[q].unseen
      /\ BeginJoin(q, m) \/ "count" \in req'[q].unseen
      /\ \A x \in Reqs \ {q} : req'[x] = req[x]
  <2>1. CASE BeginJoin(q, m)
    <3>1. GotoMid(q, "write", m)
      BY <2>1 DEF BeginJoin, GotoMid
    <3>2. QED
      BY <2>1, <3>1, GotoMidFacts DEF TypeInv, Pc
  <2>2. CASE BeginJoinUncounted(q, m)
    <3>1. PICK r \in Request : r = Overlooks(q, "count")
      BY OverlooksFacts DEF TypeInv
    <3>2. /\ r.unseen = req[q].unseen \cup {"count"}
          /\ r.op = req[q].op /\ r.who = req[q].who /\ r.chan = req[q].chan
          /\ r.msg = req[q].msg
      BY <3>1, OverlooksFacts DEF TypeInv
    <3>3. PICK w : w = [r EXCEPT !.pc = "write", !.mid = m]
      OBVIOUS
    <3>4. /\ w \in Request /\ w.pc = "write" /\ w.mid = m
          /\ w.unseen = r.unseen /\ w.op = r.op /\ w.who = r.who
          /\ w.chan = r.chan /\ w.msg = r.msg
      BY <3>3 DEF Request, Pc
    <3>5. req' = [req EXCEPT ![q] = w]
      BY <2>2, <3>1, <3>3 DEF BeginJoinUncounted, Enter
    <3>6. /\ req' \in [Reqs -> Request] /\ req'[q] = w
          /\ \A x \in Reqs \ {q} : req'[x] = req[x]
      BY <3>4, <3>5 DEF TypeInv, TypeOK
    <3>7. QED
      BY <3>2, <3>4, <3>6
  <2>3. QED
    BY <2>1, <2>2
<1>5. QED
  BY <1>1, <1>2, <1>3, <1>4

\* Types after that.
LEMMA BeginJoinType ==
  ASSUME TypeInv, NEW q \in Reqs, NEW m \in MsgId,
         BeginJoin(q, m) \/ BeginJoinUncounted(q, m)
  PROVE  TypeInv'
<1>1. req[q].pc = "begin" /\ req[q].op = "create" /\ msg[m] # None
  BY JoinFacts
<1>2. UNCHANGED <<chan, groups, fresh, msg, nextId, react, setter, poster, sent>>
  BY JoinFacts
<1>3. /\ req' \in [Reqs -> Request]
      /\ req'[q].pc = "write" /\ req'[q].op = req[q].op
      /\ req'[q].who = req[q].who /\ req'[q].chan = req[q].chan
      /\ req'[q].mid = m
      /\ \A x \in Reqs \ {q} : req'[x] = req[x]
  BY JoinFacts
<1>4. /\ tx' \in [Reqs -> Transaction]
      /\ \A x \in Reqs \ {q} : tx'[x] = tx[x]
  <2>1. tx' = [tx EXCEPT ![q] = [merge |-> TRUE, texts |-> msg[m].texts \cup {q}]]
    BY JoinFacts
  <2>2. QED
    BY <1>1, <2>1 DEF TypeInv, TypeOK, Transaction, Row
<1>5. TypeOK'
  BY <1>2, <1>3, <1>4 DEF TypeInv, TypeOK
<1>6. Filled'
  BY <1>1, <1>2, <1>3, <1>4 DEF TypeInv, Filled
<1>7. ReactionsOnce'
  BY <1>2 DEF TypeInv, ReactionsOnce
<1>8. QED
  BY <1>5, <1>6, <1>7 DEF TypeInv

\* The text will be a message of its own.
LEMMA BeginInsertType ==
  ASSUME TypeInv, NEW q \in Reqs, BeginInsert(q) \/ BeginUnread(q)
  PROVE  TypeInv'
<1>1. req[q].pc = "begin" /\ req[q].op = "create" /\ Busy(q)
  BY DEF BeginInsert, BeginUnread, TypeInv, Filled, Busy, Over
<1>2. /\ tx' \in [Reqs -> Transaction] /\ ~tx'[q].merge
      /\ \A x \in Reqs \ {q} : tx'[x] = tx[x]
  <2>1. PICK t : t = [merge |-> FALSE, texts |-> {q}]
    OBVIOUS
  <2>2. t \in Transaction /\ ~t.merge
    BY <2>1 DEF Transaction
  <2>3. tx' = [tx EXCEPT ![q] = t]
    BY <2>1 DEF BeginInsert, BeginUnread
  <2>4. tx \in [Reqs -> Transaction]
    BY DEF TypeInv, TypeOK
  <2>5. QED
    BY <2>2, <2>3, <2>4
<1>3. Goto(q, "write")
      /\ UNCHANGED <<chan, groups, fresh, msg, nextId, reactVars, poster, sent>>
  BY DEF BeginInsert, BeginUnread, channelVars, postVars
<1>4. QED
  BY <1>1, <1>2, <1>3, GotoType DEF TypeInv, TypeOK, Pc

\* The INSERT takes an id.
LEMMA InsertRowType ==
  ASSUME TypeInv, NEW q \in Reqs, InsertRow(q)
  PROVE  TypeInv'
<1>1. /\ req[q].pc = "write" /\ req[q].op = "create"
      /\ nextId \in MsgId /\ nextId' = nextId + 1
  BY DEF InsertRow
<1>2. UNCHANGED <<chan, groups, fresh, msg, react, setter, poster, sent, tx>>
  BY DEF InsertRow, channelVars, reactVars, postVars
<1>3. /\ req' \in [Reqs -> Request]
      /\ req'[q].pc = "commit" /\ req'[q].op = req[q].op
      /\ req'[q].who = req[q].who /\ req'[q].chan = req[q].chan
      /\ req'[q].mid = nextId
      /\ \A x \in Reqs \ {q} : req'[x] = req[x]
  <2>1. PICK v \in MsgId : v = nextId
    BY <1>1
  <2>2. GotoMid(q, "commit", v)
    BY <2>1 DEF InsertRow, GotoMid
  <2>3. /\ req' \in [Reqs -> Request]
        /\ req'[q].pc = "commit" /\ req'[q].op = req[q].op
        /\ req'[q].who = req[q].who /\ req'[q].chan = req[q].chan
        /\ req'[q].mid = v
        /\ \A x \in Reqs \ {q} : req'[x] = req[x]
    BY <2>2, GotoMidFacts DEF TypeInv, Pc
  <2>4. QED
    BY <2>1, <2>3
<1>4. TypeOK'
  BY <1>1, <1>2, <1>3 DEF TypeInv, TypeOK
<1>5. Filled'
  BY <1>1, <1>2, <1>3 DEF TypeInv, Filled
<1>6. ReactionsOnce'
  BY <1>2 DEF TypeInv, ReactionsOnce
<1>7. QED
  BY <1>4, <1>5, <1>6 DEF TypeInv

\* What a commit does to the row of its message.
LEMMA CommitFacts ==
  ASSUME TypeInv, NEW q \in Reqs, Commit(q)
  PROVE  /\ req[q].pc = "commit" /\ req[q].op = "create" /\ req[q].mid \in MsgId
         /\ Busy(q) /\ NewRow(q) \in Row
         /\ msg' \in [MsgId -> {None} \cup Row]
         /\ \A m \in MsgId \ {req[q].mid} : msg'[m] = msg[m]
         /\ ~tx[q].merge => msg'[req[q].mid] = NewRow(q)
         /\ tx[q].merge /\ msg[req[q].mid] = None => msg'[req[q].mid] = None
         /\ tx[q].merge /\ msg[req[q].mid] # None =>
              /\ msg'[req[q].mid] \in Row
              /\ msg'[req[q].mid].texts = tx[q].texts
              /\ msg'[req[q].mid].user = msg[req[q].mid].user
              /\ msg'[req[q].mid].channel = msg[req[q].mid].channel
              /\ msg'[req[q].mid].files = msg[req[q].mid].files
<1>1. req[q].pc = "commit" /\ req[q].op = "create" /\ req[q].mid \in MsgId /\ Busy(q)
  BY DEF Commit, TypeInv, Filled, Busy, Over
<1>2. tx[q] \in Transaction /\ req[q] \in Request
  BY DEF TypeInv, TypeOK
<1>3. NewRow(q) \in Row
  BY <1>1, <1>2 DEF TypeInv, Filled, NewRow, Row, Transaction, Request
<1>4. PICK m \in MsgId : m = req[q].mid
  BY <1>1
<1>5. PICK v : /\ v = (IF ~tx[q].merge THEN NewRow(q)
                       ELSE IF msg[m] = None THEN None
                       ELSE [msg[m] EXCEPT !.texts = tx[q].texts])
               /\ msg' = [msg EXCEPT ![m] = v]
  BY <1>4 DEF Commit, TypeInv, TypeOK
<1>6. msg[m] \in Row =>
        LET w == [msg[m] EXCEPT !.texts = tx[q].texts]
        IN  /\ w \in Row /\ w.texts = tx[q].texts /\ w.user = msg[m].user
            /\ w.channel = msg[m].channel /\ w.files = msg[m].files
  BY <1>2 DEF Row, Transaction
<1>7. msg[m] = None \/ msg[m] \in Row
  BY DEF TypeInv, TypeOK
<1>8. v \in {None} \cup Row
  BY <1>3, <1>5, <1>6, <1>7
<1>9. /\ msg' \in [MsgId -> {None} \cup Row] /\ msg'[m] = v
      /\ \A n \in MsgId \ {m} : msg'[n] = msg[n]
  BY <1>5, <1>8 DEF TypeInv, TypeOK
<1>10. QED
  BY <1>1, <1>3, <1>4, <1>5, <1>6, <1>7, <1>9

\* The commit.
LEMMA CommitType ==
  ASSUME TypeInv, NEW q \in Reqs, Commit(q)
  PROVE  TypeInv'
<1>1. /\ req[q].op = "create" /\ req[q].mid \in MsgId /\ Busy(q)
      /\ msg' \in [MsgId -> {None} \cup Row]
  BY CommitFacts
<1>2. /\ tx' \in [Reqs -> Transaction]
      /\ \A x \in Reqs \ {q} : tx'[x] = tx[x]
  BY DEF Commit, TypeInv, TypeOK, Transaction, NoTx
<1>3. Goto(q, "read")
      /\ UNCHANGED <<chan, groups, fresh, nextId, reactVars, poster, sent>>
  BY DEF Commit, channelVars, postVars
<1>4. QED
  BY <1>1, <1>2, <1>3, GotoType DEF TypeInv, TypeOK, Pc

\* The message is read again, whatever is found.
LEMMA ReadType ==
  ASSUME TypeInv, NEW q \in Reqs,
         ReadBack(q) \/ ReadBackRaced(q) \/ ReadParentRaced(q)
  PROVE  TypeInv'
<1> USE DEF ReadBack, ReadBackRaced, ReadParentRaced
<1>1. /\ req[q].pc = "read" /\ req[q].op = "create" /\ req[q].mid \in MsgId
      /\ Busy(q)
  BY DEF TypeInv, Filled, Busy, Over
<1>2. msg[req[q].mid] # None => msg[req[q].mid].texts \in SUBSET Reqs
  BY <1>1 DEF TypeInv, TypeOK, Row
<1>3. /\ poster' \in [Reqs -> {None} \cup SUBSET Reqs]
      /\ \A x \in Reqs \ {q} : poster'[x] = poster[x]
  BY <1>2 DEF Readable, TypeInv, TypeOK
<1>4. UNCHANGED <<chan, groups, fresh, msg, nextId, reactVars, sent, tx>>
  BY DEF channelVars
<1>5. Moves(q, "done")
  BY GotoMoves, RacedMoves DEF TypeInv, Pc
<1>6. QED
  BY <1>1, <1>3, <1>4, <1>5, MovesType DEF TypeInv, TypeOK, Pc

\* A step to another place that changes nothing else, or ends a transaction.
LEMMA PlainType ==
  ASSUME TypeInv, NEW q \in Reqs,
         BeginNoParent(q) \/ UpdateText(q) \/ ReadBackGone(q) \/ Abort(q)
  PROVE  TypeInv'
<1>1. PICK pc \in {"commit", "failed"} :
        /\ Goto(q, pc)
        /\ pc = "commit" => req[q].op = "create" /\ req[q].mid \in MsgId
  BY DEF BeginNoParent, UpdateText, ReadBackGone, Abort, TypeInv, Filled
<1>2. Busy(q)
      /\ UNCHANGED <<chan, groups, fresh, msg, nextId, reactVars, poster, sent>>
  BY DEF BeginNoParent, UpdateText, ReadBackGone, Abort, Busy, Over,
     channelVars, postVars
<1>3. /\ tx' \in [Reqs -> Transaction]
      /\ \A x \in Reqs \ {q} : tx'[x] = tx[x]
  <2>1. NoTx \in Transaction
    BY DEF NoTx, Transaction
  <2>2. UNCHANGED tx \/ tx' = [tx EXCEPT ![q] = NoTx]
    BY DEF BeginNoParent, UpdateText, ReadBackGone, Abort
  <2>3. QED
    BY <2>1, <2>2 DEF TypeInv, TypeOK
<1>4. QED
  BY <1>1, <1>2, <1>3, GotoType DEF TypeInv, TypeOK, Pc

\* What the UPDATE of EditMessage does to the row.
LEMMA EditedFacts ==
  ASSUME TypeInv, NEW q \in Reqs, UpdateEdited(q)
  PROVE  /\ req[q].pc = "write" /\ req[q].op = "edit" /\ req[q].msg \in MsgId
         /\ Busy(q)
         /\ msg' \in [MsgId -> {None} \cup Row]
         /\ \A m \in MsgId \ {req[q].msg} : msg'[m] = msg[m]
         /\ msg[req[q].msg] = None => msg'[req[q].msg] = None
         /\ msg[req[q].msg] # None =>
              /\ msg'[req[q].msg] \in Row
              /\ msg'[req[q].msg].texts = {q}
              /\ msg'[req[q].msg].user = msg[req[q].msg].user
              /\ msg'[req[q].msg].channel = msg[req[q].msg].channel
              /\ msg'[req[q].msg].files = msg[req[q].msg].files
<1>1. req[q].pc = "write" /\ req[q].op = "edit" /\ req[q].msg \in MsgId /\ Busy(q)
  BY DEF UpdateEdited, TypeInv, Filled, Busy, Over
<1>2. PICK m \in MsgId : m = req[q].msg
  BY <1>1
<1>3. PICK v : /\ v = (IF msg[m] = None THEN None
                       ELSE [msg[m] EXCEPT !.texts = {q}])
               /\ msg' = [msg EXCEPT ![m] = v]
  BY <1>2 DEF UpdateEdited, TypeInv, TypeOK
<1>4. msg[m] \in Row =>
        LET w == [msg[m] EXCEPT !.texts = {q}]
        IN  /\ w \in Row /\ w.texts = {q} /\ w.user = msg[m].user
            /\ w.channel = msg[m].channel /\ w.files = msg[m].files
  BY DEF Row
<1>5. msg[m] = None \/ msg[m] \in Row
  BY DEF TypeInv, TypeOK
<1>6. /\ msg' \in [MsgId -> {None} \cup Row] /\ msg'[m] = v
      /\ \A n \in MsgId \ {m} : msg'[n] = msg[n]
  BY <1>3, <1>4, <1>5 DEF TypeInv, TypeOK
<1>7. QED
  BY <1>1, <1>2, <1>3, <1>4, <1>5, <1>6

\* The UPDATE of EditMessage.
LEMMA UpdateEditedType ==
  ASSUME TypeInv, NEW q \in Reqs, UpdateEdited(q)
  PROVE  TypeInv'
<1>1. /\ req[q].op = "edit" /\ Busy(q)
      /\ msg' \in [MsgId -> {None} \cup Row]
  BY EditedFacts
<1>2. Goto(q, "done")
      /\ UNCHANGED <<chan, groups, fresh, nextId, reactVars, poster, sent, tx>>
  BY DEF UpdateEdited, channelVars, postVars
<1>3. QED
  BY <1>1, <1>2, GotoType DEF TypeInv, TypeOK, Pc

\* The requests about groups and channels are carried out.
LEMMA ManageType ==
  ASSUME TypeInv, NEW q \in Reqs,
         \/ DeleteGroupRows(q) \/ UpdateChannel(q)
         \/ \E c \in Channels : InsertChannel(q, c)
  PROVE  TypeInv'
<1>1. /\ req[q].op # "create" /\ Busy(q) /\ Goto(q, "done")
      /\ UNCHANGED <<msg, nextId, reactVars, poster, sent, tx>>
  BY DEF DeleteGroupRows, UpdateChannel, InsertChannel, postVars, Busy, Over
<1>2. req[q].group \in Groups \cup {Top, None}
  BY DEF TypeInv, TypeOK, Request
<1>3. chan' \in [Channels -> Groups \cup {Top, None}]
  <2>1. CASE DeleteGroupRows(q)
    BY <2>1 DEF DeleteGroupRows, TypeInv, TypeOK
  <2>2. CASE UpdateChannel(q)
    BY <1>2, <2>2 DEF UpdateChannel, TypeInv, TypeOK
  <2>3. ASSUME NEW c \in Channels, InsertChannel(q, c)
        PROVE  chan' \in [Channels -> Groups \cup {Top, None}]
    BY <1>2, <2>3 DEF InsertChannel, TypeInv, TypeOK
  <2>4. QED
    BY <2>1, <2>2, <2>3
<1>4. groups' \in SUBSET Groups /\ fresh' \in SUBSET (Channels \cup Groups)
  BY DEF DeleteGroupRows, UpdateChannel, InsertChannel, TypeInv, TypeOK
<1>5. QED
  BY <1>1, <1>3, <1>4, GotoType DEF TypeInv, TypeOK, Pc

\* Get and toggle, or toggle what a failed Get left.
LEMMA ReactGetType ==
  ASSUME TypeInv, NEW q \in Reqs, ReactGet(q) \/ ReactGetFails(q)
  PROVE  TypeInv'
<1>1. /\ req[q].pc = "get" /\ req[q].op = "react" /\ req[q].msg \in MsgId
      /\ req[q].emoji \in Emojis /\ req[q].who \in Users /\ Busy(q)
  BY DEF ReactGet, ReactGetFails, TypeInv, Filled, Busy, Over
<1>2. PICK m \in MsgId, e \in Emojis, u \in Users :
        m = req[q].msg /\ e = req[q].emoji /\ u = req[q].who
  BY <1>1
<1>3. PICK new \in [Emojis -> Seq(Users)] :
        /\ setter' = [setter EXCEPT ![q] = new]
        /\ \A x \in Emojis : NoDuplicates(new[x])
  <2>1. CASE ReactGet(q)
    <3>1. PICK us \in Seq(Users) : us = react[m][e] /\ NoDuplicates(us)
      BY DEF TypeInv, TypeOK, ReactionsOnce
    <3>2. PICK vs \in Seq(Users) : vs = Toggled(u, us) /\ NoDuplicates(vs)
      BY <3>1, ToggledFacts
    <3>3. PICK w : w = [react[m] EXCEPT ![e] = vs]
      OBVIOUS
    <3>4. setter' = [setter EXCEPT ![q] = w]
      BY <1>2, <2>1, <3>1, <3>2, <3>3 DEF ReactGet, TypeInv, TypeOK
    <3>5. /\ w \in [Emojis -> Seq(Users)]
          /\ \A x \in Emojis : NoDuplicates(w[x])
      BY <3>2, <3>3 DEF TypeInv, TypeOK, ReactionsOnce
    <3>6. QED
      BY <3>4, <3>5
  <2>2. CASE ReactGetFails(q)
    <3>1. PICK vs \in Seq(Users) : vs = <<u>> /\ NoDuplicates(vs)
      <4>1. <<u>> \in Seq(Users) /\ Len(<<u>>) = 1
        OBVIOUS
      <4>2. NoDuplicates(<<u>>)
        BY <4>1 DEF NoDuplicates
      <4>3. QED
        BY <4>1, <4>2
    <3>2. PICK w : w = [NoReactions EXCEPT ![e] = vs]
      OBVIOUS
    <3>3. setter' = [setter EXCEPT ![q] = w]
      BY <1>2, <2>2, <3>1, <3>2 DEF ReactGetFails
    <3>4. NoDuplicates(<<>>)
      BY DEF NoDuplicates
    <3>5. /\ w \in [Emojis -> Seq(Users)]
          /\ \A x \in Emojis : NoDuplicates(w[x])
      <4>1. \A x \in Emojis : w[x] = IF x = e THEN vs ELSE <<>>
        BY <3>2 DEF NoReactions
      <4>2. w = [x \in Emojis |-> IF x = e THEN vs ELSE <<>>]
        BY <3>2 DEF NoReactions
      <4>3. <<>> \in Seq(Users)
        OBVIOUS
      <4>4. \A x \in Emojis : w[x] \in Seq(Users) /\ NoDuplicates(w[x])
        BY <3>1, <3>4, <4>1, <4>3
      <4>5. QED
        BY <4>2, <4>4
    <3>6. QED
      BY <3>3, <3>5
  <2>3. QED
    BY <2>1, <2>2
<1>7. /\ new \in [Emojis -> Seq(Users)]
      /\ \A x \in Emojis : NoDuplicates(new[x])
  BY <1>3
<1>8. /\ Goto(q, "done")
      /\ UNCHANGED <<chan, groups, fresh, msg, nextId, react, poster, sent, tx>>
  BY DEF ReactGet, ReactGetFails, channelVars, postVars
<1>9. req' \in [Reqs -> Request]
  BY <1>8, GotoFacts DEF TypeInv, Pc
<1>10. /\ setter' \in [Reqs -> {None} \cup [Emojis -> Seq(Users)]]
       /\ setter'[q] = new /\ \A x \in Reqs \ {q} : setter'[x] = setter[x]
  BY <1>3, <1>7 DEF TypeInv, TypeOK
<1>11. TypeOK'
  BY <1>8, <1>9, <1>10 DEF TypeInv, TypeOK
<1>12. Filled'
  <2>1. \A x \in Reqs : setter'[x] # None => req[x].op = "react"
    BY <1>1, <1>10 DEF TypeInv, Filled
  <2>2. QED
    BY <1>1, <1>8, <2>1, GotoMoves, MovesFilled DEF TypeInv, Pc
<1>13. ReactionsOnce'
  BY <1>7, <1>8, <1>10 DEF TypeInv, ReactionsOnce
<1>14. QED
  BY <1>11, <1>12, <1>13 DEF TypeInv

\* The goroutines.
LEMMA BackgroundType ==
  ASSUME TypeInv, NEW q \in Reqs, Background(q)
  PROVE  TypeInv'
<1>1. CASE Post(q) \/ PostFails(q)
  <2>1. UNCHANGED <<chan, groups, fresh, msg, nextId, react, setter, req, tx>>
    BY <1>1 DEF Post, PostFails, channelVars, reactVars
  <2>2. /\ poster' \in [Reqs -> {None} \cup SUBSET Reqs]
        /\ sent' \in [Reqs -> {None} \cup SUBSET Reqs]
        /\ poster[q] # None
        /\ \A x \in Reqs \ {q} : poster'[x] = poster[x] /\ sent'[x] = sent[x]
    BY <1>1 DEF Post, PostFails, TypeInv, TypeOK
  <2>3. TypeOK'
    BY <2>1, <2>2 DEF TypeInv, TypeOK
  <2>4. Filled'
    BY <2>1, <2>2 DEF TypeInv, Filled
  <2>5. ReactionsOnce'
    BY <2>1 DEF TypeInv, ReactionsOnce
  <2>6. QED
    BY <2>3, <2>4, <2>5 DEF TypeInv
<1>2. CASE SetReactions(q) \/ SetFails(q)
  <2>1. UNCHANGED <<chan, groups, fresh, msg, nextId, poster, sent, req, tx>>
    BY <1>2 DEF SetReactions, SetFails, channelVars, postVars
  <2>2. setter[q] # None /\ req[q].msg \in MsgId
    BY <1>2 DEF SetReactions, SetFails, TypeInv, Filled
  <2>3. /\ setter' \in [Reqs -> {None} \cup [Emojis -> Seq(Users)]]
        /\ setter'[q] = None /\ \A x \in Reqs \ {q} : setter'[x] = setter[x]
    BY <1>2 DEF SetReactions, SetFails, TypeInv, TypeOK
  <2>4. /\ react' \in [MsgId -> [Emojis -> Seq(Users)]]
        /\ \A m \in MsgId : react'[m] = react[m] \/ react'[m] = setter[q]
    BY <1>2, <2>2 DEF SetReactions, SetFails, TypeInv, TypeOK
  <2>5. TypeOK'
    BY <2>1, <2>3, <2>4 DEF TypeInv, TypeOK
  <2>6. Filled'
    BY <2>1, <2>3 DEF TypeInv, Filled
  <2>7. ReactionsOnce'
    <3>1. \A m \in MsgId, e \in Emojis : NoDuplicates(react'[m][e])
      BY <2>2, <2>4 DEF TypeInv, ReactionsOnce
    <3>2. QED
      BY <2>3, <3>1 DEF TypeInv, ReactionsOnce
  <2>8. QED
    BY <2>5, <2>6, <2>7 DEF TypeInv
<1>3. QED
  BY <1>1, <1>2 DEF Background

\* The start.
LEMMA InitType == Init => TypeInv
<1> SUFFICES ASSUME Init PROVE TypeInv
  OBVIOUS
<1> USE MsgAssumption
<1>1. NoRequest \in Request /\ NoTx \in Transaction
  BY DEF NoRequest, Request, Pc, AllOps, NoTx, Transaction
<1>2. NoReactions \in [Emojis -> Seq(Users)] /\ \A e \in Emojis : NoDuplicates(NoReactions[e])
  BY DEF NoReactions, NoDuplicates
<1>3. chan \in [Channels -> Groups \cup {Top, None}]
  BY DEF Init
<1>4. groups \in SUBSET Groups /\ fresh \in SUBSET (Channels \cup Groups)
  BY <1>3 DEF Init
<1>5. TypeOK
  BY <1>1, <1>2, <1>3, <1>4 DEF Init, TypeOK
<1>6. Filled
  BY DEF Init, Filled, NoRequest
<1>7. ReactionsOnce
  BY <1>2 DEF Init, ReactionsOnce
<1>8. QED
  BY <1>5, <1>6, <1>7 DEF TypeInv

\* Every step.
LEMMA NextType == TypeInv /\ [Next]_vars => TypeInv'
<1> SUFFICES ASSUME TypeInv, [Next]_vars PROVE TypeInv'
  OBVIOUS
<1>1. ASSUME NEW q \in Reqs, Progress(q)
      PROVE  TypeInv'
  BY <1>1, BeginJoinType, BeginInsertType, PlainType, InsertRowType, CommitType,
     ReadType, UpdateEditedType, ReactGetType, ManageType DEF Progress
<1>2. CASE UNCHANGED vars
  BY <1>2 DEF vars, TypeInv, TypeOK, Filled, ReactionsOnce
<1>3. QED
  BY <1>1, <1>2, ArriveType, BackgroundType, PlainType DEF Next, Rest

LEMMA AlwaysType == Spec => []TypeInv
BY InitType, NextType, PTL DEF Spec

\* Every variable keeps its type, and with it every row, value in Redis and
\* broadcast its shape.
THEOREM MessagesTypeCorrect == Spec => []TypeOK
<1>1. TypeInv => TypeOK
  BY DEF TypeInv
<1>2. QED
  BY <1>1, AlwaysType, PTL

\* A user never counts twice for an emoji of a message, whichever Get and Set of
\* ReactToMessage overtake each other.
THEOREM ReactionsCountOnce == Spec => []ReactionsOnce
<1>1. TypeInv => ReactionsOnce
  BY DEF TypeInv
<1>2. QED
  BY <1>1, AlwaysType, PTL

-----------------------------------------------------------------------------
(***************************************************************************)
(* Texts: the steps of requests that are under way.                        *)
(***************************************************************************)

\* Texts are named by requests.
LEMMA TextsAreRequests ==
  ASSUME TypeInv
  PROVE  /\ \A m \in MsgId : msg[m] # None =>
               msg[m] \in Row /\ msg[m].texts \subseteq Reqs
         /\ \A x \in Reqs : tx[x].texts \subseteq Reqs
BY DEF TypeInv, TypeOK, Row, Transaction

\* Requests keep what they carry, and messages their texts.
LEMMA SameTexts ==
  ASSUME TypeInv, TextsBelong, UNCHANGED msg,
         \A x \in Reqs :
            /\ req'[x].op = req[x].op /\ req'[x].who = req[x].who
            /\ req'[x].chan = req[x].chan /\ req'[x].msg = req[x].msg
            /\ req[x].unseen \subseteq req'[x].unseen
  PROVE  TextsBelong'
<1> SUFFICES ASSUME NEW m \in MsgId, msg[m] # None
             PROVE  /\ \A t \in msg[m].texts :
                          /\ req'[t].who = msg[m].user
                          /\ req'[t].op = "create" => req'[t].chan = msg[m].channel
                          /\ req'[t].op = "edit" => req'[t].msg = m
                    /\ msg[m].files =>
                          \/ \E t \in Reqs : msg[m].texts = {t}
                          \/ \E t \in msg[m].texts : "count" \in req'[t].unseen
  BY DEF TextsBelong
<1>1. msg[m].texts \subseteq Reqs
  BY TextsAreRequests
<1>2. QED
  BY <1>1 DEF TextsBelong

\* A request moves on and no message changes.
LEMMA QuietText ==
  ASSUME TypeInv, TextInv, NEW q \in Reqs, NEW pc \in {"commit", "done", "failed"},
         Moves(q, pc), Busy(q), UNCHANGED <<msg, nextId>>,
         \A x \in Reqs \ {q} : tx'[x] = tx[x],
         \A x \in Reqs : req[x].op = "create" /\ chan[req[x].chan] = None =>
            chan'[req[x].chan] = None,
         FreshUnused',
         req[q].op = "edit" => pc = "failed",
         pc = "commit" => /\ req[q].pc = "write" /\ req[q].op = "create"
                          /\ tx[q].merge /\ tx'[q] = tx[q],
         pc = "done" /\ req[q].op = "create" => req[q].pc = "read"
  PROVE  TextInv'
<1> USE DEF TextInv
<1>1. /\ req'[q].pc = pc /\ req'[q].op = req[q].op
      /\ req'[q].who = req[q].who /\ req'[q].chan = req[q].chan
      /\ req'[q].msg = req[q].msg /\ req'[q].mid = req[q].mid
      /\ req[q].unseen \subseteq req'[q].unseen
      /\ \A x \in Reqs \ {q} : req'[x] = req[x]
  BY DEF Moves
<1>2. \A x \in Reqs :
        /\ req'[x].op = req[x].op /\ req'[x].who = req[x].who
        /\ req'[x].chan = req[x].chan /\ req'[x].msg = req[x].msg
        /\ req'[x].mid = req[x].mid /\ req[x].unseen \subseteq req'[x].unseen
        /\ req'[x].pc = "idle" <=> req[x].pc = "idle"
  BY <1>1 DEF Busy
<1>3. \A x \in Reqs : Busy(x)' => Busy(x)
  BY <1>1 DEF Busy
<1>4. \A x \in Reqs : Placed(x)' => Placed(x)
  BY <1>1 DEF Placed, Writing
<1>5. \A x \in Reqs : Writing(x)' => Writing(x) /\ tx'[x] = tx[x]
  BY <1>1 DEF Writing
<1>6. IdsGiven'
  BY <1>2, TextsAreRequests DEF IdsGiven
<1>7. IdsFresh'
  BY <1>1, <1>2 DEF IdsFresh, Inserting
<1>8. WritesOwn'
  BY <1>2, <1>5, TextsAreRequests DEF WritesOwn
<1>9. PlacedStays'
  BY <1>2, <1>4, <1>5 DEF PlacedStays, Placed
<1>10. EditsOwn'
  BY <1>1, <1>2 DEF EditsOwn
<1>11. FreshUnused'
  BY FreshUnused'
<1>12. PatientAlone'
  BY <1>2, <1>3 DEF PatientAlone
<1>13. SnapshotHolds'
  BY <1>2, <1>5 DEF SnapshotHolds
<1>14. ReadHolds'
  BY <1>1 DEF ReadHolds
<1>15. TextsBelong'
  BY <1>2, SameTexts
<1>16. NoTextLost'
  <2> SUFFICES ASSUME NEW x \in Reqs, req'[x].op = "create", req'[x].pc = "done",
                      req'[x].who \in Patient
               PROVE  \/ chan'[req'[x].chan] = None
                      \/ /\ msg'[req'[x].mid] # None
                         /\ \/ x \in msg'[req'[x].mid].texts
                            \/ \E y \in Reqs : /\ req'[y].op = "edit"
                                               /\ req'[y].msg = req'[x].mid
                                               /\ req'[y].pc = "done"
    BY DEF NoTextLost
  <2>1. CASE x = q
    <3>1. req[q].pc = "read" /\ req[q].op = "create" /\ req[q].who \in Patient
      BY <1>1, <2>1
    <3>2. msg[req[q].mid] = None => chan[req[q].chan] = None
      BY <3>1 DEF PlacedStays, Placed
    <3>3. msg[req[q].mid] # None => q \in msg[req[q].mid].texts
      BY <3>1 DEF ReadHolds
    <3>4. QED
      BY <1>1, <2>1, <3>1, <3>2, <3>3
  <2>2. CASE x # q
    <3>1. req'[x] = req[x]
      BY <1>1, <2>2
    <3>2. CASE chan[req[x].chan] = None
      BY <3>1, <3>2
    <3>3. CASE msg[req[x].mid] # None /\ x \in msg[req[x].mid].texts
      BY <3>1, <3>3
    <3>4. ASSUME NEW y \in Reqs, msg[req[x].mid] # None, req[y].op = "edit",
                 req[y].msg = req[x].mid, req[y].pc = "done"
          PROVE  /\ msg'[req'[x].mid] # None
                 /\ req'[y].op = "edit" /\ req'[y].msg = req'[x].mid
                 /\ req'[y].pc = "done"
      BY <1>1, <3>1, <3>4 DEF Busy, Over
    <3>5. QED
      BY <3>1, <3>2, <3>3, <3>4 DEF NoTextLost
  <2>3. QED
    BY <2>1, <2>2
<1>17. QED
  BY <1>6, <1>7, <1>8, <1>9, <1>10, <1>11, <1>12, <1>13, <1>14,
     <1>15, <1>16 DEF TextInv

\* Steps to which QuietText applies.
LEMMA EndsText ==
  ASSUME TypeInv, TextInv, NEW q \in Reqs,
         \/ BeginNoParent(q) \/ UpdateText(q) \/ ReadBackGone(q) \/ Abort(q)
         \/ ReadBack(q) \/ ReadBackRaced(q) \/ ReadParentRaced(q)
         \/ ReactGet(q) \/ ReactGetFails(q)
  PROVE  TextInv'
<1>1. PICK pc \in {"commit", "done", "failed"} : Moves(q, pc)
        /\ (req[q].op = "edit" => pc = "failed")
        /\ (pc = "commit" => /\ req[q].pc = "write" /\ req[q].op = "create"
                             /\ tx[q].merge /\ tx'[q] = tx[q])
        /\ (pc = "done" /\ req[q].op = "create" => req[q].pc = "read")
  <2>1. CASE ReadBackRaced(q)
    BY <2>1, RacedMoves DEF ReadBackRaced, TypeInv, Filled
  <2>2. CASE ~ReadBackRaced(q)
    <3>1. PICK pc \in {"commit", "done", "failed"} : Goto(q, pc)
            /\ (req[q].op = "edit" => pc = "failed")
            /\ (pc = "commit" => /\ req[q].pc = "write" /\ req[q].op = "create"
                                 /\ tx[q].merge /\ tx'[q] = tx[q])
            /\ (pc = "done" /\ req[q].op = "create" => req[q].pc = "read")
      BY <2>2 DEF BeginNoParent, UpdateText, ReadBackGone, Abort, ReadBack,
         ReadParentRaced, ReactGet, ReactGetFails, TypeInv, Filled
    <3>2. Moves(q, pc)
      BY <3>1, GotoMoves DEF TypeInv, Pc
    <3>3. QED
      BY <3>1, <3>2
  <2>3. QED
    BY <2>1, <2>2
<1>2. Busy(q) /\ UNCHANGED <<chan, fresh, msg, nextId>>
  BY DEF BeginNoParent, UpdateText, ReadBackGone, Abort, ReadBack, ReadBackRaced,
     ReadParentRaced, ReactGet, ReactGetFails, Busy, Over, channelVars
<1>3. \A x \in Reqs \ {q} : tx'[x] = tx[x]
  BY DEF BeginNoParent, UpdateText, ReadBackGone, Abort, ReadBack, ReadBackRaced,
     ReadParentRaced, ReactGet, ReactGetFails, TypeInv, TypeOK
<1>4. FreshUnused'
  <2>1. \A x \in Reqs : req'[x].op = req[x].op /\ req'[x].chan = req[x].chan
    BY <1>1 DEF Moves
  <2>2. QED
    BY <1>2, <2>1 DEF TextInv, FreshUnused
<1>5. QED
  BY <1>1, <1>2, <1>3, <1>4, QuietText

\* The requests about groups and channels are carried out.
LEMMA ManageText ==
  ASSUME TypeInv, TextInv, NEW q \in Reqs,
         \/ DeleteGroupRows(q) \/ UpdateChannel(q)
         \/ \E c \in Channels : InsertChannel(q, c)
  PROVE  TextInv'
<1>1. /\ Goto(q, "done") /\ Busy(q) /\ UNCHANGED <<msg, nextId, tx>>
      /\ req[q].op \notin {"create", "edit"}
  BY DEF DeleteGroupRows, UpdateChannel, InsertChannel, Busy, Over
<1>2. \A x \in Reqs : req'[x].op = req[x].op /\ req'[x].chan = req[x].chan
  BY <1>1, GotoFacts DEF TypeInv, Pc
<1>3. /\ \A x \in Reqs : req[x].op = "create" /\ chan[req[x].chan] = None =>
            chan'[req[x].chan] = None
      /\ FreshUnused'
  <2>1. \A x \in Reqs : req[x].op = "create" => req[x].chan \in Channels
    BY DEF TypeInv, Filled
  <2>2. CASE DeleteGroupRows(q)
    BY <1>2, <2>1, <2>2 DEF DeleteGroupRows, TextInv, FreshUnused
  <2>3. CASE UpdateChannel(q)
    BY <1>2, <2>1, <2>3 DEF UpdateChannel, TextInv, FreshUnused, TypeInv, TypeOK
  <2>4. ASSUME NEW c \in Channels, InsertChannel(q, c)
        PROVE  /\ \A x \in Reqs : req[x].op = "create" /\ chan[req[x].chan] = None =>
                     chan'[req[x].chan] = None
               /\ FreshUnused'
    <3>1. /\ c \in fresh /\ fresh' = fresh \ {c}
          /\ \A d \in Channels \ {c} : chan'[d] = chan[d]
      BY <2>4 DEF InsertChannel, TypeInv, TypeOK
    <3>2. \A x \in Reqs : req[x].op = "create" => req[x].chan # c
      BY <3>1 DEF TextInv, FreshUnused
    <3>3. QED
      BY <1>2, <2>1, <3>1, <3>2 DEF TextInv, FreshUnused
  <2>5. QED
    BY <2>2, <2>3, <2>4
<1>4. QED
  <2>1. Moves(q, "done")
    BY <1>1, GotoMoves DEF TypeInv, Pc
  <2>2. QED
    BY <1>1, <1>3, <2>1, QuietText

\* The SELECTs of a CreateMessage whose text joins message m.
LEMMA BeginJoinText ==
  ASSUME TypeInv, TypeInv', TextInv, NEW q \in Reqs, NEW m \in MsgId,
         BeginJoin(q, m) \/ BeginJoinUncounted(q, m)
  PROVE  TextInv'
<1> USE DEF TextInv
<1>1. /\ req[q].pc = "begin" /\ req[q].op = "create"
      /\ msg[m] # None /\ msg[m].channel = req[q].chan /\ msg[m].user = req[q].who
      /\ UNCHANGED <<chan, fresh, msg, nextId>>
  BY JoinFacts
<1>2. /\ req'[q].pc = "write" /\ req'[q].op = req[q].op
      /\ req'[q].who = req[q].who /\ req'[q].chan = req[q].chan
      /\ req'[q].msg = req[q].msg /\ req'[q].mid = m
      /\ req[q].unseen \subseteq req'[q].unseen
      /\ ~msg[m].files \/ "count" \in req'[q].unseen
      /\ \A x \in Reqs \ {q} : req'[x] = req[x]
  BY JoinFacts
<1>3. /\ tx'[q].merge /\ tx'[q].texts = msg[m].texts \cup {q}
      /\ \A x \in Reqs \ {q} : tx'[x] = tx[x]
  <2>1. tx' = [tx EXCEPT ![q] = [merge |-> TRUE, texts |-> msg[m].texts \cup {q}]]
    BY JoinFacts
  <2>2. QED
    BY <2>1 DEF TypeInv, TypeOK
<1>4. \A x \in Reqs :
        /\ req'[x].op = req[x].op /\ req'[x].who = req[x].who
        /\ req'[x].chan = req[x].chan /\ req'[x].msg = req[x].msg
        /\ req[x].unseen \subseteq req'[x].unseen
        /\ req'[x].pc = "idle" <=> req[x].pc = "idle"
  BY <1>1, <1>2
<1>5. \A x \in Reqs : Busy(x)' => Busy(x)
  BY <1>1, <1>2 DEF Busy, Over
<1>6. m < nextId /\ msg[m].texts \in SUBSET Reqs
      /\ \A t \in msg[m].texts : req[t].pc # "idle"
  BY <1>1, TextsAreRequests DEF IdsGiven
<1>7. IdsGiven'
  BY <1>1, <1>2, <1>4, <1>6, TextsAreRequests DEF IdsGiven
<1>8. IdsFresh'
  BY <1>1, <1>2, <1>3, <1>4 DEF IdsFresh, Inserting
<1>9. WritesOwn'
  <2>1. \A t \in tx'[q].texts :
          /\ req'[t].pc # "idle" /\ req'[t].who = req'[q].who
          /\ req'[t].op = "create" => req'[t].chan = req'[q].chan
          /\ req'[t].op = "edit" => req'[t].msg = req'[q].mid
    BY <1>1, <1>2, <1>3, <1>4, <1>6 DEF TextsBelong
  <2>2. \A x \in Reqs \ {q} : Writing(x)' => Writing(x) /\ tx'[x] = tx[x]
    BY <1>2, <1>3 DEF Writing
  <2>3. \A x \in Reqs : tx[x].texts \in SUBSET Reqs
    BY TextsAreRequests
  <2>4. QED
    BY <1>2, <1>3, <1>4, <2>1, <2>2, <2>3 DEF WritesOwn
<1>10. PlacedStays'
  BY <1>1, <1>2, <1>3 DEF PlacedStays, Placed, Writing
<1>11. EditsOwn'
  BY <1>1, <1>2 DEF EditsOwn
<1>12. FreshUnused'
  BY <1>1, <1>4 DEF FreshUnused
<1>13. PatientAlone'
  BY <1>4, <1>5 DEF PatientAlone
<1>14. SnapshotHolds'
  BY <1>1, <1>2, <1>3 DEF SnapshotHolds, Writing
<1>15. ReadHolds'
  BY <1>1, <1>2 DEF ReadHolds
<1>16. TextsBelong'
  BY <1>1, <1>4, SameTexts
<1>17. NoTextLost'
  <2>1. \A x \in Reqs : req'[x].pc = "done" <=> req[x].pc = "done"
    BY <1>1, <1>2
  <2>2. \A x \in Reqs : req'[x].pc = "done" => req'[x].mid = req[x].mid
    BY <1>2
  <2>3. QED
    BY <1>1, <1>4, <2>1, <2>2 DEF NoTextLost
<1>18. QED
  BY <1>7, <1>8, <1>9, <1>10, <1>11, <1>12, <1>13, <1>14, <1>15,
     <1>16, <1>17 DEF TextInv

\* The SELECTs of a CreateMessage whose text will be a message of its own.
LEMMA BeginInsertText ==
  ASSUME TypeInv, TextInv, NEW q \in Reqs, BeginInsert(q) \/ BeginUnread(q)
  PROVE  TextInv'
<1> USE DEF TextInv
<1>1. /\ req[q].pc = "begin" /\ req[q].op = "create"
      /\ UNCHANGED <<chan, fresh, msg, nextId>>
  BY DEF BeginInsert, BeginUnread, TypeInv, Filled, channelVars
<1>2. /\ req'[q].pc = "write" /\ req'[q].op = req[q].op
      /\ req'[q].who = req[q].who /\ req'[q].chan = req[q].chan
      /\ req'[q].msg = req[q].msg /\ req'[q].mid = req[q].mid
      /\ req'[q].unseen = req[q].unseen
      /\ \A x \in Reqs \ {q} : req'[x] = req[x]
  BY GotoFacts DEF BeginInsert, BeginUnread, TypeInv, Pc
<1>3. /\ ~tx'[q].merge /\ tx'[q].texts = {q}
      /\ \A x \in Reqs \ {q} : tx'[x] = tx[x]
  BY DEF BeginInsert, BeginUnread, TypeInv, TypeOK
<1>4. \A x \in Reqs :
        /\ req'[x].op = req[x].op /\ req'[x].who = req[x].who
        /\ req'[x].chan = req[x].chan /\ req'[x].msg = req[x].msg
        /\ req'[x].mid = req[x].mid
        /\ req'[x].unseen = req[x].unseen
        /\ req'[x].pc = "idle" <=> req[x].pc = "idle"
        /\ req'[x].pc = "done" <=> req[x].pc = "done"
  BY <1>1, <1>2
<1>5. \A x \in Reqs : Busy(x)' => Busy(x)
  BY <1>1, <1>2 DEF Busy, Over
<1>6. IdsGiven'
  BY <1>1, <1>4, TextsAreRequests DEF IdsGiven
<1>7. IdsFresh'
  BY <1>1, <1>2, <1>3, <1>4 DEF IdsFresh, Inserting
<1>8. WritesOwn'
  <2>1. \A x \in Reqs \ {q} : Writing(x)' => Writing(x) /\ tx'[x] = tx[x]
    BY <1>2, <1>3 DEF Writing
  <2>2. \A x \in Reqs : tx[x].texts \in SUBSET Reqs
    BY TextsAreRequests
  <2>3. QED
    BY <1>1, <1>2, <1>3, <1>4, <2>1, <2>2 DEF WritesOwn
<1>9. PlacedStays'
  BY <1>1, <1>2, <1>3 DEF PlacedStays, Placed, Writing
<1>10. EditsOwn'
  BY <1>1, <1>2 DEF EditsOwn
<1>11. FreshUnused'
  BY <1>1, <1>4 DEF FreshUnused
<1>12. PatientAlone'
  BY <1>4, <1>5 DEF PatientAlone
<1>13. SnapshotHolds'
  BY <1>1, <1>2, <1>3 DEF SnapshotHolds, Writing
<1>14. ReadHolds'
  BY <1>1, <1>2 DEF ReadHolds
<1>15. TextsBelong'
  BY <1>1, <1>4, SameTexts
<1>16. NoTextLost'
  BY <1>1, <1>4 DEF NoTextLost
<1>17. QED
  BY <1>6, <1>7, <1>8, <1>9, <1>10, <1>11, <1>12, <1>13, <1>14,
     <1>15, <1>16 DEF TextInv

\* The INSERT takes an id that nobody knows.
LEMMA InsertRowText ==
  ASSUME TypeInv, TextInv, NEW q \in Reqs, InsertRow(q)
  PROVE  TextInv'
<1> USE DEF TextInv
<1>1. /\ req[q].pc = "write" /\ req[q].op = "create" /\ ~tx[q].merge
      /\ nextId \in MsgId /\ nextId' = nextId + 1
      /\ UNCHANGED <<chan, fresh, msg, tx>>
  BY DEF InsertRow, channelVars
<1>2. /\ req'[q].pc = "commit" /\ req'[q].op = req[q].op
      /\ req'[q].who = req[q].who /\ req'[q].chan = req[q].chan
      /\ req'[q].msg = req[q].msg /\ req'[q].mid = nextId
      /\ req'[q].unseen = req[q].unseen
      /\ \A x \in Reqs \ {q} : req'[x] = req[x]
  <2>1. PICK v \in MsgId : v = nextId
    BY <1>1
  <2>2. GotoMid(q, "commit", v)
    BY <2>1 DEF InsertRow, GotoMid
  <2>3. /\ req'[q].pc = "commit" /\ req'[q].op = req[q].op
        /\ req'[q].who = req[q].who /\ req'[q].chan = req[q].chan
        /\ req'[q].msg = req[q].msg /\ req'[q].mid = v
        /\ req'[q].unseen = req[q].unseen
        /\ \A x \in Reqs \ {q} : req'[x] = req[x]
    BY <2>2, GotoMidFacts DEF TypeInv, Pc
  <2>4. QED
    BY <2>1, <2>3
<1>3. \A x \in Reqs :
        /\ req'[x].op = req[x].op /\ req'[x].who = req[x].who
        /\ req'[x].chan = req[x].chan /\ req'[x].msg = req[x].msg
        /\ req'[x].unseen = req[x].unseen
        /\ req'[x].pc = "idle" <=> req[x].pc = "idle"
        /\ req'[x].pc = "done" <=> req[x].pc = "done"
  BY <1>1, <1>2
<1>4. \A x \in Reqs : Busy(x)' => Busy(x)
  BY <1>1, <1>2 DEF Busy, Over
<1>5. /\ nextId \in Nat
      /\ \A x \in Reqs : req[x].mid \in Nat /\ req[x].msg \in Nat
      /\ \A m \in MsgId : m \in Nat
  BY DEF TypeInv, TypeOK, Request, MsgId
<1>6. IdsGiven'
  <2>1. \A m \in MsgId : msg[m] # None =>
          m < nextId' /\ \A t \in msg[m].texts : req'[t].pc # "idle"
    BY <1>1, <1>3, <1>5, TextsAreRequests DEF IdsGiven
  <2>2. \A x \in Reqs : req'[x].mid < nextId'
    BY <1>1, <1>2, <1>5 DEF IdsGiven
  <2>3. \A x \in Reqs : req'[x].op = "edit" => req'[x].msg < nextId'
    BY <1>1, <1>3, <1>5 DEF IdsGiven
  <2>4. QED
    BY <1>1, <2>1, <2>2, <2>3 DEF IdsGiven
<1>7. IdsFresh'
  <2>1. msg[nextId] = None
    BY <1>1, <1>5 DEF IdsGiven
  <2>2. \A x \in Reqs : /\ req[x].mid # nextId
                        /\ req[x].op = "edit" => req[x].msg # nextId
    BY <1>5 DEF IdsGiven
  <2>3. QED
    BY <1>1, <1>2, <1>3, <2>1, <2>2 DEF IdsFresh, Inserting
<1>8. WritesOwn'
  <2>1. \A x \in Reqs : Writing(x)' => Writing(x)
    BY <1>1, <1>2 DEF Writing
  <2>2. \A x \in Reqs : tx[x].texts \in SUBSET Reqs
    BY TextsAreRequests
  <2>3. \A x \in Reqs : tx[x].merge => req'[x].mid = req[x].mid
    BY <1>1, <1>2
  <2>4. QED
    BY <1>1, <1>3, <2>1, <2>2, <2>3 DEF WritesOwn
<1>9. PlacedStays'
  BY <1>1, <1>2 DEF PlacedStays, Placed, Writing
<1>10. EditsOwn'
  BY <1>1, <1>2 DEF EditsOwn
<1>11. FreshUnused'
  BY <1>1, <1>3 DEF FreshUnused
<1>12. PatientAlone'
  BY <1>3, <1>4 DEF PatientAlone
<1>13. SnapshotHolds'
  BY <1>1, <1>2 DEF SnapshotHolds, Writing
<1>14. ReadHolds'
  BY <1>1, <1>2 DEF ReadHolds
<1>15. TextsBelong'
  BY <1>1, <1>3, SameTexts
<1>16. NoTextLost'
  <2>1. \A x \in Reqs : req'[x].pc = "done" => req'[x].mid = req[x].mid
    BY <1>2
  <2>2. QED
    BY <1>1, <1>3, <2>1 DEF NoTextLost
<1>17. QED
  BY <1>6, <1>7, <1>8, <1>9, <1>10, <1>11, <1>12, <1>13, <1>14,
     <1>15, <1>16 DEF TextInv

\* The UPDATE of EditMessage: row m has the new text alone.
LEMMA UpdateEditedText ==
  ASSUME TypeInv, TextInv, NEW q \in Reqs, UpdateEdited(q)
  PROVE  TextInv'
<1> USE DEF TextInv
<1>1. /\ req[q].pc = "write" /\ req[q].op = "edit" /\ Busy(q) /\ Goto(q, "done")
      /\ UNCHANGED <<chan, fresh, nextId, tx>>
  BY EditedFacts DEF UpdateEdited, channelVars
<1>2. PICK m \in MsgId : m = req[q].msg
  BY EditedFacts
<1>3. /\ \A n \in MsgId \ {m} : msg'[n] = msg[n]
      /\ msg[m] = None => msg'[m] = None
      /\ msg[m] # None =>
            /\ msg'[m] # None /\ msg'[m].texts = {q} /\ msg'[m].user = msg[m].user
            /\ msg'[m].channel = msg[m].channel /\ msg'[m].files = msg[m].files
  BY <1>2, EditedFacts, MsgAssumption
<1>4. \A n \in MsgId : msg'[n] = None <=> msg[n] = None
  BY <1>3
<1>5. \A n \in MsgId : msg[n] # None =>
        /\ msg'[n].user = msg[n].user /\ msg'[n].channel = msg[n].channel
        /\ msg'[n].files = msg[n].files
        /\ msg'[n].texts = {q} \/ msg'[n].texts = msg[n].texts
  BY <1>3
<1>6. /\ req'[q].pc = "done" /\ req'[q].op = req[q].op
      /\ req'[q].who = req[q].who /\ req'[q].chan = req[q].chan
      /\ req'[q].msg = req[q].msg /\ req'[q].mid = req[q].mid
      /\ req'[q].unseen = req[q].unseen
      /\ \A x \in Reqs \ {q} : req'[x] = req[x]
  BY <1>1, GotoFacts DEF TypeInv, Pc
<1>7. \A x \in Reqs :
        /\ req'[x].op = req[x].op /\ req'[x].who = req[x].who
        /\ req'[x].chan = req[x].chan /\ req'[x].msg = req[x].msg
        /\ req'[x].mid = req[x].mid
        /\ req'[x].unseen = req[x].unseen
        /\ req'[x].pc = "idle" <=> req[x].pc = "idle"
  BY <1>1, <1>6
<1>8. \A x \in Reqs : Busy(x)' => Busy(x)
  BY <1>1, <1>6 DEF Busy
<1>9. \A x \in Reqs :
        /\ Writing(x)' <=> Writing(x)
        /\ Placed(x)' <=> Placed(x)
        /\ Inserting(x)' <=> Inserting(x)
  BY <1>1, <1>6 DEF Writing, Placed, Inserting
<1>10. \A x \in Reqs : Placed(x) \/ Inserting(x) => req[x].mid \in MsgId
  BY DEF TypeInv, Filled, Placed, Inserting, Writing
<1>11. msg[m] # None => msg[m].user = req[q].who
  BY <1>1, <1>2 DEF EditsOwn
<1>12. \A x \in Reqs : Placed(x) /\ req[x].mid = m /\ Busy(x) /\ msg[m] # None =>
         req[x].who \notin Patient
  BY <1>1, <1>11 DEF PlacedStays, PatientAlone, Placed, Writing
<1>13. IdsGiven'
  <2>1. \A n \in MsgId : msg'[n] # None =>
          n < nextId /\ \A t \in msg'[n].texts : req'[t].pc # "idle"
    BY <1>1, <1>4, <1>5, <1>7, TextsAreRequests DEF IdsGiven
  <2>2. QED
    BY <1>1, <1>7, <2>1 DEF IdsGiven
<1>14. IdsFresh'
  BY <1>4, <1>7, <1>9, <1>10 DEF IdsFresh
<1>15. WritesOwn'
  BY <1>1, <1>7, <1>9, TextsAreRequests DEF WritesOwn
<1>16. PlacedStays'
  <2> SUFFICES ASSUME NEW x \in Reqs, Placed(x), NEW k \in MsgId, k = req[x].mid
               PROVE  /\ msg'[k] = None => chan[req[x].chan] = None
                      /\ msg'[k] # None =>
                            /\ msg'[k].user = req[x].who
                            /\ msg'[k].channel = req[x].chan
                            /\ Writing(x) => \/ ~msg'[k].files
                                             \/ "count" \in req[x].unseen
    BY <1>1, <1>7, <1>9, <1>10 DEF PlacedStays
  <2>1. QED
    BY <1>4, <1>5 DEF PlacedStays
<1>17. EditsOwn'
  <2>1. \A x \in Reqs : req[x].op = "edit" => req[x].msg \in MsgId
    BY DEF TypeInv, Filled
  <2>2. QED
    BY <1>4, <1>5, <1>6, <2>1 DEF EditsOwn
<1>18. FreshUnused'
  BY <1>1, <1>7 DEF FreshUnused
<1>19. PatientAlone'
  BY <1>7, <1>8 DEF PatientAlone
<1>20. SnapshotHolds'
  <2> SUFFICES ASSUME NEW x \in Reqs, Writing(x), tx[x].merge, req[x].who \in Patient,
                      msg'[req[x].mid] # None
               PROVE  msg'[req[x].mid].texts \subseteq tx[x].texts
    BY <1>1, <1>7, <1>9 DEF SnapshotHolds
  <2>1. Placed(x) /\ Busy(x)
    BY DEF Placed, Writing, Busy, Over
  <2>2. req[x].mid \in MsgId /\ req[x].mid # m
    BY <1>4, <1>10, <1>12, <2>1
  <2>3. QED
    BY <1>3, <2>2 DEF SnapshotHolds
<1>21. ReadHolds'
  <2> SUFFICES ASSUME NEW x \in Reqs, req[x].pc = "read", req[x].who \in Patient,
                      msg'[req[x].mid] # None
               PROVE  x \in msg'[req[x].mid].texts
    BY <1>6, <1>7 DEF ReadHolds
  <2>1. Placed(x) /\ Busy(x)
    BY DEF Placed, Writing, Busy, Over, TypeInv, Filled
  <2>2. req[x].mid \in MsgId /\ req[x].mid # m
    BY <1>4, <1>10, <1>12, <2>1
  <2>3. QED
    BY <1>3, <2>2 DEF ReadHolds
<1>22. TextsBelong'
  <2> SUFFICES ASSUME NEW n \in MsgId, msg'[n] # None
               PROVE  /\ \A t \in msg'[n].texts :
                            /\ req'[t].who = msg'[n].user
                            /\ req'[t].op = "create" => req'[t].chan = msg'[n].channel
                            /\ req'[t].op = "edit" => req'[t].msg = n
                      /\ msg'[n].files =>
                            \/ \E t \in Reqs : msg'[n].texts = {t}
                            \/ \E t \in msg'[n].texts : "count" \in req'[t].unseen
    BY DEF TextsBelong
  <2>1. CASE n = m
    BY <1>1, <1>2, <1>3, <1>7, <1>11, <2>1
  <2>2. CASE n # m
    <3>1. msg[n] # None /\ msg'[n] = msg[n] /\ msg[n].texts \subseteq Reqs
      BY <1>3, <2>2, TextsAreRequests
    <3>2. QED
      BY <1>7, <3>1 DEF TextsBelong
  <2>3. QED
    BY <2>1, <2>2
<1>23. NoTextLost'
  <2> SUFFICES ASSUME NEW x \in Reqs, req'[x].op = "create", req'[x].pc = "done",
                      req'[x].who \in Patient
               PROVE  \/ chan'[req'[x].chan] = None
                      \/ /\ msg'[req'[x].mid] # None
                         /\ \/ x \in msg'[req'[x].mid].texts
                            \/ \E y \in Reqs : /\ req'[y].op = "edit"
                                               /\ req'[y].msg = req'[x].mid
                                               /\ req'[y].pc = "done"
    BY DEF NoTextLost
  <2>1. x # q /\ req'[x] = req[x] /\ Placed(x)
    BY <1>1, <1>6 DEF Placed
  <2>2. req[x].mid \in MsgId
    BY <1>10, <2>1
  <2>3. CASE chan[req[x].chan] = None
    BY <1>1, <2>1, <2>3
  <2>4. CASE req[x].mid = m /\ msg[m] # None
    BY <1>1, <1>2, <1>3, <1>6, <1>7, <2>1, <2>4
  <2>5. CASE req[x].mid = m /\ msg[m] = None
    BY <2>1, <2>3, <2>5 DEF PlacedStays
  <2>6. CASE req[x].mid # m /\ chan[req[x].chan] # None
    <3>1. msg'[req[x].mid] = msg[req[x].mid]
      BY <1>3, <2>2, <2>6
    <3>2. \A y \in Reqs : req[y].pc = "done" => req'[y] = req[y]
      BY <1>1, <1>6
    <3>3. QED
      BY <2>1, <2>6, <3>1, <3>2 DEF NoTextLost
  <2>7. QED
    BY <2>3, <2>4, <2>5, <2>6
<1>24. QED
  BY <1>13, <1>14, <1>15, <1>16, <1>17, <1>18, <1>19, <1>20, <1>21,
     <1>22, <1>23 DEF TextInv

\* The commit of a CreateMessage.
LEMMA CommitText ==
  ASSUME TypeInv, TextInv, NEW q \in Reqs, Commit(q)
  PROVE  TextInv'
<1> USE DEF TextInv
<1>1. /\ req[q].pc = "commit" /\ req[q].op = "create" /\ Busy(q) /\ Goto(q, "read")
      /\ UNCHANGED <<chan, fresh, nextId>>
  BY CommitFacts DEF Commit, channelVars
<1>2. PICK m \in MsgId : m = req[q].mid
  BY CommitFacts
<1>3. /\ \A n \in MsgId \ {m} : msg'[n] = msg[n]
      /\ ~tx[q].merge => msg'[m] = NewRow(q) /\ msg'[m] # None
      /\ tx[q].merge /\ msg[m] = None => msg'[m] = None
      /\ tx[q].merge /\ msg[m] # None =>
            /\ msg'[m] # None
            /\ msg'[m].texts = tx[q].texts /\ msg'[m].user = msg[m].user
            /\ msg'[m].channel = msg[m].channel /\ msg'[m].files = msg[m].files
  BY <1>2, CommitFacts, MsgAssumption
<1>4. /\ req'[q].pc = "read" /\ req'[q].op = req[q].op
      /\ req'[q].who = req[q].who /\ req'[q].chan = req[q].chan
      /\ req'[q].msg = req[q].msg /\ req'[q].mid = req[q].mid
      /\ req'[q].unseen = req[q].unseen
      /\ \A x \in Reqs \ {q} : req'[x] = req[x]
  BY <1>1, GotoFacts DEF TypeInv, Pc
<1>5. \A x \in Reqs \ {q} : tx'[x] = tx[x]
  BY DEF Commit, TypeInv, TypeOK
<1>6. \A x \in Reqs :
        /\ req'[x].op = req[x].op /\ req'[x].who = req[x].who
        /\ req'[x].chan = req[x].chan /\ req'[x].msg = req[x].msg
        /\ req'[x].mid = req[x].mid
        /\ req'[x].unseen = req[x].unseen
        /\ req'[x].pc = "idle" <=> req[x].pc = "idle"
        /\ req'[x].pc = "done" <=> req[x].pc = "done"
  BY <1>1, <1>4
<1>7. \A x \in Reqs : Busy(x)' => Busy(x)
  BY <1>1, <1>4 DEF Busy
<1>8. \A x \in Reqs \ {q} :
        /\ Writing(x)' <=> Writing(x)
        /\ Placed(x)' <=> Placed(x)
        /\ Inserting(x)' <=> Inserting(x)
  BY <1>4, <1>5 DEF Writing, Placed, Inserting
<1>9. ~Writing(q)' /\ ~Inserting(q)' /\ Placed(q)'
  BY <1>1, <1>4 DEF Writing, Placed, Inserting
<1>10. \A x \in Reqs : Placed(x) \/ Inserting(x) => req[x].mid \in MsgId
  BY DEF TypeInv, Filled, Placed, Inserting, Writing
<1>11. /\ Writing(q) /\ tx[q].texts \subseteq Reqs /\ q \in tx[q].texts
       /\ \A t \in tx[q].texts :
             /\ req[t].pc # "idle" /\ req[t].who = req[q].who
             /\ req[t].op = "create" => req[t].chan = req[q].chan
             /\ req[t].op = "edit" => tx[q].merge /\ req[t].msg = m
       /\ ~tx[q].merge => tx[q].texts = {q}
  BY <1>1, <1>2, TextsAreRequests DEF WritesOwn, Writing
<1>12. ~tx[q].merge =>
         /\ msg[m] = None
         /\ \A x \in Reqs \ {q} : /\ req[x].mid # m
                                  /\ req[x].op = "edit" => req[x].msg # m
  BY <1>1, <1>2 DEF IdsFresh, Inserting
<1>13. tx[q].merge =>
         /\ msg[m] = None => chan[req[q].chan] = None
         /\ msg[m] # None => /\ msg[m].user = req[q].who
                             /\ msg[m].channel = req[q].chan
                             /\ ~msg[m].files \/ "count" \in req[q].unseen
  BY <1>1, <1>2 DEF PlacedStays, Placed, Writing
<1>14. ~tx[q].merge => /\ msg'[m].user = req[q].who /\ msg'[m].channel = req[q].chan
                       /\ msg'[m].texts = tx[q].texts
  BY <1>3 DEF NewRow
<1>15. msg'[m] # None => /\ msg'[m].user = req[q].who /\ msg'[m].channel = req[q].chan
                         /\ msg'[m].texts = tx[q].texts
  BY <1>3, <1>13, <1>14
<1>16. \A x \in Reqs \ {q} : Placed(x) /\ req[x].mid = m /\ msg[m] # None /\ Busy(x) =>
         req[x].who \notin Patient
  BY <1>1, <1>12, <1>13 DEF PlacedStays, PatientAlone
<1>17. m < nextId
  BY <1>2 DEF IdsGiven
<1>18. \A x \in Reqs \ {q} : req[x].mid = m => (msg'[m] = None <=> msg[m] = None)
  BY <1>3, <1>12
<1>19. IdsGiven'
  <2>1. \A n \in MsgId : msg'[n] # None =>
          n < nextId /\ \A t \in msg'[n].texts : req'[t].pc # "idle"
    <3> SUFFICES ASSUME NEW n \in MsgId, msg'[n] # None
                 PROVE  n < nextId /\ \A t \in msg'[n].texts : req'[t].pc # "idle"
      OBVIOUS
    <3>1. CASE n = m
      BY <1>6, <1>11, <1>15, <1>17, <3>1
    <3>2. CASE n # m
      BY <1>3, <1>6, <3>2, TextsAreRequests DEF IdsGiven
    <3>3. QED
      BY <3>1, <3>2
  <2>2. QED
    BY <1>1, <1>6, <2>1 DEF IdsGiven
<1>20. IdsFresh'
  <2> SUFFICES ASSUME NEW x \in Reqs \ {q}, Inserting(x)
               PROVE  /\ msg'[req[x].mid] = None
                      /\ \A y \in Reqs \ {x} :
                            /\ req[y].mid # req[x].mid
                            /\ req[y].op = "edit" => req[y].msg # req[x].mid
    BY <1>6, <1>8, <1>9 DEF IdsFresh
  <2>1. req[x].mid # m /\ req[x].mid \in MsgId
    BY <1>2, <1>10 DEF IdsFresh
  <2>2. QED
    BY <1>3, <2>1 DEF IdsFresh
<1>21. WritesOwn'
  <2>1. \A x \in Reqs : Writing(x)' => x # q /\ Writing(x) /\ tx'[x] = tx[x]
    BY <1>5, <1>8, <1>9
  <2>2. QED
    BY <1>6, <2>1, TextsAreRequests DEF WritesOwn
<1>22. PlacedStays'
  <2> SUFFICES ASSUME NEW x \in Reqs, Placed(x)', NEW k \in MsgId, k = req[x].mid
               PROVE  /\ msg'[k] = None => chan[req[x].chan] = None
                      /\ msg'[k] # None =>
                            /\ msg'[k].user = req[x].who
                            /\ msg'[k].channel = req[x].chan
                            /\ Writing(x)' => \/ ~msg'[k].files
                                              \/ "count" \in req[x].unseen
    <3>1. \A x \in Reqs : Placed(x)' => req[x].mid \in MsgId
      BY <1>2, <1>8, <1>10
    <3>2. QED
      BY <1>1, <1>6, <3>1 DEF PlacedStays
  <2>1. CASE x = q
    BY <1>2, <1>3, <1>9, <1>13, <1>15, <2>1
  <2>2. CASE x # q /\ k # m
    BY <1>3, <1>8, <2>2 DEF PlacedStays
  <2>3. CASE x # q /\ k = m
    BY <1>3, <1>8, <1>12, <1>18, <2>3 DEF PlacedStays
  <2>4. QED
    BY <2>1, <2>2, <2>3
<1>23. EditsOwn'
  <2> SUFFICES ASSUME NEW x \in Reqs, req[x].op = "edit", req[x].pc = "write",
                      NEW k \in MsgId, k = req[x].msg, msg'[k] # None
               PROVE  msg'[k].user = req[x].who
    <3>1. \A x \in Reqs : req[x].op = "edit" => req[x].msg \in MsgId
      BY DEF TypeInv, Filled
    <3>2. QED
      BY <1>4, <1>6, <3>1 DEF EditsOwn
  <2>1. CASE k = m
    <3>1. tx[q].merge /\ msg[m] # None
      BY <1>1, <1>3, <1>12, <2>1
    <3>2. QED
      BY <1>3, <2>1, <3>1 DEF EditsOwn
  <2>2. CASE k # m
    BY <1>3, <2>2 DEF EditsOwn
  <2>3. QED
    BY <2>1, <2>2
<1>24. FreshUnused'
  BY <1>1, <1>6 DEF FreshUnused
<1>25. PatientAlone'
  BY <1>6, <1>7 DEF PatientAlone
<1>26. SnapshotHolds'
  <2> SUFFICES ASSUME NEW x \in Reqs \ {q}, Writing(x), tx[x].merge,
                      req[x].who \in Patient, msg'[req[x].mid] # None
               PROVE  msg'[req[x].mid].texts \subseteq tx[x].texts
    BY <1>5, <1>6, <1>8, <1>9 DEF SnapshotHolds
  <2>1. Placed(x) /\ Busy(x)
    BY DEF Placed, Writing, Busy, Over
  <2>2. req[x].mid \in MsgId /\ req[x].mid # m
    BY <1>10, <1>16, <1>18, <2>1
  <2>3. QED
    BY <1>3, <2>2 DEF SnapshotHolds
<1>27. ReadHolds'
  <2> SUFFICES ASSUME NEW x \in Reqs, req'[x].pc = "read", req[x].who \in Patient,
                      msg'[req[x].mid] # None
               PROVE  x \in msg'[req[x].mid].texts
    BY <1>6 DEF ReadHolds
  <2>1. CASE x = q
    BY <1>2, <1>11, <1>15, <2>1
  <2>2. CASE x # q
    <3>1. Placed(x) /\ Busy(x) /\ req[x].pc = "read"
      BY <1>4, <2>2 DEF Placed, Writing, Busy, Over, TypeInv, Filled
    <3>2. req[x].mid \in MsgId /\ req[x].mid # m
      BY <1>10, <1>16, <1>18, <2>2, <3>1
    <3>3. QED
      BY <1>3, <3>1, <3>2 DEF ReadHolds
  <2>3. QED
    BY <2>1, <2>2
<1>28. TextsBelong'
  <2> SUFFICES ASSUME NEW n \in MsgId, msg'[n] # None
               PROVE  /\ \A t \in msg'[n].texts :
                            /\ req'[t].who = msg'[n].user
                            /\ req'[t].op = "create" => req'[t].chan = msg'[n].channel
                            /\ req'[t].op = "edit" => req'[t].msg = n
                      /\ msg'[n].files =>
                            \/ \E t \in Reqs : msg'[n].texts = {t}
                            \/ \E t \in msg'[n].texts : "count" \in req'[t].unseen
    BY DEF TextsBelong
  <2>1. CASE n = m
    <3>1. tx[q].merge => ~msg'[m].files \/ "count" \in req'[q].unseen
      BY <1>3, <1>6, <1>13, <2>1
    <3>2. QED
      BY <1>6, <1>11, <1>15, <2>1, <3>1
  <2>2. CASE n # m
    <3>1. msg[n] # None /\ msg'[n] = msg[n] /\ msg[n].texts \subseteq Reqs
      BY <1>3, <2>2, TextsAreRequests
    <3>2. QED
      BY <1>6, <3>1 DEF TextsBelong
  <2>3. QED
    BY <2>1, <2>2
<1>29. NoTextLost'
  <2> SUFFICES ASSUME NEW x \in Reqs, req'[x].op = "create", req'[x].pc = "done",
                      req'[x].who \in Patient
               PROVE  \/ chan'[req'[x].chan] = None
                      \/ /\ msg'[req'[x].mid] # None
                         /\ \/ x \in msg'[req'[x].mid].texts
                            \/ \E y \in Reqs : /\ req'[y].op = "edit"
                                               /\ req'[y].msg = req'[x].mid
                                               /\ req'[y].pc = "done"
    BY DEF NoTextLost
  <2>1. x # q /\ req'[x] = req[x] /\ Placed(x)
    BY <1>4 DEF Placed
  <2>2. req[x].mid \in MsgId
    BY <1>10, <2>1
  <2>3. CASE chan[req[x].chan] = None
    BY <1>1, <2>1, <2>3
  <2>4. CASE req[x].mid = m /\ chan[req[x].chan] # None
    <3>1. msg[m] # None /\ tx[q].merge
      BY <1>12, <2>1, <2>4 DEF PlacedStays
    <3>2. msg[m].user = req[x].who /\ req[q].who = req[x].who
      BY <1>13, <2>1, <2>4, <3>1 DEF PlacedStays
    <3>3. msg[m].texts \subseteq tx[q].texts
      BY <1>2, <1>11, <2>1, <3>1, <3>2 DEF SnapshotHolds
    <3>4. QED
      BY <1>3, <1>6, <2>1, <2>4, <3>1, <3>3 DEF NoTextLost
  <2>5. CASE req[x].mid # m /\ chan[req[x].chan] # None
    BY <1>3, <1>6, <2>1, <2>2, <2>5 DEF NoTextLost
  <2>6. QED
    BY <2>3, <2>4, <2>5
<1>30. QED
  BY <1>19, <1>20, <1>21, <1>22, <1>23, <1>24, <1>25, <1>26, <1>27,
     <1>28, <1>29 DEF TextInv

-----------------------------------------------------------------------------
(***************************************************************************)
(* Texts: a request arrives, and the theorems.                             *)
(***************************************************************************)

\* A request of any kind arrives.
LEMMA ArriveText ==
  ASSUME TypeInv, TypeInv', TextInv, NEW q \in Reqs, Arrive(q)
  PROVE  TextInv'
<1> USE DEF TextInv
<1>1. PICK u \in Users, r \in Request :
        /\ Made(q, u, r)
        /\ \/ MadeCreate(r) \/ MadeEdit(r) \/ MadeReact(r) \/ MadeManage(r)
           \/ \E c \in Channels : DoneDelete(r, c)
           \/ \E g \in Groups : DoneGroup(r, g)
  BY ArriveFacts
<1>2. /\ r.who = u /\ r.mid = 0 /\ req[q].pc = "idle" /\ UNCHANGED <<nextId, tx>>
      /\ u \in Patient => \A x \in Reqs : req[x].who = u => req[x].pc \in Over
  BY <1>1 DEF Made, Makes
<1>3. req'[q] = r /\ \A x \in Reqs \ {q} : req'[x] = req[x]
  BY <1>1 DEF Made, Enter, TypeInv, TypeOK
<1>4. r.pc \in {"begin", "write", "get", "done"} /\ (r.op = "create" => r.pc = "begin")
  BY <1>1 DEF MadeCreate, MadeEdit, MadeReact, MadeManage, DoneDelete, DoneGroup
<1>5. req[q].op = "other" /\ req[q].mid = 0
  BY <1>2 DEF TypeInv, Filled, NoRequest
<1>6. ~Writing(q)' /\ ~Placed(q)' /\ ~Inserting(q)'
  BY <1>3, <1>4 DEF Writing, Placed, Inserting
<1>7. \A x \in Reqs \ {q} :
        /\ Writing(x)' <=> Writing(x)
        /\ Placed(x)' <=> Placed(x)
        /\ Inserting(x)' <=> Inserting(x)
        /\ Busy(x)' <=> Busy(x)
  BY <1>2, <1>3 DEF Writing, Placed, Inserting, Busy
<1>8. \A n \in MsgId :
        \/ msg'[n] = msg[n]
        \/ msg'[n] = None /\ msg[n] # None /\ chan'[msg[n].channel] = None
  <2>1. ASSUME NEW c \in Channels, DoneDelete(r, c), NEW n \in MsgId
        PROVE  \/ msg'[n] = msg[n]
               \/ msg'[n] = None /\ msg[n] # None /\ chan'[msg[n].channel] = None
    BY <2>1 DEF DoneDelete, InChannel, TypeInv, TypeOK
  <2>2. QED
    BY <1>1, <2>1 DEF MadeCreate, MadeEdit, MadeReact, MadeManage, DoneGroup
<1>9. \A c \in Channels : chan[c] = None => chan'[c] = None
  BY <1>1 DEF MadeCreate, MadeEdit, MadeReact, MadeManage, DoneDelete, DoneGroup,
     TypeInv, TypeOK
<1>10. fresh' \subseteq fresh
  BY <1>1 DEF MadeCreate, MadeEdit, MadeReact, MadeManage, DoneDelete, DoneGroup
<1>11. r.op = "edit" => /\ r.msg \in MsgId /\ msg[r.msg] # None
                        /\ msg[r.msg].user = u /\ UNCHANGED msg
  BY <1>1, <1>2 DEF MadeCreate, MadeEdit, MadeReact, MadeManage, DoneDelete,
     DoneGroup
<1>12. r.op = "create" => r.chan \in Channels /\ chan[r.chan] # None
  BY <1>1 DEF MadeCreate, MadeEdit, MadeReact, MadeManage, DoneDelete, DoneGroup
<1>13. \A x \in Reqs : Placed(x) \/ Inserting(x) => req[x].mid \in MsgId
  BY DEF TypeInv, Filled, Placed, Inserting, Writing
<1>14. \A x \in Reqs : req[x].op = "create" => req[x].chan \in Channels
  BY DEF TypeInv, Filled
<1>15. \A m \in MsgId : msg[m] # None => q \notin msg[m].texts
  BY <1>2 DEF IdsGiven
<1>16. \A x \in Reqs : Writing(x) => q \notin tx[x].texts
  BY <1>2 DEF WritesOwn
<1>17. IdsGiven'
  <2>1. nextId > 0 /\ 0 \notin MsgId
    BY DEF TypeInv, TypeOK, MsgId
  <2>2. \A n \in MsgId : msg'[n] # None =>
          n < nextId /\ \A t \in msg'[n].texts : req'[t].pc # "idle"
    BY <1>3, <1>8, <1>15, TextsAreRequests DEF IdsGiven
  <2>3. \A x \in Reqs : req'[x].mid < nextId
    BY <1>2, <1>3, <2>1 DEF IdsGiven
  <2>4. \A x \in Reqs : req'[x].op = "edit" => req'[x].msg < nextId
    BY <1>3, <1>11 DEF IdsGiven
  <2>5. QED
    BY <1>2, <2>2, <2>3, <2>4 DEF IdsGiven
<1>18. IdsFresh'
  <2> SUFFICES ASSUME NEW x \in Reqs \ {q}, Inserting(x)
               PROVE  /\ msg'[req[x].mid] = None
                      /\ \A y \in Reqs \ {x} :
                            /\ req'[y].mid # req[x].mid
                            /\ req'[y].op = "edit" => req'[y].msg # req[x].mid
    BY <1>3, <1>6, <1>7 DEF IdsFresh
  <2>1. req[x].mid \in MsgId /\ msg[req[x].mid] = None
    BY <1>13 DEF IdsFresh
  <2>2. 0 \notin MsgId
    BY DEF MsgId
  <2>3. QED
    BY <1>2, <1>3, <1>8, <1>11, <2>1, <2>2 DEF IdsFresh
<1>19. WritesOwn'
  <2>1. \A x \in Reqs : Writing(x)' => x # q /\ Writing(x) /\ req'[x] = req[x]
    BY <1>3, <1>6, <1>7
  <2>2. QED
    BY <1>2, <1>3, <1>16, <2>1, TextsAreRequests DEF WritesOwn
<1>20. PlacedStays'
  <2> SUFFICES ASSUME NEW x \in Reqs \ {q}, Placed(x), NEW k \in MsgId, k = req[x].mid
               PROVE  /\ msg'[k] = None => chan'[req[x].chan] = None
                      /\ msg'[k] # None =>
                            /\ msg'[k].user = req[x].who
                            /\ msg'[k].channel = req[x].chan
                            /\ Writing(x) => \/ ~msg'[k].files
                                             \/ "count" \in req[x].unseen
    BY <1>3, <1>6, <1>7, <1>13 DEF PlacedStays
  <2>1. req[x].chan \in Channels
    BY <1>14 DEF Placed
  <2>2. QED
    BY <1>8, <1>9, <2>1 DEF PlacedStays
<1>21. EditsOwn'
  <2>1. \A x \in Reqs : req[x].op = "edit" => req[x].msg \in MsgId
    BY DEF TypeInv, Filled
  <2>2. QED
    BY <1>2, <1>3, <1>8, <1>11, <2>1 DEF EditsOwn
<1>22. FreshUnused'
  BY <1>3, <1>9, <1>10, <1>12 DEF FreshUnused
<1>23. PatientAlone'
  <2> SUFFICES ASSUME NEW x \in Reqs, NEW y \in Reqs, Busy(x)', Busy(y)',
                      req'[x].who = req'[y].who, req'[x].who \in Patient
               PROVE  x = y
    BY DEF PatientAlone
  <2>1. CASE x # q /\ y # q
    BY <1>3, <1>7, <2>1 DEF PatientAlone
  <2>2. CASE x = q \/ y = q
    BY <1>2, <1>3, <1>7, <2>2 DEF Busy
  <2>3. QED
    BY <2>1, <2>2
<1>24. SnapshotHolds'
  <2>1. \A x \in Reqs : Writing(x)' => x # q /\ Writing(x) /\ req'[x] = req[x]
    BY <1>3, <1>6, <1>7
  <2>2. \A x \in Reqs : Writing(x) /\ tx[x].merge => req[x].mid \in MsgId
    BY <1>13 DEF Placed, Writing
  <2>3. QED
    BY <1>2, <1>8, <2>1, <2>2 DEF SnapshotHolds
<1>25. ReadHolds'
  <2>1. \A x \in Reqs : req'[x].pc = "read" => x # q /\ req'[x] = req[x]
    BY <1>3, <1>4
  <2>2. \A x \in Reqs : req[x].pc = "read" => req[x].mid \in MsgId
    BY DEF TypeInv, Filled
  <2>3. QED
    BY <1>8, <2>1, <2>2 DEF ReadHolds
<1>26. TextsBelong'
  <2> SUFFICES ASSUME NEW n \in MsgId, msg[n] # None
               PROVE  /\ \A t \in msg[n].texts :
                            /\ req'[t].who = msg[n].user
                            /\ req'[t].op = "create" => req'[t].chan = msg[n].channel
                            /\ req'[t].op = "edit" => req'[t].msg = n
                      /\ msg[n].files =>
                            \/ \E t \in Reqs : msg[n].texts = {t}
                            \/ \E t \in msg[n].texts : "count" \in req'[t].unseen
    BY <1>8 DEF TextsBelong
  <2>1. msg[n].texts \subseteq Reqs \ {q}
    BY <1>15, TextsAreRequests
  <2>2. QED
    BY <1>3, <2>1 DEF TextsBelong
<1>27. NoTextLost'
  <2> SUFFICES ASSUME NEW x \in Reqs, req'[x].op = "create", req'[x].pc = "done",
                      req'[x].who \in Patient
               PROVE  \/ chan'[req'[x].chan] = None
                      \/ /\ msg'[req'[x].mid] # None
                         /\ \/ x \in msg'[req'[x].mid].texts
                            \/ \E y \in Reqs : /\ req'[y].op = "edit"
                                               /\ req'[y].msg = req'[x].mid
                                               /\ req'[y].pc = "done"
    BY DEF NoTextLost
  <2>1. x # q /\ req'[x] = req[x] /\ Placed(x)
    BY <1>3, <1>4 DEF Placed
  <2>2. req[x].mid \in MsgId /\ req[x].chan \in Channels
    BY <1>13, <1>14, <2>1
  <2>3. CASE chan[req[x].chan] = None
    BY <1>9, <2>1, <2>2, <2>3
  <2>4. CASE chan[req[x].chan] # None /\ msg'[req[x].mid] = msg[req[x].mid]
    <3>1. \A y \in Reqs : req[y].pc = "done" => req'[y] = req[y]
      BY <1>2, <1>3
    <3>2. QED
      BY <2>1, <2>4, <3>1 DEF NoTextLost
  <2>5. CASE /\ msg[req[x].mid] # None
             /\ chan'[msg[req[x].mid].channel] = None
    BY <2>1, <2>5 DEF PlacedStays
  <2>6. QED
    BY <1>8, <2>2, <2>3, <2>4, <2>5
<1>28. QED
  BY <1>17, <1>18, <1>19, <1>20, <1>21, <1>22, <1>23, <1>24, <1>25,
     <1>26, <1>27 DEF TextInv

\* No request and no message at the start.
LEMMA InitText == Init => TextInv
<1> SUFFICES ASSUME Init PROVE TextInv
  OBVIOUS
<1>1. /\ \A q \in Reqs : /\ req[q].pc = "idle" /\ req[q].op = "other"
                         /\ req[q].mid = 0
      /\ \A m \in MsgId : msg[m] = None
      /\ nextId = 1
  BY DEF Init, NoRequest
<1>2. IdsGiven /\ IdsFresh /\ WritesOwn /\ PlacedStays /\ EditsOwn
  BY <1>1 DEF IdsGiven, IdsFresh, Inserting, WritesOwn, Writing, PlacedStays,
     Placed, EditsOwn
<1>3. FreshUnused
  BY <1>1, MsgAssumption DEF Init, FreshUnused
<1>4. PatientAlone /\ SnapshotHolds /\ ReadHolds /\ TextsBelong /\ NoTextLost
  BY <1>1 DEF PatientAlone, Busy, SnapshotHolds, Writing, ReadHolds, TextsBelong,
     NoTextLost
<1>5. QED
  BY <1>2, <1>3, <1>4 DEF TextInv

\* Every step.
LEMMA NextText == TypeInv /\ TypeInv' /\ TextInv /\ [Next]_vars => TextInv'
<1> SUFFICES ASSUME TypeInv, TypeInv', TextInv, [Next]_vars PROVE TextInv'
  OBVIOUS
<1>1. ASSUME NEW q \in Reqs, Progress(q)
      PROVE  TextInv'
  BY <1>1, BeginJoinText, BeginInsertText, EndsText, InsertRowText, CommitText,
     UpdateEditedText, ManageText DEF Progress
<1>2. CASE UNCHANGED <<chan, fresh, msg, nextId, req, tx>>
  BY <1>2 DEF TextInv, IdsGiven, IdsFresh, Inserting, WritesOwn, Writing,
     PlacedStays, Placed, EditsOwn, FreshUnused, PatientAlone, Busy,
     SnapshotHolds, ReadHolds, TextsBelong, NoTextLost
<1>3. ASSUME NEW q \in Reqs, Background(q)
      PROVE  TextInv'
  BY <1>2, <1>3 DEF Background, Post, PostFails, SetReactions, SetFails, channelVars
<1>4. CASE UNCHANGED vars
  BY <1>2, <1>4 DEF vars
<1>5. QED
  BY <1>1, <1>3, <1>4, ArriveText, EndsText DEF Next, Rest

LEMMA AlwaysText == Spec => [](TypeInv /\ TextInv)
<1>1. Init => TypeInv /\ TextInv
  BY InitType, InitText
<1>2. (TypeInv /\ TextInv) /\ [Next]_vars => (TypeInv /\ TextInv)'
  BY NextType, NextText
<1>3. QED
  BY <1>1, <1>2, PTL DEF Spec

\* A text is only in a message of its author in the channel it was written for,
\* and a message with files has one text unless a count of files failed.
THEOREM TextsStayWithAuthor == Spec => []TextsBelong
<1>1. TextInv => TextsBelong
  BY DEF TextInv
<1>2. QED
  BY <1>1, AlwaysText, PTL

\* The text of a user who waits for replies is not overwritten by any other
\* request, with any number of managers and other users.
THEOREM TextsAreKept == Spec => []NoTextLost
<1>1. TextInv => NoTextLost
  BY DEF TextInv
<1>2. QED
  BY <1>1, AlwaysText, PTL

-----------------------------------------------------------------------------
(***************************************************************************)
(* Broadcasts.                                                             *)
(***************************************************************************)

\* What is broadcast is read while the text is there, or is nothing.
LEMMA NextBroadcast ==
  ASSUME TypeInv, TextInv, BroadcastCarriesText, [Next]_vars
  PROVE  BroadcastCarriesText'
<1> USE DEF Broadcasts
<1>1. ASSUME NEW q \in Reqs, ReadBack(q) \/ ReadBackRaced(q) \/ ReadParentRaced(q)
      PROVE  BroadcastCarriesText'
  <2>1. /\ req[q].pc = "read" /\ req[q].op = "create" /\ UNCHANGED sent
        /\ \A x \in Reqs \ {q} : poster'[x] = poster[x]
    BY <1>1 DEF ReadBack, ReadBackRaced, ReadParentRaced, TypeInv, TypeOK, Filled
  <2>2. Moves(q, "done")
    BY <1>1, GotoMoves, RacedMoves DEF ReadBack, ReadParentRaced, TypeInv, Pc
  <2>3. /\ \A x \in Reqs : /\ req'[x].who = req[x].who
                            /\ req[x].unseen \subseteq req'[x].unseen
    BY <2>2 DEF Moves
  <2>4. req[q].who \in Patient =>
          q \in poster'[q] \/ (poster'[q] = {} /\ "read" \in req'[q].unseen)
    <3>1. CASE ReadBackRaced(q)
      BY <3>1, RacedMoves DEF ReadBackRaced, TypeInv, TypeOK
    <3>2. CASE ReadBack(q) \/ ReadParentRaced(q)
      <4>1. msg[req[q].mid] # None /\ poster'[q] = msg[req[q].mid].texts
        BY <3>2 DEF ReadBack, ReadParentRaced, Readable, TypeInv, TypeOK
      <4>2. QED
        BY <2>1, <4>1 DEF TextInv, ReadHolds
    <3>3. QED
      BY <1>1, <3>1, <3>2
  <2>5. QED
    BY <2>1, <2>3, <2>4 DEF BroadcastCarriesText
<1>2. ASSUME NEW q \in Reqs, Post(q) \/ PostFails(q)
      PROVE  BroadcastCarriesText'
  <2>1. /\ UNCHANGED req /\ poster'[q] = None
        /\ sent'[q] = poster[q] \/ sent'[q] = sent[q]
        /\ poster[q] # None
        /\ \A x \in Reqs \ {q} : poster'[x] = poster[x] /\ sent'[x] = sent[x]
    BY <1>2 DEF Post, PostFails, TypeInv, TypeOK
  <2>2. QED
    BY <2>1 DEF BroadcastCarriesText
<1>3. ASSUME NEW q \in Reqs, Arrive(q)
      PROVE  BroadcastCarriesText'
  <2>1. PICK u \in Users, r \in Request : Made(q, u, r)
    BY <1>3, ArriveFacts
  <2>2. /\ UNCHANGED <<poster, sent>> /\ poster[q] = None /\ sent[q] = None
        /\ \A x \in Reqs \ {q} : req'[x] = req[x]
    BY <2>1 DEF Made, Makes, Enter, TypeInv, TypeOK, Filled
  <2>3. QED
    BY <2>2 DEF BroadcastCarriesText
<1>4. ASSUME UNCHANGED <<poster, sent>>,
             \A x \in Reqs : /\ req'[x].who = req[x].who
                             /\ req[x].unseen \subseteq req'[x].unseen
      PROVE  BroadcastCarriesText'
  BY <1>4 DEF BroadcastCarriesText
<1>5. ASSUME NEW q \in Reqs, Progress(q) \/ Abort(q),
             ~ReadBack(q), ~ReadBackRaced(q), ~ReadParentRaced(q)
      PROVE  BroadcastCarriesText'
  <2>1. UNCHANGED <<poster, sent>>
    BY <1>5 DEF Progress, Abort, BeginJoin, BeginJoinUncounted, BeginInsert,
       BeginUnread, BeginNoParent, UpdateText, InsertRow, Commit, ReadBackGone,
       UpdateEdited, ReactGet, ReactGetFails, DeleteGroupRows, UpdateChannel,
       InsertChannel, postVars
  <2>2. CASE \E m \in MsgId : BeginJoinUncounted(q, m)
    BY <1>4, <2>1, <2>2, JoinFacts
  <2>3. CASE ~\E m \in MsgId : BeginJoinUncounted(q, m)
    <3>1. \/ \E pc \in Pc : Goto(q, pc)
          \/ \E pc \in Pc, m \in MsgId : GotoMid(q, pc, m)
      BY <1>5, <2>3 DEF Progress, Abort, BeginJoin, BeginInsert, BeginUnread,
         BeginNoParent, UpdateText, InsertRow, Commit, ReadBackGone,
         UpdateEdited, ReactGet, ReactGetFails, DeleteGroupRows, UpdateChannel,
         InsertChannel, GotoMid, Pc
    <3>2. \A x \in Reqs : /\ req'[x].who = req[x].who
                          /\ req'[x].unseen = req[x].unseen
      BY <3>1, GotoFacts, GotoMidFacts DEF TypeInv
    <3>3. QED
      BY <1>4, <2>1, <3>2
  <2>4. QED
    BY <2>2, <2>3
<1>6. ASSUME NEW q \in Reqs, SetReactions(q) \/ SetFails(q)
      PROVE  BroadcastCarriesText'
  BY <1>4, <1>6 DEF SetReactions, SetFails, postVars
<1>7. CASE UNCHANGED vars
  BY <1>4, <1>7 DEF vars
<1>8. QED
  BY <1>1, <1>2, <1>3, <1>5, <1>6, <1>7 DEF Next, Background, Rest

\* The broadcast of a request carries its text if the user waits for replies,
\* whoever else writes, edits and deletes meanwhile and whatever fails; it is
\* empty only where the goroutine hid the error of reading the message again.
THEOREM BroadcastsCarryText == Spec => []BroadcastCarriesText
<1>1. Init => BroadcastCarriesText
  BY DEF Init, BroadcastCarriesText, Broadcasts
<1>2. TypeInv /\ TextInv /\ BroadcastCarriesText /\ [Next]_vars
      => BroadcastCarriesText'
  BY NextBroadcast
<1>3. QED
  BY <1>1, <1>2, AlwaysText, PTL DEF Spec

=============================================================================
