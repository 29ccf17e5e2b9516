------------------------------ MODULE Messages ------------------------------
(***************************************************************************)
(* The messages of one community and the channels and groups they are in:  *)
(* the api_hot handlers that write them, the reactions kept in Redis, and  *)
(* the POST with which a new message is handed to the websocket server.    *)
(*                                                                         *)
(* A request is one HTTP call.  It is named where its checks have passed   *)
(* and it has read, outside any transaction, the rows it needs; a request  *)
(* refused before that changes nothing and is left out.  A text is named   *)
(* by the request that carries it; a message holds the set of texts that   *)
(* were joined into it.  Names, handles and times are left out, and with   *)
(* them EditGroup, which changes a name, and the read marks of users       *)
(* (user-<u>-channel-<c>), which no handler here reads.                    *)
(*                                                                         *)
(* Transactions are InnoDB's (REPEATABLE READ).  One that only writes      *)
(* waits for the locks of others and shows its writes at its commit, so it *)
(* is one step.  CreateMessage reads first and is taken apart.             *)
(***************************************************************************)
EXTENDS Naturals, Sequences

CONSTANTS
    Users,       \* users with the SendMessages permission
    Managers,    \* those of them with ManageChannels
    Channels,    \* ids channels.id may take
    Groups,      \* ids channel_groups.id may take
    FirstChan,   \* the channels at the start, and their groups
    Top,         \* group_id 0: not in a group
    Emojis,      \* reactions
    Reqs,        \* bound: requests ever made
    MaxMsgs,     \* bound: ids of messages; one per request is enough
    Ops,         \* the handlers they call
    Patient,     \* users who wait for the reply before the next request
    Faults,      \* "abort", "hide", "post", "redis": which errors happen
    None

\* messages.id
MsgId == 1..MaxMsgs

Row ==
    [channel : Channels, user : Users, texts : SUBSET Reqs,
     parent : MsgId \cup {0}, files : BOOLEAN]

AllOps == {"create", "edit", "react", "deletegroup", "createchannel",
           "editchannel", "other"}

ASSUME MsgAssumption ==
    /\ Managers \subseteq Users
    /\ FirstChan \in [Channels -> Groups \cup {Top, None}]
    /\ Top # None /\ Top \notin Groups /\ None \notin Groups
    /\ Channels \cap Groups = {}
    /\ Patient \subseteq Users
    /\ MaxMsgs \in Nat
    /\ None \notin Row /\ \A qs \in SUBSET Reqs : qs # None

VARIABLES
    chan,     \* channels: the group of a channel, None where absent
    groups,   \* channel_groups
    fresh,    \* channel and group ids AUTO_INCREMENT has not handed out
    msg,      \* messages and their files, None where absent
    nextId,   \* AUTO_INCREMENT of messages
    react,    \* message-reactions-<id> in Redis
    setter,   \* what a ReactToMessage goroutine has yet to Set
    poster,   \* what a CreateMessage goroutine has yet to POST
    sent,     \* what the websocket server was given for a request
    req,      \* the requests
    tx        \* the transactions of CreateMessage

vars == <<chan, groups, fresh, msg, nextId, react, setter, poster, sent, req,
          tx>>

channelVars == <<chan, groups, fresh>>
reactVars == <<react, setter>>
postVars == <<poster, sent>>

\* Reactions of a message: for each emoji the users, in order of arrival; an
\* emoji nobody uses is not in the JSON map.
NoReactions == [e \in Emojis |-> <<>>]

\* Where a request is.
Pc == {"idle", "begin", "write", "commit", "read", "get", "done", "failed"}

\* A request: its input, the message it writes (mid), and the errors it met
\* and did not look at.
Request ==
    [pc : Pc, op : AllOps, who : Users \cup {None},
     chan : Channels \cup {None}, group : Groups \cup {Top, None},
     msg : MsgId \cup {0}, files : BOOLEAN, emoji : Emojis \cup {None},
     mid : MsgId \cup {0}, unseen : SUBSET {"count", "read"}]

NoRequest ==
    [pc |-> "idle", op |-> "other", who |-> None, chan |-> None,
     group |-> None, msg |-> 0, files |-> FALSE, emoji |-> None, mid |-> 0,
     unseen |-> {}]

Transaction == [merge : BOOLEAN, texts : SUBSET Reqs]

NoTx == [merge |-> FALSE, texts |-> {}]

Init ==
    /\ chan = FirstChan
    /\ groups = {chan[c] : c \in Channels} \ {Top, None}
    /\ fresh = {c \in Channels : chan[c] = None} \cup (Groups \ groups)
    /\ msg = [m \in MsgId |-> None]
    /\ nextId = 1
    /\ react = [m \in MsgId |-> NoReactions]
    /\ setter = [q \in Reqs |-> None]
    /\ poster = [q \in Reqs |-> None]
    /\ sent = [q \in Reqs |-> None]
    /\ req = [q \in Reqs |-> NoRequest]
    /\ tx = [q \in Reqs |-> NoTx]

-----------------------------------------------------------------------------

Over == {"done", "failed"}

\* User u makes request q.
Makes(q, u) ==
    /\ req[q].pc = "idle"
    /\ u \in Patient => \A x \in Reqs : req[x].who = u => req[x].pc \in Over

Enter(q, r) == req' = [req EXCEPT ![q] = r]

Goto(q, pc) == req' = [req EXCEPT ![q].pc = pc]

\* The request after an error it does not look at.
Overlooks(q, e) == [req[q] EXCEPT !.unseen = @ \cup {e}]

\* A row some CreateMessage transaction has written and not yet committed.
RowLocked(m) == \E q \in Reqs : req[q].pc = "commit" /\ req[q].mid = m

-----------------------------------------------------------------------------
(***************************************************************************)
(* CreateMessage.                                                          *)
(***************************************************************************)

\* The channel is found and the transaction is about to begin.
CreateMessage(q, u, c, p, f) ==
    /\ "create" \in Ops
    /\ Makes(q, u)
    /\ chan[c] # None
    /\ Enter(q, [NoRequest EXCEPT !.pc = "begin", !.op = "create", !.who = u,
                    !.chan = c, !.msg = p, !.files = f])
    /\ UNCHANGED <<channelVars, msg, nextId, reactVars, postVars, tx>>

InChannel(c) == {m \in MsgId : msg[m] # None /\ msg[m].channel = c}

\* Mutant: whoever wrote the last message.
Joins_AnyUser(q, m) ==
    /\ m \in InChannel(req[q].chan)
    /\ \A n \in InChannel(req[q].chan) : n <= m
    /\ req[q].msg = 0 /\ ~req[q].files /\ ~msg[m].files

\* Message m is the last of the channel and the user's own, and the text may
\* join one: it comes without files and is no reply.
OwnLast(q, m) ==
    /\ m \in InChannel(req[q].chan)
    /\ \A n \in InChannel(req[q].chan) : n <= m
    /\ msg[m].user = req[q].who
    /\ req[q].msg = 0 /\ ~req[q].files

\* Mutant: the files of the last message are not counted.
Joins_AnyFiles(q, m) == OwnLast(q, m)

\* The text joins message m, which has no files.
Joins(q, m) == OwnLast(q, m) /\ ~msg[m].files

ParentFound(q) == req[q].msg # 0 => msg[req[q].msg] # None

\* The SELECTs of the transaction, all on one snapshot.  What an UPDATE will
\* write is computed here.
BeginJoin(q, m) ==
    /\ req[q].pc = "begin"
    /\ Joins(q, m)
    /\ tx' = [tx EXCEPT ![q] = [merge |-> TRUE, texts |-> msg[m].texts \cup {q}]]
    /\ req' = [req EXCEPT ![q].pc = "write", ![q].mid = m]
    /\ UNCHANGED <<channelVars, msg, nextId, reactVars, postVars>>

\* The count of the files fails, which is not looked at: prevCount is 0, and
\* the text joins a message whether it has files or not.
BeginJoinUncounted(q, m) ==
    /\ "hide" \in Faults
    /\ req[q].pc = "begin"
    /\ OwnLast(q, m)
    /\ tx' = [tx EXCEPT ![q] = [merge |-> TRUE, texts |-> msg[m].texts \cup {q}]]
    /\ Enter(q, [Overlooks(q, "count") EXCEPT !.pc = "write", !.mid = m])
    /\ UNCHANGED <<channelVars, msg, nextId, reactVars, postVars>>

\* The SELECT of the last message fails, which is not looked at either: the
\* zero message is nobody's, and the text gets one of its own.
BeginUnread(q) ==
    /\ "hide" \in Faults
    /\ req[q].pc = "begin"
    /\ ParentFound(q)
    /\ tx' = [tx EXCEPT ![q] = [merge |-> FALSE, texts |-> {q}]]
    /\ Goto(q, "write")
    /\ UNCHANGED <<channelVars, msg, nextId, reactVars, postVars>>

BeginInsert(q) ==
    /\ req[q].pc = "begin"
    /\ ParentFound(q)
    /\ ~\E m \in MsgId : Joins(q, m)
    /\ tx' = [tx EXCEPT ![q] = [merge |-> FALSE, texts |-> {q}]]
    /\ Goto(q, "write")
    /\ UNCHANGED <<channelVars, msg, nextId, reactVars, postVars>>

\* The message replied to is gone: rolled back.
BeginNoParent(q) ==
    /\ req[q].pc = "begin"
    /\ ~ParentFound(q)
    /\ Goto(q, "failed")
    /\ UNCHANGED <<channelVars, msg, nextId, reactVars, postVars, tx>>

\* UPDATE messages: waits for the row's lock; no error if the row is gone.
UpdateText(q) ==
    /\ req[q].pc = "write" /\ req[q].op = "create"
    /\ tx[q].merge
    /\ ~RowLocked(req[q].mid)
    /\ Goto(q, "commit")
    /\ UNCHANGED <<channelVars, msg, nextId, reactVars, postVars, tx>>

\* Mutant: the id after the row's own is remembered.
InsertRow_NextId(q) ==
    /\ req[q].pc = "write" /\ req[q].op = "create"
    /\ ~tx[q].merge
    /\ nextId \in MsgId
    /\ req' = [req EXCEPT ![q].pc = "commit", ![q].mid = nextId + 1]
    /\ nextId' = nextId + 1
    /\ UNCHANGED <<channelVars, msg, reactVars, postVars, tx>>

\* INSERT INTO messages takes an id, which a rollback does not give back.
InsertRow(q) ==
    /\ req[q].pc = "write" /\ req[q].op = "create"
    /\ ~tx[q].merge
    /\ nextId \in MsgId
    /\ req' = [req EXCEPT ![q].pc = "commit", ![q].mid = nextId]
    /\ nextId' = nextId + 1
    /\ UNCHANGED <<channelVars, msg, reactVars, postVars, tx>>

\* The row inserted.  Its files have been uploaded; an upload that fails ends
\* the request (Abort), but for images and videos, whose errors are not seen.
NewRow(q) ==
    [channel |-> req[q].chan, user |-> req[q].who, texts |-> tx[q].texts,
     parent |-> req[q].msg, files |-> req[q].files]

\* The rows of the files are in, and all of it is committed.
Commit(q) ==
    LET m == req[q].mid
    IN  /\ req[q].pc = "commit"
        /\ msg' = [msg EXCEPT ![m] =
                     IF ~tx[q].merge THEN NewRow(q)
                     ELSE IF @ = None THEN None
                     ELSE [@ EXCEPT !.texts = tx[q].texts]]
        /\ tx' = [tx EXCEPT ![q] = NoTx]
        /\ Goto(q, "read")
        /\ UNCHANGED <<channelVars, nextId, reactVars, postVars>>

\* The message, or the one it replies to, can be gone by now.
Readable(m) ==
    /\ msg[m] # None
    /\ msg[m].parent # 0 => msg[msg[m].parent] # None

\* Mutant: what is broadcast is what the message was before.
ReadBack_Old(q) ==
    /\ req[q].pc = "read"
    /\ Readable(req[q].mid)
    /\ poster' = [poster EXCEPT ![q] = msg[req[q].mid].texts \ {q}]
    /\ Goto(q, "done")
    /\ UNCHANGED <<channelVars, msg, nextId, reactVars, sent, tx>>

\* The committed message is read again, outside the transaction, for the reply
\* and for the goroutine that broadcasts it.
ReadBack(q) ==
    /\ req[q].pc = "read"
    /\ Readable(req[q].mid)
    /\ poster' = [poster EXCEPT ![q] = msg[req[q].mid].texts]
    /\ Goto(q, "done")
    /\ UNCHANGED <<channelVars, msg, nextId, reactVars, sent, tx>>

\* "Not found", although the transaction has committed; nothing is broadcast.
ReadBackGone(q) ==
    /\ req[q].pc = "read"
    /\ ~Readable(req[q].mid)
    /\ Goto(q, "failed")
    /\ UNCHANGED <<channelVars, msg, nextId, reactVars, postVars, tx>>

\* The goroutine that Sets the read mark assigns the handler's err: its success
\* can hide that the message was not read, because it is gone or because the
\* SELECT failed, and the zero message is broadcast,
ReadBackRaced(q) ==
    /\ req[q].pc = "read"
    /\ msg[req[q].mid] # None => "hide" \in Faults
    /\ Enter(q, [Overlooks(q, "read") EXCEPT !.pc = "done"])
    /\ poster' = [poster EXCEPT ![q] = {}]
    /\ UNCHANGED <<channelVars, msg, nextId, reactVars, sent, tx>>

\* or that the message it replies to is gone.
ReadParentRaced(q) ==
    /\ req[q].pc = "read"
    /\ msg[req[q].mid] # None /\ ~Readable(req[q].mid)
    /\ poster' = [poster EXCEPT ![q] = msg[req[q].mid].texts]
    /\ Goto(q, "done")
    /\ UNCHANGED <<channelVars, msg, nextId, reactVars, sent, tx>>

\* The goroutine POSTs to /broadcast-message; its result is not looked at.
Post(q) ==
    /\ poster[q] # None
    /\ sent' = [sent EXCEPT ![q] = poster[q]]
    /\ poster' = [poster EXCEPT ![q] = None]
    /\ UNCHANGED <<channelVars, msg, nextId, reactVars, req, tx>>

PostFails(q) ==
    /\ "post" \in Faults
    /\ poster[q] # None
    /\ poster' = [poster EXCEPT ![q] = None]
    /\ UNCHANGED <<channelVars, msg, nextId, reactVars, sent, req, tx>>

-----------------------------------------------------------------------------
(***************************************************************************)
(* EditMessage and ReactToMessage.                                         *)
(***************************************************************************)

\* The message is found, and it is the user's.
EditMessage(q, u, m) ==
    /\ "edit" \in Ops
    /\ Makes(q, u)
    /\ msg[m] # None /\ msg[m].user = u
    /\ Enter(q, [NoRequest EXCEPT !.pc = "write", !.op = "edit", !.who = u,
                    !.msg = m])
    /\ UNCHANGED <<channelVars, msg, nextId, reactVars, postVars, tx>>

\* UPDATE messages SET text, and the commit.
UpdateEdited(q) ==
    LET m == req[q].msg
    IN  /\ req[q].pc = "write" /\ req[q].op = "edit"
        /\ ~RowLocked(m)
        /\ msg' = [msg EXCEPT ![m] =
                     IF @ = None THEN None ELSE [@ EXCEPT !.texts = {q}]]
        /\ Goto(q, "done")
        /\ UNCHANGED <<channelVars, nextId, reactVars, postVars, tx>>

\* The message is found.
ReactToMessage(q, u, m, e) ==
    /\ "react" \in Ops
    /\ Makes(q, u)
    /\ msg[m] # None
    /\ Enter(q, [NoRequest EXCEPT !.pc = "get", !.op = "react", !.who = u,
                    !.msg = m, !.emoji = e])
    /\ UNCHANGED <<channelVars, msg, nextId, reactVars, postVars, tx>>

\* The last place of u in the list, 0 if it is not there.
PlaceOf(u, us) ==
    IF \E i \in 1..Len(us) : us[i] = u
    THEN CHOOSE i \in 1..Len(us) :
            us[i] = u /\ \A j \in 1..Len(us) : us[j] = u => j <= i
    ELSE 0

\* append(slice[:s], slice[s+1:]...), with s counted from 1
RemoveReactionUser(us, s) == SubSeq(us, 1, s - 1) \o SubSeq(us, s + 1, Len(us))

\* Mutant: the list is not searched for the user.
Toggled_Added(u, us) == Append(us, u)

\* The list after u has used the emoji once more.
Toggled(u, us) ==
    IF PlaceOf(u, us) = 0 THEN Append(us, u)
    ELSE RemoveReactionUser(us, PlaceOf(u, us))

\* Get, toggle, and the reply; the Set is left to a goroutine.
ReactGet(q) ==
    /\ req[q].pc = "get"
    /\ setter' = [setter EXCEPT ![q] =
                    [react[req[q].msg] EXCEPT ![req[q].emoji] =
                        Toggled(req[q].who, @)]]
    /\ Goto(q, "done")
    /\ UNCHANGED <<channelVars, msg, nextId, react, postVars, tx>>

\* Get fails: taken for a message without reactions, and what the goroutine
\* Sets will replace them all.
ReactGetFails(q) ==
    /\ "redis" \in Faults
    /\ req[q].pc = "get"
    /\ setter' = [setter EXCEPT ![q] =
                    [NoReactions EXCEPT ![req[q].emoji] = <<req[q].who>>]]
    /\ Goto(q, "done")
    /\ UNCHANGED <<channelVars, msg, nextId, react, postVars, tx>>

SetReactions(q) ==
    /\ setter[q] # None
    /\ react' = [react EXCEPT ![req[q].msg] = setter[q]]
    /\ setter' = [setter EXCEPT ![q] = None]
    /\ UNCHANGED <<channelVars, msg, nextId, postVars, req, tx>>

SetFails(q) ==
    /\ "redis" \in Faults
    /\ setter[q] # None
    /\ setter' = [setter EXCEPT ![q] = None]
    /\ UNCHANGED <<channelVars, msg, nextId, react, postVars, req, tx>>

-----------------------------------------------------------------------------
(***************************************************************************)
(* Channels and groups.                                                    *)
(***************************************************************************)

Manages(q, op, u) == op \in Ops /\ u \in Managers /\ Makes(q, u)

Finished(q, u) ==
    Enter(q, [NoRequest EXCEPT !.pc = "done", !.who = u])

\* The group a request names is none, or is found.
GroupFound(g) == g = Top \/ g \in groups

\* Both DELETEs and the commit; they wait for rows CreateMessage has written.
DeleteChannel(q, u, c) ==
    /\ Manages(q, "other", u)
    /\ \A x \in Reqs : req[x].pc = "commit" => req[x].chan # c
    /\ chan' = [chan EXCEPT ![c] = None]
    /\ msg' = [m \in MsgId |-> IF m \in InChannel(c) THEN None ELSE msg[m]]
    /\ Finished(q, u)
    /\ UNCHANGED <<groups, fresh, nextId, reactVars, postVars, tx>>

CreateGroup(q, u, g) ==
    /\ Manages(q, "other", u)
    /\ g \in fresh
    /\ groups' = groups \cup {g}
    /\ fresh' = fresh \ {g}
    /\ Finished(q, u)
    /\ UNCHANGED <<chan, msg, nextId, reactVars, postVars, tx>>

\* The group is found.
DeleteGroup(q, u, g) ==
    /\ Manages(q, "deletegroup", u)
    /\ g \in groups
    /\ Enter(q, [NoRequest EXCEPT !.pc = "write", !.op = "deletegroup",
                    !.who = u, !.group = g])
    /\ UNCHANGED <<channelVars, msg, nextId, reactVars, postVars, tx>>

\* Both DELETEs and the commit; the messages of the channels stay.
DeleteGroupRows(q) ==
    /\ req[q].pc = "write" /\ req[q].op = "deletegroup"
    /\ chan' = [c \in Channels |->
                  IF chan[c] = req[q].group THEN None ELSE chan[c]]
    /\ groups' = groups \ {req[q].group}
    /\ Goto(q, "done")
    /\ UNCHANGED <<fresh, msg, nextId, reactVars, postVars, tx>>

CreateChannel(q, u, g) ==
    /\ Manages(q, "createchannel", u)
    /\ GroupFound(g)
    /\ Enter(q, [NoRequest EXCEPT !.pc = "write", !.op = "createchannel",
                    !.who = u, !.group = g])
    /\ UNCHANGED <<channelVars, msg, nextId, reactVars, postVars, tx>>

\* INSERT INTO channels and the commit.
InsertChannel(q, c) ==
    /\ req[q].pc = "write" /\ req[q].op = "createchannel"
    /\ c \in fresh
    /\ chan' = [chan EXCEPT ![c] = req[q].group]
    /\ fresh' = fresh \ {c}
    /\ Goto(q, "done")
    /\ UNCHANGED <<groups, msg, nextId, reactVars, postVars, tx>>

\* The channel and the group are found.
EditChannel(q, u, c, g) ==
    /\ Manages(q, "editchannel", u)
    /\ chan[c] # None
    /\ GroupFound(g)
    /\ Enter(q, [NoRequest EXCEPT !.pc = "write", !.op = "editchannel",
                    !.who = u, !.chan = c, !.group = g])
    /\ UNCHANGED <<channelVars, msg, nextId, reactVars, postVars, tx>>

\* UPDATE channels and the commit; no error if the row is gone.
UpdateChannel(q) ==
    LET c == req[q].chan
    IN  /\ req[q].pc = "write" /\ req[q].op = "editchannel"
        /\ chan' = [chan EXCEPT ![c] = IF @ = None THEN None ELSE req[q].group]
        /\ Goto(q, "done")
        /\ UNCHANGED <<groups, fresh, msg, nextId, reactVars, postVars, tx>>

-----------------------------------------------------------------------------

\* An error, a lost connection or a broken deadlock: what is not committed is
\* rolled back, and the caller is told that the request failed.
Abort(q) ==
    /\ "abort" \in Faults
    /\ req[q].pc \in {"begin", "write", "commit", "read"}
    /\ Goto(q, "failed")
    /\ tx' = [tx EXCEPT ![q] = NoTx]
    /\ UNCHANGED <<channelVars, msg, nextId, reactVars, postVars>>

Arrive(q) ==
    \E u \in Users :
        \/ \E c \in Channels, p \in MsgId \cup {0}, f \in BOOLEAN :
              CreateMessage(q, u, c, p, f)
        \/ \E m \in MsgId : EditMessage(q, u, m)
        \/ \E m \in MsgId, e \in Emojis : ReactToMessage(q, u, m, e)
        \/ \E c \in Channels : DeleteChannel(q, u, c)
        \/ \E g \in Groups : CreateGroup(q, u, g)
        \/ \E g \in Groups : DeleteGroup(q, u, g)
        \/ \E g \in Groups \cup {Top} : CreateChannel(q, u, g)
        \/ \E c \in Channels, g \in Groups \cup {Top} : EditChannel(q, u, c, g)

Progress(q) ==
    \/ \E m \in MsgId : BeginJoin(q, m)
    \/ \E m \in MsgId : BeginJoinUncounted(q, m)
    \/ BeginInsert(q) \/ BeginUnread(q) \/ BeginNoParent(q)
    \/ UpdateText(q) \/ InsertRow(q) \/ Commit(q)
    \/ ReadBack(q) \/ ReadBackGone(q) \/ ReadBackRaced(q) \/ ReadParentRaced(q)
    \/ UpdateEdited(q) \/ ReactGet(q) \/ ReactGetFails(q)
    \/ DeleteGroupRows(q) \/ UpdateChannel(q)
    \/ \E c \in Channels : InsertChannel(q, c)

Background(q) == Post(q) \/ PostFails(q) \/ SetReactions(q) \/ SetFails(q)

\* The bound on requests is used up and nothing is left to happen.
Rest ==
    /\ \A q \in Reqs : /\ req[q].pc \in Over
                       /\ setter[q] = None /\ poster[q] = None
    /\ UNCHANGED vars

Next ==
    \/ \E q \in Reqs : Arrive(q) \/ Progress(q) \/ Background(q) \/ Abort(q)
    \/ Rest

Spec == Init /\ [][Next]_vars

-----------------------------------------------------------------------------

\* Every variable has its type.
TypeOK ==
    /\ chan \in [Channels -> Groups \cup {Top, None}]
    /\ groups \in SUBSET Groups
    /\ fresh \in SUBSET (Channels \cup Groups)
    /\ msg \in [MsgId -> {None} \cup Row]
    /\ nextId \in Nat \ {0}
    /\ react \in [MsgId -> [Emojis -> Seq(Users)]]
    /\ setter \in [Reqs -> {None} \cup [Emojis -> Seq(Users)]]
    /\ poster \in [Reqs -> {None} \cup SUBSET Reqs]
    /\ sent \in [Reqs -> {None} \cup SUBSET Reqs]
    /\ req \in [Reqs -> Request]
    /\ tx \in [Reqs -> Transaction]

\* CreateMessage joins a text only into a message of its own author in the
\* channel it was written for, although the message was found on a snapshot
\* and the UPDATE goes by id alone; and into one with files, which otherwise
\* keeps the text it was posted with or edited to, only when the count of
\* those files failed.
TextsBelong ==
    \A m \in MsgId : msg[m] # None =>
        /\ \A t \in msg[m].texts :
              /\ req[t].who = msg[m].user
              /\ req[t].op = "create" => req[t].chan = msg[m].channel
              /\ req[t].op = "edit" => req[t].msg = m
        /\ msg[m].files =>
              \/ \E t \in Reqs : msg[m].texts = {t}
              \/ \E t \in msg[m].texts : "count" \in req[t].unseen

NoDuplicates(us) == \A i, j \in 1..Len(us) : us[i] = us[j] => i = j

\* A user counts at most once for an emoji of a message, in Redis and in every
\* value still to be Set, although Get and Set are not one step.
ReactionsOnce ==
    /\ \A m \in MsgId, e \in Emojis : NoDuplicates(react[m][e])
    /\ \A q \in Reqs : setter[q] # None =>
          \A e \in Emojis : NoDuplicates(setter[q][e])

\* A text whose author waits for replies, and was told it is created, is in
\* its message, unless the author has edited the message or the channel is
\* gone: whatever others do meanwhile.
NoTextLost ==
    \A q \in Reqs :
        req[q].op = "create" /\ req[q].pc = "done" /\ req[q].who \in Patient =>
            \/ chan[req[q].chan] = None
            \/ /\ msg[req[q].mid] # None
               /\ \/ q \in msg[req[q].mid].texts
                  \/ \E x \in Reqs : /\ req[x].op = "edit"
                                     /\ req[x].msg = req[q].mid
                                     /\ req[x].pc = "done"

\* What is handed to the websocket server for the request q, if anything.
Broadcasts(q) == {poster[q], sent[q]} \ {None}

\* The broadcast caused by a request of a user who waits for replies carries
\* its text, never the message as it was before: although it is read again
\* after the commit, while others write, delete channels and fail.  It is empty
\* only where the error of that read was hidden.
BroadcastCarriesText ==
    \A q \in Reqs : req[q].who \in Patient => \A ts \in Broadcasts(q) :
        q \in ts \/ (ts = {} /\ "read" \in req[q].unseen)

-----------------------------------------------------------------------------
(***************************************************************************)
(* The inductive invariants that the proofs in Messages_proofs use.        *)
(***************************************************************************)

\* The request has been made and is not answered.
Busy(q) == req[q].pc \notin Over \cup {"idle"}

\* A request knows what its steps need.
Filled ==
    \A q \in Reqs :
        LET r == req[q]
        IN  /\ r.pc = "idle" => r = NoRequest /\ poster[q] = None /\ sent[q] = None
            /\ r.pc \in {"begin", "commit", "read"} => r.op = "create"
            /\ r.pc = "get" => r.op = "react"
            /\ r.op # "other" => r.who \in Users
            /\ r.op = "create" => r.chan \in Channels
            /\ r.op \in {"edit", "react"} => r.msg \in MsgId
            /\ r.op = "react" => r.emoji \in Emojis
            /\ r.op = "create" /\ r.pc = "write" /\ tx[q].merge => r.mid \in MsgId
            /\ r.op = "create" /\ r.pc \in {"commit", "read", "done"} =>
                  r.mid \in MsgId
            /\ setter[q] # None => r.op = "react"

TypeInv == TypeOK /\ Filled /\ ReactionsOnce

\* An INSERT that is not committed.
Inserting(q) == req[q].pc = "commit" /\ ~tx[q].merge

\* CreateMessage is between its SELECTs and its commit.
Writing(q) == req[q].op = "create" /\ req[q].pc \in {"write", "commit"}

\* Its message was there at that SELECT, or is committed.
Placed(q) ==
    /\ req[q].op = "create"
    /\ req[q].pc \in {"read", "done"} \/ (Writing(q) /\ tx[q].merge)

\* Ids of messages come from AUTO_INCREMENT, and the texts from requests.
IdsGiven ==
    /\ \A m \in MsgId : msg[m] # None =>
          m < nextId /\ \A t \in msg[m].texts : req[t].pc # "idle"
    /\ \A q \in Reqs : req[q].mid < nextId
    /\ \A q \in Reqs : req[q].op = "edit" => req[q].msg < nextId

\* Nobody else knows the id of an INSERT before its commit.
IdsFresh ==
    \A q \in Reqs : Inserting(q) =>
        /\ msg[req[q].mid] = None
        /\ \A x \in Reqs \ {q} : /\ req[x].mid # req[q].mid
                                 /\ req[x].op = "edit" => req[x].msg # req[q].mid

\* What CreateMessage will write is of one author and for one channel.
WritesOwn ==
    \A q \in Reqs : Writing(q) =>
        /\ q \in tx[q].texts
        /\ \A t \in tx[q].texts :
              /\ req[t].pc # "idle" /\ req[t].who = req[q].who
              /\ req[t].op = "create" => req[t].chan = req[q].chan
              /\ req[t].op = "edit" => tx[q].merge /\ req[t].msg = req[q].mid
        /\ ~tx[q].merge => tx[q].texts = {q}

\* The message a CreateMessage has found or made stays the author's, in its
\* channel; it is gone only with the channel, and gets no files later.
PlacedStays ==
    \A q \in Reqs : Placed(q) =>
        LET m == req[q].mid
        IN  /\ msg[m] = None => chan[req[q].chan] = None
            /\ msg[m] # None =>
                  /\ msg[m].user = req[q].who
                  /\ msg[m].channel = req[q].chan
                  /\ Writing(q) => ~msg[m].files \/ "count" \in req[q].unseen

\* EditMessage writes to a message of its user.
EditsOwn ==
    \A q \in Reqs :
        /\ req[q].op = "edit" /\ req[q].pc = "write"
        /\ msg[req[q].msg] # None
        => msg[req[q].msg].user = req[q].who

\* Ids of channels that were never handed out are in no request.
FreshUnused ==
    \A c \in fresh \cap Channels :
        /\ chan[c] = None
        /\ \A q \in Reqs : req[q].op = "create" => req[q].chan # c

\* Whoever waits for replies has one request at a time.
PatientAlone ==
    \A q, x \in Reqs :
        Busy(q) /\ Busy(x) /\ req[q].who = req[x].who /\ req[q].who \in Patient
        => q = x

\* Of such a user, what CreateMessage joined its text to is what the message
\* holds until it is written,
SnapshotHolds ==
    \A q \in Reqs :
        /\ Writing(q) /\ tx[q].merge /\ req[q].who \in Patient
        /\ msg[req[q].mid] # None
        => msg[req[q].mid].texts \subseteq tx[q].texts

\* and holds it until it is read again.
ReadHolds ==
    \A q \in Reqs :
        /\ req[q].pc = "read" /\ req[q].who \in Patient
        /\ msg[req[q].mid] # None
        => q \in msg[req[q].mid].texts

TextInv ==
    /\ IdsGiven
    /\ IdsFresh
    /\ WritesOwn
    /\ PlacedStays
    /\ EditsOwn
    /\ FreshUnused
    /\ PatientAlone
    /\ SnapshotHolds
    /\ ReadHolds
    /\ TextsBelong
    /\ NoTextLost

=============================================================================
