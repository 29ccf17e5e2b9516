---------------------------- MODULE ChannelView ----------------------------
(***************************************************************************)
(* What the handler Channel shows of one channel: a page of its messages   *)
(* and everybody in the community, listed under their roles.  The handler  *)
(* makes its queries one after another and in no transaction, while other  *)
(* handlers post messages, select and delete channels, change roles and    *)
(* let people in.                                                          *)
(*                                                                         *)
(* A client reads the channel from its newest page on for as long as       *)
(* remaining_messages is not 0.  It asks for a handle, and Channel looks   *)
(* for the channel that bears it anew with every page.  The others are     *)
(* reduced to what they commit; Messages and Permissions have them in      *)
(* full.  Contents of messages, files, names and pictures are left out,    *)
(* and so are the read marks in Redis, which Channel does not look at.     *)
(***************************************************************************)
EXTENDS Naturals, Sequences, FiniteSetsExt, FiniteSets

CONSTANTS
    Users,        \* members of the community, and people who may become one
    FirstMembers, \* the members at the start
    Roles,        \* ids community_roles.id may take
    Here, There,  \* the channel the client wants, and another one
    ThereMsgs,    \* how many messages that one has, all by FirstMembers
    FirstMsgs,    \* how many messages there are in Here at the start
    MaxMsgs,      \* bound: messages ever posted in Here
    MaxCalls,     \* bound: calls of other handlers
    PageSize,     \* messages on a page (50 in the code)
    Others,       \* the heading of those without a prominent role
    None

Role == [priority : 0..Cardinality(Roles), prominent : BOOLEAN]

ASSUME ViewAssumption ==
    /\ FirstMembers \subseteq Users
    /\ Here # There /\ None \notin {Here, There}
    /\ FirstMsgs \in 0..MaxMsgs /\ MaxMsgs \in Nat /\ MaxCalls \in Nat
    /\ ThereMsgs \in Nat
    /\ FirstMsgs > 0 => FirstMembers # {}
    /\ PageSize \in Nat \ {0}
    /\ Others \notin Roles /\ None \notin Roles \cup Users
    /\ IsFiniteSet(Roles)
    /\ None \notin Role

MsgId == 1..MaxMsgs

Channels == {Here, There}

VARIABLES
    chan,     \* channels
    named,    \* the one that bears the handle the client asks for, or None
    selected, \* communities_users.selected_channel_id of the reader, or None
    selecting,\* what a ChannelSelect has found and not yet written
    members,  \* communities_users
    roles,    \* community_roles, None where absent
    fresh,    \* role ids AUTO_INCREMENT has not handed out
    holders,  \* community_roles_users
    msg,      \* messages of Here: the author, None where absent
    posting,  \* rows inserted and not yet committed, in the same way
    nextId,   \* AUTO_INCREMENT of messages
    calls,    \* how many calls the other handlers had
    view,     \* the call of Channel
    base,     \* the messages there were when the newest page was read
    seen      \* the messages the client has been shown

vars == <<chan, named, selected, selecting, members, roles, fresh, holders,
          msg, posting, nextId, calls, view, base, seen>>

channelVars == <<chan, named, selected, selecting>>
roleVars == <<members, roles, fresh, holders>>
msgVars == <<msg, posting, nextId>>
readerVars == <<view, base, seen>>

Lists == [Roles \cup {Others} -> SUBSET Users]

NoLists == [h \in Roles \cup {Others} |-> {}]

\* of is the channel that was found, and stray tells that it was once not Here.
View ==
    [pc : {"start", "channel", "roles", "messages", "count", "users", "over",
           "failed"},
     of : Channels \cup {None}, stray : BOOLEAN,
     page : Nat, users : SUBSET Users, roles : [Roles -> Role \cup {None}],
     remaining : Nat, lists : Lists]

Init ==
    /\ chan = Channels /\ named = Here
    /\ selected = None /\ selecting = None
    /\ members = FirstMembers
    /\ roles = [r \in Roles |-> None]
    /\ fresh = Roles
    /\ holders = {}
    /\ msg = [m \in MsgId |-> IF m <= FirstMsgs
                              THEN CHOOSE u \in FirstMembers : TRUE ELSE None]
    /\ posting = [m \in MsgId |-> None]
    /\ nextId = FirstMsgs + 1
    /\ calls = 0
    /\ view = [pc |-> "start", of |-> None, stray |-> FALSE, page |-> 0,
               users |-> {}, roles |-> roles, remaining |-> 0,
               lists |-> NoLists]
    /\ base = {} /\ seen = {}

-----------------------------------------------------------------------------
(***************************************************************************)
(* The other handlers.                                                     *)
(***************************************************************************)

Called == calls < MaxCalls /\ calls' = calls + 1

\* CreateMessage, which has found the channel before, inserts a row,
InsertMessage(u) ==
    /\ Called
    /\ u \in members
    /\ nextId \in MsgId
    /\ posting' = [posting EXCEPT ![nextId] = u]
    /\ nextId' = nextId + 1
    /\ UNCHANGED <<channelVars, roleVars, msg, readerVars>>

\* and commits it, maybe after a message with a higher id, or rolls back.
CommitMessage(m) ==
    /\ posting[m] # None
    /\ msg' \in {msg, [msg EXCEPT ![m] = posting[m]]}
    /\ posting' = [posting EXCEPT ![m] = None]
    /\ UNCHANGED <<channelVars, roleVars, nextId, calls, readerVars>>

\* The DELETE of the messages waits for those that are being inserted.
DeleteChannel(c) ==
    /\ Called
    /\ c \in chan
    /\ c = Here => \A m \in MsgId : posting[m] = None
    /\ chan' = chan \ {c}
    /\ named' = IF named = c THEN None ELSE named
    /\ msg' = IF c = Here THEN [m \in MsgId |-> None] ELSE msg
    /\ UNCHANGED <<selected, selecting, roleVars, posting, nextId, readerVars>>

\* EditChannel gives a channel another handle, or the one the client asks for
\* if no channel bears it (channels_handle_uq).
EditChannel(c) ==
    /\ Called
    /\ c \in chan
    /\ \/ named = c /\ named' = None
       \/ named = None /\ named' = c
    /\ UNCHANGED <<chan, selected, selecting, roleVars, msgVars, readerVars>>

\* ChannelSelect finds the channel,
ChannelSelect(c) ==
    /\ Called
    /\ c \in chan
    /\ selecting = None
    /\ selecting' = c
    /\ UNCHANGED <<chan, named, selected, roleVars, msgVars, readerVars>>

\* and writes its id, whatever became of it.
UpdateSelected ==
    /\ selecting # None
    /\ selected' = selecting
    /\ selecting' = None
    /\ UNCHANGED <<chan, named, roleVars, msgVars, calls, readerVars>>

SignUp(u) ==
    /\ Called
    /\ u \in Users \ members
    /\ members' = members \cup {u}
    /\ UNCHANGED <<channelVars, roles, fresh, holders, msgVars, readerVars>>

\* A role is created with members us; its priority is the number of roles.
CreateCommunityRole(r, b, us) ==
    /\ Called
    /\ r \in fresh
    /\ roles' = [roles EXCEPT ![r] =
                   [priority |-> Cardinality({x \in Roles : roles[x] # None}),
                    prominent |-> b]]
    /\ fresh' = fresh \ {r}
    /\ holders' = holders \cup (us \X {r})
    /\ UNCHANGED <<channelVars, members, msgVars, readerVars>>

\* EditCommunityRole: the columns of the role in one transaction,
EditCommunityRole(r) ==
    /\ Called
    /\ roles[r] # None
    /\ roles' = [roles EXCEPT ![r].prominent = ~@]
    /\ UNCHANGED <<channelVars, members, fresh, holders, msgVars, readerVars>>

\* and its users in another, maybe after the role was deleted.
EditRoleUsers(r, us) ==
    /\ Called
    /\ r \notin fresh
    /\ holders' = (holders \ (Users \X {r})) \cup (us \X {r})
    /\ UNCHANGED <<channelVars, members, roles, fresh, msgVars, readerVars>>

DeleteCommunityRole(r) ==
    /\ Called
    /\ roles[r] # None
    /\ roles' = [roles EXCEPT ![r] = None]
    /\ holders' = holders \ (Users \X {r})
    /\ UNCHANGED <<channelVars, members, fresh, msgVars, readerVars>>

\* The roles in the list rs get the priorities 0, 1, ..., one that is there
\* twice the later; others keep theirs.
EditCommunityRolesPriority(rs) ==
    /\ Called
    /\ roles' = [r \in Roles |->
                   LET places == {i \in 1..Len(rs) : rs[i] = r}
                   IN  IF roles[r] = None \/ places = {} THEN roles[r]
                       ELSE [roles[r] EXCEPT !.priority = Max(places) - 1]]
    /\ UNCHANGED <<channelVars, members, fresh, holders, msgVars, readerVars>>

-----------------------------------------------------------------------------
(***************************************************************************)
(* Channel, query by query.                                                *)
(***************************************************************************)

\* The channel the reader has selected is there, or any if none is selected.
DefaultChannel == IF selected = None THEN chan # {} ELSE selected \in chan

\* The reader's row and that channel; "Not found" for the channel asked for if
\* the selected one is gone.
ReadDefaultChannel ==
    /\ view.pc = "start"
    /\ view' = [view EXCEPT !.pc = IF DefaultChannel THEN "channel"
                                  ELSE "failed"]
    /\ UNCHANGED <<channelVars, roleVars, msgVars, calls, base, seen>>

\* The channel that bears the handle now, and communities_users.
ReadChannel ==
    /\ view.pc = "channel"
    /\ view' = IF named # None
               THEN [view EXCEPT !.pc = "roles", !.users = members, !.of = named,
                                 !.stray = view.stray \/ named # Here]
               ELSE [view EXCEPT !.pc = "failed"]
    /\ UNCHANGED <<channelVars, roleVars, msgVars, calls, base, seen>>

ReadRoles ==
    /\ view.pc = "roles"
    /\ view' = [view EXCEPT !.pc = "messages", !.roles = roles]
    /\ UNCHANGED <<channelVars, roleVars, msgVars, calls, base, seen>>

Posted == {m \in MsgId : msg[m] # None}

\* How many messages come before m, newest first.
Newer(m) == Cardinality({n \in Posted : n > m})

\* SELECT ... ORDER BY id DESC LIMIT PageSize OFFSET p * PageSize: what it shows
\* of the messages of Here.
Page(p) ==
    {m \in Posted : /\ view.of = Here
                    /\ p * PageSize <= Newer(m) /\ Newer(m) < (p + 1) * PageSize}

\* The messages of the page, and their authors.
ReadMessages ==
    LET shown == Page(view.page)
    IN  /\ view.pc = "messages"
        /\ view' = [view EXCEPT !.pc = "count",
                                !.users = @ \cup {msg[m] : m \in shown}]
        /\ seen' = seen \cup shown
        /\ base' = IF view.page = 0 THEN Posted ELSE base
        /\ UNCHANGED <<channelVars, roleVars, msgVars, calls>>

\* SELECT count(*)
Total ==
    IF view.of = Here THEN Cardinality(Posted)
    ELSE IF There \in chan THEN ThereMsgs ELSE 0

\* Mutant: what is left is not kept from going below 0.
Remaining_NoFloor(p) == Total - (p + 1) * PageSize

\* Mutant: pages are taken to be counted from 1.
Remaining_FromOne(p) ==
    IF Total > (p + 2) * PageSize THEN Total - (p + 2) * PageSize ELSE 0

\* Less this page and those before it.
Remaining(p) ==
    IF Total > (p + 1) * PageSize THEN Total - (p + 1) * PageSize ELSE 0

CountMessages ==
    /\ view.pc = "count"
    /\ view' = [view EXCEPT !.pc = "users", !.remaining = Remaining(view.page)]
    /\ UNCHANGED <<channelVars, roleVars, msgVars, calls, base, seen>>

\* Mutant: a role is looked up as it is now.
RoleOf_Now(r) == roles[r]

\* A role as it was when the handler read it.
RoleOf(r) == view.roles[r]

\* The prominent roles a user has now, of those known.
ProminentRoles(u) ==
    {r \in Roles : /\ <<u, r>> \in holders
                   /\ RoleOf(r) # None /\ RoleOf(r).prominent}

\* r may be the first of them: sorting leaves the order of equal priorities
\* open.
Heads(u, r) ==
    /\ r \in ProminentRoles(u)
    /\ \A x \in ProminentRoles(u) : RoleOf(r).priority <= RoleOf(x).priority

\* community_roles_users, and the reply: under every prominent role that was
\* read the users it heads, and the others.  The client goes on to the next
\* page.
ReadRolesUsers ==
    /\ view.pc = "users"
    /\ \E first \in [view.users -> Roles \cup {Others}] :
          /\ \A u \in view.users :
                IF ProminentRoles(u) = {} THEN first[u] = Others
                ELSE Heads(u, first[u])
          /\ view' =
               [view EXCEPT
                  !.pc = IF view.remaining = 0 THEN "over" ELSE "start",
                  !.page = IF view.remaining = 0 THEN @ ELSE @ + 1,
                  !.lists = [h \in Roles \cup {Others} |->
                               IF h = Others \/ (/\ view.roles[h] # None
                                                 /\ view.roles[h].prominent)
                               THEN {u \in view.users : first[u] = h}
                               ELSE {}]]
    /\ UNCHANGED <<channelVars, roleVars, msgVars, calls, base, seen>>

\* A query fails: "Not found".
QueryFails ==
    /\ view.pc \notin {"over", "failed"}
    /\ view' = [view EXCEPT !.pc = "failed"]
    /\ UNCHANGED <<channelVars, roleVars, msgVars, calls, base, seen>>

-----------------------------------------------------------------------------

Channel ==
    \/ ReadDefaultChannel \/ ReadChannel \/ ReadRoles \/ ReadMessages
    \/ CountMessages \/ ReadRolesUsers \/ QueryFails

\* The client has read to the end, or was told "Not found".
Rest == view.pc \in {"over", "failed"} /\ UNCHANGED vars

Next ==
    \/ \E u \in Users : InsertMessage(u) \/ SignUp(u)
    \/ \E m \in MsgId : CommitMessage(m)
    \/ \E c \in Channels : DeleteChannel(c) \/ EditChannel(c) \/ ChannelSelect(c)
    \/ UpdateSelected
    \/ \E r \in Roles :
          \/ \E us \in SUBSET members :
                \/ \E b \in BOOLEAN : CreateCommunityRole(r, b, us)
                \/ EditRoleUsers(r, us)
          \/ EditCommunityRole(r) \/ DeleteCommunityRole(r)
    \/ \E r, x \in Roles : EditCommunityRolesPriority(<<r, x>>)
    \/ Channel
    \/ Rest

Spec == Init /\ [][Next]_vars

-----------------------------------------------------------------------------

\* Every variable has its type.
TypeOK ==
    /\ chan \in SUBSET Channels /\ named \in chan \cup {None}
    /\ selected \in Channels \cup {None}
    /\ selecting \in Channels \cup {None}
    /\ members \in SUBSET Users
    /\ roles \in [Roles -> Role \cup {None}]
    /\ fresh \in SUBSET Roles
    /\ holders \in SUBSET (Users \X Roles)
    /\ msg \in [MsgId -> Users \cup {None}]
    /\ posting \in [MsgId -> Users \cup {None}]
    /\ nextId \in Nat /\ calls \in Nat
    /\ view \in View
    /\ base \in SUBSET MsgId
    /\ seen \in SUBSET MsgId

\* A client that follows remaining_messages to 0 has been shown every message
\* there was when it began, though each page is counted from the newest message
\* of the moment, and the count is taken after the page: if the handle led to
\* the same channel every time.  A page of a channel that was given the handle
\* meanwhile is counted with the others.
PagingMissesNothing ==
    view.pc = "over" /\ ~view.stray => base \cap Posted \subseteq seen

\* A reply of Channel lists everybody it has read, members and authors, under
\* exactly one heading, though roles and their users are read at different
\* times and two roles may have one priority.
EveryoneListedOnce ==
    view.pc \in {"start", "channel", "over"} =>
        \A u \in view.users :
            Cardinality({h \in Roles \cup {Others} : u \in view.lists[h]}) = 1

-----------------------------------------------------------------------------
(***************************************************************************)
(* The inductive invariant of PagingMissesNothing: a page starts at an     *)
(* OFFSET from the newest message of the moment, and no message ever has   *)
(* fewer newer ones than before, so that a message not shown yet is still  *)
(* beyond the pages read.                                                  *)
(***************************************************************************)

\* AUTO_INCREMENT hands out an id once.
IdsOnce ==
    \A m \in MsgId :
        /\ nextId <= m => msg[m] = None /\ posting[m] = None
        /\ posting[m] # None => msg[m] = None

\* The messages the client began with have their ids for good.
BaseSettled == \A m \in base : m < nextId /\ posting[m] = None

PagesRead == IF view.pc \in {"count", "users"} THEN view.page + 1
             ELSE view.page

\* A client not led astray reads Here.
ReadsHere ==
    view.pc \in {"roles", "messages", "count", "users"} /\ ~view.stray =>
        view.of = Here

\* A message not shown yet is beyond the pages read.
UnseenBeyond ==
    view.pc \notin {"over", "failed"} /\ ~view.stray =>
        \A m \in (base \cap Posted) \ seen : PagesRead * PageSize <= Newer(m)

\* Nothing is left once the handler has counted 0 remaining messages.
CountedOut ==
    /\ view.pc = "over" \/ (view.pc = "users" /\ view.remaining = 0)
    /\ ~view.stray
    => base \cap Posted \subseteq seen

IndInv ==
    TypeOK /\ IdsOnce /\ BaseSettled /\ ReadsHere /\ UnseenBeyond /\ CountedOut
=============================================================================
