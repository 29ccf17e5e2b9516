# A TLA+ model of wikid-api

wikid-api is the backend of a chat product: communities with members, roles,
channels and messages. It is three Go programs over one MySQL database and one
Redis: `api_hot` (the REST API, `src/api_hot`, `src/handlers`), `api_ws` (the
websocket server, `src/api_ws`, `src/chat_server`, `src/internal_handlers`) and
`scheduler` (an asynq worker, `src/scheduler`, `src/tasks`). The repository has
no tests of its own code and one setup page; the specifications here are
translated from the Go source.

## 1. Inventory

### Websocket hub (`api_ws`)
- **State.** `server.Clients` (a map from `*websocket.Conn` to a `Client` with a
  set of topics, an `IsClosing` flag and a mutex), owned by one hub goroutine
  and reached through six unbuffered channels.
- **Operations.** Register and unregister a connection; echo, subscribe,
  unsubscribe; broadcast (from `POST /internal/broadcast-message`, which
  `api_hot` calls when a message has been created). Echo, subscribe, unsubscribe
  and broadcast are finished by goroutines the hub spawns, one per client.
- **Hard.** Order of the spawned goroutines, a goroutine that sends to the hub
  while it holds a mutex, sockets that never drain, goroutines that outlive
  their session while the wrapper's `sync.Pool` hands its `Conn` to another.
- **Correct when** writes to one socket are exclusive; a broadcast reaches a
  subscriber that stays; sessions that end are forgotten and sessions that are
  read are not; nothing blocks the hub.

### Roles and permissions (`handlers/validations.go` and the role handlers)
- **State.** Permission columns of `communities` (defaults), `community_roles`,
  `community_roles_users`, the materialised columns of `communities_users`, and
  a Redis copy of each row that lives for an hour.
- **Operations.** `HasCommunityPermission`, `CreateCommunityRole`,
  `EditCommunityRole`, `DeleteCommunityRole`,
  `EditCommunityDefaultPermissions`, `EditCommunityRolesPriority`,
  `RecalculatePermissions`; `SignUp` with an invite recalculates too.
- **Hard.** Snapshots of two transactions, a cache filled by one goroutine and
  deleted by another before the commit, an edit that continues after its reply,
  errors that are overwritten or dropped.
- **Correct when** the owner may do everything (unless the check itself met an
  error, which is answered like a refusal), nobody has a permission nobody
  gave, rows say what defaults and roles say, and Redis says what rows say.

### Membership and invites
- **State.** `communities`, `communities_users`, `community_invites`,
  `communities_banned_users`, the connections to MySQL and its locks.
- **Operations.** `CreateCommunity`, `JoinCommunity`, `LeaveCommunity`,
  `KickUser`, `BanUser`, `CreateCommunityInvite`, `CommunityInvite`,
  `EditCommunity`, `DeleteCommunity`, `SignUp`/`SignIn` with an invite.
- **Hard.** Transactions that are left open on an error path, statements that
  always fail (`communiy_roles_users`; one placeholder and two arguments), a
  community deleted while somebody signs up for it, connections that run out.
- **Correct when** members belong to a community that exists, what a failed
  request did is undone and locks nothing any more, every request is answered.

### Accounts and sessions
- **State.** `users`, `beta_users`, Redis copies of users, JWTs.
- **Operations.** `SignUp`, `SignIn`, `JoinBeta`, `RefreshToken`,
  `AuthorizationREST`, `AuthorizationWS`, `UpdateProfile`,
  `EditProfilePicture`, `GetUser`.
- **Hard.** The cached user is Set by readers from a goroutine, Set or deleted by
  writers after their commit; an e-mail or a handle claimed by two at once; a
  `SignUp` that fails halfway; a goroutine that assigns its handler's `err`.
- **Correct when** e-mail and handle are unique, an invitation is used up by an
  account and only by one, a cached user is a row that was committed, and no
  request undoes what another has changed in the row.

### Messages, reactions, channels, groups
- **State.** `messages`, `message_files`, `channels`, `channel_groups`;
  reactions and read marks in Redis.
- **Operations.** `CreateMessage` (merges with the last message of the same
  user), `EditMessage`, `ReactToMessage`, `CreateChannel`, `EditChannel`,
  `DeleteChannel`, `CreateGroup`, `EditGroup`, `DeleteGroup`, `ChannelSelect`.
- **Hard.** Read-modify-write across MySQL and Redis, an asynchronous POST to the
  hub after the commit, a channel deleted under a message, errors nobody looks at.
- **Correct when** a text is in a message of its author, no accepted text is lost
  or broadcast wrong, a user's reaction is counted once.

### Read-only views
`Channel`, `Community`, `CommunityUsers`, `CommunityRoles`, `CommunityRole`,
`CommunityDefaultPermissions`, `Me`. They change nothing. `Channel` is the one
with an algorithm: it pages through messages, and lists everybody under the most
powerful of their prominent roles, from six queries that share no transaction.
- **Correct when** a client that follows `remaining_messages` misses no message
  and everybody is listed, once.

### Provisioning and its scheduler
- **State.** The columns `railway_service_id`, `cf_fqn_zone_id` and `ready` of
  `communities`; services at Railway, DNS records at Cloudflare; asynq's queue.
- **Operations.** `HandleCreateCommunityTask` makes a service, a domain and a DNS
  record, notes them in the row and connects the service to its source;
  `HandleDeleteCommunityTask` removes both; `RailwayServiceWebhook` notes that a
  service is up. Nothing in the repository enqueues the tasks or routes the
  webhook; `scheduler.go` does serve the tasks.
- **Hard.** Calls to three systems with a partial undo, answers that get lost,
  tasks that are handed out again while the first handler still runs, a report
  that arrives before the transaction it is about has committed.
- **Correct when** a row names what exists, an attempt that was done is named by
  its row until another task replaces it, no reported success is lost.

### Helpers, wiring, Railway client
The two `main` files are wiring; `src/railway` is mostly generated;
`object_id.go`, `text_helpers.go`, `image_helpers.go`, `random_string.go` and
`Truncate` are pure functions around libraries.

### Who talks to whom
`api_hot` handlers share MySQL rows and Redis keys with each other and with
nobody else. `api_hot` calls `api_ws` over HTTP (broadcast) and never the other
way round; `api_ws` reads users through `AuthorizationWS`. Inside `api_ws` the
hub goroutine meets readers, posters and spawned goroutines on channels, and
they meet each other on the clients' mutexes.

The hazards at their lines are in `PROJECT.json`.

## 2. Modules

| Module | What it is |
|---|---|
| `ChatHub` | the websocket hub: reader, hub, goroutines, broadcast endpoint, Conn pool |
| `MCChatHub` | symmetry sets for TLC |
| `PubSub` | the abstract promise of the hub |
| `ChatHubRefines` | the refinement mapping from `ChatHub` to `PubSub` |
| `ChatHub_proofs` | inductive invariant and theorems about `ChatHub` |
| `ChatHubRefines_proofs` | `ChatHub` implements `PubSub`, and what else holds when Conns are not recycled |
| `Permissions` | roles, defaults, rows, Redis copies, the handlers that touch them |
| `MCPermissions` | users, permissions and inputs for TLC |
| `Permissions_proofs` | inductive invariants and theorems about `Permissions` |
| `Messages` | messages, reactions, channels and groups, the broadcast POST |
| `MCMessages` | the channels at the start and symmetry for TLC |
| `Messages_proofs` | inductive invariants and theorems about `Messages` |
| `Accounts` | accounts, the wait list, the viewer in Redis, the handlers that write them |
| `MCAccounts` | the first account and symmetry for TLC |
| `Accounts_proofs` | inductive invariant and theorems about `Accounts` |
| `Membership` | communities, members, invites, connections and locks |
| `MCMembership` | `Membership` for TLC |
| `Membership_proofs` | inductive invariant and theorems about `Membership` |
| `Provisioning` | the hosting tasks, asynq's redelivery, the webhook |
| `MCProvisioning` | symmetry for TLC |
| `Provisioning_proofs` | inductive invariant and theorems about `Provisioning` |
| `ChannelView` | `Channel` query by query, and those who change what it reads |
| `MCChannelView` | symmetry for TLC |
| `ChannelView_proofs` | inductive invariant and theorems about `ChannelView` |

### ChatHub
State follows the code: `clients` is `server.Clients`; `topics`, `isClosing` and
`mu` are the fields of a `Client`; `under` is what a pooled `Conn` wraps and
becomes `None` when the wrapper releases it; `reader`, `cmd` and `ncmd` are the
`/ws` handler of a session; `go` are the goroutines the hub has spawned, each
with its own program counter; `post` are the handlers of
`/internal/broadcast-message`; `broken` are the connections whose `writeErr` is
set, after which the library refuses every write. `inbox` counts what was written
to a socket.

The `/ws` handler is `Open`, then a send on `Register` (`HubRegister`), the read
loop (`ReadCommand`, `ReadPing`, `ReadError`, sends to the hub), the deferred
unregistration (`ReaderUnregister`), and the return of the Conn to the pool
(`ReleaseConn`). A send on an unbuffered channel and the hub's matching `case` are
one step, because the sender waits until the hub is at its `select`. What the hub
does in a case up to the next `select` is part of that step: looking up the client
and spawning goroutines.

A goroutine takes the mutex (`GoLock`), checks `IsClosing` and the topic, then
writes (`WriteStart`, then `WriteOk` or `WriteErr`), unless the Conn wraps nil or a
broken connection, which refuses at once (`WriteRefused`). After a failure it marks
the client, writes a close frame to whatever the Conn wraps by then (`CloseStart`
and `CloseSent`, which may never come; or `CloseRefused`), and sends on
`Unregister`, all under the mutex. `connection.Close()` is no step: it ends in
`hijackConn.Close`, which does nothing unless `KeepHijackedConns` is set, and fiber
does not set it. So a failed write does not wake the reader; the socket is closed
when the `/ws` handler has returned. The same code takes the socket out of the
`hijackConn` and recycles that too: a write that is in flight then panics in a
goroutine that does not recover (`WritePanics`), or reaches another client
(`WriteStrays`). Two writers on one connection, possible only when a recycled
`Conn` has two clients, may make the library panic (`ConcurrentWrite`). After a
panic the process is gone (`panicked`).

The pool, the connection and the hijacking are modelled from the vendored sources
(`gofiber/contrib/websocket`, `fasthttp/websocket`, `fasthttp/server.go`);
`PoolReuse` says whether released objects are handed out again.

Data is abstracted: payloads are names, a text frame is "ping" (answered by an
echo), an order about a topic, or not valid, which ends the handler like a read
error does.

### PubSub
Sessions join, leave, subscribe and unsubscribe atomically; a published broadcast
is owed to the sessions present; a debt is delivered while the session is
subscribed, or dropped. `ChatHubRefines` maps a session in `server.Clients` to a
live member, an accepted post to a publication, and a goroutine that has not yet
written or given up to a debt.

### Permissions
`defaults`, `roles`, `holders` and `row` are committed table contents, `fresh`
the ids AUTO_INCREMENT has left; `cache` is Redis; `setter` is the goroutine with
which `HasCommunityPermission` fills a key. A request (`req`) is an HTTP call
with a program counter, a transaction (`tx`) its snapshot, locks and writes.

A request starts by reading the community (`Start`), asks for its permission
through Redis or the row (`CheckCached`, `CheckMissed`, `CheckRow`,
`CheckNoRow`; an error of either is answered "Not allowed", `CheckFails`, and
`failed` remembers it), and then runs the handler's transaction statement by statement:
`BeginCreate`, `Grant...` and `Commit` for `CreateCommunityRole`; `UpdateRole`,
`BeginEdit`, `Unassign`, `Assign`, `Recalc` and `Commit` for `EditCommunityRole`
(which has replied before `UpdateRole`); `BeginDelete`, `Recalc`, `Commit`;
`BeginDefaults`, `Recalc`, `Commit`; `SignUp`. `Recalc` is
`RecalculatePermissions`: it computes a member's row from the transaction's view
and deletes the Redis key, before the commit, as the code does.

Transactions are modelled as the driver's defaults make them in InnoDB: the
first SELECT of a transaction fixes its snapshot, later SELECTs see it and the
transaction's own writes, an UPDATE locks its row until the end, and others see
writes after the commit. Reads through `db` instead of `tx` see committed data.
`Abort` is an error path, a lost connection, a crash, or InnoDB breaking a
deadlock; it can come at every statement after the check. `"swallow"` in `Faults` allows the
errors the code overwrites or drops (`GrantUnassigned`, `SignUpUnset`,
`SetCacheFails`).

The permissions of a row are a set. The code's eight boolean columns are
treated alike, so two permissions suffice to tell "has it" from "has it not" and
one permission from another.

### Messages
`msg` is the `messages` table with its files, `chan` and `groups` the tables of
channels and groups, `react` the reactions in Redis; `poster` and `setter` are the
goroutines that outlive a request, `sent` is what the websocket server was given.
A text is the name of the request that brought it and a message a set of texts,
because `CreateMessage` joins a text to the last message of the channel when it
is by the same user.

`CreateMessage` is taken apart: the channel is looked up; the transaction's
SELECTs (parent, last message, its files) see one snapshot and decide between
UPDATE and INSERT (`BeginJoin`, `BeginInsert`, `BeginNoParent`). The errors of two
of them are not looked at: after a failed count of files the text is joined all the
same (`BeginJoinUncounted`), after a failed read of the last message it is inserted
(`BeginUnread`); `unseen` remembers the first. The UPDATE waits
for the row, the INSERT takes the next id (`UpdateText`, `InsertRow`); after the
uploads it commits; the message is read again for the reply (`ReadBack`,
`ReadBackGone`) and handed to a goroutine (`Post`). `ReadBackRaced` and `ReadParentRaced` are
a data race: the goroutine that Sets the read mark assigns the handler's `err`, so a
message that was not found, or that could not be read, may be taken for one that
was. `ReactToMessage` is a Get, a toggle and a Set in a goroutine; a Get that fails
counts as a message without reactions (`ReactGetFails`). The other handlers are a check outside the
transaction and a transaction that only writes; such a transaction is one step,
which waits for the rows others have written and not committed.

Requests refused before they reach the database change nothing and are left out.
So are names, handles and times, and with them `EditGroup` (it changes a name)
and the read marks that `CreateMessage` and `ChannelSelect` set.

### Accounts
`users` and `beta` are the tables, `nextId` is AUTO_INCREMENT, `cache` the keys
`user-<id>`, `setter` the goroutine in which `SignUp`, `SignIn` and
`AuthorizationREST` Set the key, `row` what a request has read or written and will
use. `past` is auxiliary: every row an id has had. Of a row the model keeps
e-mail, handle and picture; a picture is named by the request that uploaded it.

`SignUp` looks for the handle (`SignUp`), the address (`CheckEmail`) and the
invite or wait list (`CheckBeta`), each in a read of its own; its transaction is
`InsertUser`, which the unique indexes may refuse (`Free`), and `CommitUser`.
`UpdateProfile` is `CheckHandle`, `UpdateUser`, `CommitProfile`, `SetKey`;
`EditProfilePicture` is `UploadPicture` and `DelKey`. Both come after
`AuthorizationREST`, which finds the viewer in Redis (`GetViewer`) or not
(`GetNothing`, `SelectREST`); `AuthorizationWS` waits for its Set (`SelectWS`,
`SetKey`). A statement waits for the row and the index entries that another
transaction has written (`Blocks`). `Endings` is a data race: the Set goroutine
assigns the `err` that is checked after the token is signed. Reads are of committed
rows, and each is a step; errors come at any step (`Abort`), from Redis (`"redis"`) and
from the image service (`"upload"`, which the code does not notice). Letting an
address in is external (`EnableBeta`): no code in the repository does it.

### Membership
`comm`, `members` and `invites` are the tables, `nextId` is AUTO_INCREMENT; `open`
are the requests whose transaction MySQL has not ended, one connection each. A
request enters where its checks outside the transaction have passed, takes a
connection (`Begin`, or `BeginFails` when `MaxConns` are in use), and runs its
statements, which wait for the rows of `communities_users` and the entries of
`communities_handle_uq` that others have locked (`Unlocked`); writes show at the
commit.

Three error paths make the module what it is. `JoinCommunity` fails at its query
for bans, every time, without `Rollback` (`JoinBanQuery` leaves the request in
`open`); `SignIn` with an invite fails at the same query and does roll back;
`LeaveCommunity`, `KickUser` and `BanUser` delete rows of `communities_users` and
then fail on a table whose name is misspelled (`LeaveRoles`, `RemoveRoles`). So the
only ways into a community are to found it and to sign up for it, the only way out
is its deletion, and no ban is ever written. `SignUp` reads the community after it
has inserted the member, over another connection (`ReadCommunity`).

### Provisioning
`row` has the three columns, `services` and `records` what the hosts have, `at` the
attempts, `asked` for which community a task was enqueued: `NewCreateCommunityTask`
sets neither an id nor `Unique`, so there may be several for one. An attempt is one
time asynq hands a task out; it names the service and the record it makes.
Its steps are the calls of the handler. `live` says that its
context is not cancelled: after `Timeout` the handler runs on while the task is
back in the queue, and its transaction is gone. `StepFails` and `Cleanup` are
`cleanupAndReturn`; after a failed commit it panics in `DeleteDNSRecord`
(`CommitFails`), and asynq recovers and retries. Every error is wrapped in
`SkipRetry`, so tasks are redelivered only after a panic, a time-out or a crash.
A call may take effect without an answer (`ServiceCreateUnanswered`, and the second
case of `CommitFails`). asynq, Railway and Cloudflare are external.

### ChannelView
One client reads one channel (`Here`) from its newest page on, finding it by its
handle each time; `named` is the channel that bears the handle, which `EditChannel`
and `DeleteChannel` may take away and `EditChannel` may give to another (`There`).
`view.stray` says that a page came from that other one. `Channel` is a step for each
query: the reader's row and selected channel, the channel and the members, roles,
the page, the count, and who has the roles; between any two the other handlers
commit what they commit. `lists` is the reply, one set of users for each prominent
role and one for the others. Sorting by priority is not stable, so of roles with
one priority any may come first. `base` and `seen` are the client's: what there was
at the first page and what it was shown.

## 3. Runs

| Run | Result | What it shows |
|---|---|---|
| `hub_reuse` | holds | With recycled Conns and messages and close frames that may hang for ever: types; entries of `server.Clients` belong to the session their Conn wraps (`RegistrationBacked`); the hub still takes broadcasts, readers leave and failed writers that got to `Unregister` finish; marked clients leave the hub, although their readers are not woken; goroutines end and subscribers get broadcasts unless a write for their own client hangs or the process dies. |
| `hub_private_conns` | holds | Without recycling: writers hold the mutex, a session that is read is in the hub, a goroutine writes to the client whose topics it checked, and `ChatHub` implements `PubSub`. |
| `hub_stranded` | violated | With recycling, an old goroutine unregisters a new session. |
| `perm_concurrent` | holds | Three overlapping requests of any kind with every failure: the owner is refused only where the check itself met an error, nothing escalates, roles are held by members, and the TTL makes Redis agree with the rows in the end (it does not say that the `Del`s do: between them a revoked permission may live for an hour). |
| `perm_sequential` | holds | Creating, deleting and signing up one after another, with failures that roll back: rows are the union of defaults and roles. |
| `perm_edit_role` | violated | A member given its first role by an edit does not get its permissions. |
| `perm_defaults` | violated | New defaults are not applied: members are recalculated with the old ones. |
| `msgs_concurrent` | holds | Overlapping requests of two managers, with failures seen and unseen: a text is in a message of its author and channel, a message with files has one text unless the count of files had failed, a user counts once per emoji. Of a user that waits for replies no acknowledged text is lost, and a broadcast carries its text or, after a read whose error was hidden, is the empty message, never an older one. |
| `accounts_concurrent` | holds | Overlapping requests, with failures: no address or handle is given twice, an address is used up only by its account, an account had an invite or was let in, Redis has only committed rows, a replaced picture does not come back. |
| `membership_concurrent` | holds | Overlapping requests on two connections, with failing statements and commits and restarts: no member of a community that is gone, transactions left open hold no lock (`LeftOpenHoldsNoLocks`), every request is answered. |
| `provisioning_retries` | holds | Attempts that fail, time out, panic, crash and are made again: rows name services and records that exist, the service of a task that was done is named unless another task of the community replaced it, no reported success is lost. |
| `channel_view` | holds | A client that pages through a channel while others write misses no message unless the handle led it into another channel, and every page lists everybody exactly once. |

### Bounds
- **Hub.** In `hub_private_conns` two sessions on two Conns, two broadcasts (two
  goroutines waiting for one mutex) and two commands, subscribe and unsubscribe,
  which is what the refinement needs. In `hub_reuse` one Conn, so that the second
  session can only run on the first one's while goroutines of the first are alive;
  one broadcast and one command. `MaxCmds` bounds the commands of
  a session, `MaxFrames` those of all sessions. One topic is enough for
  "subscribed or not": the hub never relates two topics. The safety properties of
  `hub_reuse` are also proved, for any numbers.
- **Permissions.** Three requests: a writer, a second writer or a reader of the
  cache, and a third request that observes the outcome. In
  `perm_sequential` three users, the owner, a member, and one that signs up on the
  way; in `perm_concurrent` the owner and one that signs up (its safety properties
  are proved for any users). One or two role ids, which are never
  handed out again, as with AUTO_INCREMENT. `PermsInputs` and `MembersInputs` are
  the values requests carry; `Ops` selects the handlers a run is about.
  `Sequential` makes requests wait for the reply to the one before, which is not
  the end of the work for `EditCommunityRole`.
- **Messages.** Two users and three requests: a message to join, and two requests
  that race for it or for its channel. One channel in one group, and ids for one
  more of each. As many message ids (`MaxMsgs`) as requests, each inserts one at most.
  Both users manage channels, so that one may delete the channel between the
  other's commit and read. `Patient` are the users that wait for replies; one of the
  two does: `NoTextLost` and `BroadcastCarriesText` are about such users (two
  requests of one user at once join the same snapshot, and a text is lost).
- **Accounts.** One account, one address on the wait list, two addresses, two
  handles and three requests: two that race for a handle, an address or a key and
  a third that reads or undoes. `MaxId` is one id for each of the requests and
  one for the first account, so ids do not run out.
- **Membership.** Three requests: a pair that race and a third that holds a
  connection or undoes. Two connections, so that two leaks of `JoinCommunity`, or one
  and a transaction, leave none. A founder, a member to be and a newcomer; two
  handles, one taken; `MaxComms` leaves room for two communities besides the first.
  The first is private and has an invite, those to come are not (`PrivateInputs`).
- **Provisioning.** Two communities, two tasks and three attempts: two of one task,
  the first still running, and one of the other, for the same community or not; or
  three of one task.
- **ChannelView.** `PageSize` is 1 instead of 50, two messages at the start and two
  more to come, so that there are up to four pages and each may shift by two while
  they are read. The other channel has two messages (`ThereMsgs`), so that a client
  led there is told to go on. Five calls of others (`MaxCalls`), enough to free a
  handle, give it away and post; two roles, enough to tie.
- Symmetry is used in safety runs only. Between some ten thousand and seven million
  states a run; the longest take two to three minutes.

### Fairness
- `FairSpec` of the hub: weak fairness of the hub's cases (a blocked send stays
  ready until it is received), of a handler's return and of goroutines between two
  blocking calls; strong fairness of taking a mutex (`sync.Mutex` is starvation
  free). Nothing is assumed of writes, messages or close frames, for which the code
  sets no deadline: `GoroutinesEnd` and `SubscriberGetsBroadcast` except clients
  with a write that hangs (`WriteHangs`). Nothing is assumed of reads either: no
  line of the code makes them fail, a closed client's reader may wait for ever.
  `ClosingClientLeaves` does not need it: after a failed write the library returns
  the error again without writing, so the close frame is refused and the goroutine
  comes to `Unregister`; a close frame that goes to another session, over a recycled
  Conn, may hang, but then the client's own handler has returned and unregistered it.
  Clients need not send, post or leave.
- `FairSpec` of `Permissions`: a request that can go on does, its Set goroutine
  is run, and Redis expires keys. The code sets every key with a one-hour TTL.
  Failures are never assumed to happen or not to happen.
- `FairSpec` of `Membership`: each request that can take its next step does. The
  handlers have no loops, and MySQL grants a lock once it is free. A request that
  finds no connection fails, so nothing need be assumed of connections.

## 4. Proofs

The `_proofs` modules prove every safety property that a run checks, for every
value of the constants that the named assumption of each component allows:

| Theorem | Statement | Module |
|---|---|---|
| `TypeCorrect`, `PermTypeCorrect`, `AccountsTypeCorrect`, `MessagesTypeCorrect`, `MembershipTypeCorrect`, `ProvisioningTypeCorrect`, `ChannelViewTypeCorrect` | the type invariants | all |
| `ClientsBacked` | `RegistrationBacked` | `ChatHub_proofs` |
| `MutexHeld` | `WritersHoldMutex` | `ChatHub_proofs` |
| `HubImplementsPubSub` (1) | `ImplementsPubSub`, the refinement | `ChatHubRefines_proofs` |
| `LiveReadersReachable` (1) | `LiveReaderRegistered` | `ChatHubRefines_proofs` |
| `WritesStayWithClient` (1) | `WritesToOwnClient` | `ChatHubRefines_proofs` |
| `OwnerRefusalsAreErrors` | `OwnerRefusedOnlyOnError` | `Permissions_proofs` |
| `NothingEscalates` | `NoEscalation` | `Permissions_proofs` |
| `RolesHeldByMembers` | `HoldersAreMembers` | `Permissions_proofs` |
| `RowsStayInAgreement` (2) | `RowsAgree` | `Permissions_proofs` |
| `AccountsAreUnique` | `UniqueAccounts` | `Accounts_proofs` |
| `NoBetaWasted` | `BetaSpentOnAccount` | `Accounts_proofs` |
| `NobodyUninvited` | `InvitedOnly` | `Accounts_proofs` |
| `ViewersAreCommitted` | `CacheCommitted` | `Accounts_proofs` |
| `PicturesStayReplaced` | `ReplacedPictureStays`, an action property | `Accounts_proofs` |
| `ReactionsCountOnce` | `ReactionsOnce` | `Messages_proofs` |
| `TextsStayWithAuthor` | `TextsBelong` | `Messages_proofs` |
| `TextsAreKept` | `NoTextLost` | `Messages_proofs` |
| `BroadcastsCarryText` | `BroadcastCarriesText` | `Messages_proofs` |
| `MembersHaveCommunity` | `NoOrphanMembers` | `Membership_proofs` |
| `NoLockIsLeftBehind` | `LeftOpenHoldsNoLocks` | `Membership_proofs` |
| `HostingMatchesRows` | `ServicesMatchRows` | `Provisioning_proofs` |
| `ReadyIsKept` | `ReadyNotLost` | `Provisioning_proofs` |
| `EverybodyIsListedOnce` | `EveryoneListedOnce` | `ChannelView_proofs` |
| `NothingIsMissed` | `PagingMissesNothing` | `ChannelView_proofs` |

The components' assumptions say only that bounds are numbers, sets of names do not
overlap, the owner is a member, inputs have their types, and the first rows of a
table agree with each other. Four theorems have a hypothesis besides, because
without it the code does not have the property. Each is what the run of the same
property sets in its cfg:

1. `PoolReuse = FALSE`: a released Conn is not handed out again. With recycling,
   `hub_stranded` shows a session removed by another's goroutine.
2. `OneAtATime`: requests wait for the reply to the one before, no role and no
   default is edited, and no error is overwritten. `perm_edit_role` and
   `perm_defaults` show what edits do; overlapping requests recalculate from
   different snapshots.

Every inductive invariant below also holds in TLC with the constants of a run that
checks its property. Each action has a lemma, with one step for each conjunct that
it can disturb.

**Hub.** `RegistrationBacked` is not inductive alone: a late unregistration could
remove anything unless Conn and session are known to point at each other while
the handler runs (`SessionBound`). `CastOnce` (the goroutines of a broadcast are
spawned once, for the Conns in the map at that moment), `TargetBound` (what a
goroutine is writing to was wrapped by its own Conn), `GoStarted` and
`CommandNumbered` make the steps of the goroutines well-defined.

**Hub without recycling, and the refinement.** `PrivateInv` adds that a Conn
serves one session (`ConnsPrivate`) and a goroutine writes to that of its client
(`GoPrivate`). `LiveReaderRegistered` then needs that whoever is about to
unregister has marked its client (`LeavingMarked`). For the refinement, a write
is a delivery of `PubSub` only if the subscription is still in force: the mutex
keeps it from the check to the write (`TopicHeld`), and the goroutine carries the
topic that was published (`CastTopics`). The steps of `ChatHub` map as follows:
registering and unregistering join and leave; a goroutine's change of `topics`
subscribes and unsubscribes; an accepted broadcast publishes, which creates the
debts of all present sessions at once; a successful write delivers; a goroutine
that finds the client closing or not subscribed, or fails, drops; all others
stutter.

**Permissions.** `OwnerRefusedOnlyOnError` needs that the owner's row, its Redis copy,
every pending Set and every uncommitted UPDATE of it are complete (`OwnerFull`),
and that the owner does not sign up (`OwnerNeverJoins`). `HoldersAreMembers`
needs that what a snapshot saw still exists at commit (`SeenStay`): no handler
modelled here deletes a row. `NoEscalation` needs `GrantedOnly`: whatever is
stored, cached, pending or in a transaction for anyone but the owner was in some
input. `RowsAgree` is about a moment when nothing is under way; `SeqInv` says
what is true in between. Rows are always those of the committed roles
(`RowsEffective`), and the transaction under way is about to keep it so:
`CreateCommunityRole` adds permissions to rows instead of recalculating them,
which is right only for members whose rows were right before and for a role that
nobody has yet (`GrantSound`, `FreshUnused`); `DeleteCommunityRole` recalculates
whoever had any role, from a view without the deleted one (`DeleteSound`); `SignUp`
recalculates the newcomer (`JoinSound`). `Effective` depends only on the roles a
user has (`EffectiveSame`), so rows of the others stay right.

**Accounts.** `UniqueAccounts` is not inductive alone: between the INSERT or
UPDATE of a transaction and its commit other transactions commit. It needs that
what is to be committed is still free (`WritersReady`), and for that to be
preserved, that no two open transactions have written one row or index entry
(`WritersApart`), which the locks of `Blocks` give. `WritersReady` also says that an
open UPDATE is of the present row, from which `ReplacedPictureStays` follows for
`CommitProfile`; for `UploadPicture` it needs that pictures in `past` were uploaded by
requests that are past that step (`PastShape`). `InvitedOnly` needs that an address
let in stays so while its `SignUp` runs (`StillEnabled`), `CacheCommitted` that
rows waiting to be Set were shown (`RowsToSet`).

**Messages.** `ReactionsOnce` is preserved with the types (`TypeInv`). For the
texts, the id of an uncommitted INSERT is known to nobody else (`IdsFresh`), what
`CreateMessage` will write is of one author and channel (`WritesOwn`), and the
message it has found stays that author's, in that channel and, if the count of its
files was made, without files (`PlacedStays`). `NoTextLost` rests on the snapshot
from which the UPDATE is computed: of a user that waits for replies it still has
every text of the message (`SnapshotHolds`), because only that user writes to it
and has one request at a time (`PatientAlone`). The same facts carry the text from
the commit to the broadcast (`ReadHolds`), whoever deletes the
channel in between.

**Membership.** A member's row is locked from its INSERT on, and `DeleteCommunity`
locks the rows it deletes, so a `SignUp` past its INSERT and a deletion past
its DELETE are never of one community (`SignUpsApart`); a `SignUp` that has read
the community over its other connection therefore commits while it is there
(`SignUpsFound`). For a community to be founded, `IdsFresh` says nobody else knows its
id. That ids do not run out is a count: `nextId` is two more than the number of
INSERTs (`IdsCounted`). `LeftOpenHoldsNoLocks` needs to know who may leave a
transaction open: a request in `open` is under way, or is a `JoinCommunity` that has
answered (`OpenUnderWay`), which has locked nothing.

**Provisioning.** `ServicesMatchRows` needs that a row names an attempt that got
to its commit and that no removal is after (`RowsNamed`, `RemovalsGone`), that a
service is deleted only by an attempt that no row names (`HostsFollow`), and that
a task is in the queue, or has one attempt whose context lives, or was
acknowledged (`OneHolder`): an older attempt runs on after its time-out, and its
transaction is gone. Two tasks of one community may be done one after the other; the
row then names the later one's service, and the earlier one's stays without a row
(`NamedOrReplaced`). `ReadyNotLost` needs that the webhook waits for the open
transaction (`ReportWaits`).

**ChannelView.** The page is an OFFSET from the newest message of the moment, the
count is taken later, and both move while others post or delete the channel.
`UnseenBeyond` is the loop's invariant: a message of the beginning that was not
shown has at least `PagesRead * PageSize` newer ones. Others only add messages, so
`Newer` does not shrink, or delete them all with the channel; and a message of the
beginning is not posted again (`BaseSettled`, `IdsOnce`), although an id that was
handed out may be committed after a higher one. A page shows whatever has at least
`page * PageSize` and fewer than `(page + 1) * PageSize` newer ones. When
`remaining_messages` is 0 the number of messages is at most that
of the pages read, so nothing is beyond (`CountedOut`). All of it is about pages of
one channel, which `ReadsHere` says unless the handle has led the client astray. The proof needs no
induction over pages, only facts about cardinalities.

**Only model-checked:** liveness, because fairness is out of the prover's reach:
`SlowClientDoesNotBlockHub`, `ClosingClientLeaves`, `GoroutinesEnd` and
`SubscriberGetsBroadcast` of the hub, `CacheCatchesUp` of the permissions,
`RequestsEnd` of the membership. And what is violated, which no theorem can state.

## 5. Findings

1. `api_ws.go:150`: a goroutine that outlives its session unregisters whatever
   session now has its Conn object; by the same recycling its write at line 140
   reaches that session's client. Setting `PoolReuse = TRUE` in
   `ChatHub_private.cfg` shows both (`hub_stranded` shows the first).
2. `edit_community_role.go:332`: the users recalculated are those selected before
   the members changed (`perm_edit_role`).
3. `edit_community_default_permissions.go:175`: the community is read outside the
   transaction that has just changed it (`perm_defaults`).

Beyond these, which contradict a line of the code, the models have behaviours that a
reader of the code should know of, though no line says otherwise. No property is
stated that holds only because of them.

- Nobody can leave a community, be kicked or be banned: `leave_community.go:103`,
  `kick_user.go:178` and `ban_user.go:177` delete from `communiy_roles_users`, a table
  that does not exist, and the transaction is rolled back. (Spelled right,
  `LeaveCommunity` would remove the user from every community: its first DELETE has
  no condition on one.)
- Nobody can join either: the query of `join_community.go:170` has one placeholder and
  two arguments. The transaction stays open, so each attempt costs a connection.
- A failed write does not close the client's socket (`api_ws.go:103`); a write in
  flight while the handler returns may end the process or reach another client.
- An error of Redis or MySQL while permissions are checked is answered "Not
  allowed", to the owner too (`validations.go:64`, `validations.go:98`).
- `create_message.go:258`: a failed count of files joins a text to a message with
  files; `create_message.go:550`: a data race can broadcast an empty message;
  `react_to_message.go:151`: a failed Get throws all reactions away.
- A channel can be moved into a group that is being deleted, and is then listed
  nowhere (`edit_channel.go:237`).
- A second task for one community makes a second service and forgets the first
  (`create_community_task.go:39`).
- A handle that changes hands between two pages leads a client into another channel
  (`channel.go:167`).

`PubSub` leaves open in which order subscribe and unsubscribe take effect, because
the hub does: the goroutines of two commands take the mutex in any order.

## 6. Not modelled

- `EditCommunity` and `EditGroup`: a name, which nothing else looks at.
- Read marks and the unread counts of `Me` and `Community`: they compare times of
  second precision from several clocks.
- `CommunityUsers`, `CommunityRoles`, `CommunityRole`,
  `CommunityDefaultPermissions`, `CommunityInvite`, `GetUser`, the sitemap: a query
  and its formatting.
- Passwords, tokens, names and `last_active_at` of accounts; object ids, `Truncate`,
  images: pure functions whose substance is in libraries.
- What follows the statements that always fail: bans, and the end of
  `JoinCommunity`, `LeaveCommunity`, `KickUser`, `BanUser`.
- The e-mail task, which keeps nothing; the queues' weights; Railway's client.
- A read replica of Redis: `READ_REDIS_URL` may name one; the model has one Redis.
- A commit whose outcome the client does not learn, but in `Provisioning`.
- HTTP parsing, JSON, logging, uploads, e-mail texts, generated clients.
- `server.Clients` is read by the `/ws` handler nowhere, so no data race on the
  map is modelled.

## 7. Plan

1. All components of section 2: modelled, checked, their safety properties proved.
2. Proofs to come: weaker hypotheses where the code would bear them (`RowsAgree`
   with overlapping requests about different members).
3. The order in which the broadcasts of joined messages reach a subscriber
   (`Messages` composed with `PubSub`): nothing promises it, so it is last.
