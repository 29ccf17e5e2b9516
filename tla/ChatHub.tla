------------------------------ MODULE ChatHub ------------------------------
(***************************************************************************)
(* The websocket chat server of api_ws: one hub goroutine (runChatServer)  *)
(* that owns server.Clients and serves six unbuffered channels, one reader *)
(* goroutine per websocket session (the /ws handler), one goroutine per    *)
(* POST /internal/broadcast-message, and the short-lived goroutines the    *)
(* hub spawns so that it never takes a client's mutex itself.              *)
(*                                                                         *)
(* A session s is one websocket connection from upgrade to close.  It      *)
(* registers once, so the chatserver.Client the hub makes for it is named  *)
(* s as well.  A conn p is a *websocket.Conn of the gofiber wrapper, the   *)
(* key of server.Clients; these objects come from a sync.Pool and may be   *)
(* given to a later session once the handler of the first has returned.    *)
(*                                                                         *)
(* A send on an unbuffered channel and the hub's case that receives it are *)
(* one step: the sender blocks until the hub is at its select.             *)
(***************************************************************************)
EXTENDS Naturals, FiniteSets

CONSTANTS
    Sessions,    \* websocket sessions ever opened
    Conns,       \* pooled *websocket.Conn objects
    Topics,      \* topic names
    Msgs,        \* broadcasts ever posted
    MaxCmds,     \* bound: text frames a session sends
    MaxFrames,   \* bound: text frames all sessions send
    PoolReuse,   \* whether sync.Pool hands a released Conn out again
    None         \* nil

CmdNo == 1..MaxCmds

\* A goroutine spawned by the hub is named by what it was spawned for: the
\* n-th command of a session, or a broadcast and the entry of Clients.
CmdGo == Sessions \X CmdNo
CastGo == Msgs \X Conns
GoId == CmdGo \cup CastGo

ASSUME ConstAssumption ==
    /\ MaxCmds \in Nat
    /\ PoolReuse \in BOOLEAN
    /\ Sessions \cap Msgs = {}
    /\ None \notin Sessions \cup Conns \cup Topics \cup Msgs \cup GoId

VARIABLES
    clients,    \* server.Clients: conn -> client, None where absent
    topics,     \* Client.Topics
    isClosing,  \* the clients with IsClosing set
    mu,         \* Client.Mu: the goroutine that holds it, or None
    under,      \* the session a Conn wraps (Conn.Conn), None = nil
    broken,     \* the sessions whose websocket refuses writes (writeErr is set)
    conn,       \* the Conn a session's handler runs with
    reader,     \* where the session's reader goroutine is
    cmd,        \* the command the reader is sending to the hub
    ncmd,       \* how many commands the session has sent
    go,         \* the goroutines spawned by the hub
    post,       \* the BroadcastMessage handlers
    inbox,      \* frames of each broadcast written to a session's socket
    panicked    \* the process has died of an unrecovered panic

vars == <<clients, topics, isClosing, mu, under, broken, conn, reader, cmd,
          ncmd, go, post, inbox, panicked>>

sessionVars == <<under, broken, conn, reader, cmd, ncmd>>
clientVars == <<topics, isClosing, mu>>

Orders == {"subscribe", "unsubscribe"}

Cmd == [kind : Orders, topic : Topics] \cup [kind : {"echo"}, topic : {None}]

NoCmd == [kind |-> "none", topic |-> None]

ReaderState == {"new", "registering", "reading", "pinging", "sending",
                "exiting", "returning", "done"}

GoPc == {"none", "start", "ready", "writing", "closing", "parting",
         "unregistering", "done"}

\* A write is on its way to the network.
InFlight == {"writing", "parting"}

GoOf(kinds, ts) ==
    [pc : GoPc, kind : kinds, conn : Conns \cup {None},
     client : Sessions \cup {None}, topic : ts, target : Sessions \cup {None}]

GoState == GoOf(Orders, Topics)
             \cup GoOf({"echo", "cast", "none"}, Topics \cup {None})

NoGo == [pc |-> "none", kind |-> "none", conn |-> None, client |-> None,
         topic |-> None, target |-> None]

NewGo(kind, p, c, t) ==
    [pc |-> "start", kind |-> kind, conn |-> p, client |-> c, topic |-> t,
     target |-> None]

PostState == [state : {"idle", "sending", "accepted"},
              topic : Topics \cup {None}]

Init ==
    /\ clients = [p \in Conns |-> None]
    /\ topics = [s \in Sessions |-> {}]
    /\ isClosing = {}
    /\ mu = [s \in Sessions |-> None]
    /\ under = [p \in Conns |-> None]
    /\ broken = {}
    /\ conn = [s \in Sessions |-> None]
    /\ reader = [s \in Sessions |-> "new"]
    /\ cmd = [s \in Sessions |-> NoCmd]
    /\ ncmd = [s \in Sessions |-> 0]
    /\ go = [g \in GoId |-> NoGo]
    /\ post = [b \in Msgs |-> [state |-> "idle", topic |-> None]]
    /\ inbox = [s \in Sessions |-> [b \in Msgs |-> 0]]
    /\ panicked = FALSE

-----------------------------------------------------------------------------
(***************************************************************************)
(* The session's reader goroutine: the /ws handler and the wrapper that    *)
(* calls it.                                                               *)
(***************************************************************************)

\* websocket.New: a Conn is taken from the pool, or made, and wraps the
\* upgraded connection; the handler then sends on server.Register.
Open(s, p) ==
    /\ reader[s] = "new"
    /\ under[p] = None
    /\ PoolReuse \/ \A r \in Sessions : conn[r] # p
    /\ under' = [under EXCEPT ![p] = s]
    /\ conn' = [conn EXCEPT ![s] = p]
    /\ reader' = [reader EXCEPT ![s] = "registering"]
    /\ UNCHANGED <<clients, clientVars, broken, cmd, ncmd, go, post, inbox,
                   panicked>>

\* case connection := <-server.Register: a fresh Client replaces whatever the
\* map held for the Conn.
HubRegister(s) ==
    /\ reader[s] = "registering"
    /\ clients' = [clients EXCEPT ![conn[s]] = s]
    /\ topics' = [topics EXCEPT ![s] = {}]
    /\ isClosing' = isClosing \ {s}
    /\ reader' = [reader EXCEPT ![s] = "reading"]
    /\ UNCHANGED <<mu, under, broken, conn, cmd, ncmd, go, post, inbox,
                   panicked>>

\* ReadMessage returns a text frame that is "ping" or a well-formed command.
\* A websocket that refuses writes is still read.
ReadCommand(s, c) ==
    /\ reader[s] = "reading"
    /\ ncmd[s] < MaxCmds
    /\ Cardinality({g \in CmdGo : g[2] <= ncmd[g[1]]}) < MaxFrames
    /\ cmd' = [cmd EXCEPT ![s] = c]
    /\ ncmd' = [ncmd EXCEPT ![s] = @ + 1]
    /\ reader' = [reader EXCEPT ![s] = "sending"]
    /\ UNCHANGED <<clients, clientVars, under, broken, conn, go, post, inbox,
                   panicked>>

\* ReadMessage meets a ping control frame and calls the ping handler, ...
ReadPing(s) ==
    /\ reader[s] = "reading"
    /\ reader' = [reader EXCEPT ![s] = "pinging"]
    /\ UNCHANGED <<clients, clientVars, under, broken, conn, cmd, ncmd, go,
                   post, inbox, panicked>>

\* ... which takes the mutex to set Lp, a field nothing reads.
PingHandler(s) ==
    /\ reader[s] = "pinging"
    /\ mu[s] = None
    /\ reader' = [reader EXCEPT ![s] = "reading"]
    /\ UNCHANGED <<clients, clientVars, under, broken, conn, cmd, ncmd, go,
                   post, inbox, panicked>>

\* ReadMessage fails, or the frame is not a valid command: the handler
\* returns and its deferred function sends on server.Unregister.  A close
\* frame of the client has been answered by then, which ends the writes.
ReadError(s) ==
    /\ reader[s] = "reading"
    /\ reader' = [reader EXCEPT ![s] = "exiting"]
    /\ broken' \in {broken, broken \cup {s}}
    /\ UNCHANGED <<clients, clientVars, under, conn, cmd, ncmd, go, post,
                   inbox, panicked>>

\* Mutant: the hub takes the client's mutex before it forgets the client.
HubUnregister_LocksClient(p) ==
    /\ clients[p] # None => mu[clients[p]] = None
    /\ clients' = [clients EXCEPT ![p] = None]

\* case connection := <-server.Unregister
HubUnregister(p) == clients' = [clients EXCEPT ![p] = None]

\* Mutant: the deferred function closes without unregistering.
ReaderUnregister_Missing(s) ==
    /\ reader[s] = "exiting"
    /\ reader' = [reader EXCEPT ![s] = "returning"]
    /\ UNCHANGED <<clients, clientVars, under, broken, conn, cmd, ncmd, go,
                   post, inbox, panicked>>

\* The hub receives from the handler's deferred function.
ReaderUnregister(s) ==
    /\ reader[s] = "exiting"
    /\ HubUnregister(conn[s])
    /\ reader' = [reader EXCEPT ![s] = "returning"]
    /\ UNCHANGED <<clientVars, under, broken, conn, cmd, ncmd, go, post, inbox,
                   panicked>>

\* c.Close() of the deferred function does nothing: a hijacked connection is
\* closed by the server once the handler has returned and releaseConn has
\* forgotten the connection and put the Conn back into the pool.  Then the
\* server's hijackConn loses its socket and goes into a pool as well.
ReleaseConn(s) ==
    /\ reader[s] = "returning"
    /\ under' = [under EXCEPT ![conn[s]] = None]
    /\ reader' = [reader EXCEPT ![s] = "done"]
    /\ UNCHANGED <<clients, clientVars, broken, conn, cmd, ncmd, go, post,
                   inbox, panicked>>

-----------------------------------------------------------------------------
(***************************************************************************)
(* The hub's remaining cases.  The client is looked up by the hub, at the  *)
(* time it receives; what is to be done to it is left to a goroutine.      *)
(***************************************************************************)

\* Mutant: the goroutine is spawned without looking at ok.
HubCommand_NoOk(s, kind) ==
    /\ reader[s] = "sending"
    /\ cmd[s].kind = kind
    /\ go' = [go EXCEPT ![<<s, ncmd[s]>>] =
                 NewGo(kind, conn[s], clients[conn[s]], cmd[s].topic)]
    /\ cmd' = [cmd EXCEPT ![s] = NoCmd]
    /\ reader' = [reader EXCEPT ![s] = "reading"]
    /\ UNCHANGED <<clients, clientVars, under, broken, conn, ncmd, post, inbox,
                   panicked>>

\* cases <-server.Subscribe, <-server.Unsubscribe and <-server.Echo
HubCommand(s, kind) ==
    LET p == conn[s]
        c == clients[p]
    IN  /\ reader[s] = "sending"
        /\ cmd[s].kind = kind
        /\ go' = IF c = None THEN go
                 ELSE [go EXCEPT ![<<s, ncmd[s]>>] =
                          NewGo(kind, p, c, cmd[s].topic)]
        /\ cmd' = [cmd EXCEPT ![s] = NoCmd]
        /\ reader' = [reader EXCEPT ![s] = "reading"]
        /\ UNCHANGED <<clients, clientVars, under, broken, conn, ncmd, post,
                       inbox, panicked>>

HubSubscribe(s) == HubCommand(s, "subscribe")
HubUnsubscribe(s) == HubCommand(s, "unsubscribe")
HubEcho(s) == HubCommand(s, "echo")

\* BroadcastMessage has validated its input and sends on server.Broadcast.
BroadcastMessage(b, t) ==
    /\ post[b].state = "idle"
    /\ post' = [post EXCEPT ![b] = [state |-> "sending", topic |-> t]]
    /\ UNCHANGED <<clients, clientVars, sessionVars, go, inbox, panicked>>

\* Mutant: the goroutines capture the loop's variable instead of taking the
\* connection as an argument, and all see the last one.
HubBroadcast_Captured(b) ==
    /\ post[b].state = "sending"
    /\ post' = [post EXCEPT ![b].state = "accepted"]
    /\ go' = [g \in GoId |->
                IF g \in CastGo /\ g[1] = b /\ clients[g[2]] # None
                THEN NewGo("cast", CHOOSE p \in Conns : clients[p] # None,
                           clients[g[2]], post[b].topic)
                ELSE go[g]]
    /\ UNCHANGED <<clients, clientVars, sessionVars, inbox, panicked>>

\* case broadcast := <-server.Broadcast: one goroutine per entry of Clients.
HubBroadcast(b) ==
    /\ post[b].state = "sending"
    /\ post' = [post EXCEPT ![b].state = "accepted"]
    /\ go' = [g \in GoId |->
                IF g \in CastGo /\ g[1] = b /\ clients[g[2]] # None
                THEN NewGo("cast", g[2], clients[g[2]], post[b].topic)
                ELSE go[g]]
    /\ UNCHANGED <<clients, clientVars, sessionVars, inbox, panicked>>

-----------------------------------------------------------------------------
(***************************************************************************)
(* The spawned goroutines.                                                 *)
(***************************************************************************)

Finish(g) == go' = [go EXCEPT ![g].pc = "done", ![g].target = None]

\* Mutant: the mutex is not released after the topic is added.
GoSubscribe_NoUnlock(g) ==
    /\ go[g].pc = "start"
    /\ go[g].kind = "subscribe"
    /\ mu[go[g].client] = None
    /\ mu' = [mu EXCEPT ![go[g].client] = g]
    /\ topics' = [topics EXCEPT ![go[g].client] = @ \cup {go[g].topic}]
    /\ Finish(g)
    /\ UNCHANGED <<clients, isClosing, sessionVars, post, inbox, panicked>>

\* Lock; c.Topics[message.Topic] = true; unlock
GoSubscribe(g) ==
    /\ go[g].pc = "start"
    /\ go[g].kind = "subscribe"
    /\ mu[go[g].client] = None
    /\ topics' = [topics EXCEPT ![go[g].client] = @ \cup {go[g].topic}]
    /\ Finish(g)
    /\ UNCHANGED <<clients, isClosing, mu, sessionVars, post, inbox, panicked>>

\* Mutant: the topic is deleted without taking the mutex.
GoUnsubscribe_NoLock(g) ==
    /\ go[g].pc = "start"
    /\ go[g].kind = "unsubscribe"
    /\ topics' = [topics EXCEPT ![go[g].client] = @ \ {go[g].topic}]
    /\ Finish(g)
    /\ UNCHANGED <<clients, isClosing, mu, sessionVars, post, inbox, panicked>>

\* Lock; delete(c.Topics, message.Topic); unlock
GoUnsubscribe(g) ==
    /\ go[g].pc = "start"
    /\ go[g].kind = "unsubscribe"
    /\ mu[go[g].client] = None
    /\ topics' = [topics EXCEPT ![go[g].client] = @ \ {go[g].topic}]
    /\ Finish(g)
    /\ UNCHANGED <<clients, isClosing, mu, sessionVars, post, inbox, panicked>>

\* Whether an echo or a broadcast is to be written to client c.
MayWrite(g, c) ==
    /\ c \notin isClosing
    /\ go[g].kind = "cast" => go[g].topic \in topics[c]

\* Echo and broadcast: Lock, nothing to write, unlock.
GoSkip(g) ==
    /\ go[g].pc = "start"
    /\ go[g].kind \in {"echo", "cast"}
    /\ mu[go[g].client] = None
    /\ ~MayWrite(g, go[g].client)
    /\ Finish(g)
    /\ UNCHANGED <<clients, clientVars, sessionVars, post, inbox, panicked>>

\* Mutant: the checks and the write without the mutex.
GoLock_NoLock(g) ==
    /\ go[g].pc = "start"
    /\ go[g].kind \in {"echo", "cast"}
    /\ MayWrite(g, go[g].client)
    /\ mu' = [mu EXCEPT ![go[g].client] = g]
    /\ go' = [go EXCEPT ![g].pc = "ready"]
    /\ UNCHANGED <<clients, topics, isClosing, sessionVars, post, inbox,
                   panicked>>

\* Echo and broadcast: Lock, the checks pass.
GoLock(g) ==
    /\ go[g].pc = "start"
    /\ go[g].kind \in {"echo", "cast"}
    /\ mu[go[g].client] = None
    /\ MayWrite(g, go[g].client)
    /\ mu' = [mu EXCEPT ![go[g].client] = g]
    /\ go' = [go EXCEPT ![g].pc = "ready"]
    /\ UNCHANGED <<clients, topics, isClosing, sessionVars, post, inbox,
                   panicked>>

\* The Conn wraps a connection, and that takes writes.
Writable(p) == under[p] \in Sessions \ broken

\* connection.WriteMessage begins: the Conn's current connection is loaded.
WriteStart(g) ==
    /\ go[g].pc = "ready"
    /\ Writable(go[g].conn)
    /\ go' = [go EXCEPT ![g].pc = "writing", ![g].target = under[go[g].conn]]
    /\ UNCHANGED <<clients, clientVars, sessionVars, post, inbox, panicked>>

\* connection.WriteMessage returns at once: ErrNilConn, or the error of an
\* earlier write.
WriteRefused(g) ==
    /\ go[g].pc = "ready"
    /\ ~Writable(go[g].conn)
    /\ isClosing' = isClosing \cup {go[g].client}
    /\ go' = [go EXCEPT ![g].pc = "closing"]
    /\ UNCHANGED <<clients, topics, mu, sessionVars, post, inbox, panicked>>

\* The frame is on the wire of session u, the mutex is released.
Written(g, u) ==
    /\ inbox' = IF g \in CastGo THEN [inbox EXCEPT ![u][g[1]] = @ + 1]
                ELSE inbox
    /\ mu' = [mu EXCEPT ![go[g].client] = None]
    /\ Finish(g)
    /\ UNCHANGED <<clients, topics, isClosing, sessionVars, post, panicked>>

\* Mutant: the mutex is not released on the way out.
WriteOk_NoUnlock(g) ==
    LET u == go[g].target
    IN  /\ go[g].pc = "writing"
        /\ reader[u] # "done"
        /\ inbox' = IF g \in CastGo THEN [inbox EXCEPT ![u][g[1]] = @ + 1]
                    ELSE inbox
        /\ Finish(g)
        /\ UNCHANGED <<clients, clientVars, sessionVars, post, panicked>>

\* The write succeeds.
WriteOk(g) ==
    /\ go[g].pc = "writing"
    /\ reader[go[g].target] # "done"
    /\ Written(g, go[g].target)

\* The session the write was for has ended and the server has given its
\* hijackConn, which the connection still points at, to session v.
WriteStrays(g, v) ==
    /\ PoolReuse
    /\ go[g].pc = "writing"
    /\ reader[go[g].target] = "done"
    /\ reader[v] \notin {"new", "done"}
    /\ Written(g, v)

\* Mutant: IsClosing is not set.
WriteErr_NotMarked(g) ==
    /\ go[g].pc = "writing"
    /\ broken' = broken \cup {go[g].target}
    /\ go' = [go EXCEPT ![g].pc = "closing", ![g].target = None]
    /\ UNCHANGED <<clients, clientVars, under, conn, reader, cmd, ncmd, post,
                   inbox, panicked>>

\* The write fails: the connection is broken, or was closed under it.  The
\* error stays with the connection and every later write returns it.
WriteErr(g) ==
    /\ go[g].pc = "writing"
    /\ isClosing' = isClosing \cup {go[g].client}
    /\ broken' = broken \cup {go[g].target}
    /\ go' = [go EXCEPT ![g].pc = "closing", ![g].target = None]
    /\ UNCHANGED <<clients, topics, mu, under, conn, reader, cmd, ncmd, post,
                   inbox, panicked>>

\* Two goroutines, holding the mutexes of two clients, write to one
\* connection: the library may notice, and panics.
ConcurrentWrite(g, h) ==
    /\ g # h
    /\ go[g].pc \in InFlight /\ go[h].pc \in InFlight
    /\ go[g].target = go[h].target
    /\ panicked' = TRUE
    /\ UNCHANGED <<clients, clientVars, sessionVars, go, post, inbox>>

\* The session has ended under the write and its hijackConn has no socket any
\* more: a nil dereference in a goroutine that does not recover.
WritePanics(g) ==
    /\ go[g].pc \in InFlight
    /\ reader[go[g].target] = "done"
    /\ panicked' = TRUE
    /\ UNCHANGED <<clients, clientVars, sessionVars, go, post, inbox>>

\* connection.WriteMessage(CloseMessage) begins, on whatever the Conn wraps
\* by now; there is no deadline.
CloseStart(g) ==
    /\ go[g].pc = "closing"
    /\ Writable(go[g].conn)
    /\ go' = [go EXCEPT ![g].pc = "parting", ![g].target = under[go[g].conn]]
    /\ UNCHANGED <<clients, clientVars, sessionVars, post, inbox, panicked>>

\* Mutant: a goroutine whose close frame is refused gives up there.
CloseRefused_NoUnregister(g) ==
    /\ go[g].pc = "closing"
    /\ ~Writable(go[g].conn)
    /\ mu' = [mu EXCEPT ![go[g].client] = None]
    /\ Finish(g)
    /\ UNCHANGED <<clients, topics, isClosing, sessionVars, post, inbox,
                   panicked>>

\* The close frame is refused at once; its error is ignored, and
\* connection.Close() does nothing to a hijacked connection.
CloseRefused(g) ==
    /\ go[g].pc = "closing"
    /\ ~Writable(go[g].conn)
    /\ go' = [go EXCEPT ![g].pc = "unregistering"]
    /\ UNCHANGED <<clients, clientVars, sessionVars, post, inbox, panicked>>

\* The close frame has been sent or has failed: either way the connection
\* takes no more writes.
CloseSent(g) ==
    /\ go[g].pc = "parting"
    /\ broken' = broken \cup {go[g].target}
    /\ go' = [go EXCEPT ![g].pc = "unregistering", ![g].target = None]
    /\ UNCHANGED <<clients, clientVars, under, conn, reader, cmd, ncmd, post,
                   inbox, panicked>>

\* The hub receives from the goroutine, which holds the mutex until then.
WriterUnregister(g) ==
    /\ go[g].pc = "unregistering"
    /\ HubUnregister(go[g].conn)
    /\ mu' = [mu EXCEPT ![go[g].client] = None]
    /\ Finish(g)
    /\ UNCHANGED <<topics, isClosing, sessionVars, post, inbox, panicked>>

-----------------------------------------------------------------------------
Reader(s) ==
    \/ \E p \in Conns : Open(s, p)
    \/ HubRegister(s)
    \/ \E c \in Cmd : ReadCommand(s, c)
    \/ ReadPing(s)
    \/ PingHandler(s)
    \/ ReadError(s)
    \/ HubSubscribe(s)
    \/ HubUnsubscribe(s)
    \/ HubEcho(s)
    \/ ReaderUnregister(s)
    \/ ReleaseConn(s)

Goroutine(g) ==
    \/ GoSubscribe(g)
    \/ GoUnsubscribe(g)
    \/ GoSkip(g)
    \/ GoLock(g)
    \/ WriteStart(g)
    \/ WriteRefused(g)
    \/ WriteOk(g)
    \/ \E v \in Sessions : WriteStrays(g, v)
    \/ WriteErr(g)
    \/ CloseStart(g)
    \/ CloseRefused(g)
    \/ CloseSent(g)
    \/ WriterUnregister(g)

\* The bounds are used up and everything has come to rest, or the process is
\* gone.  Any other state without a successor is a deadlock.
Finished ==
    \/ panicked
    \/ /\ \A s \in Sessions : reader[s] = "done"
       /\ \A g \in GoId : go[g].pc \in {"none", "done"}
       /\ \A b \in Msgs : post[b].state = "accepted"

Step ==
    \/ \E s \in Sessions : Reader(s)
    \/ \E b \in Msgs, t \in Topics : BroadcastMessage(b, t)
    \/ \E b \in Msgs : HubBroadcast(b)
    \/ \E g \in GoId : Goroutine(g)
    \/ \E g, h \in GoId : ConcurrentWrite(g, h)
    \/ \E g \in GoId : WritePanics(g)

Next == (~panicked /\ Step) \/ (Finished /\ UNCHANGED vars)

Spec == Init /\ [][Next]_vars

-----------------------------------------------------------------------------
(***************************************************************************)
(* Fairness.  The hub's select serves every waiting sender: a send stays   *)
(* ready until it is received.  The Go scheduler runs every runnable       *)
(* goroutine, and sync.Mutex is starvation free, which is strong fairness  *)
(* of taking it.  Clients owe nothing: no frame need ever arrive, and a    *)
(* reader is not woken when writes to its client have failed.              *)
(***************************************************************************)
HubFairness ==
    /\ \A s \in Sessions :
          /\ WF_vars(~panicked /\ HubRegister(s))
          /\ WF_vars(~panicked /\ (HubSubscribe(s) \/ HubUnsubscribe(s)
                                     \/ HubEcho(s)))
          /\ WF_vars(~panicked /\ ReaderUnregister(s))
    /\ \A b \in Msgs : WF_vars(~panicked /\ HubBroadcast(b))
    /\ \A g \in GoId : WF_vars(~panicked /\ WriterUnregister(g))

GoFairness ==
    /\ \A s \in Sessions :
          /\ SF_vars(~panicked /\ PingHandler(s))
          /\ WF_vars(~panicked /\ ReleaseConn(s))
    /\ \A g \in GoId :
          /\ SF_vars(~panicked /\ (GoSubscribe(g) \/ GoUnsubscribe(g)
                                     \/ GoSkip(g) \/ GoLock(g)))
          /\ WF_vars(~panicked /\ (WriteStart(g) \/ WriteRefused(g)
                                     \/ CloseStart(g) \/ CloseRefused(g)))

\* Nothing is assumed of writes to the network, the close frame included: the
\* code sets no deadline, and a client that stops reading makes them hang.
FairSpec == Spec /\ HubFairness /\ GoFairness

-----------------------------------------------------------------------------
(***************************************************************************)
(* Properties.                                                             *)
(***************************************************************************)
\* The variables have the types the code gives them.
TypeOK ==
    /\ clients \in [Conns -> Sessions \cup {None}]
    /\ topics \in [Sessions -> SUBSET Topics]
    /\ isClosing \in SUBSET Sessions
    /\ mu \in [Sessions -> GoId \cup {None}]
    /\ under \in [Conns -> Sessions \cup {None}]
    /\ broken \in SUBSET Sessions
    /\ conn \in [Sessions -> Conns \cup {None}]
    /\ reader \in [Sessions -> ReaderState]
    /\ cmd \in [Sessions -> Cmd \cup {NoCmd}]
    /\ ncmd \in [Sessions -> 0..MaxCmds]
    /\ go \in [GoId -> GoState]
    /\ \A g \in GoId : go[g].pc # "none" =>
          go[g].client \in Sessions /\ go[g].conn \in Conns
    /\ post \in [Msgs -> PostState]
    /\ inbox \in [Sessions -> [Msgs -> Nat]]
    /\ panicked \in BOOLEAN

InHub(s) == \E p \in Conns : clients[p] = s

\* server.Clients never holds an entry nobody will remove: whatever the
\* interleaving of late unregistrations and recycled Conns, an entry is the
\* client of the session its Conn wraps right now, and that session's reader
\* still has its deferred Unregister ahead of it.
RegistrationBacked ==
    \A p \in Conns : clients[p] # None =>
        LET s == clients[p]
        IN  /\ under[p] = s
            /\ conn[s] = p
            /\ reader[s] \in {"reading", "pinging", "sending", "exiting"}

\* A goroutine that is about to write holds the client's mutex, and the client
\* has not been marked closing since the goroutine checked: IsClosing is
\* tested and set under Mu, so the closing handshake of a client runs once.
WritersHoldMutex ==
    \A g \in GoId :
        /\ go[g].pc \in InFlight \cup {"ready", "closing", "unregistering"}
              => mu[go[g].client] = g
        /\ go[g].pc \in {"ready", "writing"} => go[g].client \notin isClosing

\* A session whose reader is in its loop can be reached by broadcasts: it is in
\* server.Clients unless a failed write has marked its client as closing.
LiveReaderRegistered ==
    \A s \in Sessions :
        reader[s] \in {"reading", "pinging", "sending"} /\ s \notin isClosing
            => InHub(s)

\* The connection a goroutine writes to, or parts from, is that of the client
\* whose topics and IsClosing it checked.
WritesToOwnClient ==
    \A g \in GoId : go[g].pc \in InFlight => go[g].target = go[g].client

\* "So we don't block on a slow client": a posted broadcast, a leaving reader
\* and a failed writer that has got rid of its close frame are all served by
\* the hub although no write to a client need ever return.
SlowClientDoesNotBlockHub ==
    /\ \A b \in Msgs : post[b].state = "sending" ~>
          post[b].state = "accepted" \/ panicked
    /\ \A s \in Sessions : reader[s] = "exiting" ~>
          reader[s] = "done" \/ panicked
    /\ \A g \in GoId : go[g].pc = "unregistering" ~>
          go[g].pc = "done" \/ panicked

\* A client marked closing leaves the hub, although the close frame has no
\* deadline and the reader may never notice: the connection that failed refuses
\* the close frame, so that the goroutine gets to Unregister.
ClosingClientLeaves ==
    \A s \in Sessions : s \in isClosing ~> ~InHub(s) \/ panicked

\* A message or a close frame written for client s hangs for ever.
WriteHangs(s) ==
    <>[](\E g \in GoId : go[g].client = s /\ go[g].pc \in InFlight)

\* No goroutine leaks: each one the hub spawns ends, unless a frame written on
\* behalf of its own client hangs; what is written for other clients never
\* holds it up.
GoroutinesEnd ==
    \A g \in GoId, s \in Sessions :
        go[g].pc = "start" /\ go[g].client = s
            ~> go[g].pc = "done" \/ panicked \/ WriteHangs(s)

\* A client that is subscribed when the hub spawns the goroutine for it gets
\* the broadcast, unless it unsubscribes, fails, hangs or leaves meanwhile.
SubscriberGetsBroadcast ==
    \A b \in Msgs, p \in Conns, s \in Sessions :
        /\ go[<<b, p>>].pc = "start" /\ go[<<b, p>>].client = s
        /\ post[b].topic \in topics[s]
        ~> \/ inbox[s][b] = 1
           \/ post[b].topic \notin topics[s]
           \/ s \in isClosing
           \/ reader[s] \notin {"reading", "pinging", "sending"}
           \/ panicked
           \/ WriteHangs(s)

-----------------------------------------------------------------------------
(***************************************************************************)
(* The inductive invariant behind RegistrationBacked and WritersHoldMutex. *)
(***************************************************************************)
\* While its handler runs, a session and its Conn point at each other.
SessionBound ==
    /\ \A s \in Sessions : reader[s] \notin {"new", "done"} =>
          conn[s] \in Conns /\ under[conn[s]] = s
    /\ \A p \in Conns : under[p] # None =>
          conn[under[p]] = p /\ reader[under[p]] \notin {"new", "done"}

\* A command that is being sent has a number.
CommandNumbered ==
    \A s \in Sessions : reader[s] = "sending" => ncmd[s] \in CmdNo

\* Goroutines and closing marks belong to sessions that have registered.
GoStarted ==
    /\ \A g \in GoId : go[g].pc # "none" =>
          reader[go[g].client] \notin {"new", "registering"}
    /\ \A s \in isClosing : reader[s] \notin {"new", "registering"}

\* The goroutines of a broadcast are spawned once and write to their Conn.
CastOnce ==
    \A g \in CastGo :
        /\ post[g[1]].state # "accepted" => go[g].pc = "none"
        /\ go[g].pc # "none" => go[g].conn = g[2]

\* What a goroutine is writing to was wrapped by the goroutine's Conn.
TargetBound ==
    \A g \in GoId :
        /\ go[g].pc \in InFlight => go[g].target # None
        /\ go[g].target # None =>
              /\ go[g].pc \in InFlight
              /\ conn[go[g].target] = go[g].conn
              /\ reader[go[g].target] # "new"

IndInv ==
    /\ TypeOK
    /\ SessionBound
    /\ CommandNumbered
    /\ RegistrationBacked
    /\ GoStarted
    /\ WritersHoldMutex
    /\ CastOnce
    /\ TargetBound

-----------------------------------------------------------------------------
(***************************************************************************)
(* What holds besides when the pool never hands a Conn out again: the      *)
(* inductive invariant behind LiveReaderRegistered and WritesToOwnClient,  *)
(* and behind the refinement of PubSub.                                    *)
(***************************************************************************)
\* A Conn serves one session.
ConnsPrivate ==
    \A r, s \in Sessions : conn[r] = conn[s] /\ conn[s] # None => r = s

\* A goroutine writes to the Conn of its client.
GoPrivate ==
    \A g \in GoId : go[g].pc # "none" => conn[go[g].client] = go[g].conn

\* Who is about to unregister a client has marked it.
LeavingMarked ==
    \A g \in GoId : go[g].pc \in {"closing", "parting", "unregistering"}
        => go[g].client \in isClosing

\* A session that has not registered has no topics.
TopicsFresh ==
    \A s \in Sessions : reader[s] \in {"new", "registering"} => topics[s] = {}

\* A broadcast that was posted has a topic, and its goroutines carry it.
CastTopics ==
    /\ \A b \in Msgs : post[b].state # "idle" => post[b].topic \in Topics
    /\ \A g \in CastGo : go[g].pc # "none" =>
          go[g].kind = "cast" /\ go[g].topic = post[g[1]].topic

\* The mutex keeps the subscription in force from the check to the write.
TopicHeld ==
    \A g \in CastGo : go[g].pc \in {"ready", "writing"} =>
        go[g].topic \in topics[go[g].client]

PrivateInv ==
    /\ ConnsPrivate
    /\ GoPrivate
    /\ LeavingMarked
    /\ LiveReaderRegistered
    /\ TopicsFresh
    /\ CastTopics
    /\ TopicHeld
=============================================================================
