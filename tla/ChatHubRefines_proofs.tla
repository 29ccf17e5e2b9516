----------------------- MODULE ChatHubRefines_proofs -----------------------
(***************************************************************************)
(* Proofs about the hub when the pool never hands a Conn out again: every  *)
(* live reader can be reached, a goroutine writes to its own client, and   *)
(* the chat server implements PubSub.  PrivateInv, the inductive invariant *)
(* besides IndInv, is in ChatHub.                                          *)
(***************************************************************************)
EXTENDS ChatHubRefines, ChatHub_proofs

InLoop == {"reading", "pinging", "sending"}

\* A step that may move readers, but none into its loop or before it.
Quiet ==
    /\ UNCHANGED <<clients, topics, isClosing, conn, go, post>>
    /\ \A s \in Sessions :
          /\ reader'[s] \in InLoop => reader[s] \in InLoop
          /\ reader'[s] \in {"new", "registering"} <=>
                reader[s] \in {"new", "registering"}

\* The steps of a reader by itself are of this kind, and so is a panic.
LEMMA QuietSteps ==
  ASSUME TypeOK,
         \/ \E s \in Sessions :
               \/ \E c \in Cmd : ReadCommand(s, c)
               \/ ReadPing(s) \/ PingHandler(s) \/ ReadError(s)
               \/ ReleaseConn(s)
         \/ \E g, h \in GoId : ConcurrentWrite(g, h)
         \/ \E g \in GoId : WritePanics(g)
         \/ UNCHANGED vars
  PROVE  Quiet /\ UNCHANGED inbox
<1>1. ASSUME NEW s \in Sessions, NEW c \in Cmd, ReadCommand(s, c)
      PROVE  Quiet /\ UNCHANGED inbox
  BY <1>1 DEF ReadCommand, Quiet, InLoop, TypeOK, clientVars
<1>2. ASSUME NEW s \in Sessions, ReadPing(s) PROVE Quiet /\ UNCHANGED inbox
  BY <1>2 DEF ReadPing, Quiet, InLoop, TypeOK, clientVars
<1>3. ASSUME NEW s \in Sessions, PingHandler(s) PROVE Quiet /\ UNCHANGED inbox
  BY <1>3 DEF PingHandler, Quiet, InLoop, TypeOK, clientVars
<1>4. ASSUME NEW s \in Sessions, ReadError(s) PROVE Quiet /\ UNCHANGED inbox
  BY <1>4 DEF ReadError, Quiet, InLoop, TypeOK, clientVars
<1>5. ASSUME NEW g \in GoId, WritePanics(g) PROVE Quiet /\ UNCHANGED inbox
  BY <1>5 DEF WritePanics, Quiet, clientVars, sessionVars
<1>6. ASSUME NEW s \in Sessions, ReleaseConn(s) PROVE Quiet /\ UNCHANGED inbox
  BY <1>6 DEF ReleaseConn, Quiet, InLoop, TypeOK, clientVars
<1>7. ASSUME NEW g \in GoId, NEW h \in GoId, ConcurrentWrite(g, h)
      PROVE  Quiet /\ UNCHANGED inbox
  BY <1>7 DEF ConcurrentWrite, Quiet, clientVars, sessionVars
<1>8. CASE UNCHANGED vars
  BY <1>8 DEF vars, Quiet
<1>9. QED
  BY <1>1, <1>2, <1>3, <1>4, <1>5, <1>6, <1>7, <1>8

\* They keep PrivateInv.
LEMMA QuietKeeps ==
  ASSUME PrivateInv, Quiet
  PROVE  PrivateInv'
<1>1. ConnsPrivate' /\ GoPrivate' /\ LeavingMarked'
  BY DEF Quiet, PrivateInv, ConnsPrivate, GoPrivate, LeavingMarked
<1>2. LiveReaderRegistered'
  BY DEF Quiet, PrivateInv, LiveReaderRegistered, InHub, InLoop
<1>3. TopicsFresh' /\ CastTopics' /\ TopicHeld'
  BY DEF Quiet, PrivateInv, TopicsFresh, CastTopics, TopicHeld
<1>4. QED
  BY <1>1, <1>2, <1>3 DEF PrivateInv

-----------------------------------------------------------------------------
(***************************************************************************)
(* The other steps of readers, and broadcasts.                             *)
(***************************************************************************)

\* A session gets a Conn that nobody had.
LEMMA OpenKeeps ==
  ASSUME PoolReuse = FALSE, IndInv, PrivateInv,
         NEW s \in Sessions, NEW p \in Conns, Open(s, p)
  PROVE  PrivateInv'
<1> USE DEF IndInv, PrivateInv
<1>1. /\ UNCHANGED <<clients, topics, isClosing, go, post>>
      /\ reader[s] = "new" /\ reader' = [reader EXCEPT ![s] = "registering"]
      /\ conn' = [conn EXCEPT ![s] = p] /\ \A r \in Sessions : conn[r] # p
  BY DEF Open, clientVars
<1>2. ConnsPrivate'
  BY <1>1 DEF ConnsPrivate, TypeOK
<1>3. GoPrivate'
  BY <1>1 DEF GoPrivate, GoStarted, TypeOK
<1>4. LiveReaderRegistered'
  BY <1>1 DEF LiveReaderRegistered, InHub, TypeOK
<1>5. TopicsFresh'
  BY <1>1 DEF TopicsFresh, TypeOK
<1>6. LeavingMarked' /\ CastTopics' /\ TopicHeld'
  BY <1>1 DEF LeavingMarked, CastTopics, TopicHeld
<1>7. QED
  BY <1>2, <1>3, <1>4, <1>5, <1>6

\* The entry a registering session overwrites is nobody's.
LEMMA RegisterFree ==
  ASSUME IndInv, NEW s \in Sessions, HubRegister(s)
  PROVE  /\ conn[s] \in Conns /\ clients[conn[s]] = None /\ ~InHub(s)
         /\ InHub(s)' /\ \A r \in Sessions : r # s => (InHub(r)' <=> InHub(r))
<1> USE DEF IndInv
<1>1. conn[s] \in Conns /\ under[conn[s]] = s /\ reader[s] = "registering"
  BY DEF HubRegister, SessionBound
<1>2. clients[conn[s]] = None
  BY <1>1 DEF RegistrationBacked
<1>3. ~InHub(s)
  BY <1>1, ConstAssumption DEF InHub, RegistrationBacked
<1>4. clients' = [clients EXCEPT ![conn[s]] = s]
  BY DEF HubRegister
<1>5. InHub(s)' /\ \A r \in Sessions : r # s => (InHub(r)' <=> InHub(r))
  BY <1>1, <1>2, <1>4, ConstAssumption DEF InHub, TypeOK
<1>6. QED
  BY <1>1, <1>2, <1>3, <1>5

\* A session that registers can be reached from then on.
LEMMA RegisterKeeps ==
  ASSUME IndInv, PrivateInv, NEW s \in Sessions, HubRegister(s)
  PROVE  PrivateInv'
<1> USE DEF IndInv, PrivateInv
<1>1. /\ UNCHANGED <<conn, go, post>>
      /\ reader[s] = "registering" /\ reader' = [reader EXCEPT ![s] = "reading"]
      /\ topics' = [topics EXCEPT ![s] = {}] /\ isClosing' = isClosing \ {s}
  BY DEF HubRegister
<1>2. ConnsPrivate' /\ GoPrivate' /\ CastTopics'
  BY <1>1 DEF ConnsPrivate, GoPrivate, CastTopics
<1>3. LeavingMarked'
  BY <1>1 DEF LeavingMarked, GoStarted
<1>4. LiveReaderRegistered'
  BY <1>1, RegisterFree DEF LiveReaderRegistered, TypeOK
<1>5. TopicsFresh'
  BY <1>1 DEF TopicsFresh, TypeOK
<1>6. TopicHeld'
  <2> SUFFICES ASSUME NEW g \in CastGo, go[g].pc \in {"ready", "writing"}
               PROVE  go[g].topic \in topics'[go[g].client]
    BY <1>1 DEF TopicHeld
  <2>1. go[g].client \in Sessions /\ go[g].client # s
    BY <1>1 DEF TypeOK, GoStarted, GoId
  <2>2. QED
    BY <1>1, <2>1 DEF TopicHeld, TypeOK
<1>7. QED
  BY <1>2, <1>3, <1>4, <1>5, <1>6

\* The client the hub finds for a command is the session's own.
LEMMA CommandKeeps ==
  ASSUME IndInv, PrivateInv, NEW s \in Sessions,
         NEW k \in Orders \cup {"echo"}, HubCommand(s, k)
  PROVE  PrivateInv'
<1> USE DEF IndInv, PrivateInv
<1>1. /\ UNCHANGED <<clients, topics, isClosing, conn, post>>
      /\ reader[s] = "sending" /\ reader' = [reader EXCEPT ![s] = "reading"]
  BY DEF HubCommand, clientVars
<1>2. /\ conn[s] \in Conns
      /\ \A g \in GoId :
            \/ go'[g] = go[g]
            \/ /\ g \in CmdGo /\ clients[conn[s]] \in Sessions
               /\ go'[g].pc = "start" /\ go'[g].target = None
               /\ go'[g].client = clients[conn[s]]
               /\ go'[g].conn = conn[s]
  BY SpawnedCommand
<1>3. \A g \in CastGo : go'[g] = go[g]
  BY <1>2, GoIds DEF GoId
<1>4. ConnsPrivate'
  BY <1>1 DEF ConnsPrivate
<1>5. GoPrivate'
  <2> SUFFICES ASSUME NEW g \in GoId, go'[g].pc # "none"
               PROVE  conn[go'[g].client] = go'[g].conn
    BY <1>1 DEF GoPrivate
  <2>1. CASE go'[g] = go[g]
    BY <2>1 DEF GoPrivate
  <2>2. CASE go'[g] # go[g]
    BY <1>2, <2>2, ConstAssumption DEF RegistrationBacked
  <2>3. QED
    BY <2>1, <2>2
<1>6. LeavingMarked'
  BY <1>1, <1>2 DEF LeavingMarked
<1>7. LiveReaderRegistered' /\ TopicsFresh'
  BY <1>1 DEF LiveReaderRegistered, TopicsFresh, InHub, TypeOK
<1>8. CastTopics' /\ TopicHeld'
  BY <1>1, <1>3 DEF CastTopics, TopicHeld
<1>9. QED
  BY <1>4, <1>5, <1>6, <1>7, <1>8

\* The entry a leaving reader removes is its own.
LEMMA UnregisterOwn ==
  ASSUME IndInv, NEW s \in Sessions, ReaderUnregister(s)
  PROVE  /\ conn[s] \in Conns /\ clients[conn[s]] \in {s, None} /\ ~InHub(s)'
         /\ InHub(s) <=> clients[conn[s]] = s
         /\ \A r \in Sessions : r # s => (InHub(r)' <=> InHub(r))
<1> USE DEF IndInv
<1>1. conn[s] \in Conns /\ under[conn[s]] = s
  BY DEF ReaderUnregister, SessionBound
<1>2. clients[conn[s]] \in {s, None}
  BY <1>1 DEF RegistrationBacked
<1>3. \A p \in Conns : clients[p] = s => p = conn[s]
  BY ConstAssumption DEF RegistrationBacked
<1>4. clients' = [clients EXCEPT ![conn[s]] = None]
  BY DEF ReaderUnregister, HubUnregister
<1>5. QED
  BY <1>1, <1>2, <1>3, <1>4, ConstAssumption DEF InHub, TypeOK

\* A reader that unregisters is out of its loop.
LEMMA UnregisterKeeps ==
  ASSUME IndInv, PrivateInv, NEW s \in Sessions, ReaderUnregister(s)
  PROVE  PrivateInv'
<1> USE DEF IndInv, PrivateInv
<1>1. /\ UNCHANGED <<topics, isClosing, conn, go, post>>
      /\ reader[s] = "exiting" /\ reader' = [reader EXCEPT ![s] = "returning"]
  BY DEF ReaderUnregister, clientVars
<1>2. LiveReaderRegistered'
  BY <1>1, UnregisterOwn DEF LiveReaderRegistered, TypeOK
<1>3. ConnsPrivate' /\ GoPrivate' /\ LeavingMarked' /\ CastTopics' /\ TopicHeld'
  BY <1>1 DEF ConnsPrivate, GoPrivate, LeavingMarked, CastTopics, TopicHeld
<1>4. TopicsFresh'
  BY <1>1 DEF TopicsFresh, TypeOK
<1>5. QED
  BY <1>2, <1>3, <1>4

\* A post gets its topic before the hub sees it.
LEMMA PostKeeps ==
  ASSUME IndInv, PrivateInv, NEW b \in Msgs, NEW t \in Topics,
         BroadcastMessage(b, t)
  PROVE  PrivateInv'
<1> USE DEF IndInv, PrivateInv
<1>1. /\ UNCHANGED <<clients, topics, isClosing, conn, go, reader>>
      /\ post[b].state = "idle"
      /\ post' = [post EXCEPT ![b] = [state |-> "sending", topic |-> t]]
  BY DEF BroadcastMessage, clientVars, sessionVars
<1>2. CastTopics'
  BY <1>1, GoIds DEF CastTopics, CastOnce, TypeOK
<1>3. ConnsPrivate' /\ GoPrivate' /\ LeavingMarked' /\ TopicsFresh' /\ TopicHeld'
  BY <1>1 DEF ConnsPrivate, GoPrivate, LeavingMarked, TopicsFresh, TopicHeld
<1>4. LiveReaderRegistered'
  BY <1>1 DEF LiveReaderRegistered, InHub
<1>5. QED
  BY <1>2, <1>3, <1>4

\* The goroutines of a broadcast are given the clients of their Conns.
LEMMA BroadcastKeeps ==
  ASSUME IndInv, PrivateInv, NEW b \in Msgs, HubBroadcast(b)
  PROVE  PrivateInv'
<1> USE DEF IndInv, PrivateInv
<1>1. /\ UNCHANGED <<clients, topics, isClosing, conn, reader>>
      /\ post[b].state = "sending"
      /\ post' = [post EXCEPT ![b].state = "accepted"]
  BY DEF HubBroadcast, clientVars, sessionVars
<1>2. \A g \in GoId :
        \/ go'[g] = go[g]
        \/ /\ g \in CastGo /\ g[1] = b /\ clients[g[2]] \in Sessions
           /\ go'[g].pc = "start" /\ go'[g].target = None
           /\ go'[g].client = clients[g[2]] /\ go'[g].conn = g[2]
           /\ go'[g].kind = "cast" /\ go'[g].topic = post[b].topic
  BY Spawned
<1>3. \A c \in Msgs : /\ post'[c].topic = post[c].topic
                      /\ post'[c].state # "idle" => post[c].state # "idle"
  BY <1>1 DEF TypeOK, PostState
<1>4. GoPrivate'
  <2> SUFFICES ASSUME NEW g \in GoId, go'[g].pc # "none"
               PROVE  conn[go'[g].client] = go'[g].conn
    BY <1>1 DEF GoPrivate
  <2>1. CASE go'[g] = go[g]
    BY <2>1 DEF GoPrivate
  <2>2. CASE go'[g] # go[g]
    BY <1>2, <2>2, GoIds, ConstAssumption DEF RegistrationBacked
  <2>3. QED
    BY <2>1, <2>2
<1>5. LeavingMarked'
  BY <1>1, <1>2 DEF LeavingMarked
<1>6. CastTopics'
  BY <1>2, <1>3, GoIds DEF CastTopics, GoId
<1>7. TopicHeld'
  BY <1>1, <1>2 DEF TopicHeld, GoId
<1>8. ConnsPrivate' /\ TopicsFresh'
  BY <1>1 DEF ConnsPrivate, TopicsFresh
<1>9. LiveReaderRegistered'
  BY <1>1 DEF LiveReaderRegistered, InHub
<1>10. QED
  BY <1>4, <1>5, <1>6, <1>7, <1>8, <1>9

-----------------------------------------------------------------------------
(***************************************************************************)
(* Steps of goroutines.                                                    *)
(***************************************************************************)

\* A goroutine never changes its client, its Conn or what it carries.
LEMMA GoKeepsParts ==
  ASSUME IndInv, PrivateInv, NEW g \in GoId, Goroutine(g)
  PROVE  ConnsPrivate' /\ GoPrivate' /\ CastTopics'
<1> USE DEF IndInv, PrivateInv
<1>1. UNCHANGED <<conn, post>>
  BY GoFrame
<1>2. PICK q \in Busy, r \in GoPc \ {"none"}, u \in Sessions \cup {None} :
        Moved(g, q, r, u)
  BY GoFrame
<1>3. \A h \in GoId : /\ go'[h].client = go[h].client
                      /\ go'[h].conn = go[h].conn
                      /\ go'[h].kind = go[h].kind
                      /\ go'[h].topic = go[h].topic
                      /\ go'[h].pc # "none" => go[h].pc # "none"
  BY <1>2 DEF Moved, Busy
<1>4. QED
  BY <1>1, <1>3 DEF ConnsPrivate, GoPrivate, CastTopics, GoId

\* A goroutine that leaves clients, topics and marks alone, and does not begin
\* to write or to close.
LEMMA GoIdleKeeps ==
  ASSUME IndInv, PrivateInv, NEW g \in GoId, Goroutine(g),
         UNCHANGED <<clients, topics, isClosing>>,
         NEW q, NEW r, NEW u, Moved(g, q, r, u),
         r \in {"ready", "writing"} /\ g \in CastGo =>
             go[g].topic \in topics[go[g].client],
         r \in {"closing", "parting", "unregistering"} =>
             go[g].client \in isClosing
  PROVE  PrivateInv'
<1> USE DEF IndInv, PrivateInv
<1>1. UNCHANGED reader
  BY GoFrame
<1>2. LeavingMarked'
  BY DEF LeavingMarked, Moved
<1>3. TopicHeld'
  BY DEF TopicHeld, Moved, GoId
<1>4. LiveReaderRegistered' /\ TopicsFresh'
  BY <1>1 DEF LiveReaderRegistered, TopicsFresh, InHub
<1>5. QED
  BY <1>2, <1>3, <1>4, GoKeepsParts

\* The topics of a client change while nobody else holds its mutex.
LEMMA GoTopicsKeeps ==
  ASSUME IndInv, PrivateInv, NEW g \in GoId, GoSubscribe(g) \/ GoUnsubscribe(g)
  PROVE  PrivateInv'
<1> USE DEF IndInv, PrivateInv
<1>1. Moved(g, "start", "done", None) /\ Goroutine(g)
  BY GoMoves DEF Goroutine
<1>2. UNCHANGED <<clients, isClosing, reader>>
  BY DEF GoSubscribe, GoUnsubscribe, sessionVars
<1>3. /\ mu[go[g].client] = None
      /\ \A s \in Sessions : s # go[g].client => topics'[s] = topics[s]
  BY DEF GoSubscribe, GoUnsubscribe, TypeOK
<1>4. TopicHeld'
  <2> SUFFICES ASSUME NEW h \in CastGo, go'[h].pc \in {"ready", "writing"}
               PROVE  go'[h].topic \in topics'[go'[h].client]
    BY DEF TopicHeld
  <2>1. h \in GoId /\ h # g /\ go'[h] = go[h]
    BY <1>1 DEF Moved, GoId
  <2>2. mu[go[h].client] = h /\ go[h].client \in Sessions
    BY <2>1 DEF WritersHoldMutex, TypeOK, InFlight
  <2>3. go[h].client # go[g].client
    BY <1>3, <2>1, <2>2, ConstAssumption
  <2>4. QED
    BY <1>3, <2>1, <2>2, <2>3 DEF TopicHeld
<1>5. TopicsFresh'
  <2>1. reader[go[g].client] \notin {"new", "registering"}
    BY <1>1 DEF GoStarted, Moved
  <2>2. QED
    BY <1>2, <1>3, <2>1 DEF TopicsFresh
<1>6. LeavingMarked'
  BY <1>1, <1>2 DEF LeavingMarked, Moved
<1>7. LiveReaderRegistered'
  BY <1>2 DEF LiveReaderRegistered, InHub
<1>8. QED
  BY <1>1, <1>4, <1>5, <1>6, <1>7, GoKeepsParts

\* A failed write marks the client.
LEMMA WriteErrKeeps ==
  ASSUME IndInv, PrivateInv, NEW g \in GoId, WriteErr(g) \/ WriteRefused(g)
  PROVE  PrivateInv'
<1> USE DEF IndInv, PrivateInv
<1>1. /\ Goroutine(g)
      /\ \E q \in {"ready", "writing"}, u \in {None, go[g].target} :
            Moved(g, q, "closing", u)
  BY GoMoves DEF Goroutine
<1>2. /\ UNCHANGED <<clients, topics, reader>>
      /\ isClosing' = isClosing \cup {go[g].client}
  BY DEF WriteErr, WriteRefused, sessionVars
<1>3. LeavingMarked'
  BY <1>1, <1>2 DEF LeavingMarked, Moved
<1>4. TopicHeld'
  BY <1>1, <1>2 DEF TopicHeld, Moved, GoId
<1>5. LiveReaderRegistered' /\ TopicsFresh'
  BY <1>2 DEF LiveReaderRegistered, TopicsFresh, InHub
<1>6. QED
  BY <1>1, <1>3, <1>4, <1>5, GoKeepsParts

\* The entry a failed writer removes is that of its own client.
LEMMA WriterUnregisterOwn ==
  ASSUME IndInv, PrivateInv, NEW g \in GoId, WriterUnregister(g),
         NEW c, c = go[g].client, NEW p, p = go[g].conn
  PROVE  /\ c \in Sessions /\ p \in Conns
         /\ clients[p] \in {c, None}
         /\ ~InHub(c)' /\ (InHub(c) <=> clients[p] = c)
         /\ \A r \in Sessions : r # c => (InHub(r)' <=> InHub(r))
<1> USE DEF IndInv, PrivateInv
<1>1. c \in Sessions /\ p \in Conns /\ conn[c] = p
  BY DEF WriterUnregister, TypeOK, GoPrivate
<1>2. clients' = [clients EXCEPT ![p] = None]
  BY DEF WriterUnregister, HubUnregister
<1>3. clients[p] \in {c, None}
  BY <1>1, ConstAssumption DEF RegistrationBacked, ConnsPrivate, TypeOK
<1>4. \A x \in Conns : clients[x] = c => x = p
  BY <1>1, ConstAssumption DEF RegistrationBacked
<1>5. ~InHub(c)' /\ (InHub(c) <=> clients[p] = c)
      /\ \A r \in Sessions : r # c => (InHub(r)' <=> InHub(r))
  BY <1>1, <1>2, <1>3, <1>4, ConstAssumption DEF InHub, TypeOK
<1>6. QED
  BY <1>1, <1>3, <1>5

\* A writer unregisters a client that is marked.
LEMMA WriterUnregisterKeeps ==
  ASSUME IndInv, PrivateInv, NEW g \in GoId, WriterUnregister(g)
  PROVE  PrivateInv'
<1> USE DEF IndInv, PrivateInv
<1>1. Moved(g, "unregistering", "done", None) /\ Goroutine(g)
  BY GoMoves DEF Goroutine
<1>2. UNCHANGED <<topics, isClosing, reader>>
  BY DEF WriterUnregister, sessionVars
<1>3. go[g].client \in isClosing
  BY <1>1 DEF LeavingMarked, Moved
<1>4. LiveReaderRegistered'
  BY <1>2, <1>3, WriterUnregisterOwn DEF LiveReaderRegistered
<1>5. LeavingMarked' /\ TopicsFresh'
  BY <1>1, <1>2 DEF LeavingMarked, TopicsFresh, Moved
<1>6. TopicHeld'
  BY <1>1, <1>2 DEF TopicHeld, Moved, GoId
<1>7. QED
  BY <1>1, <1>4, <1>5, <1>6, GoKeepsParts

\* Every step of a goroutine keeps PrivateInv.
LEMMA GoroutineKeeps ==
  ASSUME PoolReuse = FALSE, IndInv, PrivateInv, NEW g \in GoId, Goroutine(g)
  PROVE  PrivateInv'
<1> USE DEF IndInv, PrivateInv
<1>1. CASE GoSubscribe(g) \/ GoUnsubscribe(g)
  BY <1>1, GoTopicsKeeps
<1>2. CASE GoSkip(g)
  <2>1. UNCHANGED <<clients, topics, isClosing>>
    BY <1>2 DEF GoSkip, clientVars
  <2>2. Moved(g, "start", "done", None)
    BY <1>2, GoMoves
  <2>3. QED
    BY <2>1, <2>2, GoIdleKeeps
<1>3. CASE GoLock(g)
  <2>1. UNCHANGED <<clients, topics, isClosing>>
    BY <1>3 DEF GoLock
  <2>2. Moved(g, "start", "ready", go[g].target)
    BY <1>3, GoMoves
  <2>3. g \in CastGo => go[g].topic \in topics[go[g].client]
    BY <1>3 DEF GoLock, MayWrite, CastTopics
  <2>4. QED
    BY <2>1, <2>2, <2>3, GoIdleKeeps
<1>4. CASE WriteStart(g)
  <2>1. UNCHANGED <<clients, topics, isClosing>> /\ go[g].pc = "ready"
    BY <1>4 DEF WriteStart, clientVars
  <2>2. Moved(g, "ready", "writing", under[go[g].conn])
    BY <1>4, GoMoves
  <2>3. g \in CastGo => go[g].topic \in topics[go[g].client]
    BY <2>1 DEF TopicHeld
  <2>4. QED
    BY <2>1, <2>2, <2>3, GoIdleKeeps
<1>5. CASE WriteOk(g)
  <2>1. UNCHANGED <<clients, topics, isClosing>>
    BY <1>5 DEF WriteOk, Written
  <2>2. Moved(g, "writing", "done", None)
    BY <1>5, GoMoves
  <2>3. QED
    BY <2>1, <2>2, GoIdleKeeps
<1>6. CASE WriteErr(g) \/ WriteRefused(g)
  BY <1>6, WriteErrKeeps
<1>7. CASE CloseStart(g) \/ CloseRefused(g) \/ CloseSent(g)
  <2>1. /\ UNCHANGED <<clients, topics, isClosing>>
        /\ go[g].pc \in {"closing", "parting"}
    BY <1>7 DEF CloseStart, CloseRefused, CloseSent, clientVars
  <2>2. PICK q \in {"closing", "parting"}, r \in {"parting", "unregistering"},
             u \in {None, go[g].target, under[go[g].conn]} :
           Moved(g, q, r, u)
    BY <1>7, GoMoves
  <2>3. go[g].client \in isClosing
    BY <2>1 DEF LeavingMarked
  <2>4. QED
    BY <2>1, <2>2, <2>3, GoIdleKeeps
<1>8. CASE WriterUnregister(g)
  BY <1>8, WriterUnregisterKeeps
<1>9. QED
  BY <1>1, <1>2, <1>3, <1>4, <1>5, <1>6, <1>7, <1>8 DEF Goroutine, WriteStrays

-----------------------------------------------------------------------------
(***************************************************************************)
(* The invariants.                                                         *)
(***************************************************************************)

\* Every step keeps PrivateInv.
LEMMA PrivateStep ==
  ASSUME PoolReuse = FALSE, IndInv, PrivateInv, [Next]_vars
  PROVE  PrivateInv'
<1>1. TypeOK
  BY DEF IndInv
<1>2. CASE UNCHANGED vars
  BY <1>1, <1>2, QuietSteps, QuietKeeps
<1>3. ASSUME NEW s \in Sessions, Reader(s) PROVE PrivateInv'
  <2>1. CASE \E p \in Conns : Open(s, p)
    BY <2>1, OpenKeeps
  <2>2. CASE HubRegister(s)
    BY <2>2, RegisterKeeps
  <2>3. CASE HubSubscribe(s) \/ HubUnsubscribe(s) \/ HubEcho(s)
    BY <2>3, CommandKeeps DEF HubSubscribe, HubUnsubscribe, HubEcho, Orders
  <2>4. CASE ReaderUnregister(s)
    BY <2>4, UnregisterKeeps
  <2>5. CASE \/ \E c \in Cmd : ReadCommand(s, c)
             \/ ReadPing(s) \/ PingHandler(s) \/ ReadError(s)
             \/ ReleaseConn(s)
    BY <1>1, <2>5, QuietSteps, QuietKeeps
  <2>6. QED
    BY <1>3, <2>1, <2>2, <2>3, <2>4, <2>5 DEF Reader
<1>4. ASSUME NEW g \in GoId, NEW h \in GoId, ConcurrentWrite(g, h)
      PROVE  PrivateInv'
  BY <1>1, <1>4, QuietSteps, QuietKeeps
<1>5. ASSUME NEW g \in GoId, WritePanics(g) PROVE PrivateInv'
  BY <1>1, <1>5, QuietSteps, QuietKeeps
<1>6. QED
  BY <1>2, <1>3, <1>4, <1>5, PostKeeps, BroadcastKeeps, GoroutineKeeps
  DEF Next, Step

\* PrivateInv is an invariant when Conns are not recycled.
THEOREM PrivateInvHolds ==
  ASSUME PoolReuse = FALSE
  PROVE  Spec => []PrivateInv
<1>1. Init => PrivateInv
  <2> SUFFICES ASSUME Init PROVE PrivateInv
    OBVIOUS
  <2>1. \A g \in GoId : go[g].pc = "none"
    BY DEF Init, NoGo
  <2>2. ConnsPrivate /\ LiveReaderRegistered /\ TopicsFresh
    BY DEF Init, ConnsPrivate, LiveReaderRegistered, TopicsFresh
  <2>3. GoPrivate /\ LeavingMarked /\ TopicHeld
    BY <2>1 DEF GoPrivate, LeavingMarked, TopicHeld, GoId
  <2>4. CastTopics
    BY <2>1 DEF Init, CastTopics, GoId
  <2>5. QED
    BY <2>2, <2>3, <2>4 DEF PrivateInv
<1>2. IndInv /\ PrivateInv /\ [Next]_vars => PrivateInv'
  BY PrivateStep
<1>3. QED
  BY <1>1, <1>2, IndInvHolds, PTL DEF Spec

\* A session whose reader is in its loop is in server.Clients unless a failed
\* write has marked its client: a late Unregister of a writer removes the
\* entry of the writer's own client, never that of a session alive.
THEOREM LiveReadersReachable ==
  ASSUME PoolReuse = FALSE
  PROVE  Spec => []LiveReaderRegistered
<1>1. PrivateInv => LiveReaderRegistered
  BY DEF PrivateInv
<1>2. QED
  BY <1>1, PrivateInvHolds, PTL

\* What a goroutine writes to is its client's.
LEMMA TargetOwn ==
  ASSUME IndInv, PrivateInv, NEW g \in GoId, go[g].pc \in InFlight
  PROVE  go[g].target = go[g].client
<1> USE DEF IndInv, PrivateInv
<1>1. go[g].client \in Sessions /\ go[g].conn \in Conns
  BY DEF TypeOK, InFlight
<1>2. conn[go[g].client] = go[g].conn
  BY DEF GoPrivate, InFlight
<1>3. go[g].target \in Sessions \cup {None}
  BY DEF TypeOK, GoState, GoOf
<1>4. go[g].target # None /\ conn[go[g].target] = go[g].conn
  BY DEF TargetBound
<1>5. QED
  BY <1>1, <1>2, <1>3, <1>4, ConstAssumption DEF ConnsPrivate

\* The connection a goroutine writes to is that of the client whose topics and
\* IsClosing it checked: nobody is sent a frame another session subscribed to.
THEOREM WritesStayWithClient ==
  ASSUME PoolReuse = FALSE
  PROVE  Spec => []WritesToOwnClient
<1>1. IndInv /\ PrivateInv => WritesToOwnClient
  BY TargetOwn DEF WritesToOwnClient
<1>2. QED
  BY <1>1, IndInvHolds, PrivateInvHolds, PTL

-----------------------------------------------------------------------------
(***************************************************************************)
(* The refinement: what each step does to member, sent and owed.           *)
(***************************************************************************)

OwingPc == {"start", "ready", "writing"}

\* A session's place stays when nobody enters or leaves the hub.
LEMMA MemberSame ==
  ASSUME \A s \in Sessions :
            /\ InHub(s)' <=> InHub(s)
            /\ reader'[s] \in {"new", "registering"} <=>
                  reader[s] \in {"new", "registering"}
  PROVE  member' = member
  BY DEF member

\* It changes for one session that enters or leaves.
LEMMA MemberMoves ==
  ASSUME NEW s \in Sessions, NEW m,
         m = IF InHub(s)' THEN "live"
             ELSE IF reader'[s] \in {"new", "registering"} THEN "new" ELSE "gone",
         \A r \in Sessions : r # s =>
            /\ InHub(r)' <=> InHub(r)
            /\ reader'[r] = reader[r]
  PROVE  member' = [member EXCEPT ![s] = m]
  BY DEF member

\* Nothing is owed or paid while the goroutines of broadcasts rest.
LEMMA OwedSame ==
  ASSUME \A g \in CastGo : /\ go'[g].pc \in OwingPc <=> go[g].pc \in OwingPc
                           /\ go'[g].client = go[g].client
  PROVE  owed' = owed
<1>1. Owing' = Owing
  BY DEF Owing, OwingPc
<1>2. QED
  BY <1>1 DEF owed, Owing

\* A goroutine that stops owing settles one pair: no other one owes it, since
\* the Conn of a session is its own.
LEMMA OwedSettled ==
  ASSUME IndInv, PrivateInv, NEW g \in CastGo, NEW c, c = go[g].client,
         NEW q \in OwingPc, NEW r, r \notin OwingPc, NEW u, Moved(g, q, r, u)
  PROVE  <<g[1], c>> \in owed /\ owed' = owed \ {<<g[1], c>>}
<1> USE DEF IndInv, PrivateInv
<1>1. g \in Owing /\ g \in GoId /\ g[1] \in Msgs /\ g[2] \in Conns
  BY GoIds DEF Owing, OwingPc, Moved, GoId
<1>2. Owing' = Owing \ {g}
  BY <1>1 DEF Owing, OwingPc, Moved, GoId
<1>3. ASSUME NEW h \in Owing, h # g PROVE <<h[1], go[h].client>> # <<g[1], c>>
  <2>1. h \in CastGo /\ h \in GoId /\ go[h].pc # "none" /\ go[g].pc # "none"
    BY <1>1 DEF Owing, GoId
  <2>2. h[2] = conn[go[h].client] /\ g[2] = conn[c]
    BY <1>1, <2>1 DEF CastOnce, GoPrivate
  <2>3. h[1] # g[1] \/ h[2] # g[2]
    BY <1>3, <2>1, GoIds
  <2>4. QED
    BY <2>2, <2>3
<1>4. \A h \in Owing : h # g => go'[h] = go[h]
  BY DEF Owing, Moved, GoId
<1>5. owed' = {<<h[1], go[h].client>> : h \in Owing \ {g}}
  BY <1>2, <1>4 DEF owed
<1>6. owed = {<<h[1], go[h].client>> : h \in Owing \ {g}} \cup {<<g[1], c>>}
  BY <1>1 DEF owed
<1>7. <<g[1], c>> \notin {<<h[1], go[h].client>> : h \in Owing \ {g}}
  BY <1>3
<1>8. QED
  BY <1>5, <1>6, <1>7

\* A broadcast the hub accepts is owed to those in it.
LEMMA OwedPublished ==
  ASSUME IndInv, NEW b \in Msgs, HubBroadcast(b)
  PROVE  owed' = owed \cup {m \in {b} \X Sessions : member[m[2]] = "live"}
<1> USE DEF IndInv
<1> DEFINE L == {m \in {b} \X Sessions : member[m[2]] = "live"}
<1>1. post[b].state = "sending"
  BY DEF HubBroadcast
<1>2. \A g \in CastGo : g[1] = b => go[g].pc = "none"
  BY <1>1 DEF CastOnce
<1>3. \A g \in CastGo : g \in GoId /\ g[1] \in Msgs /\ g[2] \in Conns
                          /\ g = <<g[1], g[2]>>
  BY GoIds DEF GoId
<1>4. \A g \in CastGo :
        IF g[1] = b /\ clients[g[2]] # None
        THEN go'[g].pc = "start" /\ go'[g].client = clients[g[2]]
        ELSE go'[g] = go[g]
  <2> SUFFICES ASSUME NEW g \in CastGo, g[1] = b, clients[g[2]] # None
               PROVE  go'[g].pc = "start" /\ go'[g].client = clients[g[2]]
    BY <1>3 DEF HubBroadcast
  <2>1. go'[g] = NewGo("cast", g[2], clients[g[2]], post[b].topic)
    BY <1>3 DEF HubBroadcast
  <2>2. QED
    BY <2>1 DEF NewGo
<1>5. \A s \in Sessions : member[s] = "live" <=> InHub(s)
  BY DEF member
<1>6. ASSUME NEW g \in Owing'
      PROVE  <<g[1], go'[g].client>> \in owed \cup L
  <2>1. g \in CastGo /\ go'[g].pc \in OwingPc
    BY DEF Owing, OwingPc
  <2>2. CASE g[1] = b /\ clients[g[2]] # None
    <3>1. go'[g].client = clients[g[2]]
      BY <1>4, <2>1, <2>2
    <3>2. clients[g[2]] \in Sessions /\ InHub(clients[g[2]])
      BY <1>3, <2>1, <2>2 DEF TypeOK, InHub
    <3>3. QED
      BY <1>5, <2>2, <3>1, <3>2
  <2>3. CASE ~(g[1] = b /\ clients[g[2]] # None)
    <3>1. go'[g] = go[g]
      BY <1>4, <2>1, <2>3
    <3>2. g \in Owing
      BY <2>1, <3>1 DEF Owing, OwingPc
    <3>3. QED
      BY <3>1, <3>2 DEF owed
  <2>4. QED
    BY <2>2, <2>3
<1>7. ASSUME NEW g \in Owing
      PROVE  <<g[1], go[g].client>> \in owed'
  <2>1. g \in CastGo /\ go[g].pc \in OwingPc /\ go'[g] = go[g]
    BY <1>2, <1>4 DEF Owing, OwingPc
  <2>2. g \in Owing'
    BY <2>1 DEF Owing, OwingPc
  <2>3. QED
    BY <2>1, <2>2 DEF owed
<1>8. ASSUME NEW m \in L PROVE m \in owed'
  <2>1. m[2] \in Sessions /\ InHub(m[2]) /\ m = <<b, m[2]>>
    BY <1>5
  <2>2. PICK p \in Conns : clients[p] = m[2]
    BY <2>1 DEF InHub
  <2> DEFINE g == <<b, p>>
  <2>3. g \in CastGo /\ g[1] = b /\ g[2] = p /\ clients[p] # None
    BY <2>1, <2>2, GoIds, ConstAssumption
  <2>4. go'[g].pc = "start" /\ go'[g].client = m[2]
    BY <1>4, <2>2, <2>3
  <2> HIDE DEF g
  <2>5. g \in Owing'
    BY <2>3, <2>4 DEF Owing
  <2>6. QED
    BY <2>1, <2>3, <2>4, <2>5 DEF owed
<1>9. owed' \subseteq owed \cup L
  BY <1>6 DEF owed
<1>10. owed \subseteq owed'
  BY <1>7 DEF owed
<1>11. QED
  BY <1>8, <1>9, <1>10

-----------------------------------------------------------------------------
(***************************************************************************)
(* The refinement: every step is a step of PubSub or a stutter.            *)
(***************************************************************************)

AbstractStep == [Abstract!Next]_(Abstract!vars)

\* Steps PubSub does not see.
LEMMA Stutters ==
  ASSUME member' = member, UNCHANGED <<topics, post, inbox>>, owed' = owed
  PROVE  AbstractStep
<1>1. sent' = sent
  BY DEF sent
<1>2. QED
  BY <1>1 DEF AbstractStep, Abstract!vars

\* A quiet step is one of them.
LEMMA QuietStutters ==
  ASSUME Quiet, UNCHANGED inbox
  PROVE  AbstractStep
<1>1. member' = member
  BY MemberSame DEF Quiet, InHub
<1>2. owed' = owed
  BY OwedSame DEF Quiet
<1>3. QED
  BY <1>1, <1>2, Stutters DEF Quiet

\* So is an upgrade, which only takes a Conn.
LEMMA OpenStutters ==
  ASSUME TypeOK, NEW s \in Sessions, NEW p \in Conns, Open(s, p)
  PROVE  AbstractStep
<1>1. /\ UNCHANGED <<clients, topics, go, post, inbox>>
      /\ reader[s] = "new" /\ reader' = [reader EXCEPT ![s] = "registering"]
  BY DEF Open, clientVars
<1>2. member' = member
  BY <1>1, MemberSame DEF InHub, TypeOK
<1>3. owed' = owed
  BY <1>1, OwedSame
<1>4. QED
  BY <1>1, <1>2, <1>3, Stutters

\* And a command, which only spawns a goroutine.
LEMMA CommandStutters ==
  ASSUME IndInv, NEW s \in Sessions, NEW k \in Orders \cup {"echo"},
         HubCommand(s, k)
  PROVE  AbstractStep
<1> USE DEF IndInv
<1>1. /\ UNCHANGED <<clients, topics, post, inbox>>
      /\ reader[s] = "sending" /\ reader' = [reader EXCEPT ![s] = "reading"]
  BY DEF HubCommand, clientVars
<1>2. member' = member
  BY <1>1, MemberSame DEF InHub, TypeOK
<1>3. \A g \in CastGo : go'[g] = go[g]
  BY SpawnedCommand, GoIds DEF GoId
<1>4. owed' = owed
  BY <1>3, OwedSame
<1>5. QED
  BY <1>1, <1>2, <1>4, Stutters

\* And a post the hub has not accepted.
LEMMA PostStutters ==
  ASSUME TypeOK, NEW b \in Msgs, NEW t \in Topics, BroadcastMessage(b, t)
  PROVE  AbstractStep
<1>1. /\ UNCHANGED <<clients, topics, go, reader, inbox>>
      /\ post[b].state = "idle"
      /\ post' = [post EXCEPT ![b] = [state |-> "sending", topic |-> t]]
  BY DEF BroadcastMessage, clientVars, sessionVars
<1>2. member' = member
  BY <1>1, MemberSame DEF InHub
<1>3. owed' = owed
  BY <1>1, OwedSame
<1>4. sent' = sent
  BY <1>1 DEF sent, TypeOK
<1>5. QED
  BY <1>1, <1>2, <1>3, <1>4 DEF AbstractStep, Abstract!vars

\* Registering is joining.
LEMMA RegisterJoins ==
  ASSUME IndInv, PrivateInv, NEW s \in Sessions, HubRegister(s)
  PROVE  Abstract!Join(s)
<1> USE DEF IndInv, PrivateInv
<1>1. /\ UNCHANGED <<go, post, inbox>>
      /\ reader[s] = "registering" /\ reader' = [reader EXCEPT ![s] = "reading"]
      /\ topics' = [topics EXCEPT ![s] = {}]
  BY DEF HubRegister
<1>2. topics' = topics
  BY <1>1 DEF TopicsFresh, TypeOK
<1>3. member[s] = "new"
  BY <1>1, RegisterFree DEF member
<1>4. \A r \in Sessions : r # s => (InHub(r)' <=> InHub(r)) /\ reader'[r] = reader[r]
  BY <1>1, RegisterFree DEF TypeOK
<1>5. member' = [member EXCEPT ![s] = "live"]
  BY <1>4, RegisterFree, MemberMoves
<1>6. owed' = owed /\ sent' = sent
  BY <1>1, OwedSame DEF sent
<1>7. QED
  BY <1>1, <1>2, <1>3, <1>5, <1>6 DEF Abstract!Join

\* A reader's Unregister is leaving, unless a writer was there first.
LEMMA UnregisterLeaves ==
  ASSUME IndInv, NEW s \in Sessions, ReaderUnregister(s)
  PROVE  Abstract!Leave(s) \/ AbstractStep
<1> USE DEF IndInv
<1>1. /\ UNCHANGED <<topics, go, post, inbox>>
      /\ reader[s] = "exiting" /\ reader' = [reader EXCEPT ![s] = "returning"]
  BY DEF ReaderUnregister, clientVars
<1>2. /\ ~InHub(s)'
      /\ \A r \in Sessions : r # s => (InHub(r)' <=> InHub(r))
                                     /\ reader'[r] = reader[r]
  BY <1>1, UnregisterOwn DEF TypeOK
<1>3. reader'[s] = "returning"
  BY <1>1 DEF TypeOK
<1>4. owed' = owed /\ sent' = sent
  BY <1>1, OwedSame DEF sent
<1>5. CASE InHub(s)
  <2>1. member[s] = "live"
    BY <1>5 DEF member
  <2>2. member' = [member EXCEPT ![s] = "gone"]
    BY <1>2, <1>3, MemberMoves
  <2>3. QED
    BY <1>1, <1>4, <2>1, <2>2 DEF Abstract!Leave
<1>6. CASE ~InHub(s)
  <2>1. member' = member
    BY <1>1, <1>2, <1>3, <1>6, MemberSame
  <2>2. QED
    BY <1>1, <1>4, <2>1, Stutters
<1>7. QED
  BY <1>5, <1>6

\* A broadcast is published when the hub accepts it.
LEMMA BroadcastPublishes ==
  ASSUME IndInv, PrivateInv, NEW b \in Msgs, HubBroadcast(b)
  PROVE  \E t \in Topics : Abstract!Publish(b, t)
<1> USE DEF IndInv, PrivateInv
<1>1. /\ UNCHANGED <<clients, topics, reader, inbox>>
      /\ post[b].state = "sending"
      /\ post' = [post EXCEPT ![b].state = "accepted"]
  BY DEF HubBroadcast, clientVars, sessionVars
<1>2. PICK t \in Topics : t = post[b].topic
  BY <1>1 DEF CastTopics
<1>3. member' = member
  BY <1>1, MemberSame DEF InHub
<1>4. /\ post[b].state # "accepted"
      /\ post'[b].state = "accepted" /\ post'[b].topic = post[b].topic
      /\ \A c \in Msgs : c # b => post'[c] = post[c]
  BY <1>1 DEF TypeOK, PostState
<1>5. sent[b] = None /\ sent' = [sent EXCEPT ![b] = t]
  BY <1>2, <1>4 DEF sent
<1>6. owed' = owed \cup {m \in {b} \X Sessions : member[m[2]] = "live"}
  BY OwedPublished
<1>7. Abstract!Publish(b, t)
  BY <1>1, <1>3, <1>5, <1>6, Zenon DEF Abstract!Publish
<1>8. QED
  BY <1>7

\* A goroutine leaves a broadcast accepted, and readers where they are.
LEMMA GoSteady ==
  ASSUME TypeOK, NEW g \in GoId, Goroutine(g)
  PROVE  /\ sent' = sent
         /\ UNCHANGED clients => member' = member
<1>1. UNCHANGED <<reader, post>>
  BY GoFrame
<1>2. QED
  BY <1>1, MemberSame DEF sent, InHub

\* A goroutine of a command owes nothing.
LEMMA GoOwesNothing ==
  ASSUME TypeOK, NEW g \in GoId, NEW q, NEW r, NEW u, Moved(g, q, r, u),
         g \in CastGo => (q \in OwingPc <=> r \in OwingPc)
  PROVE  owed' = owed
<1>1. \A h \in CastGo : /\ go'[h].pc \in OwingPc <=> go[h].pc \in OwingPc
                        /\ go'[h].client = go[h].client
  BY DEF Moved, GoId
<1>2. QED
  BY <1>1, OwedSame

\* Orders take effect as PubSub says, the session having joined.
LEMMA OrdersTakeEffect ==
  ASSUME IndInv, PrivateInv, NEW g \in GoId, GoSubscribe(g) \/ GoUnsubscribe(g)
  PROVE  \E s \in Sessions, t \in Topics :
            Abstract!Subscribe(s, t) \/ Abstract!Unsubscribe(s, t)
<1> USE DEF IndInv, PrivateInv
<1>1. Moved(g, "start", "done", None) /\ Goroutine(g)
  BY GoMoves DEF Goroutine
<1>2. /\ UNCHANGED <<clients, inbox>>
      /\ go[g].kind \in Orders /\ go[g].pc = "start"
  BY DEF GoSubscribe, GoUnsubscribe, Orders
<1>3. go[g].topic \in Topics /\ go[g].client \in Sessions
  BY <1>2 DEF TypeOK, GoState, GoOf, Orders
<1>4. PICK s \in Sessions, t \in Topics : s = go[g].client /\ t = go[g].topic
  BY <1>3
<1>5. g \notin CastGo
  BY <1>2 DEF CastTopics, Orders
<1>6. owed' = owed
  BY <1>1, <1>5, GoOwesNothing
<1>7. sent' = sent /\ member' = member
  BY <1>1, <1>2, GoSteady
<1>8. member[s] # "new"
  BY <1>2, <1>4 DEF member, GoStarted
<1>9. \/ topics' = [topics EXCEPT ![s] = @ \cup {t}]
      \/ topics' = [topics EXCEPT ![s] = @ \ {t}]
  BY <1>4 DEF GoSubscribe, GoUnsubscribe
<1>10. Abstract!Subscribe(s, t) \/ Abstract!Unsubscribe(s, t)
  BY <1>2, <1>6, <1>7, <1>8, <1>9
  DEF Abstract!Subscribe, Abstract!Unsubscribe
<1>11. QED
  BY <1>10

\* A goroutine that has nothing to write, or fails to, drops the broadcast.
LEMMA SkipDrops ==
  ASSUME IndInv, PrivateInv, NEW g \in GoId,
         GoSkip(g) \/ WriteErr(g) \/ WriteRefused(g)
  PROVE  \/ AbstractStep
         \/ \E b \in Msgs, s \in Sessions : Abstract!Drop(b, s)
<1> USE DEF IndInv, PrivateInv
<1>1. PICK q \in OwingPc, r \in {"done", "closing"},
           u \in {None, go[g].target} : Moved(g, q, r, u)
  BY GoMoves DEF OwingPc
<1>2. UNCHANGED <<clients, topics, inbox, post>> /\ Goroutine(g)
  BY DEF GoSkip, WriteErr, WriteRefused, clientVars, Goroutine
<1>3. sent' = sent /\ member' = member
  BY <1>2, GoSteady
<1>4. CASE g \in CastGo
  <2>1. PICK b \in Msgs, s \in Sessions : b = g[1] /\ s = go[g].client
    BY <1>1, <1>4, GoIds DEF Moved
  <2>2. <<b, s>> \in owed /\ owed' = owed \ {<<b, s>>}
    BY <1>1, <1>4, <2>1, OwedSettled DEF OwingPc
  <2>3. Abstract!Drop(b, s)
    BY <1>2, <1>3, <2>2 DEF Abstract!Drop
  <2>4. QED
    BY <2>3
<1>5. CASE g \notin CastGo
  <2>1. owed' = owed
    BY <1>1, <1>5, GoOwesNothing
  <2>2. QED
    BY <1>2, <1>3, <2>1, Stutters
<1>6. QED
  BY <1>4, <1>5

\* A write delivers the broadcast to a session that is still subscribed.
LEMMA WriteDelivers ==
  ASSUME IndInv, PrivateInv, NEW g \in GoId, WriteOk(g)
  PROVE  \/ AbstractStep
         \/ \E b \in Msgs, s \in Sessions : Abstract!Deliver(b, s)
<1> USE DEF IndInv, PrivateInv
<1>1. Moved(g, "writing", "done", None) /\ Goroutine(g) /\ go[g].pc = "writing"
  BY GoMoves DEF Goroutine, WriteOk
<1>2. UNCHANGED <<clients, topics, post>>
  BY DEF WriteOk, Written
<1>3. sent' = sent /\ member' = member
  BY <1>1, <1>2, GoSteady
<1>4. CASE g \in CastGo
  <2>1. PICK b \in Msgs, s \in Sessions : b = g[1] /\ s = go[g].client
    BY <1>1, <1>4, GoIds DEF Moved
  <2>2. go[g].target = s
    BY <1>1, <2>1, TargetOwn DEF InFlight
  <2>3. <<b, s>> \in owed /\ owed' = owed \ {<<b, s>>}
    BY <1>1, <1>4, <2>1, OwedSettled DEF OwingPc
  <2>4. inbox' = [inbox EXCEPT ![s][b] = @ + 1]
    BY <1>4, <2>1, <2>2 DEF WriteOk, Written
  <2>5. sent[b] \in topics[s]
    <3>1. post[b].state = "accepted"
      BY <1>1, <1>4, <2>1 DEF CastOnce
    <3>2. go[g].topic = post[b].topic /\ go[g].topic \in topics[s]
      BY <1>1, <1>4, <2>1 DEF CastTopics, TopicHeld
    <3>3. QED
      BY <3>1, <3>2 DEF sent
  <2>6. Abstract!Deliver(b, s)
    BY <1>2, <1>3, <2>3, <2>4, <2>5, Zenon DEF Abstract!Deliver
  <2>7. QED
    BY <2>6
<1>5. CASE g \notin CastGo
  <2>1. owed' = owed
    BY <1>1, <1>5, GoOwesNothing
  <2>2. inbox' = inbox
    BY <1>5 DEF WriteOk, Written
  <2>3. QED
    BY <1>2, <1>3, <2>1, <2>2, Stutters
<1>6. QED
  BY <1>4, <1>5

\* A failed writer's Unregister is leaving, unless the reader was there first.
LEMMA WriterLeaves ==
  ASSUME IndInv, PrivateInv, NEW g \in GoId, WriterUnregister(g)
  PROVE  AbstractStep \/ \E s \in Sessions : Abstract!Leave(s)
<1> USE DEF IndInv, PrivateInv
<1>1. Moved(g, "unregistering", "done", None) /\ Goroutine(g)
  BY GoMoves DEF Goroutine
<1>2. UNCHANGED <<topics, post, inbox, reader>>
  BY DEF WriterUnregister, sessionVars
<1>3. PICK s \in Sessions : s = go[g].client
  BY <1>1 DEF Moved
<1>4. /\ ~InHub(s)'
      /\ \A r \in Sessions : r # s => (InHub(r)' <=> InHub(r))
  BY <1>3, WriterUnregisterOwn
<1>5. owed' = owed
  BY <1>1, GoOwesNothing DEF OwingPc
<1>6. sent' = sent
  BY <1>1, GoSteady
<1>7. CASE InHub(s)
  <2>1. member[s] = "live"
    BY <1>7 DEF member
  <2>2. reader'[s] \notin {"new", "registering"}
    BY <1>1, <1>2, <1>3 DEF GoStarted, Moved
  <2>3. member' = [member EXCEPT ![s] = "gone"]
    BY <1>2, <1>4, <2>2, MemberMoves
  <2>4. Abstract!Leave(s)
    BY <1>2, <1>5, <1>6, <2>1, <2>3 DEF Abstract!Leave
  <2>5. QED
    BY <2>4
<1>8. CASE ~InHub(s)
  <2>1. member' = member
    BY <1>2, <1>4, <1>8, MemberSame
  <2>2. QED
    BY <1>2, <1>5, <2>1, Stutters
<1>9. QED
  BY <1>7, <1>8

\* Taking the mutex, beginning to write and the close frame settle nothing.
LEMMA GoStutters ==
  ASSUME IndInv, NEW g \in GoId,
         \/ GoLock(g) \/ WriteStart(g)
         \/ CloseStart(g) \/ CloseRefused(g) \/ CloseSent(g)
  PROVE  AbstractStep
<1> USE DEF IndInv
<1>1. UNCHANGED <<clients, topics, inbox, post>> /\ Goroutine(g)
  BY DEF GoLock, WriteStart, CloseStart, CloseRefused, CloseSent, clientVars,
     Goroutine
<1>2. \/ Moved(g, "start", "ready", go[g].target)
      \/ Moved(g, "ready", "writing", under[go[g].conn])
      \/ Moved(g, "closing", "parting", under[go[g].conn])
      \/ Moved(g, "closing", "unregistering", go[g].target)
      \/ Moved(g, "parting", "unregistering", None)
  BY GoMoves
<1>3. owed' = owed
  BY <1>2, GoOwesNothing DEF OwingPc
<1>4. member' = member
  BY <1>1, GoSteady
<1>5. QED
  BY <1>1, <1>3, <1>4, Stutters

\* Every step of the hub is a step of PubSub, or one it does not see.
LEMMA RefinesStep ==
  ASSUME PoolReuse = FALSE, IndInv, PrivateInv, [Next]_vars
  PROVE  [Abstract!Next]_(Abstract!vars)
<1> SUFFICES AbstractStep
  BY DEF AbstractStep
<1>1. TypeOK
  BY DEF IndInv
<1>2. CASE UNCHANGED vars
  BY <1>1, <1>2, QuietSteps, QuietStutters
<1>3. ASSUME NEW s \in Sessions, Reader(s) PROVE AbstractStep
  <2>1. CASE \E p \in Conns : Open(s, p)
    BY <1>1, <2>1, OpenStutters
  <2>2. CASE HubRegister(s)
    BY <2>2, RegisterJoins DEF AbstractStep, Abstract!Next
  <2>3. CASE HubSubscribe(s) \/ HubUnsubscribe(s) \/ HubEcho(s)
    BY <2>3, CommandStutters DEF HubSubscribe, HubUnsubscribe, HubEcho, Orders
  <2>4. CASE ReaderUnregister(s)
    BY <2>4, UnregisterLeaves DEF AbstractStep, Abstract!Next
  <2>5. CASE \/ \E c \in Cmd : ReadCommand(s, c)
             \/ ReadPing(s) \/ PingHandler(s) \/ ReadError(s)
             \/ ReleaseConn(s)
    BY <1>1, <2>5, QuietSteps, QuietStutters
  <2>6. QED
    BY <1>3, <2>1, <2>2, <2>3, <2>4, <2>5 DEF Reader
<1>4. ASSUME NEW b \in Msgs, NEW t \in Topics, BroadcastMessage(b, t)
      PROVE  AbstractStep
  BY <1>1, <1>4, PostStutters
<1>5. ASSUME NEW b \in Msgs, HubBroadcast(b) PROVE AbstractStep
  BY <1>5, BroadcastPublishes DEF AbstractStep, Abstract!Next
<1>6. ASSUME NEW g \in GoId, Goroutine(g) PROVE AbstractStep
  <2>1. CASE GoSubscribe(g) \/ GoUnsubscribe(g)
    BY <2>1, OrdersTakeEffect DEF AbstractStep, Abstract!Next
  <2>2. CASE GoSkip(g) \/ WriteErr(g) \/ WriteRefused(g)
    BY <2>2, SkipDrops DEF AbstractStep, Abstract!Next
  <2>3. CASE WriteOk(g)
    BY <2>3, WriteDelivers DEF AbstractStep, Abstract!Next
  <2>4. CASE WriterUnregister(g)
    BY <2>4, WriterLeaves DEF AbstractStep, Abstract!Next
  <2>5. CASE \/ GoLock(g) \/ WriteStart(g)
             \/ CloseStart(g) \/ CloseRefused(g) \/ CloseSent(g)
    BY <2>5, GoStutters
  <2>6. QED
    BY <1>6, <2>1, <2>2, <2>3, <2>4, <2>5 DEF Goroutine, WriteStrays
<1>7. ASSUME NEW g \in GoId, NEW h \in GoId, ConcurrentWrite(g, h)
      PROVE  AbstractStep
  BY <1>1, <1>7, QuietSteps, QuietStutters
<1>8. ASSUME NEW g \in GoId, WritePanics(g) PROVE AbstractStep
  BY <1>1, <1>8, QuietSteps, QuietStutters
<1>9. QED
  BY <1>2, <1>3, <1>4, <1>5, <1>6, <1>7, <1>8 DEF Next, Step

\* The hub begins where PubSub does.
LEMMA RefinesInit == Init => Abstract!Init
<1> SUFFICES ASSUME Init PROVE Abstract!Init
  OBVIOUS
<1>1. member = [s \in Sessions |-> "new"]
  BY ConstAssumption DEF Init, member, InHub
<1>2. sent = [b \in Msgs |-> None]
  BY DEF Init, sent
<1>3. Owing = {}
  BY DEF Init, Owing, NoGo, GoId
<1>4. owed = {}
  BY <1>3 DEF owed
<1>5. QED
  BY <1>1, <1>2, <1>4 DEF Init, Abstract!Init

\* The chat server delivers broadcasts as PubSub allows: to the sessions that
\* were in the hub when the broadcast was accepted, each at most once, and
\* with the subscription still in force at the moment of the write.
THEOREM HubImplementsPubSub ==
  ASSUME PoolReuse = FALSE
  PROVE  Spec => ImplementsPubSub
<1>1. Init => Abstract!Init
  BY RefinesInit
<1>2. IndInv /\ PrivateInv /\ [Next]_vars => [Abstract!Next]_(Abstract!vars)
  BY RefinesStep
<1>3. Spec => Abstract!Spec
  BY <1>1, <1>2, IndInvHolds, PrivateInvHolds, PTL DEF Spec, Abstract!Spec
<1>4. QED
  BY <1>3 DEF ImplementsPubSub
=============================================================================
