--------------------------- MODULE ChatHub_proofs ---------------------------
(***************************************************************************)
(* Proofs about ChatHub for every set of sessions, conns, topics and       *)
(* broadcasts, every command bound, and whether or not the pool recycles   *)
(* Conns.                                                                  *)
(***************************************************************************)
EXTENDS ChatHub, TLAPS

USE DEF CmdNo

\* The values a new goroutine starts with are of its type.
LEMMA NewGoType ==
    ASSUME NEW k, NEW p \in Conns, NEW c \in Sessions, NEW t,
           \/ k \in Orders /\ t \in Topics
           \/ k \in {"echo", "cast"} /\ t \in Topics \cup {None}
    PROVE  NewGo(k, p, c, t) \in GoState
BY DEF NewGo, GoState, GoOf, GoPc

\* Names of goroutines: a broadcast's are names, and never a command's.
LEMMA GoIds ==
    /\ \A b \in Msgs, p \in Conns : <<b, p>> \in CastGo /\ <<b, p>> \in GoId
    /\ \A s \in Sessions, n \in CmdNo : <<s, n>> \in CmdGo /\ <<s, n>> \in GoId
    /\ CastGo \cap CmdGo = {}
    /\ \A g \in CastGo : g[1] \in Msgs /\ g[2] \in Conns /\ g = <<g[1], g[2]>>
BY ConstAssumption DEF GoId, CastGo, CmdGo

\* Goroutine g has moved from pc q to pc r, now writes to u, and nothing else
\* of it or of the others has changed.
Moved(g, q, r, u) ==
    /\ go[g].pc = q
    /\ go' \in [GoId -> GoState]
    /\ \A h \in GoId : h # g => go'[h] = go[h]
    /\ go'[g].pc = r /\ go'[g].target = u
    /\ go'[g].client = go[g].client /\ go'[g].client \in Sessions
    /\ go'[g].conn = go[g].conn /\ go'[g].conn \in Conns
    /\ go'[g].kind = go[g].kind /\ go'[g].topic = go[g].topic

\* What a step of one goroutine does to the function of all goroutines.
LEMMA GoStep ==
    ASSUME TypeOK, NEW g \in GoId, go[g].pc # "none",
           NEW q \in GoPc \ {"none"}, NEW u \in Sessions \cup {None},
           go' = [go EXCEPT ![g].pc = q, ![g].target = u]
    PROVE  Moved(g, go[g].pc, q, u)
<1> DEFINE r == [go[g] EXCEPT !.pc = q, !.target = u]
<1>1. go[g] \in GoState /\ go[g].client \in Sessions /\ go[g].conn \in Conns
  BY DEF TypeOK
<1>2. r \in GoState
  BY <1>1 DEF GoState, GoOf
<1>3. /\ r.pc = q /\ r.target = u
      /\ r.client = go[g].client /\ r.conn = go[g].conn
      /\ r.kind = go[g].kind /\ r.topic = go[g].topic
  BY <1>1 DEF GoState, GoOf
<1>4. go' = [go EXCEPT ![g] = r]
  BY DEF TypeOK
<1>5. go' \in [GoId -> GoState] /\ go'[g] = r
      /\ \A h \in GoId : h # g => go'[h] = go[h]
  BY <1>2, <1>4 DEF TypeOK
<1>6. QED
  BY <1>1, <1>3, <1>5 DEF Moved

\* The same for a step that leaves the target alone.
LEMMA GoPcStep ==
    ASSUME TypeOK, NEW g \in GoId, go[g].pc # "none",
           NEW q \in GoPc \ {"none"}, go' = [go EXCEPT ![g].pc = q]
    PROVE  Moved(g, go[g].pc, q, go[g].target)
<1> DEFINE r == [go[g] EXCEPT !.pc = q]
<1>1. go[g] \in GoState /\ go[g].client \in Sessions /\ go[g].conn \in Conns
  BY DEF TypeOK
<1>2. r \in GoState
  BY <1>1 DEF GoState, GoOf
<1>3. /\ r.pc = q /\ r.target = go[g].target
      /\ r.client = go[g].client /\ r.conn = go[g].conn
      /\ r.kind = go[g].kind /\ r.topic = go[g].topic
  BY <1>1 DEF GoState, GoOf
<1>4. go' = [go EXCEPT ![g] = r]
  BY DEF TypeOK
<1>5. go' \in [GoId -> GoState] /\ go'[g] = r
      /\ \A h \in GoId : h # g => go'[h] = go[h]
  BY <1>2, <1>4 DEF TypeOK
<1>6. QED
  BY <1>1, <1>3, <1>5 DEF Moved

\* The goroutines the hub spawns for a broadcast, and those it leaves alone.
LEMMA Spawned ==
    ASSUME TypeOK, NEW b \in Msgs, HubBroadcast(b)
    PROVE  /\ go' \in [GoId -> GoState]
           /\ \A g \in GoId :
                 \/ go'[g] = go[g]
                 \/ /\ g \in CastGo /\ g[1] = b /\ clients[g[2]] \in Sessions
                    /\ go'[g].pc = "start" /\ go'[g].target = None
                    /\ go'[g].client = clients[g[2]] /\ go'[g].conn = g[2]
                    /\ go'[g].kind = "cast" /\ go'[g].topic = post[b].topic
<1>1. ASSUME NEW g \in CastGo, g[1] = b, clients[g[2]] # None
      PROVE  /\ clients[g[2]] \in Sessions
             /\ NewGo("cast", g[2], clients[g[2]], post[b].topic) \in GoState
  <2>1. clients[g[2]] \in Sessions
    BY <1>1, GoIds DEF TypeOK
  <2>2. post[b].topic \in Topics \cup {None}
    BY DEF TypeOK, PostState
  <2>3. QED
    BY <2>1, <2>2, GoIds, NewGoType
<1>2. ASSUME NEW g \in GoId
      PROVE  /\ go'[g] \in GoState
             /\ \/ go'[g] = go[g]
                \/ /\ g \in CastGo /\ g[1] = b /\ clients[g[2]] \in Sessions
                   /\ go'[g] = NewGo("cast", g[2], clients[g[2]], post[b].topic)
  BY <1>1 DEF HubBroadcast, TypeOK
<1>3. QED
  BY <1>2 DEF HubBroadcast, NewGo

\* The goroutine the hub spawns for a command.
LEMMA SpawnedCommand ==
    ASSUME TypeOK, SessionBound, CommandNumbered, NEW s \in Sessions,
           NEW k \in Orders \cup {"echo"}, HubCommand(s, k)
    PROVE  /\ conn[s] \in Conns
           /\ go' \in [GoId -> GoState]
           /\ \A g \in GoId :
                 \/ go'[g] = go[g]
                 \/ /\ g \in CmdGo /\ clients[conn[s]] \in Sessions
                    /\ go'[g].pc = "start" /\ go'[g].target = None
                    /\ go'[g].client = clients[conn[s]]
                    /\ go'[g].conn = conn[s]
<1>1. conn[s] \in Conns /\ ncmd[s] \in CmdNo
  BY DEF HubCommand, SessionBound, CommandNumbered
<1>2. \/ k \in Orders /\ cmd[s].topic \in Topics
      \/ k \in {"echo", "cast"} /\ cmd[s].topic \in Topics \cup {None}
  <2>1. cmd[s] \in Cmd \cup {NoCmd} /\ cmd[s].kind = k
    BY DEF TypeOK, HubCommand
  <2>2. QED
    BY <2>1 DEF Cmd, NoCmd, Orders
<1>3. CASE clients[conn[s]] = None
  BY <1>1, <1>3 DEF HubCommand, TypeOK
<1>4. CASE clients[conn[s]] # None
  <2> DEFINE n == <<s, ncmd[s]>>
             x == NewGo(k, conn[s], clients[conn[s]], cmd[s].topic)
  <2>1. clients[conn[s]] \in Sessions
    BY <1>1, <1>4 DEF TypeOK
  <2>2. x \in GoState
    BY <1>1, <1>2, <2>1, NewGoType
  <2>3. n \in CmdGo /\ n \in GoId
    BY <1>1, GoIds
  <2>4. go' = [go EXCEPT ![n] = x]
    BY <1>4 DEF HubCommand
  <2>5. go' \in [GoId -> GoState] /\ go'[n] = x
        /\ \A g \in GoId : g # n => go'[g] = go[g]
    BY <2>2, <2>3, <2>4 DEF TypeOK
  <2>6. x.pc = "start" /\ x.target = None /\ x.client = clients[conn[s]]
        /\ x.conn = conn[s]
    BY DEF NewGo
  <2>7. QED
    BY <1>1, <2>1, <2>3, <2>5, <2>6
<1>5. QED
  BY <1>3, <1>4

\* Each action of a goroutine is one such move.
LEMMA GoMoves ==
    ASSUME TypeOK, NEW g \in GoId
    PROVE  /\ GoSubscribe(g) => Moved(g, "start", "done", None)
           /\ GoUnsubscribe(g) => Moved(g, "start", "done", None)
           /\ GoSkip(g) => Moved(g, "start", "done", None)
           /\ GoLock(g) => Moved(g, "start", "ready", go[g].target)
           /\ WriteStart(g) => Moved(g, "ready", "writing", under[go[g].conn])
           /\ WriteRefused(g) => Moved(g, "ready", "closing", go[g].target)
           /\ WriteOk(g) => Moved(g, "writing", "done", None)
           /\ \A v \in Sessions :
                 WriteStrays(g, v) => Moved(g, "writing", "done", None)
           /\ WriteErr(g) => Moved(g, "writing", "closing", None)
           /\ CloseStart(g) => Moved(g, "closing", "parting", under[go[g].conn])
           /\ CloseRefused(g) =>
                 Moved(g, "closing", "unregistering", go[g].target)
           /\ CloseSent(g) => Moved(g, "parting", "unregistering", None)
           /\ WriterUnregister(g) => Moved(g, "unregistering", "done", None)
<1>1. ASSUME NEW q \in GoPc \ {"none"}, go[g].pc = q, Finish(g)
      PROVE  Moved(g, q, "done", None)
  <2>1. go' = [go EXCEPT ![g].pc = "done", ![g].target = None]
    BY <1>1 DEF Finish
  <2>2. "done" \in GoPc \ {"none"} /\ go[g].pc # "none"
    BY <1>1 DEF GoPc
  <2>3. QED
    BY <1>1, <2>1, <2>2, GoStep
<1>2. /\ GoSubscribe(g) => Moved(g, "start", "done", None)
      /\ GoUnsubscribe(g) => Moved(g, "start", "done", None)
      /\ GoSkip(g) => Moved(g, "start", "done", None)
      /\ WriteOk(g) => Moved(g, "writing", "done", None)
      /\ \A v \in Sessions :
            WriteStrays(g, v) => Moved(g, "writing", "done", None)
      /\ WriterUnregister(g) => Moved(g, "unregistering", "done", None)
  BY <1>1 DEF GoSubscribe, GoUnsubscribe, GoSkip, WriteOk, WriteStrays,
     Written, WriterUnregister, GoPc
<1>3. GoLock(g) => Moved(g, "start", "ready", go[g].target)
  BY GoPcStep DEF GoLock, GoPc
<1>4. /\ WriteRefused(g) => Moved(g, "ready", "closing", go[g].target)
      /\ CloseRefused(g) => Moved(g, "closing", "unregistering", go[g].target)
  BY GoPcStep DEF WriteRefused, CloseRefused, GoPc
<1>5. ASSUME WriteErr(g) PROVE Moved(g, "writing", "closing", None)
  <2>1. /\ go' = [go EXCEPT ![g].pc = "closing", ![g].target = None]
        /\ go[g].pc = "writing"
    BY <1>5 DEF WriteErr
  <2>2. "closing" \in GoPc \ {"none"} /\ go[g].pc # "none"
    BY <2>1 DEF GoPc
  <2>3. QED
    BY <2>1, <2>2, GoStep
<1>6. ASSUME CloseSent(g) PROVE Moved(g, "parting", "unregistering", None)
  <2>1. /\ go' = [go EXCEPT ![g].pc = "unregistering", ![g].target = None]
        /\ go[g].pc = "parting"
    BY <1>6 DEF CloseSent
  <2>2. "unregistering" \in GoPc \ {"none"} /\ go[g].pc # "none"
    BY <2>1 DEF GoPc
  <2>3. QED
    BY <2>1, <2>2, GoStep
<1>7. ASSUME NEW q \in {"ready", "closing"}, NEW r \in InFlight,
             go[g].pc = q,
             go' = [go EXCEPT ![g].pc = r, ![g].target = under[go[g].conn]]
      PROVE  Moved(g, q, r, under[go[g].conn])
  <2> DEFINE u == under[go[g].conn]
  <2>1. r \in GoPc \ {"none"} /\ go[g].pc # "none"
    BY <1>7 DEF GoPc, InFlight
  <2>2. u \in Sessions \cup {None}
    BY <2>1 DEF TypeOK
  <2>3. go' = [go EXCEPT ![g].pc = r, ![g].target = u]
    BY <1>7
  <2> HIDE DEF u
  <2>4. Moved(g, go[g].pc, r, u)
    BY <2>1, <2>2, <2>3, GoStep
  <2>5. QED
    BY <1>7, <2>4 DEF u
<1>8. /\ WriteStart(g) => Moved(g, "ready", "writing", under[go[g].conn])
      /\ CloseStart(g) => Moved(g, "closing", "parting", under[go[g].conn])
  BY <1>7 DEF WriteStart, CloseStart, InFlight
<1>9. QED
  BY <1>2, <1>3, <1>4, <1>5, <1>6, <1>8

Busy == {"start", "ready", "writing", "closing", "parting", "unregistering"}

\* A goroutine that moves from q to r writes to u from then on: to what its
\* Conn wraps, or to nothing, or it had no target before either.
Retargets(g, q, r, u) ==
    \/ r \in InFlight /\ u = under[go[g].conn] /\ u \in Sessions
    \/ r \notin InFlight /\ u = None
    \/ r \notin InFlight /\ q \in {"start", "ready", "closing"}
          /\ u = go[g].target

\* Whatever a goroutine does, it moves itself, out of a busy pc, and leaves
\* readers, Conns and posts alone.
LEMMA GoFrame ==
    ASSUME TypeOK, NEW g \in GoId, Goroutine(g)
    PROVE  /\ UNCHANGED <<under, conn, reader, cmd, ncmd, post, panicked>>
           /\ \E q \in Busy, r \in GoPc \ {"none"}, u \in Sessions \cup {None} :
                 /\ Moved(g, q, r, u)
                 /\ Retargets(g, q, r, u)
<1>1. go[g].target \in Sessions \cup {None}
  BY DEF TypeOK, GoState, GoOf
<1>2. WriteStart(g) \/ CloseStart(g) => under[go[g].conn] \in Sessions
  BY DEF WriteStart, CloseStart, Writable
<1>3. UNCHANGED <<under, conn, reader, cmd, ncmd, post, panicked>>
  BY DEF Goroutine, GoSubscribe, GoUnsubscribe, GoSkip, GoLock, WriteStart,
     WriteRefused, WriteOk, WriteStrays, Written, WriteErr, CloseStart,
     CloseRefused, CloseSent, WriterUnregister, sessionVars
<1>4. CASE WriteStart(g) \/ CloseStart(g)
  <2>1. PICK q \in {"ready", "closing"}, r \in InFlight :
           Moved(g, q, r, under[go[g].conn])
    BY <1>4, GoMoves DEF InFlight
  <2>2. q \in Busy /\ r \in GoPc \ {"none"}
    BY DEF Busy, InFlight, GoPc
  <2>3. QED
    BY <1>2, <1>3, <1>4, <2>1, <2>2 DEF Retargets
<1>5. CASE GoLock(g) \/ WriteRefused(g) \/ CloseRefused(g)
  <2>1. PICK q \in {"start", "ready", "closing"},
             r \in {"ready", "closing", "unregistering"} :
           Moved(g, q, r, go[g].target)
    BY <1>5, GoMoves
  <2>2. q \in Busy /\ r \in GoPc \ {"none"} /\ r \notin InFlight
    BY DEF Busy, InFlight, GoPc
  <2>3. QED
    BY <1>1, <1>3, <2>1, <2>2 DEF Retargets
<1>6. CASE ~(WriteStart(g) \/ CloseStart(g) \/ GoLock(g) \/ WriteRefused(g)
               \/ CloseRefused(g))
  <2>1. PICK q \in {"start", "writing", "parting", "unregistering"},
             r \in {"done", "closing", "unregistering"} :
           Moved(g, q, r, None)
    BY <1>6, GoMoves DEF Goroutine
  <2>2. q \in Busy /\ r \in GoPc \ {"none"} /\ r \notin InFlight
    BY DEF Busy, InFlight, GoPc
  <2>3. QED
    BY <1>3, <2>1, <2>2 DEF Retargets
<1>7. QED
  BY <1>4, <1>5, <1>6

\* Every step keeps the types.
LEMMA TypeOKStep == IndInv /\ [Next]_vars => TypeOK'
<1> SUFFICES ASSUME IndInv, [Next]_vars PROVE TypeOK'
  OBVIOUS
<1> USE ConstAssumption DEF IndInv
<1>1. ASSUME NEW s \in Sessions, NEW p \in Conns, Open(s, p) PROVE TypeOK'
  BY <1>1 DEF Open, TypeOK, ReaderState, clientVars, sessionVars
<1>2. ASSUME NEW s \in Sessions, HubRegister(s) PROVE TypeOK'
  BY <1>2 DEF HubRegister, TypeOK, ReaderState, clientVars, sessionVars
<1>3. ASSUME NEW s \in Sessions, NEW c \in Cmd, ReadCommand(s, c)
      PROVE  TypeOK'
  BY <1>3 DEF ReadCommand, TypeOK, ReaderState, clientVars, sessionVars
<1>4. ASSUME NEW s \in Sessions, ReadPing(s) PROVE TypeOK'
  BY <1>4 DEF ReadPing, TypeOK, ReaderState, clientVars, sessionVars
<1>5. ASSUME NEW s \in Sessions, PingHandler(s) PROVE TypeOK'
  BY <1>5 DEF PingHandler, TypeOK, ReaderState, clientVars, sessionVars
<1>6. ASSUME NEW s \in Sessions, ReadError(s) PROVE TypeOK'
  BY <1>6 DEF ReadError, TypeOK, ReaderState, clientVars, sessionVars
<1>7. ASSUME NEW s \in Sessions, NEW k \in Orders \cup {"echo"},
             HubCommand(s, k)
      PROVE  TypeOK'
  <2>1. /\ conn[s] \in Conns /\ go' \in [GoId -> GoState]
        /\ \A g \in GoId : go'[g].pc # "none" =>
              go'[g].client \in Sessions /\ go'[g].conn \in Conns
    BY <1>7, SpawnedCommand DEF TypeOK
  <2>2. QED
    BY <1>7, <2>1 DEF HubCommand, TypeOK, ReaderState, clientVars
<1>8. ASSUME NEW s \in Sessions, ReaderUnregister(s) PROVE TypeOK'
  BY <1>8 DEF ReaderUnregister, TypeOK, HubUnregister, ReaderState,
     clientVars, sessionVars
<1>9. ASSUME NEW g \in GoId, WritePanics(g) PROVE TypeOK'
  BY <1>9 DEF WritePanics, TypeOK, clientVars, sessionVars
<1>10. ASSUME NEW s \in Sessions, ReleaseConn(s) PROVE TypeOK'
  BY <1>10 DEF ReleaseConn, TypeOK, ReaderState, clientVars, sessionVars
<1>11. ASSUME NEW b \in Msgs, NEW t \in Topics, BroadcastMessage(b, t)
      PROVE  TypeOK'
  BY <1>11 DEF BroadcastMessage, TypeOK, PostState, clientVars, sessionVars
<1>12. ASSUME NEW b \in Msgs, HubBroadcast(b) PROVE TypeOK'
  <2>1. /\ go' \in [GoId -> GoState]
        /\ \A g \in GoId : go'[g].pc # "none" =>
              go'[g].client \in Sessions /\ go'[g].conn \in Conns
    BY <1>12, Spawned, GoIds DEF TypeOK
  <2>2. post' \in [Msgs -> PostState]
    <3>1. post[b] \in PostState
      BY DEF TypeOK
    <3>2. [post[b] EXCEPT !.state = "accepted"] \in PostState
      BY <3>1 DEF PostState
    <3>3. QED
      BY <1>12, <3>2 DEF HubBroadcast, TypeOK
  <2>3. UNCHANGED <<clients, clientVars, sessionVars, inbox, panicked>>
    BY <1>12 DEF HubBroadcast
  <2>4. QED
    BY <2>1, <2>2, <2>3 DEF TypeOK, clientVars, sessionVars
<1>13. ASSUME NEW g \in GoId, Goroutine(g) PROVE TypeOK'
  <2>1. PICK q \in Busy, r \in GoPc \ {"none"}, u \in Sessions \cup {None} :
          /\ Moved(g, q, r, u)
          /\ Retargets(g, q, r, u)
    BY <1>13, GoFrame
  <2>2. UNCHANGED <<under, conn, reader, cmd, ncmd, post, panicked>>
    BY <1>13, GoFrame
  <2>3. go[g].client \in Sessions /\ go[g].conn \in Conns
    BY <2>1 DEF Moved
  <2>4. /\ go' \in [GoId -> GoState]
        /\ \A h \in GoId : go'[h].pc # "none" =>
              go'[h].client \in Sessions /\ go'[h].conn \in Conns
    BY <2>1 DEF Moved, TypeOK
  <2>5. clients' \in [Conns -> Sessions \cup {None}]
    BY <1>13 DEF Goroutine, GoSubscribe, GoUnsubscribe, GoSkip, GoLock,
       WriteStart, WriteRefused, WriteOk, WriteStrays, Written, WriteErr,
       CloseStart, CloseRefused, CloseSent, WriterUnregister, HubUnregister,
       TypeOK
  <2>6. topics' \in [Sessions -> SUBSET Topics]
    <3>1. CASE GoSubscribe(g)
      <4>1. go[g] \in GoState /\ go[g].kind = "subscribe"
        BY <3>1 DEF GoSubscribe, TypeOK
      <4>2. go[g].topic \in Topics
        BY <4>1 DEF GoState, GoOf
      <4>3. QED
        BY <3>1, <4>2 DEF GoSubscribe, TypeOK
    <3>2. CASE GoUnsubscribe(g)
      BY <3>2 DEF GoUnsubscribe, TypeOK
    <3>3. CASE UNCHANGED topics
      BY <3>3 DEF TypeOK
    <3>4. QED
      BY <1>13, <3>1, <3>2, <3>3 DEF Goroutine, GoSkip, GoLock, WriteStart,
         WriteRefused, WriteOk, WriteStrays, Written, WriteErr, CloseStart,
         CloseRefused, CloseSent, WriterUnregister, clientVars
  <2>7. isClosing' \subseteq Sessions
    BY <1>13, <2>3 DEF Goroutine, GoSubscribe, GoUnsubscribe, GoSkip, GoLock,
       WriteStart, WriteRefused, WriteOk, WriteStrays, Written, WriteErr,
       CloseStart, CloseRefused, CloseSent, WriterUnregister, clientVars,
       TypeOK
  <2>8. mu' \in [Sessions -> GoId \cup {None}]
    BY <1>13 DEF Goroutine, GoSubscribe, GoUnsubscribe, GoSkip, GoLock,
       WriteStart, WriteRefused, WriteOk, WriteStrays, Written, WriteErr,
       CloseStart, CloseRefused, CloseSent, WriterUnregister, clientVars,
       TypeOK
  <2>9. go[g].pc \in InFlight => go[g].target \in Sessions
    BY DEF TargetBound, TypeOK, GoState, GoOf
  <2>10. broken' \subseteq Sessions
    BY <1>13, <2>9 DEF InFlight, Goroutine, GoSubscribe, GoUnsubscribe, GoSkip,
       GoLock, WriteStart, WriteRefused, WriteOk, WriteStrays, Written,
       WriteErr, CloseStart, CloseRefused, CloseSent, WriterUnregister,
       sessionVars, TypeOK
  <2>11. inbox' \in [Sessions -> [Msgs -> Nat]]
    <3>1. ASSUME NEW v \in Sessions, Written(g, v), g \in CastGo
          PROVE  inbox' \in [Sessions -> [Msgs -> Nat]]
      <4>1. g[1] \in Msgs
        BY <3>1, GoIds
      <4>2. inbox[v] \in [Msgs -> Nat]
        BY DEF TypeOK
      <4>3. [inbox[v] EXCEPT ![g[1]] = @ + 1] \in [Msgs -> Nat]
        BY <4>1, <4>2
      <4>4. QED
        BY <3>1, <4>1, <4>3 DEF Written, TypeOK
    <3>2. CASE UNCHANGED inbox
      BY <3>2 DEF TypeOK
    <3>3. WriteOk(g) => go[g].target \in Sessions
      BY <2>9 DEF WriteOk, InFlight
    <3>4. \A v \in Sessions : Written(g, v) /\ g \notin CastGo =>
             UNCHANGED inbox
      BY DEF Written
    <3>5. QED
      BY <1>13, <3>1, <3>2, <3>3, <3>4 DEF Goroutine, GoSubscribe,
         GoUnsubscribe, GoSkip, GoLock, WriteStart, WriteRefused, WriteOk,
         WriteStrays, WriteErr, CloseStart, CloseRefused, CloseSent,
         WriterUnregister
  <2>12. QED
    BY <2>2, <2>4, <2>5, <2>6, <2>7, <2>8, <2>10, <2>11 DEF TypeOK
<1>14. ASSUME NEW g \in GoId, NEW h \in GoId, ConcurrentWrite(g, h)
      PROVE  TypeOK'
  BY <1>14 DEF ConcurrentWrite, TypeOK, clientVars, sessionVars
<1>15. CASE UNCHANGED vars
  BY <1>15 DEF vars, TypeOK
<1>16. QED
  BY <1>1, <1>2, <1>3, <1>4, <1>5, <1>6, <1>7, <1>8, <1>9, <1>10, <1>11, <1>12,
     <1>13, <1>14, <1>15 DEF
     Next, Step, Reader, HubSubscribe, HubUnsubscribe, HubEcho, Orders

\* Every step keeps running sessions and their Conns bound to each other.
LEMMA SessionBoundStep == IndInv /\ [Next]_vars => SessionBound'
<1> SUFFICES ASSUME IndInv, [Next]_vars PROVE SessionBound'
  OBVIOUS
<1> USE ConstAssumption DEF IndInv
<1>1. ASSUME NEW s \in Sessions, NEW p \in Conns, Open(s, p)
      PROVE  SessionBound'
  BY <1>1 DEF Open, TypeOK, SessionBound
<1>2. ASSUME NEW s \in Sessions, HubRegister(s) PROVE SessionBound'
  BY <1>2 DEF HubRegister, TypeOK, SessionBound
<1>3. ASSUME NEW s \in Sessions, NEW c \in Cmd, ReadCommand(s, c)
      PROVE  SessionBound'
  BY <1>3 DEF ReadCommand, TypeOK, SessionBound
<1>4. ASSUME NEW s \in Sessions, ReadPing(s) PROVE SessionBound'
  BY <1>4 DEF ReadPing, TypeOK, SessionBound
<1>5. ASSUME NEW s \in Sessions, PingHandler(s) PROVE SessionBound'
  BY <1>5 DEF PingHandler, TypeOK, SessionBound
<1>6. ASSUME NEW s \in Sessions, ReadError(s) PROVE SessionBound'
  BY <1>6 DEF ReadError, TypeOK, SessionBound
<1>7. ASSUME NEW s \in Sessions, NEW k \in Orders \cup {"echo"},
             HubCommand(s, k)
      PROVE  SessionBound'
  BY <1>7 DEF HubCommand, TypeOK, SessionBound
<1>8. ASSUME NEW s \in Sessions, ReaderUnregister(s) PROVE SessionBound'
  BY <1>8 DEF ReaderUnregister, TypeOK, SessionBound, HubUnregister
<1>9. ASSUME NEW g \in GoId, WritePanics(g) PROVE SessionBound'
  BY <1>9 DEF WritePanics, SessionBound, clientVars, sessionVars
<1>10. ASSUME NEW s \in Sessions, ReleaseConn(s) PROVE SessionBound'
  <2>1. conn[s] \in Conns /\ under[conn[s]] = s /\ UNCHANGED conn
    BY <1>10 DEF ReleaseConn, SessionBound
  <2>2. /\ under'[conn[s]] = None
        /\ \A p \in Conns : p # conn[s] => under'[p] = under[p]
    BY <1>10, <2>1 DEF ReleaseConn, TypeOK
  <2>3. /\ reader'[s] = "done"
        /\ \A r \in Sessions : r # s => reader'[r] = reader[r]
    BY <1>10 DEF ReleaseConn, TypeOK
  <2>4. \A p \in Conns : under[p] \in Sessions \cup {None}
    BY DEF TypeOK
  <2>5. QED
    BY <2>1, <2>2, <2>3, <2>4 DEF SessionBound
<1>11. ASSUME NEW b \in Msgs, NEW t \in Topics, BroadcastMessage(b, t)
      PROVE  SessionBound'
  BY <1>11 DEF BroadcastMessage, SessionBound, clientVars, sessionVars
<1>12. ASSUME NEW b \in Msgs, HubBroadcast(b) PROVE SessionBound'
  BY <1>12 DEF HubBroadcast, SessionBound, clientVars, sessionVars
<1>13. ASSUME NEW g \in GoId, Goroutine(g) PROVE SessionBound'
  BY <1>13, GoFrame DEF SessionBound
<1>14. ASSUME NEW g \in GoId, NEW h \in GoId, ConcurrentWrite(g, h)
      PROVE  SessionBound'
  BY <1>14 DEF ConcurrentWrite, SessionBound, clientVars, sessionVars
<1>15. CASE UNCHANGED vars
  BY <1>15 DEF vars, SessionBound
<1>16. QED
  BY <1>1, <1>2, <1>3, <1>4, <1>5, <1>6, <1>7, <1>8, <1>9, <1>10, <1>11, <1>12,
     <1>13, <1>14, <1>15 DEF
     Next, Step, Reader, HubSubscribe, HubUnsubscribe, HubEcho, Orders

\* Every step keeps commands numbered.
LEMMA CommandNumberedStep == IndInv /\ [Next]_vars => CommandNumbered'
<1> SUFFICES ASSUME IndInv, [Next]_vars PROVE CommandNumbered'
  OBVIOUS
<1> USE ConstAssumption DEF IndInv
<1>1. ASSUME NEW s \in Sessions, NEW p \in Conns, Open(s, p)
      PROVE  CommandNumbered'
  BY <1>1 DEF Open, TypeOK, CommandNumbered
<1>2. ASSUME NEW s \in Sessions, HubRegister(s) PROVE CommandNumbered'
  BY <1>2 DEF HubRegister, TypeOK, CommandNumbered
<1>3. ASSUME NEW s \in Sessions, NEW c \in Cmd, ReadCommand(s, c)
      PROVE  CommandNumbered'
  BY <1>3 DEF ReadCommand, TypeOK, CommandNumbered
<1>4. ASSUME NEW s \in Sessions, ReadPing(s) PROVE CommandNumbered'
  BY <1>4 DEF ReadPing, TypeOK, CommandNumbered
<1>5. ASSUME NEW s \in Sessions, PingHandler(s) PROVE CommandNumbered'
  BY <1>5 DEF PingHandler, TypeOK, CommandNumbered
<1>6. ASSUME NEW s \in Sessions, ReadError(s) PROVE CommandNumbered'
  BY <1>6 DEF ReadError, TypeOK, CommandNumbered
<1>7. ASSUME NEW s \in Sessions, NEW k \in Orders \cup {"echo"},
             HubCommand(s, k)
      PROVE  CommandNumbered'
  BY <1>7 DEF HubCommand, TypeOK, CommandNumbered
<1>8. ASSUME NEW s \in Sessions, ReaderUnregister(s) PROVE CommandNumbered'
  BY <1>8 DEF ReaderUnregister, TypeOK, CommandNumbered, HubUnregister
<1>9. ASSUME NEW g \in GoId, WritePanics(g) PROVE CommandNumbered'
  BY <1>9 DEF WritePanics, CommandNumbered, clientVars, sessionVars
<1>10. ASSUME NEW s \in Sessions, ReleaseConn(s) PROVE CommandNumbered'
  BY <1>10 DEF ReleaseConn, TypeOK, CommandNumbered
<1>11. ASSUME NEW b \in Msgs, NEW t \in Topics, BroadcastMessage(b, t)
      PROVE  CommandNumbered'
  BY <1>11 DEF BroadcastMessage, CommandNumbered, clientVars, sessionVars
<1>12. ASSUME NEW b \in Msgs, HubBroadcast(b) PROVE CommandNumbered'
  BY <1>12 DEF HubBroadcast, CommandNumbered, clientVars, sessionVars
<1>13. ASSUME NEW g \in GoId, Goroutine(g) PROVE CommandNumbered'
  BY <1>13, GoFrame DEF CommandNumbered
<1>14. ASSUME NEW g \in GoId, NEW h \in GoId, ConcurrentWrite(g, h)
      PROVE  CommandNumbered'
  BY <1>14 DEF ConcurrentWrite, CommandNumbered, clientVars, sessionVars
<1>15. CASE UNCHANGED vars
  BY <1>15 DEF vars, CommandNumbered
<1>16. QED
  BY <1>1, <1>2, <1>3, <1>4, <1>5, <1>6, <1>7, <1>8, <1>9, <1>10, <1>11, <1>12,
     <1>13, <1>14, <1>15 DEF
     Next, Step, Reader, HubSubscribe, HubUnsubscribe, HubEcho, Orders

\* Every step keeps the entries of Clients backed by a running reader.
LEMMA RegistrationBackedStep == IndInv /\ [Next]_vars => RegistrationBacked'
<1> SUFFICES ASSUME IndInv, [Next]_vars PROVE RegistrationBacked'
  OBVIOUS
<1> USE ConstAssumption DEF IndInv
<1>1. ASSUME NEW s \in Sessions, NEW p \in Conns, Open(s, p)
      PROVE  RegistrationBacked'
  BY <1>1 DEF Open, TypeOK, SessionBound, RegistrationBacked
<1>2. ASSUME NEW s \in Sessions, HubRegister(s) PROVE RegistrationBacked'
  <2>1. conn[s] \in Conns /\ under[conn[s]] = s /\ s # None
    BY <1>2 DEF HubRegister, SessionBound
  <2>2. \A p \in Conns : clients[p] # s
    BY <1>2, <2>1 DEF HubRegister, RegistrationBacked
  <2>3. /\ clients' = [clients EXCEPT ![conn[s]] = s]
        /\ reader' = [reader EXCEPT ![s] = "reading"]
        /\ UNCHANGED <<under, conn>>
    BY <1>2 DEF HubRegister
  <2>4. \A p \in Conns : p # conn[s] => clients'[p] = clients[p]
    BY <2>3 DEF TypeOK
  <2>5. clients'[conn[s]] = s /\ reader'[s] = "reading"
    BY <2>1, <2>3 DEF TypeOK
  <2>6. \A r \in Sessions : r # s => reader'[r] = reader[r]
    BY <2>3 DEF TypeOK
  <2>7. \A p \in Conns : clients[p] \in Sessions \cup {None}
    BY DEF TypeOK
  <2>8. QED
    BY <2>1, <2>2, <2>3, <2>4, <2>5, <2>6, <2>7 DEF RegistrationBacked
<1>3. ASSUME NEW s \in Sessions, NEW c \in Cmd, ReadCommand(s, c)
      PROVE  RegistrationBacked'
  BY <1>3 DEF ReadCommand, TypeOK, SessionBound, RegistrationBacked
<1>4. ASSUME NEW s \in Sessions, ReadPing(s) PROVE RegistrationBacked'
  BY <1>4 DEF ReadPing, TypeOK, SessionBound, RegistrationBacked
<1>5. ASSUME NEW s \in Sessions, PingHandler(s) PROVE RegistrationBacked'
  BY <1>5 DEF PingHandler, TypeOK, SessionBound, RegistrationBacked
<1>6. ASSUME NEW s \in Sessions, ReadError(s) PROVE RegistrationBacked'
  BY <1>6 DEF ReadError, TypeOK, SessionBound, RegistrationBacked
<1>7. ASSUME NEW s \in Sessions, NEW k \in Orders \cup {"echo"},
             HubCommand(s, k)
      PROVE  RegistrationBacked'
  BY <1>7 DEF HubCommand, TypeOK, SessionBound, RegistrationBacked
<1>8. ASSUME NEW s \in Sessions, ReaderUnregister(s) PROVE RegistrationBacked'
  BY <1>8 DEF ReaderUnregister, TypeOK, SessionBound, RegistrationBacked,
     HubUnregister
<1>9. ASSUME NEW g \in GoId, WritePanics(g) PROVE RegistrationBacked'
  BY <1>9 DEF WritePanics, RegistrationBacked, clientVars, sessionVars
<1>10. ASSUME NEW s \in Sessions, ReleaseConn(s) PROVE RegistrationBacked'
  BY <1>10 DEF ReleaseConn, TypeOK, SessionBound, RegistrationBacked
<1>11. ASSUME NEW g \in GoId, Goroutine(g) PROVE RegistrationBacked'
  <2>1. UNCHANGED <<under, conn, reader>>
    BY <1>11, GoFrame
  <2>2. \A p \in Conns : clients'[p] \in {clients[p], None}
    BY <1>11 DEF Goroutine, GoSubscribe, GoUnsubscribe, GoSkip, GoLock,
       WriteStart, WriteRefused, WriteOk, WriteStrays, Written, WriteErr,
       CloseStart, CloseRefused, CloseSent, WriterUnregister, HubUnregister,
       TypeOK
  <2>3. QED
    BY <2>1, <2>2 DEF RegistrationBacked
<1>12. ASSUME NEW b \in Msgs, NEW t \in Topics, BroadcastMessage(b, t)
      PROVE  RegistrationBacked'
  BY <1>12 DEF BroadcastMessage, RegistrationBacked, clientVars, sessionVars
<1>13. ASSUME NEW b \in Msgs, HubBroadcast(b) PROVE RegistrationBacked'
  BY <1>13 DEF HubBroadcast, RegistrationBacked, clientVars, sessionVars
<1>14. ASSUME NEW g \in GoId, NEW h \in GoId, ConcurrentWrite(g, h)
      PROVE  RegistrationBacked'
  BY <1>14 DEF ConcurrentWrite, RegistrationBacked, clientVars, sessionVars
<1>15. CASE UNCHANGED vars
  BY <1>15 DEF vars, RegistrationBacked
<1>16. QED
  BY <1>1, <1>2, <1>3, <1>4, <1>5, <1>6, <1>7, <1>8, <1>9, <1>10, <1>11, <1>12,
     <1>13, <1>14, <1>15 DEF
     Next, Step, Reader, HubSubscribe, HubUnsubscribe, HubEcho, Orders

\* Goroutines are only spawned for sessions that have registered.
LEMMA GoStartedStep == IndInv /\ [Next]_vars => GoStarted'
<1> SUFFICES ASSUME IndInv, [Next]_vars PROVE GoStarted'
  OBVIOUS
<1> USE ConstAssumption DEF IndInv
<1>1. ASSUME NEW s \in Sessions, NEW p \in Conns, Open(s, p) PROVE GoStarted'
  BY <1>1 DEF Open, TypeOK, RegistrationBacked, GoStarted, clientVars
<1>2. ASSUME NEW s \in Sessions, HubRegister(s) PROVE GoStarted'
  BY <1>2 DEF HubRegister, TypeOK, RegistrationBacked, GoStarted
<1>3. ASSUME NEW s \in Sessions, NEW c \in Cmd, ReadCommand(s, c)
      PROVE  GoStarted'
  BY <1>3 DEF ReadCommand, TypeOK, RegistrationBacked, GoStarted, clientVars
<1>4. ASSUME NEW s \in Sessions, ReadPing(s) PROVE GoStarted'
  BY <1>4 DEF ReadPing, TypeOK, RegistrationBacked, GoStarted, clientVars
<1>5. ASSUME NEW s \in Sessions, PingHandler(s) PROVE GoStarted'
  BY <1>5 DEF PingHandler, TypeOK, RegistrationBacked, GoStarted, clientVars
<1>6. ASSUME NEW s \in Sessions, ReadError(s) PROVE GoStarted'
  BY <1>6 DEF ReadError, TypeOK, RegistrationBacked, GoStarted, clientVars
<1>7. ASSUME NEW s \in Sessions, NEW k \in Orders \cup {"echo"},
             HubCommand(s, k)
      PROVE  GoStarted'
  <2>1. /\ UNCHANGED <<isClosing, clients, conn>>
        /\ reader' = [reader EXCEPT ![s] = "reading"]
        /\ reader[s] = "sending"
    BY <1>7 DEF HubCommand, clientVars
  <2>2. \A r \in Sessions : reader[r] \notin {"new", "registering"} =>
           reader'[r] \notin {"new", "registering"}
    BY <2>1 DEF TypeOK
  <2>3. clients[conn[s]] \in Sessions /\ conn[s] \in Conns =>
           reader[clients[conn[s]]] \notin {"new", "registering"}
    BY DEF RegistrationBacked
  <2>4. /\ conn[s] \in Conns
        /\ \A g \in GoId :
              \/ go'[g] = go[g]
              \/ /\ clients[conn[s]] \in Sessions
                 /\ go'[g].client = clients[conn[s]]
    BY <1>7, SpawnedCommand
  <2>5. \A g \in GoId : go[g].pc # "none" => go[g].client \in Sessions
    BY DEF TypeOK
  <2>6. isClosing \subseteq Sessions
    BY DEF TypeOK
  <2>7. QED
    BY <2>1, <2>2, <2>3, <2>4, <2>5, <2>6 DEF GoStarted
<1>8. ASSUME NEW s \in Sessions, ReaderUnregister(s) PROVE GoStarted'
  BY <1>8 DEF ReaderUnregister, TypeOK, RegistrationBacked, GoStarted,
     HubUnregister, clientVars
<1>9. ASSUME NEW g \in GoId, WritePanics(g) PROVE GoStarted'
  BY <1>9 DEF WritePanics, GoStarted, clientVars, sessionVars
<1>10. ASSUME NEW s \in Sessions, ReleaseConn(s) PROVE GoStarted'
  BY <1>10 DEF ReleaseConn, TypeOK, RegistrationBacked, GoStarted, clientVars
<1>11. ASSUME NEW b \in Msgs, HubBroadcast(b) PROVE GoStarted'
  <2>1. UNCHANGED <<isClosing, reader>>
    BY <1>11 DEF HubBroadcast, clientVars, sessionVars
  <2>2. \A p \in Conns : clients[p] \in Sessions =>
           reader[clients[p]] \notin {"new", "registering"}
    BY DEF RegistrationBacked
  <2>3. \A g \in GoId :
           \/ go'[g] = go[g]
           \/ \E p \in Conns : /\ clients[p] \in Sessions
                               /\ go'[g].client = clients[p]
    BY <1>11, Spawned, GoIds
  <2>4. QED
    BY <2>1, <2>2, <2>3 DEF GoStarted
<1>12. ASSUME NEW g \in GoId, Goroutine(g) PROVE GoStarted'
  <2>1. PICK q \in Busy, r \in GoPc \ {"none"}, u \in Sessions \cup {None} :
          /\ Moved(g, q, r, u)
          /\ Retargets(g, q, r, u)
    BY <1>12, GoFrame
  <2>2. UNCHANGED <<under, conn, reader, cmd, ncmd, post, panicked>>
    BY <1>12, GoFrame
  <2>3. isClosing' \subseteq isClosing \cup {go[g].client}
    BY <1>12 DEF Goroutine, GoSubscribe, GoUnsubscribe, GoSkip, GoLock,
       WriteStart, WriteRefused, WriteOk, WriteStrays, Written, WriteErr,
       CloseStart, CloseRefused, CloseSent, WriterUnregister, clientVars
  <2>4. go[g].pc # "none"
    BY <2>1 DEF Moved, Busy
  <2>5. QED
    BY <2>1, <2>2, <2>3, <2>4 DEF GoStarted, Moved
<1>13. ASSUME NEW b \in Msgs, NEW t \in Topics, BroadcastMessage(b, t)
      PROVE  GoStarted'
  BY <1>13 DEF BroadcastMessage, GoStarted, clientVars, sessionVars
<1>14. ASSUME NEW g \in GoId, NEW h \in GoId, ConcurrentWrite(g, h)
      PROVE  GoStarted'
  BY <1>14 DEF ConcurrentWrite, GoStarted, clientVars, sessionVars
<1>15. CASE UNCHANGED vars
  BY <1>15 DEF vars, GoStarted
<1>16. QED
  BY <1>1, <1>2, <1>3, <1>4, <1>5, <1>6, <1>7, <1>8, <1>9, <1>10, <1>11, <1>12,
     <1>13, <1>14, <1>15 DEF
     Next, Step, Reader, HubSubscribe, HubUnsubscribe, HubEcho, Orders

\* Every step keeps writers the holders of the mutex, and unmarked.
LEMMA WritersHoldMutexStep == IndInv /\ [Next]_vars => WritersHoldMutex'
<1> SUFFICES ASSUME IndInv, [Next]_vars PROVE WritersHoldMutex'
  OBVIOUS
<1> USE ConstAssumption DEF IndInv
<1>1. ASSUME NEW s \in Sessions, HubRegister(s) PROVE WritersHoldMutex'
  BY <1>1 DEF HubRegister, WritersHoldMutex, TypeOK
<1>2. ASSUME NEW s \in Sessions, NEW k \in Orders \cup {"echo"},
             HubCommand(s, k)
      PROVE  WritersHoldMutex'
  <2>1. UNCHANGED <<mu, isClosing>>
    BY <1>2 DEF HubCommand, clientVars
  <2>2. \A g \in GoId : go'[g] = go[g] \/ go'[g].pc = "start"
    BY <1>2, SpawnedCommand
  <2>3. QED
    BY <2>1, <2>2 DEF WritersHoldMutex, InFlight
<1>3. ASSUME NEW b \in Msgs, HubBroadcast(b) PROVE WritersHoldMutex'
  <2>1. UNCHANGED <<mu, isClosing>>
    BY <1>3 DEF HubBroadcast, clientVars
  <2>2. \A g \in GoId : go'[g] = go[g] \/ go'[g].pc = "start"
    BY <1>3, Spawned
  <2>3. QED
    BY <2>1, <2>2 DEF WritersHoldMutex, InFlight
<1>4. ASSUME NEW g \in GoId, Goroutine(g) PROVE WritersHoldMutex'
  <2>1. \A h \in GoId : go[h].pc # "none" => go[h].client \in Sessions
    BY DEF TypeOK
  <2>2. \A c \in Sessions : mu[c] \in GoId \cup {None}
    BY DEF TypeOK
  <2>3. CASE GoSubscribe(g) \/ GoUnsubscribe(g) \/ GoSkip(g)
    <3>1. Moved(g, "start", "done", None)
      BY <2>3, GoMoves
    <3>2. UNCHANGED <<mu, isClosing>>
      BY <2>3 DEF GoSubscribe, GoUnsubscribe, GoSkip, clientVars
    <3>3. QED
      BY <3>1, <3>2 DEF WritersHoldMutex, Moved, InFlight
  <2>4. CASE GoLock(g)
    <3> DEFINE c == go[g].client
    <3>1. Moved(g, "start", "ready", go[g].target)
      BY <2>4, GoMoves
    <3>2. /\ mu[c] = None /\ mu' = [mu EXCEPT ![c] = g]
          /\ c \notin isClosing /\ UNCHANGED isClosing
      BY <2>4 DEF GoLock, MayWrite
    <3>3. c \in Sessions /\ mu'[c] = g
      BY <3>1, <3>2 DEF Moved, TypeOK
    <3>4. \A r \in Sessions : r # c => mu'[r] = mu[r]
      BY <3>2 DEF TypeOK
    <3>5. \A h \in GoId : h # None
      OBVIOUS
    <3>6. QED
      BY <2>1, <3>1, <3>2, <3>3, <3>4, <3>5 DEF WritersHoldMutex, Moved,
         InFlight
  <2>5. CASE WriteStart(g)
    <3>1. Moved(g, "ready", "writing", under[go[g].conn])
      BY <2>5, GoMoves
    <3>2. UNCHANGED <<mu, isClosing>>
      BY <2>5 DEF WriteStart, clientVars
    <3>3. QED
      BY <3>1, <3>2 DEF WritersHoldMutex, Moved, InFlight
  <2>6. CASE WriteErr(g) \/ WriteRefused(g)
    <3>1. PICK q \in {"ready", "writing"}, u \in {None, go[g].target} :
             Moved(g, q, "closing", u)
      BY <2>6, GoMoves
    <3>2. UNCHANGED mu /\ isClosing' = isClosing \cup {go[g].client}
      BY <2>6 DEF WriteErr, WriteRefused
    <3>3. mu[go[g].client] = g /\ go[g].client \in Sessions
      BY <3>1 DEF WritersHoldMutex, Moved, InFlight
    <3>4. QED
      BY <2>1, <3>1, <3>2, <3>3 DEF WritersHoldMutex, Moved, InFlight
  <2>7. CASE CloseStart(g) \/ CloseRefused(g) \/ CloseSent(g)
    <3>1. PICK q \in {"closing", "parting"}, r \in {"parting", "unregistering"},
               u \in {None, go[g].target, under[go[g].conn]} :
             Moved(g, q, r, u)
      BY <2>7, GoMoves
    <3>2. UNCHANGED <<mu, isClosing>>
      BY <2>7 DEF CloseStart, CloseRefused, CloseSent, clientVars
    <3>3. mu[go[g].client] = g
      BY <3>1 DEF WritersHoldMutex, Moved, InFlight
    <3>4. QED
      BY <3>1, <3>2, <3>3 DEF WritersHoldMutex, Moved, InFlight
  <2>8. CASE WriteOk(g) \/ (\E v \in Sessions : WriteStrays(g, v))
               \/ WriterUnregister(g)
    <3> DEFINE c == go[g].client
    <3>1. \E q \in {"writing", "unregistering"} : Moved(g, q, "done", None)
      BY <2>8, GoMoves
    <3>2. UNCHANGED isClosing /\ mu' = [mu EXCEPT ![c] = None]
      BY <2>8 DEF WriteOk, WriteStrays, Written, WriterUnregister
    <3>3. c \in Sessions /\ mu[c] = g
      BY <3>1 DEF Moved, WritersHoldMutex, InFlight
    <3>4. \A r \in Sessions : r # c => mu'[r] = mu[r]
      BY <3>2 DEF TypeOK
    <3>5. QED
      BY <2>1, <3>1, <3>2, <3>3, <3>4 DEF WritersHoldMutex, Moved, InFlight
  <2>9. QED
    BY <1>4, <2>3, <2>4, <2>5, <2>6, <2>7, <2>8 DEF Goroutine
<1>5. ASSUME NEW s \in Sessions, NEW p \in Conns, Open(s, p)
      PROVE  WritersHoldMutex'
  BY <1>5 DEF Open, WritersHoldMutex, clientVars, sessionVars
<1>6. ASSUME NEW s \in Sessions, NEW c \in Cmd, ReadCommand(s, c)
      PROVE  WritersHoldMutex'
  BY <1>6 DEF ReadCommand, WritersHoldMutex, clientVars, sessionVars
<1>7. ASSUME NEW s \in Sessions, ReadPing(s) PROVE WritersHoldMutex'
  BY <1>7 DEF ReadPing, WritersHoldMutex, clientVars, sessionVars
<1>8. ASSUME NEW s \in Sessions, PingHandler(s) PROVE WritersHoldMutex'
  BY <1>8 DEF PingHandler, WritersHoldMutex, clientVars, sessionVars
<1>9. ASSUME NEW s \in Sessions, ReadError(s) PROVE WritersHoldMutex'
  BY <1>9 DEF ReadError, WritersHoldMutex, clientVars, sessionVars
<1>10. ASSUME NEW s \in Sessions, ReaderUnregister(s) PROVE WritersHoldMutex'
  BY <1>10 DEF ReaderUnregister, WritersHoldMutex, clientVars, sessionVars
<1>11. ASSUME NEW g \in GoId, WritePanics(g) PROVE WritersHoldMutex'
  BY <1>11 DEF WritePanics, WritersHoldMutex, clientVars, sessionVars
<1>12. ASSUME NEW s \in Sessions, ReleaseConn(s) PROVE WritersHoldMutex'
  BY <1>12 DEF ReleaseConn, WritersHoldMutex, clientVars, sessionVars
<1>13. ASSUME NEW b \in Msgs, NEW t \in Topics, BroadcastMessage(b, t)
      PROVE  WritersHoldMutex'
  BY <1>13 DEF BroadcastMessage, WritersHoldMutex, clientVars, sessionVars
<1>14. ASSUME NEW g \in GoId, NEW h \in GoId, ConcurrentWrite(g, h)
      PROVE  WritersHoldMutex'
  BY <1>14 DEF ConcurrentWrite, WritersHoldMutex, clientVars, sessionVars
<1>15. CASE UNCHANGED vars
  BY <1>15 DEF vars, WritersHoldMutex
<1>16. QED
  BY <1>1, <1>2, <1>3, <1>4, <1>5, <1>6, <1>7, <1>8, <1>9, <1>10, <1>11, <1>12,
     <1>13, <1>14, <1>15 DEF
     Next, Step, Reader, HubSubscribe, HubUnsubscribe, HubEcho, Orders

\* A broadcast's goroutines are spawned once.
LEMMA CastOnceStep == IndInv /\ [Next]_vars => CastOnce'
<1> SUFFICES ASSUME IndInv, [Next]_vars PROVE CastOnce'
  OBVIOUS
<1> USE ConstAssumption DEF IndInv
<1>1. ASSUME NEW s \in Sessions, NEW k \in Orders \cup {"echo"},
             HubCommand(s, k)
      PROVE  CastOnce'
  <2>1. UNCHANGED post
    BY <1>1 DEF HubCommand
  <2>2. \A g \in CastGo : g \in GoId => go'[g] = go[g]
    BY <1>1, SpawnedCommand, GoIds
  <2>3. CastGo \subseteq GoId
    BY DEF GoId
  <2>4. QED
    BY <2>1, <2>2, <2>3 DEF CastOnce
<1>2. ASSUME NEW b \in Msgs, NEW t \in Topics, BroadcastMessage(b, t)
      PROVE  CastOnce'
  BY <1>2 DEF BroadcastMessage, TypeOK, CastOnce
<1>3. ASSUME NEW b \in Msgs, HubBroadcast(b) PROVE CastOnce'
  <2>1. /\ post[b].state # "accepted" /\ post'[b].state = "accepted"
        /\ \A c \in Msgs : c # b => post'[c] = post[c]
    BY <1>3 DEF HubBroadcast, TypeOK, PostState
  <2>2. \A g \in CastGo : go'[g] = go[g] \/ (g[1] = b /\ go'[g].conn = g[2])
    <3>1. CastGo \subseteq GoId
      BY DEF GoId
    <3>2. ASSUME NEW g \in GoId
          PROVE  go'[g] = go[g] \/ (g[1] = b /\ go'[g].conn = g[2])
      BY <1>3, Spawned
    <3>3. QED
      BY <3>1, <3>2
  <2>3. \A g \in CastGo : g[1] \in Msgs
    BY GoIds
  <2>4. QED
    BY <2>1, <2>2, <2>3 DEF CastOnce
<1>4. ASSUME NEW g \in GoId, Goroutine(g) PROVE CastOnce'
  <2>1. PICK q \in Busy, r \in GoPc \ {"none"}, u \in Sessions \cup {None} :
          /\ Moved(g, q, r, u)
          /\ Retargets(g, q, r, u)
    BY <1>4, GoFrame
  <2>2. UNCHANGED <<under, conn, reader, cmd, ncmd, post, panicked>>
    BY <1>4, GoFrame
  <2>3. \A h \in CastGo : h # g => go'[h] = go[h]
    BY <2>1 DEF Moved, GoId
  <2>4. go[g].pc # "none" /\ go'[g].conn = go[g].conn
    BY <2>1 DEF Moved, Busy
  <2>5. QED
    BY <2>2, <2>3, <2>4 DEF CastOnce
<1>5. ASSUME NEW s \in Sessions, NEW p \in Conns, Open(s, p) PROVE CastOnce'
  BY <1>5 DEF Open, CastOnce, clientVars, sessionVars
<1>6. ASSUME NEW s \in Sessions, HubRegister(s) PROVE CastOnce'
  BY <1>6 DEF HubRegister, CastOnce, clientVars, sessionVars
<1>7. ASSUME NEW s \in Sessions, NEW c \in Cmd, ReadCommand(s, c)
      PROVE  CastOnce'
  BY <1>7 DEF ReadCommand, CastOnce, clientVars, sessionVars
<1>8. ASSUME NEW s \in Sessions, ReadPing(s) PROVE CastOnce'
  BY <1>8 DEF ReadPing, CastOnce, clientVars, sessionVars
<1>9. ASSUME NEW s \in Sessions, PingHandler(s) PROVE CastOnce'
  BY <1>9 DEF PingHandler, CastOnce, clientVars, sessionVars
<1>10. ASSUME NEW s \in Sessions, ReadError(s) PROVE CastOnce'
  BY <1>10 DEF ReadError, CastOnce, clientVars, sessionVars
<1>11. ASSUME NEW s \in Sessions, ReaderUnregister(s) PROVE CastOnce'
  BY <1>11 DEF ReaderUnregister, CastOnce, clientVars, sessionVars
<1>12. ASSUME NEW g \in GoId, WritePanics(g) PROVE CastOnce'
  BY <1>12 DEF WritePanics, CastOnce, clientVars, sessionVars
<1>13. ASSUME NEW s \in Sessions, ReleaseConn(s) PROVE CastOnce'
  BY <1>13 DEF ReleaseConn, CastOnce, clientVars, sessionVars
<1>14. ASSUME NEW g \in GoId, NEW h \in GoId, ConcurrentWrite(g, h)
      PROVE  CastOnce'
  BY <1>14 DEF ConcurrentWrite, CastOnce, clientVars, sessionVars
<1>15. CASE UNCHANGED vars
  BY <1>15 DEF vars, CastOnce
<1>16. QED
  BY <1>1, <1>2, <1>3, <1>4, <1>5, <1>6, <1>7, <1>8, <1>9, <1>10, <1>11, <1>12,
     <1>13, <1>14, <1>15 DEF
     Next, Step, Reader, HubSubscribe, HubUnsubscribe, HubEcho, Orders

\* What is being written to belongs to the goroutine's Conn.
LEMMA TargetBoundStep == IndInv /\ [Next]_vars => TargetBound'
<1> SUFFICES ASSUME IndInv, [Next]_vars PROVE TargetBound'
  OBVIOUS
<1> USE ConstAssumption DEF IndInv
<1>1. ASSUME NEW s \in Sessions, NEW p \in Conns, Open(s, p)
      PROVE  TargetBound'
  BY <1>1 DEF Open, TypeOK, TargetBound, SessionBound
<1>2. ASSUME NEW s \in Sessions, HubRegister(s) PROVE TargetBound'
  BY <1>2 DEF HubRegister, TypeOK, TargetBound, SessionBound
<1>3. ASSUME NEW s \in Sessions, NEW c \in Cmd, ReadCommand(s, c)
      PROVE  TargetBound'
  BY <1>3 DEF ReadCommand, TypeOK, TargetBound, SessionBound
<1>4. ASSUME NEW s \in Sessions, ReadPing(s) PROVE TargetBound'
  BY <1>4 DEF ReadPing, TypeOK, TargetBound, SessionBound
<1>5. ASSUME NEW s \in Sessions, PingHandler(s) PROVE TargetBound'
  BY <1>5 DEF PingHandler, TypeOK, TargetBound, SessionBound
<1>6. ASSUME NEW s \in Sessions, ReadError(s) PROVE TargetBound'
  BY <1>6 DEF ReadError, TypeOK, TargetBound, SessionBound
<1>7. ASSUME NEW s \in Sessions, NEW k \in Orders \cup {"echo"},
             HubCommand(s, k)
      PROVE  TargetBound'
  <2>1. /\ UNCHANGED conn
        /\ \A r \in Sessions : reader[r] # "new" => reader'[r] # "new"
    BY <1>7 DEF HubCommand, TypeOK
  <2>2. \A g \in GoId : go'[g] = go[g] \/ (go'[g].target = None
                                               /\ go'[g].pc \notin InFlight)
    BY <1>7, SpawnedCommand DEF InFlight
  <2>3. \A g \in GoId : go[g].target \in Sessions \cup {None}
    BY DEF TypeOK, GoState, GoOf
  <2>4. QED
    BY <2>1, <2>2, <2>3 DEF TargetBound
<1>8. ASSUME NEW s \in Sessions, ReaderUnregister(s) PROVE TargetBound'
  BY <1>8 DEF ReaderUnregister, TypeOK, TargetBound, SessionBound,
     HubUnregister
<1>9. ASSUME NEW g \in GoId, WritePanics(g) PROVE TargetBound'
  BY <1>9 DEF WritePanics, TargetBound, clientVars, sessionVars
<1>10. ASSUME NEW s \in Sessions, ReleaseConn(s) PROVE TargetBound'
  BY <1>10 DEF ReleaseConn, TypeOK, TargetBound, SessionBound
<1>11. ASSUME NEW b \in Msgs, HubBroadcast(b) PROVE TargetBound'
  <2>1. UNCHANGED <<conn, reader>>
    BY <1>11 DEF HubBroadcast, sessionVars
  <2>2. \A g \in GoId : go'[g] = go[g] \/ (go'[g].target = None
                                               /\ go'[g].pc \notin InFlight)
    BY <1>11, Spawned DEF InFlight
  <2>3. QED
    BY <2>1, <2>2 DEF TargetBound
<1>12. ASSUME NEW g \in GoId, Goroutine(g) PROVE TargetBound'
  <2>1. PICK q \in Busy, r \in GoPc \ {"none"}, u \in Sessions \cup {None} :
          /\ Moved(g, q, r, u)
          /\ Retargets(g, q, r, u)
    BY <1>12, GoFrame
  <2>2. UNCHANGED <<under, conn, reader, cmd, ncmd, post, panicked>>
    BY <1>12, GoFrame
  <2>3. q \in {"start", "ready", "closing"} => go[g].target = None
    BY <2>1 DEF Moved, TargetBound, InFlight
  <2>4. go[g].conn \in Conns
    BY <2>1 DEF Moved
  <2>5. /\ r \in InFlight => u # None
        /\ u # None => /\ r \in InFlight
                       /\ conn[u] = go[g].conn /\ reader[u] # "new"
    BY <2>1, <2>3, <2>4 DEF SessionBound, Retargets
  <2>6. QED
    BY <2>1, <2>2, <2>5 DEF TargetBound, Moved
<1>13. ASSUME NEW b \in Msgs, NEW t \in Topics, BroadcastMessage(b, t)
      PROVE  TargetBound'
  BY <1>13 DEF BroadcastMessage, TargetBound, clientVars, sessionVars
<1>14. ASSUME NEW g \in GoId, NEW h \in GoId, ConcurrentWrite(g, h)
      PROVE  TargetBound'
  BY <1>14 DEF ConcurrentWrite, TargetBound, clientVars, sessionVars
<1>15. CASE UNCHANGED vars
  BY <1>15 DEF vars, TargetBound
<1>16. QED
  BY <1>1, <1>2, <1>3, <1>4, <1>5, <1>6, <1>7, <1>8, <1>9, <1>10, <1>11, <1>12,
     <1>13, <1>14, <1>15 DEF
     Next, Step, Reader, HubSubscribe, HubUnsubscribe, HubEcho, Orders

\* The invariant holds initially.
LEMMA InitIndInv == Init => IndInv
<1> SUFFICES ASSUME Init PROVE IndInv
  OBVIOUS
<1> USE ConstAssumption
<1>1. TypeOK
  <2>1. NoGo \in GoState
    BY DEF NoGo, GoState, GoOf, GoPc
  <2>2. /\ go \in [GoId -> GoState]
        /\ \A g \in GoId : go[g].pc = "none"
    BY <2>1 DEF Init, NoGo
  <2>3. inbox \in [Sessions -> [Msgs -> Nat]]
    BY DEF Init
  <2>4. post \in [Msgs -> PostState]
    BY DEF Init, PostState
  <2>5. /\ clients \in [Conns -> Sessions \cup {None}]
        /\ topics \in [Sessions -> SUBSET Topics]
        /\ isClosing \in SUBSET Sessions
        /\ mu \in [Sessions -> GoId \cup {None}]
        /\ under \in [Conns -> Sessions \cup {None}]
        /\ broken \in SUBSET Sessions
        /\ conn \in [Sessions -> Conns \cup {None}]
    BY DEF Init
  <2>6. /\ reader \in [Sessions -> ReaderState]
        /\ cmd \in [Sessions -> Cmd \cup {NoCmd}]
    BY DEF Init, ReaderState
  <2>7. ncmd \in [Sessions -> 0..MaxCmds]
    BY DEF Init
  <2>8. panicked \in BOOLEAN
    BY DEF Init
  <2>9. QED
    BY <2>2, <2>3, <2>4, <2>5, <2>6, <2>7, <2>8 DEF TypeOK
<1>2. SessionBound /\ CommandNumbered /\ RegistrationBacked
  BY DEF Init, SessionBound, CommandNumbered, RegistrationBacked
<1>3. \A g \in GoId : go[g].pc = "none" /\ go[g].target = None
  BY DEF Init, NoGo
<1>4. CastGo \subseteq GoId
  BY DEF GoId
<1>5. GoStarted /\ WritersHoldMutex /\ CastOnce /\ TargetBound
  BY <1>3, <1>4 DEF Init, GoStarted, WritersHoldMutex, CastOnce, TargetBound,
     InFlight
<1>6. QED
  BY <1>1, <1>2, <1>5 DEF IndInv

\* IndInv is an inductive invariant of the hub.
THEOREM IndInvHolds == Spec => []IndInv
<1>1. IndInv /\ [Next]_vars => IndInv'
  BY TypeOKStep, SessionBoundStep, CommandNumberedStep,
     RegistrationBackedStep, GoStartedStep, WritersHoldMutexStep,
     CastOnceStep, TargetBoundStep DEF IndInv
<1>2. QED
  BY InitIndInv, <1>1, PTL DEF Spec

\* The variables of the hub keep their types.
THEOREM TypeCorrect == Spec => []TypeOK
<1>1. IndInv => TypeOK
  BY DEF IndInv
<1>2. QED
  BY IndInvHolds, <1>1, PTL

\* server.Clients holds no entry that nobody will remove: each belongs to a
\* session whose handler still has its deferred Unregister to run.
THEOREM ClientsBacked == Spec => []RegistrationBacked
<1>1. IndInv => RegistrationBacked
  BY DEF IndInv
<1>2. QED
  BY IndInvHolds, <1>1, PTL

\* A goroutine that is writing to a client, or closing it, is the only one.
THEOREM MutexHeld == Spec => []WritersHoldMutex
<1>1. IndInv => WritersHoldMutex
  BY DEF IndInv
<1>2. QED
  BY IndInvHolds, <1>1, PTL
=============================================================================
