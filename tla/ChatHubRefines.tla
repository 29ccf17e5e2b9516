--------------------------- MODULE ChatHubRefines ---------------------------
(***************************************************************************)
(* The chat server implements PubSub when Conn objects are not recycled    *)
(* (PoolReuse = FALSE).                                                    *)
(***************************************************************************)
EXTENDS MCChatHub

member ==
    [s \in Sessions |-> IF InHub(s) THEN "live"
                        ELSE IF reader[s] \in {"new", "registering"} THEN "new"
                        ELSE "gone"]

sent ==
    [b \in Msgs |-> IF post[b].state = "accepted" THEN post[b].topic ELSE None]

\* A goroutine owes its client the broadcast until it has written or given up.
Owing == {g \in CastGo : go[g].pc \in {"start", "ready", "writing"}}

owed == {<<g[1], go[g].client>> : g \in Owing}

Abstract == INSTANCE PubSub WITH subs <- topics

\* Broadcasts are delivered as PubSub allows: to the sessions that were in the
\* hub when the broadcast was accepted, each at most once, and with the
\* subscription still in force at the moment of the write, although hub,
\* readers and goroutines run concurrently.
ImplementsPubSub == Abstract!Spec
=============================================================================
