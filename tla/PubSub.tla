------------------------------- MODULE PubSub -------------------------------
(***************************************************************************)
(* What the chat server promises its clients, without hub, mutexes or      *)
(* goroutines.  A session joins once and leaves once.  A broadcast is owed *)
(* to the sessions present when it is published; each of them gets it at   *)
(* most once, and only while it is subscribed to the topic, or never.      *)
(***************************************************************************)
EXTENDS Naturals

CONSTANTS Sessions, Topics, Msgs, None

VARIABLES
    member,   \* "new", "live" or "gone"
    subs,     \* the topics each session is subscribed to
    sent,     \* the topic a broadcast was published on, None before
    owed,     \* pairs <<broadcast, session>> still to be settled
    inbox     \* how often each session got each broadcast

vars == <<member, subs, sent, owed, inbox>>

Init ==
    /\ member = [s \in Sessions |-> "new"]
    /\ subs = [s \in Sessions |-> {}]
    /\ sent = [b \in Msgs |-> None]
    /\ owed = {}
    /\ inbox = [s \in Sessions |-> [b \in Msgs |-> 0]]

Join(s) ==
    /\ member[s] = "new"
    /\ member' = [member EXCEPT ![s] = "live"]
    /\ UNCHANGED <<subs, sent, owed, inbox>>

Leave(s) ==
    /\ member[s] = "live"
    /\ member' = [member EXCEPT ![s] = "gone"]
    /\ UNCHANGED <<subs, sent, owed, inbox>>

\* An order of the session takes effect, possibly after it has left.
Subscribe(s, t) ==
    /\ member[s] # "new"
    /\ subs' = [subs EXCEPT ![s] = @ \cup {t}]
    /\ UNCHANGED <<member, sent, owed, inbox>>

Unsubscribe(s, t) ==
    /\ member[s] # "new"
    /\ subs' = [subs EXCEPT ![s] = @ \ {t}]
    /\ UNCHANGED <<member, sent, owed, inbox>>

Publish(b, t) ==
    /\ sent[b] = None
    /\ sent' = [sent EXCEPT ![b] = t]
    /\ owed' = owed \cup {m \in {b} \X Sessions : member[m[2]] = "live"}
    /\ UNCHANGED <<member, subs, inbox>>

Deliver(b, s) ==
    /\ <<b, s>> \in owed
    /\ sent[b] \in subs[s]
    /\ owed' = owed \ {<<b, s>>}
    /\ inbox' = [inbox EXCEPT ![s][b] = @ + 1]
    /\ UNCHANGED <<member, subs, sent>>

Drop(b, s) ==
    /\ <<b, s>> \in owed
    /\ owed' = owed \ {<<b, s>>}
    /\ UNCHANGED <<member, subs, sent, inbox>>

Next ==
    \/ \E s \in Sessions : Join(s) \/ Leave(s)
    \/ \E s \in Sessions, t \in Topics : Subscribe(s, t) \/ Unsubscribe(s, t)
    \/ \E b \in Msgs, t \in Topics : Publish(b, t)
    \/ \E b \in Msgs, s \in Sessions : Deliver(b, s) \/ Drop(b, s)

Spec == Init /\ [][Next]_vars
=============================================================================
