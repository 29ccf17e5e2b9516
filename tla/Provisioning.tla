---------------------------- MODULE Provisioning ----------------------------
(***************************************************************************)
(* The hosting of a community: the scheduler's tasks that create and       *)
(* delete its Railway service and its Cloudflare DNS record, the webhook   *)
(* that notes that the service is up, and the columns of communities in    *)
(* which both are remembered.                                              *)
(*                                                                         *)
(* asynq hands a task out again when the worker died, when the handler     *)
(* panicked, and when its time is up: the handler of the first attempt     *)
(* then goes on with a cancelled context.  An attempt names the service    *)
(* and the record it makes.  Who enqueues the tasks and who calls the      *)
(* webhook is outside the repository; a task is neither unique nor has it  *)
(* an id of its own, so a community may get several.  Names, domains and   *)
(* variables are left out, and the e-mail task, which keeps nothing.       *)
(***************************************************************************)
EXTENDS Naturals

CONSTANTS
    Comms,     \* communities
    Tasks,     \* bound: community:create tasks ever enqueued
    Attempts,  \* bound: times one of them is handed out
    None

ASSUME ProvisioningAssumption == None \notin Attempts /\ None \notin Comms

VARIABLES
    row,       \* communities: service, record and ready; None where deleted
    queue,     \* the tasks to hand out
    asked,     \* the community each task was enqueued for
    at,        \* the attempts
    services,  \* the services Railway has
    records,   \* the records Cloudflare has
    deployed,  \* the services that were connected to the source
    reported,  \* those whose success the webhook has taken in
    removals   \* services of deleted communities: what community:delete tasks
               \* may be enqueued for

vars == <<row, queue, asked, at, services, records, deployed, reported,
          removals>>

hosting == <<services, records, deployed>>

Row ==
    [service : Attempts \cup {None}, record : Attempts \cup {None},
     ready : BOOLEAN]

\* An attempt is at a call, or has ended: acknowledged (done), cleaned up after
\* (archived), or in a way that leaves its service.
Running == {"begin", "service", "domain", "variables", "dns", "update",
            "instance", "connect", "commit", "cleanup", "ack"}

Ended == {"done", "archived", "unanswered", "undeleted", "panicked", "crashed"}

Attempt ==
    [pc : {"idle"} \cup Running \cup Ended, task : Tasks \cup {None},
     comm : Comms \cup {None}, live : BOOLEAN]

NoAttempt == [pc |-> "idle", task |-> None, comm |-> None, live |-> FALSE]

Init ==
    /\ row = [c \in Comms |-> [service |-> None, record |-> None,
                               ready |-> FALSE]]
    /\ queue = {} /\ asked = [t \in Tasks |-> None]
    /\ at = [a \in Attempts |-> NoAttempt]
    /\ services = {} /\ records = {} /\ deployed = {}
    /\ reported = {} /\ removals = {}

-----------------------------------------------------------------------------

Goto(a, pc) == at' = [at EXCEPT ![a].pc = pc]

\* The lock its UPDATE took on the row of the community: the transaction is
\* rolled back when the context is cancelled.
Locks(a, c) ==
    /\ at[a].comm = c /\ at[a].live
    /\ at[a].pc \in {"instance", "connect", "commit"}

\* NewCreateCommunityTask, enqueued.
Enqueue(t, c) ==
    /\ asked[t] = None
    /\ asked' = [asked EXCEPT ![t] = c]
    /\ queue' = queue \cup {t}
    /\ UNCHANGED <<row, at, hosting, reported, removals>>

\* asynq gives the task to a worker.
HandOut(a, t) ==
    /\ at[a].pc = "idle"
    /\ t \in queue
    /\ queue' = queue \ {t}
    /\ at' = [at EXCEPT ![a] = [pc |-> "begin", task |-> t, comm |-> asked[t],
                                live |-> TRUE]]
    /\ UNCHANGED <<row, asked, hosting, reported, removals>>

\* BEGIN and the SELECT of the community.
GetCommunity(a) ==
    /\ at[a].pc = "begin" /\ at[a].live
    /\ row[at[a].comm] # None
    /\ Goto(a, "service")
    /\ UNCHANGED <<row, queue, asked, hosting, reported, removals>>

\* The community is gone, or something failed before there is a service:
\* rolled back, and not to be retried.
GiveUp(a) ==
    /\ at[a].pc \in {"begin", "service"}
    /\ Goto(a, "archived")
    /\ UNCHANGED <<row, queue, asked, hosting, reported, removals>>

ServiceCreate(a) ==
    /\ at[a].pc = "service"
    /\ services' = services \cup {a}
    /\ Goto(a, "domain")
    /\ UNCHANGED <<row, queue, asked, records, deployed, reported, removals>>

\* The service is made and the answer is lost: an error, and no id to clean up.
ServiceCreateUnanswered(a) ==
    /\ at[a].pc = "service"
    /\ services' = services \cup {a}
    /\ Goto(a, "unanswered")
    /\ UNCHANGED <<row, queue, asked, records, deployed, reported, removals>>

\* CustomDomainCreate; VariableCollectionUpsert, and the look for an address
\* among the domain's DNS records; ServiceInstanceUpdate.
Configure(a) ==
    /\ \/ at[a].pc = "domain" /\ Goto(a, "variables")
       \/ at[a].pc = "variables" /\ Goto(a, "dns")
       \/ at[a].pc = "instance" /\ Goto(a, "connect")
    /\ UNCHANGED <<row, queue, asked, hosting, reported, removals>>

CreateDNSRecord(a) ==
    /\ at[a].pc = "dns" /\ at[a].live
    /\ records' = records \cup {a}
    /\ Goto(a, "update")
    /\ UNCHANGED <<row, queue, asked, services, deployed, reported, removals>>

\* What the row of the community becomes.
Hosted(r, a) ==
    IF r = None THEN None ELSE [r EXCEPT !.service = a, !.record = a]

\* Mutant: the UPDATE is made outside the transaction.
UpdateCommunity_NoTx(a) ==
    /\ at[a].pc = "update" /\ at[a].live
    /\ ~\E x \in Attempts : Locks(x, at[a].comm)
    /\ row' = [row EXCEPT ![at[a].comm] = Hosted(@, a)]
    /\ Goto(a, "instance")
    /\ UNCHANGED <<queue, asked, hosting, reported, removals>>

\* UPDATE communities, of no row if the community is gone.
UpdateCommunity(a) ==
    /\ at[a].pc = "update" /\ at[a].live
    /\ ~\E x \in Attempts : Locks(x, at[a].comm)
    /\ Goto(a, "instance")
    /\ UNCHANGED <<row, queue, asked, hosting, reported, removals>>

\* From now on the service is deployed, and the webhook may be called.
ServiceConnect(a) ==
    /\ at[a].pc = "connect"
    /\ deployed' = deployed \cup {a}
    /\ Goto(a, "commit")
    /\ UNCHANGED <<row, queue, asked, services, records, reported, removals>>

Commit(a) ==
    /\ at[a].pc = "commit" /\ at[a].live
    /\ row' = [row EXCEPT ![at[a].comm] = Hosted(@, a)]
    /\ Goto(a, "ack")
    /\ UNCHANGED <<queue, asked, hosting, reported, removals>>

\* The task is acknowledged, unless its time was up.
Ack(a) ==
    /\ at[a].pc = "ack"
    /\ Goto(a, "done")
    /\ UNCHANGED <<row, queue, asked, hosting, reported, removals>>

-----------------------------------------------------------------------------
(***************************************************************************)
(* Errors.                                                                 *)
(***************************************************************************)

\* Any call after ServiceCreate fails: cleanupAndReturn rolls back.  It is not
\* given the id of the DNS record.
StepFails(a) ==
    /\ at[a].pc \in {"domain", "variables", "dns", "update", "instance",
                     "connect"}
    /\ Goto(a, "cleanup")
    /\ UNCHANGED <<row, queue, asked, hosting, reported, removals>>

\* ServiceDelete; its error is not looked at.
Cleanup(a) ==
    /\ at[a].pc = "cleanup"
    /\ \/ services' = services \ {a} /\ Goto(a, "archived")
       \/ UNCHANGED services /\ Goto(a, "undeleted")
    /\ UNCHANGED <<row, queue, asked, records, deployed, reported, removals>>

\* Commit fails, with or without effect: cleanupAndReturn calls DeleteDNSRecord
\* with a nil zone, which panics before it gets to ServiceDelete.  asynq
\* recovers and puts the task back.
CommitFails(a) ==
    LET c == at[a].comm
    IN  /\ at[a].pc = "commit"
        /\ \/ UNCHANGED row
           \/ at[a].live /\ row' = [row EXCEPT ![c] = Hosted(@, a)]
        /\ Goto(a, "panicked")
        /\ queue' = IF at[a].live THEN queue \cup {at[a].task} ELSE queue
        /\ UNCHANGED <<asked, hosting, reported, removals>>

\* The time of the task is up: asynq cancels the context and puts the task
\* back, and the handler runs on.
Timeout(a) ==
    /\ at[a].pc \in Running /\ at[a].live
    /\ at' = [at EXCEPT ![a].live = FALSE]
    /\ queue' = queue \cup {at[a].task}
    /\ UNCHANGED <<row, asked, hosting, reported, removals>>

\* The scheduler dies and is started again; asynq puts its tasks back.
Crash ==
    LET dead == {a \in Attempts : at[a].pc \in Running}
    IN  /\ dead # {}
        /\ at' = [a \in Attempts |->
                    IF a \in dead THEN [at[a] EXCEPT !.pc = "crashed"]
                    ELSE at[a]]
        /\ queue' = queue \cup {at[a].task : a \in {x \in dead : at[x].live}}
        /\ UNCHANGED <<row, asked, hosting, reported, removals>>

-----------------------------------------------------------------------------

\* Mutant: the community is looked for first, by a SELECT that waits for nobody.
RailwayServiceWebhook_Selects(a) ==
    /\ a \in deployed \ reported
    /\ row' = [c \in Comms |->
                 IF row[c] # None /\ row[c].service = a
                 THEN [row[c] EXCEPT !.ready = TRUE] ELSE row[c]]
    /\ reported' = reported \cup {a}
    /\ UNCHANGED <<queue, asked, at, hosting, removals>>

\* Railway reports "success": UPDATE communities SET ready by the unique
\* railway_service_id, which waits for whoever is changing that to or from a.
\* (Other statuses change nothing but railway_deploy_status.)
RailwayServiceWebhook(a) ==
    /\ a \in deployed \ reported
    /\ \A x \in Attempts, c \in Comms : Locks(x, c) =>
          x # a /\ (row[c] # None => row[c].service # a)
    /\ row' = [c \in Comms |->
                 IF row[c] # None /\ row[c].service = a
                 THEN [row[c] EXCEPT !.ready = TRUE] ELSE row[c]]
    /\ reported' = reported \cup {a}
    /\ UNCHANGED <<queue, asked, at, hosting, removals>>

\* Mutant: a service id that is NULL is taken for one.
DeleteCommunity_Null(c) ==
    /\ row[c] # None
    /\ ~\E x \in Attempts : Locks(x, c)
    /\ row' = [row EXCEPT ![c] = None]
    /\ removals' = removals \cup {row[c].service}
    /\ UNCHANGED <<queue, asked, at, hosting, reported>>

\* The handler DeleteCommunity deletes the row.  It enqueues nothing; whoever
\* does, enqueues a task for the service the row named.
DeleteCommunity(c) ==
    /\ row[c] # None
    /\ ~\E x \in Attempts : Locks(x, c)
    /\ row' = [row EXCEPT ![c] = None]
    /\ removals' = removals \cup ({row[c].service} \ {None})
    /\ UNCHANGED <<queue, asked, at, hosting, reported>>

\* NewDeleteCommunityTask is enqueued and handed out: DeleteDNSRecord and
\* ServiceDelete; an error of either is not looked at.
HandleDeleteCommunityTask(a) ==
    /\ a \in removals
    /\ records' \in {records, records \ {a}}
    /\ services' \in {services, services \ {a}}
    /\ removals' = removals \ {a}
    /\ UNCHANGED <<row, queue, asked, at, deployed, reported>>

-----------------------------------------------------------------------------

\* HandleCreateCommunityTask
Handler(a) ==
    \/ GetCommunity(a) \/ GiveUp(a)
    \/ ServiceCreate(a) \/ ServiceCreateUnanswered(a)
    \/ Configure(a) \/ CreateDNSRecord(a) \/ UpdateCommunity(a)
    \/ ServiceConnect(a) \/ Commit(a) \/ Ack(a)
    \/ StepFails(a) \/ Cleanup(a) \/ CommitFails(a)

\* No task is being handled.
Rest ==
    /\ \A a \in Attempts : at[a].pc \in {"idle"} \cup Ended
    /\ UNCHANGED vars

Next ==
    \/ \E t \in Tasks, c \in Comms : Enqueue(t, c)
    \/ \E a \in Attempts, t \in Tasks : HandOut(a, t)
    \/ \E c \in Comms : DeleteCommunity(c)
    \/ \E a \in Attempts :
          \/ Handler(a) \/ Timeout(a)
          \/ RailwayServiceWebhook(a) \/ HandleDeleteCommunityTask(a)
    \/ Crash
    \/ Rest

Spec == Init /\ [][Next]_vars

-----------------------------------------------------------------------------

\* Every variable has its type.
TypeOK ==
    /\ row \in [Comms -> Row \cup {None}]
    /\ queue \in SUBSET Tasks /\ asked \in [Tasks -> Comms \cup {None}]
    /\ at \in [Attempts -> Attempt]
    /\ services \in SUBSET Attempts /\ records \in SUBSET Attempts
    /\ deployed \in SUBSET Attempts /\ reported \in SUBSET Attempts
    /\ removals \in SUBSET Attempts

\* The row of the community is gone, or names the service of a, or one that
\* another task has made since.
NamedOrReplaced(a) ==
    LET r == row[at[a].comm]
    IN  \/ r = None
        \/ r.service = a
        \/ r.service # None /\ at[r.service].task # at[a].task

\* The service and the record that a community names exist, whatever attempts
\* fail, time out, clean up or are made again; and a service whose attempt ran
\* to its end, acknowledged or cleaned up after, is named by its community,
\* unless that was deleted meanwhile or another task was enqueued for it: no
\* attempt of the same task takes its place.
ServicesMatchRows ==
    /\ \A c \in Comms : row[c] # None /\ row[c].service # None =>
          row[c].service \in services /\ row[c].record \in records
    /\ \A a \in services :
          /\ at[a].pc # "archived"
          /\ at[a].pc = "done" /\ at[a].live => NamedOrReplaced(a)

\* A success that RailwayServiceWebhook has taken in for the service a
\* community names is not lost, although Railway may report it before the
\* transaction that names the service has committed.
ReadyNotLost ==
    \A c \in Comms :
        row[c] # None /\ row[c].service \in reported => row[c].ready

-----------------------------------------------------------------------------
(***************************************************************************)
(* The inductive invariant.                                                *)
(***************************************************************************)

\* The places where the row of a community may already name an attempt.
Named == {"ack", "done", "panicked", "crashed"}

\* An attempt that was handed out is one at a task that was enqueued.
AttemptsAsked ==
    /\ \A t \in queue : asked[t] # None
    /\ \A a \in Attempts : at[a].pc # "idle" =>
          /\ at[a].task \in Tasks
          /\ asked[at[a].task] = at[a].comm /\ at[a].comm \in Comms

\* A task is in the queue, with one attempt whose context lives, or was
\* acknowledged; never two of these.
OneHolder ==
    /\ \A a \in Attempts :
          at[a].live /\ at[a].pc \in Running \cup {"done"} =>
             at[a].task \notin queue
    /\ \A a, b \in Attempts :
          /\ at[a].live /\ at[a].pc \in Running \cup {"done"}
          /\ at[b].live /\ at[b].pc \in Running \cup {"done"}
          /\ at[a].task = at[b].task
          => a = b

\* What Railway and Cloudflare have, by how far the attempt is that makes it.
HostsFollow ==
    \A a \in Attempts :
        /\ a \in services =>
              at[a].pc \notin {"idle", "begin", "service", "archived"}
        /\ at[a].pc \in {"domain", "variables", "dns", "update", "instance",
                          "connect", "commit", "cleanup"} => a \in services
        /\ at[a].pc \in {"update", "instance", "connect", "commit"} =>
              a \in records
        /\ a \in deployed => at[a].pc \in Named \cup {"commit"}
        /\ a \in reported => a \in deployed

\* A community names an attempt of its own that got as far as the commit and
\* whose service and record nobody is about to delete.
RowsNamed ==
    \A c \in Comms : row[c] # None /\ row[c].service # None =>
        LET a == row[c].service
        IN  /\ row[c].record = a
            /\ at[a].comm = c /\ at[a].pc \in Named
            /\ a \in services /\ a \in records /\ a \notin removals

\* What is to be removed belonged to a community that is gone.
RemovalsGone ==
    \A a \in removals : at[a].pc \in Named /\ row[at[a].comm] = None

\* An attempt that has committed in time is the one its community names, until
\* another task's is.
CommittedNamed ==
    \A a \in Attempts :
        at[a].live /\ at[a].pc \in {"ack", "done"} => NamedOrReplaced(a)

\* No success is reported while the transaction that will name the service is
\* open: the webhook waits for it.
ReportWaits ==
    \A a \in Attempts :
        at[a].live /\ at[a].pc = "commit" => a \notin reported

IndInv ==
    /\ TypeOK /\ AttemptsAsked /\ OneHolder /\ HostsFollow /\ RowsNamed
    /\ RemovalsGone /\ CommittedNamed /\ ReportWaits /\ ReadyNotLost
=============================================================================
