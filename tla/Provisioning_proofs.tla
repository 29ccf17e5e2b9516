------------------------ MODULE Provisioning_proofs ------------------------
(***************************************************************************)
(* Proofs about Provisioning, for any communities and attempts.  IndInv,   *)
(* the inductive invariant, is in Provisioning.  Many steps of a handler   *)
(* only move its attempt along; QuietStep says once what they keep.        *)
(***************************************************************************)
EXTENDS Provisioning, TLAPS

-----------------------------------------------------------------------------

\* Goto changes the place of one attempt and nothing else.
LEMMA GotoFacts ==
  ASSUME TypeOK, NEW a \in Attempts,
         NEW pc \in {"idle"} \cup Running \cup Ended, Goto(a, pc)
  PROVE  /\ at' \in [Attempts -> Attempt]
         /\ at'[a].pc = pc
         /\ at'[a].task = at[a].task /\ at'[a].comm = at[a].comm
         /\ at'[a].live = at[a].live
         /\ \A x \in Attempts \ {a} : at'[x] = at[x]
BY DEF TypeOK, Attempt, Goto

\* What committed stays named, when no row is given another service.
LEMMA CommittedStays ==
  ASSUME IndInv,
         \A c \in Comms : \/ row'[c] = None
                          \/ row[c] # None /\ row'[c].service = row[c].service,
         \A x \in Attempts : at[x].pc # "idle" =>
            at'[x].task = at[x].task /\ at'[x].comm = at[x].comm,
         \A x \in Attempts : at'[x].live /\ at'[x].pc \in {"ack", "done"} =>
            at[x].live /\ at[x].pc \in {"ack", "done"}
  PROVE  CommittedNamed'
<1> USE DEF IndInv
<1> SUFFICES ASSUME NEW x \in Attempts,
                    at'[x].live, at'[x].pc \in {"ack", "done"}
             PROVE  NamedOrReplaced(x)'
  BY DEF CommittedNamed
<1>1. /\ NamedOrReplaced(x) /\ at'[x].task = at[x].task
      /\ at'[x].comm = at[x].comm /\ at[x].comm \in Comms
  BY DEF CommittedNamed, AttemptsAsked
<1>2. PICK c \in Comms : c = at[x].comm
  BY <1>1
<1>3. ASSUME NEW y, row[c] # None, row[c].service = y, y # None
      PROVE  at'[y].task = at[y].task
  BY <1>3 DEF RowsNamed, TypeOK, Row, Named
<1>4. QED
  BY <1>1, <1>2, <1>3 DEF NamedOrReplaced

\* An attempt moves on from a place before the commit, or to its
\* acknowledgement, while tables and hosts stay as they are.
LEMMA QuietStep ==
  ASSUME IndInv, NEW a \in Attempts,
         NEW pc \in Running \cup Ended, Goto(a, pc),
         at[a].pc \in Running \ {"commit", "cleanup"},
         UNCHANGED <<row, queue, asked, hosting, reported, removals>>,
         at[a].pc = "ack" <=> pc = "done",
         pc \notin {"ack", "panicked", "crashed", "undeleted", "unanswered",
                    "commit"},
         pc \in {"begin", "service", "archived"} =>
            at[a].pc \in {"begin", "service"},
         pc \in {"domain", "variables", "dns", "cleanup"} =>
            at[a].pc \notin {"begin", "service"},
         pc \in {"update", "instance", "connect"} =>
            at[a].pc \in {"update", "instance", "connect"}
  PROVE  IndInv'
<1> USE DEF IndInv
<1>1. /\ at' \in [Attempts -> Attempt]
      /\ at'[a].pc = pc
      /\ at'[a].task = at[a].task /\ at'[a].comm = at[a].comm
      /\ at'[a].live = at[a].live
      /\ \A x \in Attempts \ {a} : at'[x] = at[x]
  BY GotoFacts
<1>2. at[a].pc \notin Named \/ at[a].pc = "ack"
  BY DEF Running, Named
<1>3. TypeOK'
  BY <1>1 DEF TypeOK, hosting
<1>4. AttemptsAsked'
  BY <1>1 DEF AttemptsAsked, Running
<1>5. OneHolder'
  BY <1>1 DEF OneHolder
<1>6. HostsFollow'
  BY <1>1 DEF HostsFollow, hosting, Named, Running, Ended
<1>7. RowsNamed'
  BY <1>1, <1>2 DEF RowsNamed, TypeOK, Row, hosting, Named
<1>8. RemovalsGone'
  BY <1>1, <1>2 DEF RemovalsGone, TypeOK, Named
<1>9. CommittedNamed'
  BY <1>1, CommittedStays
<1>10. ReportWaits'
  BY <1>1 DEF ReportWaits
<1>11. ReadyNotLost'
  BY DEF ReadyNotLost
<1>12. QED
  BY <1>3, <1>4, <1>5, <1>6, <1>7, <1>8, <1>9, <1>10, <1>11
-----------------------------------------------------------------------------
(***************************************************************************)
(* The steps of the handler.                                               *)
(***************************************************************************)

\* The SELECT of the community.
LEMMA GetCommunityInd ==
  ASSUME IndInv, NEW a \in Attempts, GetCommunity(a)
  PROVE  IndInv'
BY QuietStep DEF GetCommunity, Running, Ended, hosting

\* An error before there is a service.
LEMMA GiveUpInd ==
  ASSUME IndInv, NEW a \in Attempts, GiveUp(a)
  PROVE  IndInv'
BY QuietStep DEF GiveUp, Running, Ended, hosting

\* The calls that configure the service.
LEMMA ConfigureInd ==
  ASSUME IndInv, NEW a \in Attempts, Configure(a)
  PROVE  IndInv'
<1>1. CASE at[a].pc = "domain" /\ Goto(a, "variables")
  BY <1>1, QuietStep DEF Configure, Running, Ended
<1>2. CASE at[a].pc = "variables" /\ Goto(a, "dns")
  BY <1>2, QuietStep DEF Configure, Running, Ended
<1>3. CASE at[a].pc = "instance" /\ Goto(a, "connect")
  BY <1>3, QuietStep DEF Configure, Running, Ended
<1>4. QED
  BY <1>1, <1>2, <1>3 DEF Configure

\* The UPDATE, which nobody sees yet.
LEMMA UpdateCommunityInd ==
  ASSUME IndInv, NEW a \in Attempts, UpdateCommunity(a)
  PROVE  IndInv'
BY QuietStep DEF UpdateCommunity, Running, Ended, hosting

\* The task is acknowledged.
LEMMA AckInd ==
  ASSUME IndInv, NEW a \in Attempts, Ack(a)
  PROVE  IndInv'
BY QuietStep DEF Ack, Running, Ended, hosting

\* A call fails.
LEMMA StepFailsInd ==
  ASSUME IndInv, NEW a \in Attempts, StepFails(a)
  PROVE  IndInv'
BY QuietStep DEF StepFails, Running, Ended, hosting

\* The service is made.
LEMMA ServiceCreateInd ==
  ASSUME IndInv, NEW a \in Attempts, ServiceCreate(a)
  PROVE  IndInv'
<1> USE DEF IndInv
<1>1. /\ at' \in [Attempts -> Attempt]
      /\ at'[a].pc = "domain"
      /\ at'[a].task = at[a].task /\ at'[a].comm = at[a].comm
      /\ at'[a].live = at[a].live
      /\ \A x \in Attempts \ {a} : at'[x] = at[x]
  BY GotoFacts DEF ServiceCreate, Running, Ended
<1>2. TypeOK'
  BY <1>1 DEF TypeOK, ServiceCreate, hosting
<1>3. AttemptsAsked'
  BY <1>1 DEF AttemptsAsked, ServiceCreate
<1>4. OneHolder'
  BY <1>1 DEF OneHolder, ServiceCreate, Running
<1>5. HostsFollow'
  BY <1>1 DEF HostsFollow, ServiceCreate, Named, hosting
<1>6. RowsNamed'
  BY <1>1 DEF RowsNamed, TypeOK, Row, ServiceCreate, Named, hosting
<1>7. RemovalsGone'
  BY <1>1 DEF RemovalsGone, TypeOK, ServiceCreate, Named
<1>8. CommittedNamed'
  BY <1>1, CommittedStays DEF ServiceCreate
<1>9. ReportWaits'
  BY <1>1 DEF ReportWaits, ServiceCreate
<1>10. ReadyNotLost'
  BY <1>1 DEF ReadyNotLost, ServiceCreate
<1>11. QED
  BY <1>2, <1>3, <1>4, <1>5, <1>6, <1>7, <1>8, <1>9, <1>10

\* The service is made and the answer lost.
LEMMA ServiceCreateUnansweredInd ==
  ASSUME IndInv, NEW a \in Attempts, ServiceCreateUnanswered(a)
  PROVE  IndInv'
<1> USE DEF IndInv
<1>1. /\ at' \in [Attempts -> Attempt]
      /\ at'[a].pc = "unanswered"
      /\ at'[a].task = at[a].task /\ at'[a].comm = at[a].comm
      /\ at'[a].live = at[a].live
      /\ \A x \in Attempts \ {a} : at'[x] = at[x]
  BY GotoFacts DEF ServiceCreateUnanswered, Running, Ended
<1>2. TypeOK'
  BY <1>1 DEF TypeOK, ServiceCreateUnanswered, hosting
<1>3. AttemptsAsked'
  BY <1>1 DEF AttemptsAsked, ServiceCreateUnanswered
<1>4. OneHolder'
  BY <1>1 DEF OneHolder, ServiceCreateUnanswered, Running
<1>5. HostsFollow'
  BY <1>1 DEF HostsFollow, ServiceCreateUnanswered, Named, hosting
<1>6. RowsNamed'
  BY <1>1 DEF RowsNamed, TypeOK, Row, ServiceCreateUnanswered, Named, hosting
<1>7. RemovalsGone'
  BY <1>1 DEF RemovalsGone, TypeOK, ServiceCreateUnanswered, Named
<1>8. CommittedNamed'
  BY <1>1, CommittedStays DEF ServiceCreateUnanswered
<1>9. ReportWaits'
  BY <1>1 DEF ReportWaits, ServiceCreateUnanswered
<1>10. ReadyNotLost'
  BY <1>1 DEF ReadyNotLost, ServiceCreateUnanswered
<1>11. QED
  BY <1>2, <1>3, <1>4, <1>5, <1>6, <1>7, <1>8, <1>9, <1>10

\* The record is made.
LEMMA CreateDNSRecordInd ==
  ASSUME IndInv, NEW a \in Attempts, CreateDNSRecord(a)
  PROVE  IndInv'
<1> USE DEF IndInv
<1>1. /\ at' \in [Attempts -> Attempt]
      /\ at'[a].pc = "update"
      /\ at'[a].task = at[a].task /\ at'[a].comm = at[a].comm
      /\ at'[a].live = at[a].live
      /\ \A x \in Attempts \ {a} : at'[x] = at[x]
  BY GotoFacts DEF CreateDNSRecord, Running, Ended
<1>2. TypeOK'
  BY <1>1 DEF TypeOK, CreateDNSRecord, hosting
<1>3. AttemptsAsked'
  BY <1>1 DEF AttemptsAsked, CreateDNSRecord
<1>4. OneHolder'
  BY <1>1 DEF OneHolder, CreateDNSRecord, Running
<1>5. HostsFollow'
  BY <1>1 DEF HostsFollow, CreateDNSRecord, Named, hosting
<1>6. RowsNamed'
  BY <1>1 DEF RowsNamed, TypeOK, Row, CreateDNSRecord, Named, hosting
<1>7. RemovalsGone'
  BY <1>1 DEF RemovalsGone, TypeOK, CreateDNSRecord, Named
<1>8. CommittedNamed'
  BY <1>1, CommittedStays DEF CreateDNSRecord
<1>9. ReportWaits'
  BY <1>1 DEF ReportWaits, CreateDNSRecord
<1>10. ReadyNotLost'
  BY <1>1 DEF ReadyNotLost, CreateDNSRecord
<1>11. QED
  BY <1>2, <1>3, <1>4, <1>5, <1>6, <1>7, <1>8, <1>9, <1>10

\* The service is connected: no success can have been reported yet.
LEMMA ServiceConnectInd ==
  ASSUME IndInv, NEW a \in Attempts, ServiceConnect(a)
  PROVE  IndInv'
<1> USE DEF IndInv
<1>1. /\ at' \in [Attempts -> Attempt]
      /\ at'[a].pc = "commit"
      /\ at'[a].task = at[a].task /\ at'[a].comm = at[a].comm
      /\ at'[a].live = at[a].live
      /\ \A x \in Attempts \ {a} : at'[x] = at[x]
  BY GotoFacts DEF ServiceConnect, Running, Ended
<1>2. TypeOK'
  BY <1>1 DEF TypeOK, ServiceConnect, hosting
<1>3. AttemptsAsked'
  BY <1>1 DEF AttemptsAsked, ServiceConnect
<1>4. OneHolder'
  BY <1>1 DEF OneHolder, ServiceConnect, Running
<1>5. HostsFollow'
  BY <1>1 DEF HostsFollow, ServiceConnect, Named, hosting
<1>6. RowsNamed'
  BY <1>1 DEF RowsNamed, TypeOK, Row, ServiceConnect, Named, hosting
<1>7. RemovalsGone'
  BY <1>1 DEF RemovalsGone, TypeOK, ServiceConnect, Named
<1>8. CommittedNamed'
  BY <1>1, CommittedStays DEF ServiceConnect
<1>9. ReportWaits'
  BY <1>1 DEF ReportWaits, HostsFollow, Named, ServiceConnect
<1>10. ReadyNotLost'
  BY <1>1 DEF ReadyNotLost, ServiceConnect
<1>11. QED
  BY <1>2, <1>3, <1>4, <1>5, <1>6, <1>7, <1>8, <1>9, <1>10

\* What Hosted does to the rows.
LEMMA HostedFacts ==
  ASSUME TypeOK, NEW a \in Attempts, NEW c \in Comms,
         row' = [row EXCEPT ![c] = Hosted(@, a)]
  PROVE  /\ row' \in [Comms -> Row \cup {None}]
         /\ \A d \in Comms \ {c} : row'[d] = row[d]
         /\ row[c] = None => row'[c] = None
         /\ row'[c] # None => /\ row[c] \in Row
                              /\ row'[c].service = a /\ row'[c].record = a
                              /\ row'[c].ready = row[c].ready
BY DEF TypeOK, Row, Hosted

\* The row names the attempt from now on, whether the commit is answered or
\* not: no other attempt of its community is to, since only one has a context
\* that lives.
LEMMA CommitStep ==
  ASSUME IndInv, NEW a \in Attempts,
         NEW pc \in {"ack", "panicked"}, Goto(a, pc),
         at[a].pc = "commit", at[a].live,
         row' = [row EXCEPT ![at[a].comm] = Hosted(@, a)],
         pc = "ack" => queue' = queue,
         pc = "panicked" => queue' = queue \cup {at[a].task},
         UNCHANGED <<asked, hosting, reported, removals>>
  PROVE  IndInv'
<1> USE DEF IndInv
<1>1. /\ at' \in [Attempts -> Attempt]
      /\ at'[a].pc = pc
      /\ at'[a].task = at[a].task /\ at'[a].comm = at[a].comm
      /\ at'[a].live = at[a].live
      /\ \A x \in Attempts \ {a} : at'[x] = at[x]
  BY GotoFacts DEF Running, Ended
<1>2. PICK c \in Comms :
         at[a].comm = c /\ row' = [row EXCEPT ![c] = Hosted(@, a)]
  BY DEF AttemptsAsked, TypeOK
<1>3. /\ row' \in [Comms -> Row \cup {None}]
      /\ \A d \in Comms \ {c} : row'[d] = row[d]
      /\ row[c] = None => row'[c] = None
      /\ row'[c] # None => /\ row[c] \in Row
                           /\ row'[c].service = a /\ row'[c].record = a
                           /\ row'[c].ready = row[c].ready
  BY <1>2, HostedFacts
<1>4. at[a].task \in Tasks /\ asked[at[a].task] # None
  BY ProvisioningAssumption DEF IndInv, AttemptsAsked
<1>5. queue' \in {queue, queue \cup {at[a].task}}
  BY <1>1
<1>6. TypeOK'
  BY <1>1, <1>3, <1>4, <1>5 DEF TypeOK, hosting
<1>7. AttemptsAsked'
  BY <1>1, <1>4, <1>5 DEF AttemptsAsked
<1>8. OneHolder'
  BY <1>1, <1>2, <1>3 DEF OneHolder, Running
<1>9. HostsFollow'
  BY <1>1, <1>2, <1>3 DEF HostsFollow, Named, hosting
<1>10. RowsNamed'
  BY <1>1, <1>2, <1>3 DEF RowsNamed, HostsFollow, RemovalsGone, TypeOK, Row, Named,
                          hosting
<1>11. RemovalsGone'
  BY <1>1, <1>2, <1>3 DEF RemovalsGone, TypeOK, Named
<1>12. CommittedNamed'
  <2> SUFFICES ASSUME NEW x \in Attempts,
                      at'[x].live, at'[x].pc \in {"ack", "done"}
               PROVE  NamedOrReplaced(x)'
    BY DEF CommittedNamed
  <2>1. CASE x = a
    BY <1>1, <1>2, <1>3, <2>1 DEF NamedOrReplaced
  <2>2. CASE x # a
    <3>1. /\ at'[x] = at[x] /\ NamedOrReplaced(x) /\ at[x].comm \in Comms
          /\ at[x].task # at[a].task
      BY <1>1, <2>2 DEF CommittedNamed, AttemptsAsked, OneHolder, Running
    <3>2. CASE at[x].comm = c
      <4>1. row'[c] = None \/ row'[c].service = a
        BY <1>3
      <4>2. a # None
        BY ProvisioningAssumption
      <4>3. QED
        BY <1>1, <3>1, <3>2, <4>1, <4>2 DEF NamedOrReplaced
    <3>3. CASE at[x].comm # c
      <4>1. PICK d \in Comms : d = at[x].comm /\ row'[d] = row[d]
        BY <1>3, <3>1, <3>3
      <4>2. ASSUME NEW y, row[d] # None, row[d].service = y, y # None
            PROVE  at'[y].task = at[y].task
        BY <1>1, <4>2 DEF RowsNamed, TypeOK, Row
      <4>3. QED
        BY <3>1, <4>1, <4>2 DEF NamedOrReplaced
    <3>4. QED
      BY <3>2, <3>3
  <2>3. QED
    BY <2>1, <2>2
<1>13. ReportWaits'
  BY <1>1 DEF ReportWaits
<1>14. ReadyNotLost'
  BY <1>1, <1>2, <1>3 DEF ReadyNotLost, ReportWaits
<1>15. QED
  BY <1>6, <1>7, <1>8, <1>9, <1>10, <1>11, <1>12, <1>13, <1>14

\* The commit, answered.
LEMMA CommitInd ==
  ASSUME IndInv, NEW a \in Attempts, Commit(a)
  PROVE  IndInv'
BY CommitStep DEF Commit

\* The commit fails without effect.
LEMMA NoCommit ==
  ASSUME IndInv, NEW a \in Attempts,
         Goto(a, "panicked"), at[a].pc = "commit",
         queue' = IF at[a].live THEN queue \cup {at[a].task} ELSE queue,
         UNCHANGED <<row, asked, hosting, reported, removals>>
  PROVE  IndInv'
<1> USE DEF IndInv
<1>1. /\ at' \in [Attempts -> Attempt]
      /\ at'[a].pc = "panicked"
      /\ at'[a].task = at[a].task /\ at'[a].comm = at[a].comm
      /\ at'[a].live = at[a].live
      /\ \A x \in Attempts \ {a} : at'[x] = at[x]
  BY GotoFacts DEF Running, Ended
<1>2. /\ at[a].comm \in Comms /\ at[a].task \in Tasks
      /\ asked[at[a].task] # None
  BY ProvisioningAssumption DEF AttemptsAsked
<1>3. TypeOK'
  BY <1>1, <1>2 DEF TypeOK, hosting
<1>4. AttemptsAsked'
  BY <1>1, <1>2 DEF AttemptsAsked
<1>5. OneHolder'
  BY <1>1, <1>2 DEF OneHolder, Running
<1>6. HostsFollow'
  BY <1>1, <1>2 DEF HostsFollow, Named, hosting
<1>7. RowsNamed'
  BY <1>1, <1>2 DEF RowsNamed, TypeOK, Row, Named, hosting
<1>8. RemovalsGone'
  BY <1>1, <1>2 DEF RemovalsGone, TypeOK, Named
<1>9. CommittedNamed'
  BY <1>1, <1>2, CommittedStays
<1>10. ReportWaits'
  BY <1>1 DEF ReportWaits
<1>11. ReadyNotLost'
  BY DEF ReadyNotLost
<1>12. QED
  BY <1>3, <1>4, <1>5, <1>6, <1>7, <1>8, <1>9, <1>10, <1>11

\* Commit fails, with or without effect.
LEMMA CommitFailsInd ==
  ASSUME IndInv, NEW a \in Attempts, CommitFails(a)
  PROVE  IndInv'
<1>1. CASE UNCHANGED row
  BY <1>1, NoCommit DEF CommitFails
<1>2. CASE /\ at[a].live
           /\ row' = [row EXCEPT ![at[a].comm] = Hosted(@, a)]
  BY <1>2, CommitStep DEF CommitFails
<1>3. QED
  BY <1>1, <1>2 DEF CommitFails

\* ServiceDelete: the row does not name what is deleted.
LEMMA CleanupInd ==
  ASSUME IndInv, NEW a \in Attempts, Cleanup(a)
  PROVE  IndInv'
<1> USE DEF IndInv
<1>1. /\ at' \in [Attempts -> Attempt]
      /\ at'[a].pc \in {"archived", "undeleted"}
      /\ at'[a].pc = "archived" => services' = services \ {a}
      /\ at'[a].pc = "undeleted" => services' = services
      /\ at'[a].task = at[a].task /\ at'[a].comm = at[a].comm
      /\ at'[a].live = at[a].live
      /\ \A x \in Attempts \ {a} : at'[x] = at[x]
  <2>1. CASE services' = services \ {a} /\ Goto(a, "archived")
    BY <2>1, GotoFacts DEF Running, Ended
  <2>2. CASE services' = services /\ Goto(a, "undeleted")
    BY <2>2, GotoFacts DEF Running, Ended
  <2>3. QED
    BY <2>1, <2>2 DEF Cleanup
<1>2. TypeOK'
  BY <1>1 DEF TypeOK, Cleanup, hosting
<1>3. AttemptsAsked'
  BY <1>1 DEF AttemptsAsked, Cleanup
<1>4. OneHolder'
  BY <1>1 DEF OneHolder, Cleanup, Running
<1>5. HostsFollow'
  BY <1>1 DEF HostsFollow, Cleanup, Named, hosting
<1>6. RowsNamed'
  BY <1>1 DEF RowsNamed, TypeOK, Row, Cleanup, Named, hosting
<1>7. RemovalsGone'
  BY <1>1 DEF RemovalsGone, TypeOK, Cleanup, Named
<1>8. CommittedNamed'
  BY <1>1, CommittedStays DEF Cleanup
<1>9. ReportWaits'
  BY <1>1 DEF ReportWaits, Cleanup
<1>10. ReadyNotLost'
  BY <1>1 DEF ReadyNotLost, Cleanup
<1>11. QED
  BY <1>2, <1>3, <1>4, <1>5, <1>6, <1>7, <1>8, <1>9, <1>10

\* The context of an attempt is cancelled and the task goes back.
LEMMA TimeoutInd ==
  ASSUME IndInv, NEW a \in Attempts, Timeout(a)
  PROVE  IndInv'
<1> USE DEF IndInv
<1>1. /\ at' \in [Attempts -> Attempt]
      /\ at'[a].pc = at[a].pc
      /\ at'[a].task = at[a].task /\ at'[a].comm = at[a].comm
      /\ at'[a].live = FALSE
      /\ \A x \in Attempts \ {a} : at'[x] = at[x]
  BY DEF Timeout, TypeOK, Attempt
<1>2. /\ at[a].comm \in Comms /\ at[a].task \in Tasks
      /\ asked[at[a].task] # None
  BY ProvisioningAssumption DEF Timeout, AttemptsAsked, Running
<1>3. TypeOK'
  BY <1>1, <1>2 DEF TypeOK, Timeout, hosting
<1>4. AttemptsAsked'
  BY <1>1, <1>2 DEF AttemptsAsked, Timeout
<1>5. OneHolder'
  BY <1>1, <1>2 DEF OneHolder, Timeout, Running
<1>6. HostsFollow'
  BY <1>1, <1>2 DEF HostsFollow, Timeout, Named, hosting
<1>7. RowsNamed'
  BY <1>1, <1>2 DEF RowsNamed, TypeOK, Row, Timeout, Named, hosting
<1>8. RemovalsGone'
  BY <1>1, <1>2 DEF RemovalsGone, TypeOK, Timeout, Named
<1>9. CommittedNamed'
  BY <1>1, <1>2, CommittedStays DEF Timeout
<1>10. ReportWaits'
  BY <1>1, <1>2 DEF ReportWaits, Timeout
<1>11. ReadyNotLost'
  BY <1>1, <1>2 DEF ReadyNotLost, Timeout
<1>12. QED
  BY <1>3, <1>4, <1>5, <1>6, <1>7, <1>8, <1>9, <1>10, <1>11

\* The scheduler dies: every attempt that ran is over and its task goes back.
LEMMA CrashInd ==
  ASSUME IndInv, Crash
  PROVE  IndInv'
<1> USE DEF IndInv
<1> DEFINE dead == {a \in Attempts : at[a].pc \in Running}
<1>1. /\ at' \in [Attempts -> Attempt]
      /\ \A a \in Attempts :
            /\ at'[a].task = at[a].task /\ at'[a].comm = at[a].comm
            /\ at'[a].live = at[a].live
            /\ at[a].pc \in Running => at'[a].pc = "crashed"
            /\ at[a].pc \notin Running => at'[a].pc = at[a].pc
  BY DEF Crash, TypeOK, Attempt, Ended
<1>2. queue' = queue \cup {at[a].task : a \in {x \in dead : at[x].live}}
  BY DEF Crash
<1>3. \A t \in queue' : \/ t \in queue
                       \/ \E a \in Attempts : /\ at[a].pc \in Running
                                              /\ at[a].live /\ t = at[a].task
  BY <1>2
<1>4. \A a \in Attempts : at[a].pc \in Running =>
         /\ at[a].comm \in Comms /\ at[a].task \in Tasks
         /\ asked[at[a].task] # None
  BY ProvisioningAssumption DEF AttemptsAsked, Running
<1> HIDE DEF dead
<1>5. TypeOK'
  BY <1>1, <1>3, <1>4 DEF TypeOK, Crash, hosting
<1>6. AttemptsAsked'
  BY <1>1, <1>3, <1>4 DEF AttemptsAsked, Crash, Running
<1>7. OneHolder'
  BY <1>1, <1>3 DEF OneHolder, Running
<1>8. HostsFollow'
  BY <1>1 DEF HostsFollow, Named, Running, Crash, hosting
<1>9. RowsNamed'
  BY <1>1 DEF RowsNamed, TypeOK, Row, Named, Crash, hosting
<1>10. RemovalsGone'
  BY <1>1 DEF RemovalsGone, TypeOK, Named, Crash
<1>11. CommittedNamed'
  BY <1>1, CommittedStays DEF Running, Crash
<1>12. ReportWaits'
  BY <1>1 DEF ReportWaits, Crash, Running
<1>13. ReadyNotLost'
  BY DEF ReadyNotLost, Crash
<1>14. QED
  BY <1>5, <1>6, <1>7, <1>8, <1>9, <1>10, <1>11, <1>12, <1>13

-----------------------------------------------------------------------------
(***************************************************************************)
(* The queue, the webhook and the deletion of communities.                 *)
(***************************************************************************)

\* A task is enqueued, which nobody has handed out.
LEMMA EnqueueInd ==
  ASSUME IndInv, NEW t \in Tasks, NEW c \in Comms, Enqueue(t, c)
  PROVE  IndInv'
<1> USE DEF IndInv
<1>0. /\ asked' \in [Tasks -> Comms \cup {None}] /\ asked'[t] = c
      /\ asked[t] = None /\ \A x \in Tasks \ {t} : asked'[x] = asked[x]
      /\ queue' = queue \cup {t} /\ at' = at /\ c # None
  BY ProvisioningAssumption DEF Enqueue, TypeOK
<1>1. TypeOK'
  BY <1>0 DEF TypeOK, Enqueue, hosting
<1>2. AttemptsAsked'
  BY <1>0, ProvisioningAssumption DEF AttemptsAsked, TypeOK
<1>3. OneHolder'
  BY <1>0, ProvisioningAssumption DEF OneHolder, AttemptsAsked, Running
<1>4. HostsFollow'
  BY DEF HostsFollow, Enqueue, hosting
<1>5. RowsNamed'
  BY DEF RowsNamed, Enqueue, hosting
<1>6. RemovalsGone'
  BY DEF RemovalsGone, Enqueue
<1>7. CommittedNamed'
  BY CommittedStays DEF Enqueue
<1>8. ReportWaits'
  BY DEF ReportWaits, Enqueue
<1>9. ReadyNotLost'
  BY DEF ReadyNotLost, Enqueue
<1>10. QED
  BY <1>1, <1>2, <1>3, <1>4, <1>5, <1>6, <1>7, <1>8, <1>9

\* A task is handed out to an attempt that has made nothing.
LEMMA HandOutInd ==
  ASSUME IndInv, NEW a \in Attempts, NEW t \in Tasks,
         HandOut(a, t)
  PROVE  IndInv'
<1> USE DEF IndInv
<1>1. /\ at' \in [Attempts -> Attempt]
      /\ at'[a].pc = "begin" /\ at'[a].live
      /\ at'[a].task = t /\ at'[a].comm = asked[t]
      /\ \A x \in Attempts \ {a} : at'[x] = at[x]
  BY DEF HandOut, TypeOK, Attempt, Running
<1>2. TypeOK'
  BY <1>1 DEF TypeOK, HandOut, hosting
<1>3. AttemptsAsked'
  BY <1>1 DEF AttemptsAsked, HandOut, TypeOK
<1>4. OneHolder'
  BY <1>1 DEF OneHolder, HandOut, Running
<1>5. HostsFollow'
  BY <1>1 DEF HostsFollow, HandOut, Named, hosting
<1>6. RowsNamed'
  BY <1>1 DEF RowsNamed, TypeOK, Row, HandOut, Named, hosting
<1>7. RemovalsGone'
  BY <1>1 DEF RemovalsGone, TypeOK, HandOut, Named
<1>8. CommittedNamed'
  BY <1>1, CommittedStays DEF HandOut
<1>9. ReportWaits'
  BY <1>1 DEF ReportWaits, HandOut
<1>10. ReadyNotLost'
  BY <1>1 DEF ReadyNotLost, HandOut
<1>11. QED
  BY <1>2, <1>3, <1>4, <1>5, <1>6, <1>7, <1>8, <1>9, <1>10

\* A success is reported: not for a service whose naming is still open.
LEMMA RailwayServiceWebhookInd ==
  ASSUME IndInv, NEW a \in Attempts,
         RailwayServiceWebhook(a)
  PROVE  IndInv'
<1> USE DEF IndInv
<1>1. /\ row' \in [Comms -> Row \cup {None}]
      /\ \A c \in Comms :
            /\ row[c] = None => row'[c] = None
            /\ row[c] # None =>
                  /\ row'[c].service = row[c].service
                  /\ row'[c].record = row[c].record
                  /\ row[c].service # a => row'[c] = row[c]
                  /\ row[c].service = a => row'[c].ready
                  /\ row[c].ready => row'[c].ready
  BY DEF RailwayServiceWebhook, TypeOK, Row
<1>2. at[a].live /\ at[a].pc = "commit" => FALSE
  BY DEF RailwayServiceWebhook, Locks, AttemptsAsked, TypeOK
<1>3. TypeOK'
  BY <1>1 DEF TypeOK, RailwayServiceWebhook, hosting
<1>4. AttemptsAsked'
  BY DEF AttemptsAsked, RailwayServiceWebhook
<1>5. OneHolder'
  BY DEF OneHolder, RailwayServiceWebhook
<1>6. HostsFollow'
  BY DEF HostsFollow, RailwayServiceWebhook, hosting
<1>7. RowsNamed'
  BY <1>1 DEF RowsNamed, RailwayServiceWebhook, hosting
<1>8. RemovalsGone'
  BY <1>1 DEF RemovalsGone, AttemptsAsked, TypeOK, RailwayServiceWebhook, Named
<1>9. CommittedNamed'
  BY <1>1, CommittedStays DEF AttemptsAsked, TypeOK, RailwayServiceWebhook
<1>10. ReportWaits'
  BY <1>2 DEF ReportWaits, RailwayServiceWebhook
<1>11. ReadyNotLost'
  BY <1>1 DEF ReadyNotLost, RailwayServiceWebhook
<1>12. QED
  BY <1>3, <1>4, <1>5, <1>6, <1>7, <1>8, <1>9, <1>10, <1>11

\* A community is deleted; what it named may now be removed.
LEMMA DeleteCommunityInd ==
  ASSUME IndInv, NEW c \in Comms, DeleteCommunity(c)
  PROVE  IndInv'
<1> USE DEF IndInv
<1>1. /\ row' \in [Comms -> Row \cup {None}]
      /\ row'[c] = None
      /\ \A d \in Comms \ {c} : row'[d] = row[d]
  BY DEF DeleteCommunity, TypeOK
<1>2. removals' \subseteq Attempts
  BY DEF DeleteCommunity, TypeOK, Row
<1>3. TypeOK'
  BY <1>1, <1>2 DEF TypeOK, DeleteCommunity, hosting
<1>4. AttemptsAsked'
  BY DEF AttemptsAsked, DeleteCommunity
<1>5. OneHolder'
  BY DEF OneHolder, DeleteCommunity
<1>6. HostsFollow'
  BY DEF HostsFollow, DeleteCommunity, hosting
<1>7. RowsNamed'
  BY <1>1 DEF RowsNamed, DeleteCommunity, hosting
<1>8. RemovalsGone'
  BY <1>1, <1>2 DEF RemovalsGone, RowsNamed, AttemptsAsked, TypeOK, DeleteCommunity,
                             Named
<1>9. CommittedNamed'
  <2>1. \A d \in Comms : \/ row'[d] = None
                         \/ row[d] # None /\ row'[d].service = row[d].service
    BY <1>1
  <2>2. \A x \in Attempts : at'[x] = at[x]
    BY DEF DeleteCommunity
  <2>3. QED
    BY <2>1, <2>2, CommittedStays
<1>10. ReportWaits'
  BY DEF ReportWaits, DeleteCommunity
<1>11. ReadyNotLost'
  BY <1>1 DEF ReadyNotLost, DeleteCommunity
<1>12. QED
  BY <1>3, <1>4, <1>5, <1>6, <1>7, <1>8, <1>9, <1>10, <1>11

\* A service that no community names is removed.
LEMMA HandleDeleteCommunityTaskInd ==
  ASSUME IndInv, NEW a \in Attempts,
         HandleDeleteCommunityTask(a)
  PROVE  IndInv'
<1> USE DEF IndInv
<1>1. /\ services' \subseteq services /\ services \subseteq services' \cup {a}
      /\ records' \subseteq records /\ records \subseteq records' \cup {a}
      /\ removals' = removals \ {a}
      /\ a \in removals
  BY DEF HandleDeleteCommunityTask
<1>2. TypeOK'
  BY <1>1 DEF TypeOK, HandleDeleteCommunityTask
<1>3. AttemptsAsked'
  BY DEF AttemptsAsked, HandleDeleteCommunityTask
<1>4. OneHolder'
  BY DEF OneHolder, HandleDeleteCommunityTask
<1>5. HostsFollow'
  BY <1>1 DEF HostsFollow, RemovalsGone, HandleDeleteCommunityTask, Named
<1>6. RowsNamed'
  BY <1>1 DEF RowsNamed, HandleDeleteCommunityTask
<1>7. RemovalsGone'
  BY <1>1 DEF RemovalsGone, HandleDeleteCommunityTask
<1>8. CommittedNamed'
  BY CommittedStays DEF HandleDeleteCommunityTask
<1>9. ReportWaits'
  BY DEF ReportWaits, HandleDeleteCommunityTask
<1>10. ReadyNotLost'
  BY DEF ReadyNotLost, HandleDeleteCommunityTask
<1>11. QED
  BY <1>2, <1>3, <1>4, <1>5, <1>6, <1>7, <1>8, <1>9, <1>10

-----------------------------------------------------------------------------

\* Nothing has been handed out at the start.
LEMMA InitInd == Init => IndInv
BY ProvisioningAssumption
   DEF Init, NoAttempt, IndInv, TypeOK, Row, Attempt, Running, Ended, Named,
       AttemptsAsked, OneHolder, HostsFollow, RowsNamed, RemovalsGone,
       CommittedNamed, ReportWaits, ReadyNotLost

\* A step of a handler.
LEMMA HandlerInd ==
  ASSUME IndInv, NEW a \in Attempts, Handler(a)
  PROVE  IndInv'
BY GetCommunityInd, GiveUpInd, ServiceCreateInd, ServiceCreateUnansweredInd,
   ConfigureInd, CreateDNSRecordInd, UpdateCommunityInd, ServiceConnectInd,
   CommitInd, AckInd, StepFailsInd, CleanupInd, CommitFailsInd
   DEF Handler

\* IndInv is inductive.
LEMMA NextInd ==
  ASSUME IndInv, [Next]_vars
  PROVE  IndInv'
<1>1. CASE UNCHANGED vars
  BY <1>1 DEF vars, IndInv, TypeOK, AttemptsAsked, OneHolder, HostsFollow,
              RowsNamed, RemovalsGone, CommittedNamed, NamedOrReplaced,
              ReportWaits, ReadyNotLost
<1>2. ASSUME NEW c \in Comms,
             DeleteCommunity(c) \/ \E t \in Tasks : Enqueue(t, c)
      PROVE  IndInv'
  BY <1>2, EnqueueInd, DeleteCommunityInd
<1>3. ASSUME NEW a \in Attempts, NEW t \in Tasks, HandOut(a, t)
      PROVE  IndInv'
  BY <1>3, HandOutInd
<1>4. ASSUME NEW a \in Attempts,
             \/ Handler(a) \/ Timeout(a)
             \/ RailwayServiceWebhook(a) \/ HandleDeleteCommunityTask(a)
      PROVE  IndInv'
  BY <1>4, HandlerInd, TimeoutInd, RailwayServiceWebhookInd,
     HandleDeleteCommunityTaskInd
<1>5. CASE Crash
  BY <1>5, CrashInd
<1>6. QED
  BY <1>1, <1>2, <1>3, <1>4, <1>5 DEF Next, Rest

\* IndInv holds in every state of every behaviour.
LEMMA Inductive == Spec => []IndInv
<1>1. Init => IndInv
  BY InitInd
<1>2. IndInv /\ [Next]_vars => IndInv'
  BY NextInd
<1>3. QED
  BY <1>1, <1>2, PTL DEF Spec

\* Every variable keeps its type.
THEOREM ProvisioningTypeCorrect == Spec => []TypeOK
<1>1. IndInv => TypeOK
  BY DEF IndInv
<1>2. QED
  BY <1>1, Inductive, PTL

\* However attempts at create_community_task.go fail, time out, panic, clean up
\* and are made again, the service and the record a community names exist, and
\* an attempt that ended in order leaves no service that is not named.
THEOREM HostingMatchesRows == Spec => []ServicesMatchRows
<1>1. IndInv => ServicesMatchRows
  BY DEF IndInv, TypeOK, RowsNamed, HostsFollow, CommittedNamed,
         ServicesMatchRows
<1>2. QED
  BY <1>1, Inductive, PTL

\* A success that railway_service_webhook.go has taken in is not lost to the
\* transaction that names the service.
THEOREM ReadyIsKept == Spec => []ReadyNotLost
<1>1. IndInv => ReadyNotLost
  BY DEF IndInv
<1>2. QED
  BY <1>1, Inductive, PTL
=============================================================================
