----------------------------- MODULE OfflineQueue -----------------------------
(***************************************************************************)
(* The offline queue of the web client and the requests it makes:          *)
(* flushOfflineSyncQueue (frontend/src/lib/sync/sync-manager.ts) in every  *)
(* tab of a browser, over the IndexedDB store the tabs share, against      *)
(* process_batch (app/services/sync_service.py), report_worker_issue and   *)
(* submit_leave_application (app/api/v1/worker.py).                        *)
(*                                                                         *)
(* The only inspections the client queues are new ones, at version 1 under *)
(* an id and a key of their own (inspection-wizard.tsx:90-108), so of the  *)
(* answers of BatchSync two are possible, CREATED and DUPLICATE.  After    *)
(* the batch the hazard issues are posted one by one, then the leave       *)
(* applications.  A hazard issue opens a CAPA without an idempotency key;  *)
(* the unique index on the key is sparse, but a null that is stored is     *)
(* indexed, so MongoDB holds one CAPA without a key and refuses the next   *)
(* (models.py:187, 199).  mongomock, which stands in for it in the tests,  *)
(* does not.  A response may be lost or come too late, a request may not   *)
(* arrive or die in the server, a tab may be reloaded.                     *)
(***************************************************************************)
EXTENDS Naturals, FiniteSets, FiniteSetsExt

CONSTANTS
    Inspection,   \* numbers in the order in which IndexedDB lists the ids
    Valid,        \* the inspections geofence.validate lets through
    Hazard,       \* worker hazard issues
    Leave,        \* worker leave applications
    Tab,          \* tabs of the browser that run the application
    Slot,         \* requests the server may be working on
    None,         \* no owner, no item
    MaxFaults     \* bound on lost responses, lost requests and reloads

ASSUME QueueAssumption ==
    /\ Inspection \subseteq Nat
    /\ Valid \subseteq Inspection
    /\ None \notin Inspection \cup Tab
    /\ Inspection \cap (Hazard \cup Leave) = {}
    /\ Hazard \cap Leave = {}

\* What is posted one by one.
Report == Hazard \cup Leave

VARIABLES
    queue,      \* each inspection and report: absent, pending or synced
    tab,        \* each tab's flush; idle when isSyncing is false
    slot,       \* each request in the server
    stored,     \* inspections in the database
    filed,      \* how many records each report has opened: CAPAs or leaves
    alerted,    \* how many alerts each report has sent to the manager
    keyless,    \* a CAPA without an idempotency key is in the database
    faults      \* how many faults there have been

vars == <<queue, tab, slot, stored, filed, alerted, keyless, faults>>

Idle == [pc |-> "idle"]
Free == [kind |-> "free", owner |-> None]

(* The CAPA the database is seeded with has no key; it need not be there.  *)
Init ==
    /\ queue = [x \in Inspection \cup Report |-> "absent"]
    /\ tab = [t \in Tab |-> Idle]
    /\ slot = [s \in Slot |-> Free]
    /\ stored = {}
    /\ filed = [r \in Report |-> 0]
    /\ alerted = [r \in Report |-> 0]
    /\ keyless \in BOOLEAN
    /\ faults = 0

PendingIn(X) == {x \in X : queue[x] = "pending"}

\* A batch is answered when it has failed or has no item left.
Answered(q) ==
    \/ q.kind = "batch" /\ (q.failed \/ q.todo = {})
    \/ q.kind = "report" /\ q.step \in {"done", "refused"}

\* The two loops over the reports each read what is pending when they begin.
HazardLoop == [pc |-> "reports", stage |-> "hazards", todo |-> PendingIn(Hazard)]
LeaveLoop == [pc |-> "reports", stage |-> "leaves", todo |-> PendingIn(Leave)]

-----------------------------------------------------------------------------
(* The client.                                                             *)

(* A form saves a record in IndexedDB.                                     *)
Enqueue(x) ==
    /\ queue[x] = "absent"
    /\ queue' = [queue EXCEPT ![x] = "pending"]
    /\ UNCHANGED <<tab, slot, stored, filed, alerted, keyless, faults>>

(* A flush begins: the online event, the six-second timer, a form or the   *)
(* button.  The flag isSyncing lives in the tab and admits one flush.      *)
Start(t) ==
    /\ tab[t] = Idle
    /\ PendingIn(Inspection \cup Report) # {}
    /\ \/ /\ PendingIn(Inspection) # {}
          /\ \E s \in Slot :
               /\ slot[s] = Free
               /\ slot' = [slot EXCEPT
                    ![s] = [kind |-> "batch", owner |-> t, failed |-> FALSE,
                            todo |-> PendingIn(Inspection), inserting |-> None,
                            created |-> {}]]
               /\ tab' = [tab EXCEPT ![t] = [pc |-> "batch", slot |-> s]]
       \/ /\ PendingIn(Inspection) = {}
          /\ tab' = [tab EXCEPT ![t] = HazardLoop]
          /\ UNCHANGED slot
    /\ UNCHANGED <<queue, stored, filed, alerted, keyless, faults>>

\* Mutant of TakeBatchAnswer: every item of the batch is marked synced.
TakeBatchBlindly(t) ==
    /\ tab[t].pc = "batch"
    /\ LET q == slot[tab[t].slot]
       IN  /\ Answered(q)
           /\ queue' = [x \in DOMAIN queue |->
                IF x \in q.todo \cup q.created THEN "synced" ELSE queue[x]]
    /\ slot' = [slot EXCEPT ![tab[t].slot] = Free]
    /\ tab' = [tab EXCEPT ![t] = HazardLoop]
    /\ UNCHANGED <<stored, filed, alerted, keyless, faults>>


(* The answer to the batch.  CREATED items are marked synced, DUPLICATE    *)
(* ones are left as they are, an error is caught; then come the reports.   *)
TakeBatchAnswer(t) ==
    /\ tab[t].pc = "batch"
    /\ LET q == slot[tab[t].slot]
       IN  /\ Answered(q)
           /\ queue' = [x \in DOMAIN queue |->
                IF x \in q.created /\ ~q.failed THEN "synced" ELSE queue[x]]
    /\ slot' = [slot EXCEPT ![tab[t].slot] = Free]
    /\ tab' = [tab EXCEPT ![t] = HazardLoop]
    /\ UNCHANGED <<stored, filed, alerted, keyless, faults>>

\* Mutant of PostReport: the report that is posted stays among those to post.
PostReportAgain(t) ==
    /\ tab[t].pc = "reports"
    /\ \E r \in tab[t].todo, s \in Slot :
         /\ slot[s] = Free
         /\ slot' = [slot EXCEPT
              ![s] = [kind |-> "report", owner |-> t, report |-> r,
                      step |-> "file"]]
         /\ tab' = [tab EXCEPT
              ![t] = [pc |-> "report", stage |-> @.stage, todo |-> @.todo,
                      slot |-> s]]
    /\ UNCHANGED <<queue, stored, filed, alerted, keyless, faults>>

(* The reports read are posted one by one.                                 *)
PostReport(t) ==
    /\ tab[t].pc = "reports"
    /\ \E r \in tab[t].todo, s \in Slot :
         /\ slot[s] = Free
         /\ slot' = [slot EXCEPT
              ![s] = [kind |-> "report", owner |-> t, report |-> r,
                      step |-> "file"]]
         /\ tab' = [tab EXCEPT
              ![t] = [pc |-> "report", stage |-> @.stage,
                      todo |-> @.todo \ {r}, slot |-> s]]
    /\ UNCHANGED <<queue, stored, filed, alerted, keyless, faults>>

(* A report whose answer is no error is marked synced; one that was        *)
(* refused stays pending, and the loop goes on.                            *)
TakeReportAnswer(t) ==
    /\ tab[t].pc = "report"
    /\ LET q == slot[tab[t].slot]
       IN  /\ Answered(q)
           /\ queue' = IF q.step = "done"
                       THEN [queue EXCEPT ![q.report] = "synced"] ELSE queue
    /\ slot' = [slot EXCEPT ![tab[t].slot] = Free]
    /\ tab' = [tab EXCEPT
         ![t] = [pc |-> "reports", stage |-> @.stage, todo |-> @.todo]]
    /\ UNCHANGED <<stored, filed, alerted, keyless, faults>>

(* The hazards are through: the pending leave applications are read.       *)
ReadLeaves(t) ==
    /\ tab[t].pc = "reports"
    /\ tab[t].stage = "hazards"
    /\ tab[t].todo = {}
    /\ tab' = [tab EXCEPT ![t] = LeaveLoop]
    /\ UNCHANGED <<queue, slot, stored, filed, alerted, keyless, faults>>

\* Mutant of Finish: isSyncing stays set.
FinishLocked(t) ==
    /\ tab[t].pc = "reports"
    /\ tab[t].stage = "leaves"
    /\ tab[t].todo = {}
    /\ tab' = [tab EXCEPT ![t] = [pc |-> "locked"]]
    /\ UNCHANGED <<queue, slot, stored, filed, alerted, keyless, faults>>

(* finally: isSyncing is reset.                                            *)
Finish(t) ==
    /\ tab[t].pc = "reports"
    /\ tab[t].stage = "leaves"
    /\ tab[t].todo = {}
    /\ tab' = [tab EXCEPT ![t] = Idle]
    /\ UNCHANGED <<queue, slot, stored, filed, alerted, keyless, faults>>

-----------------------------------------------------------------------------
(* The server.                                                             *)

(* process_batch: the next item is read.  A stored one is a DUPLICATE; an  *)
(* invalid one raises and ends the batch.                                  *)
ReadItem(s) ==
    /\ slot[s].kind = "batch"
    /\ ~Answered(slot[s])
    /\ slot[s].inserting = None
    /\ LET i == Min(slot[s].todo)
       IN  \/ /\ i \in stored
              /\ slot' = [slot EXCEPT ![s].todo = @ \ {i}]
           \/ /\ i \notin stored
              /\ i \notin Valid
              /\ slot' = [slot EXCEPT ![s].failed = TRUE]
           \/ /\ i \notin stored
              /\ i \in Valid
              /\ slot' = [slot EXCEPT ![s].inserting = i]
    /\ UNCHANGED <<queue, tab, stored, filed, alerted, keyless, faults>>

(* The item is inserted; when another request has inserted it meanwhile    *)
(* the insertion raises and ends the batch.                                *)
InsertItem(s) ==
    /\ slot[s].kind = "batch"
    /\ slot[s].inserting # None
    /\ LET i == slot[s].inserting
       IN  \/ /\ i \in stored
              /\ slot' = [slot EXCEPT ![s].failed = TRUE,
                                      ![s].inserting = None]
              /\ UNCHANGED stored
           \/ /\ i \notin stored
              /\ stored' = stored \cup {i}
              /\ slot' = [slot EXCEPT ![s].todo = @ \ {i},
                                      ![s].created = @ \cup {i},
                                      ![s].inserting = None]
    /\ UNCHANGED <<queue, tab, filed, alerted, keyless, faults>>

(* report_worker_issue opens a CAPA record without a key and               *)
(* submit_leave_application a leave record, whether they have seen the     *)
(* report before or not ...                                                *)
FileReport(s) ==
    /\ slot[s].kind = "report"
    /\ slot[s].step = "file"
    /\ \/ slot[s].report \in Leave /\ UNCHANGED keyless
       \/ slot[s].report \in Hazard /\ ~keyless /\ keyless' = TRUE
    /\ filed' = [filed EXCEPT ![slot[s].report] = @ + 1]
    /\ slot' = [slot EXCEPT ![s].step = "alert"]
    /\ UNCHANGED <<queue, tab, stored, alerted, faults>>

(* ... a second CAPA without a key is refused: DuplicateKeyError, which    *)
(* nothing handles, so the answer is 500 ...                               *)
RefuseReport(s) ==
    /\ slot[s].kind = "report"
    /\ slot[s].step = "file"
    /\ slot[s].report \in Hazard
    /\ keyless
    /\ slot' = [slot EXCEPT ![s].step = "refused"]
    /\ UNCHANGED <<queue, tab, stored, filed, alerted, keyless, faults>>

(* ... and then notifies the colliery manager.                             *)
AlertManager(s) ==
    /\ slot[s].kind = "report"
    /\ slot[s].step = "alert"
    /\ alerted' = [alerted EXCEPT ![slot[s].report] = @ + 1]
    /\ slot' = [slot EXCEPT ![s].step = "done"]
    /\ UNCHANGED <<queue, tab, stored, filed, keyless, faults>>

(* A CAPA without a key is filed otherwise: POST /violations, or another   *)
(* browser.                                                                *)
FileElsewhere ==
    /\ ~keyless
    /\ keyless' = TRUE
    /\ UNCHANGED <<queue, tab, slot, stored, filed, alerted, faults>>

(* A request nobody waits for any more comes to its end.                   *)
Discard(s) ==
    /\ slot[s].owner = None
    /\ Answered(slot[s])
    /\ slot' = [slot EXCEPT ![s] = Free]
    /\ UNCHANGED <<queue, tab, stored, filed, alerted, keyless, faults>>

-----------------------------------------------------------------------------
(* Faults.                                                                 *)

\* The request of a tab goes on without it, or is gone.
Forsaken(s) ==
    \/ slot' = [slot EXCEPT ![s].owner = None]
    \/ slot' = [slot EXCEPT ![s] = Free]

(* The answer does not come: the request or the response was lost, the     *)
(* server died or took too long.  The error is caught; the flush goes on.  *)
GiveUp(t) ==
    /\ faults < MaxFaults
    /\ tab[t].pc \in {"batch", "report"}
    /\ Forsaken(tab[t].slot)
    /\ tab' = [tab EXCEPT
         ![t] = IF @.pc = "batch" THEN HazardLoop
                ELSE [pc |-> "reports", stage |-> @.stage, todo |-> @.todo]]
    /\ faults' = faults + 1
    /\ UNCHANGED <<queue, stored, filed, alerted, keyless>>

(* The tab is reloaded: isSyncing is reset, IndexedDB keeps the queue.     *)
Reload(t) ==
    /\ faults < MaxFaults
    /\ tab[t] # Idle
    /\ tab' = [tab EXCEPT ![t] = Idle]
    /\ IF tab[t].pc \in {"batch", "report"}
       THEN Forsaken(tab[t].slot) ELSE UNCHANGED slot
    /\ faults' = faults + 1
    /\ UNCHANGED <<queue, stored, filed, alerted, keyless>>

Flush(t) ==
    \/ Start(t)
    \/ TakeBatchAnswer(t)
    \/ PostReport(t)
    \/ TakeReportAnswer(t)
    \/ ReadLeaves(t)
    \/ Finish(t)

Serve(s) ==
    \/ ReadItem(s)
    \/ InsertItem(s)
    \/ FileReport(s)
    \/ RefuseReport(s)
    \/ AlertManager(s)
    \/ Discard(s)

Next ==
    \/ \E x \in Inspection \cup Report : Enqueue(x)
    \/ \E t \in Tab : Flush(t) \/ GiveUp(t) \/ Reload(t)
    \/ \E s \in Slot : Serve(s)
    \/ FileElsewhere

Spec == Init /\ [][Next]_vars

\* The timer of every open tab goes off again and again, a request that arrived
\* is worked on, and after MaxFaults faults the network carries every answer.
FairSpec ==
    /\ Spec
    /\ \A t \in Tab : WF_vars(Flush(t))
    /\ \A s \in Slot : WF_vars(Serve(s))

-----------------------------------------------------------------------------
(* Properties.                                                             *)

\* The shape of the queue, of the tabs' flushes and of the requests.
TypeOK ==
    /\ queue \in [Inspection \cup Report -> {"absent", "pending", "synced"}]
    /\ \A t \in Tab :
         \/ tab[t] = Idle
         \/ /\ tab[t].pc = "batch"
            /\ slot[tab[t].slot].kind = "batch"
            /\ slot[tab[t].slot].owner = t
         \/ /\ tab[t].pc = "reports"
            /\ tab[t].stage \in {"hazards", "leaves"}
            /\ tab[t].todo \subseteq Report
         \/ /\ tab[t].pc = "report"
            /\ tab[t].stage \in {"hazards", "leaves"}
            /\ tab[t].todo \subseteq Report
            /\ slot[tab[t].slot].kind = "report"
            /\ slot[tab[t].slot].owner = t
    /\ stored \subseteq Inspection
    /\ filed \in [Report -> Nat]
    /\ alerted \in [Report -> Nat]
    /\ keyless \in BOOLEAN

\* What the client shows as synced is in the database, and for a report the
\* manager has been alerted, whatever was lost, reloaded or sent by another tab:
\* nothing leaves the queue before it has arrived.
SyncedIsStored ==
    /\ \A i \in Inspection : queue[i] = "synced" => i \in stored
    /\ \A r \in Report : queue[r] = "synced" => filed[r] > 0 /\ alerted[r] > 0

\* A report that is recorded is posted again only by a tab that read the queue
\* before it was synced, once, or for an answer that was lost: it opens no more
\* records than there are tabs and faults, and the manager is alerted only of
\* records that are open (sync-manager.ts:174-236, worker.py:325-358: nothing tells
\* a retry of a leave application from a new one).
FiledSparingly ==
    \A r \in Report :
        alerted[r] <= filed[r] /\ filed[r] <= faults + Cardinality(Tab)


\* isSyncing does not stay set (sync-manager.ts:258-260).
FlushEnds == \A t \in Tab : tab[t] # Idle ~> tab[t] = Idle

\* A queue with records in it that nothing is wrong with gets shorter: of the valid
\* inspections and hazard issues some are synced in the end (inspection-wizard.tsx:133,
\* "Will auto-sync when network reconnects"; README.md:520, "records auto-flush to
\* MongoDB with UUID idempotency keys").
QueueMoves ==
    (\A i \in Valid \cup Hazard : queue[i] = "pending") ~>
        (\E i \in Valid \cup Hazard : queue[i] = "synced")
==============================================================================
