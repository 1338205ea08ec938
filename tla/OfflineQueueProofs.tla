--------------------------- MODULE OfflineQueueProofs ---------------------------
(***************************************************************************)
(* Theorems about OfflineQueue for any number of tabs, requests, items and *)
(* faults.                                                                 *)
(*                                                                         *)
(* An item is marked synced on the word of a request, so what a request    *)
(* would answer has to be so (Earned), and the request a tab waits for has *)
(* to be its own (Owns): slots are freed and taken again, and a tab must   *)
(* not take the answer of another one's request.                           *)
(*                                                                         *)
(* A report is posted on the credit of a tab or of a fault (FiledOK): a    *)
(* tab has spent its credit while it posts the report, unless it is        *)
(* refused, and for good once the report is synced and the tab has it no   *)
(* more on the list it read.                                               *)
(***************************************************************************)
EXTENDS OfflineQueue, FiniteSetTheorems, TLAPS

Owner == Tab \cup {None}

BatchSlot == [kind : {"batch"}, owner : Owner, failed : BOOLEAN, todo : SUBSET Inspection,
              inserting : Inspection \cup {None}, created : SUBSET Inspection]

ReportSlot == [kind : {"report"}, owner : Owner, report : Report,
               step : {"file", "alert", "done", "refused"}]

SlotState == {Free} \cup BatchSlot \cup ReportSlot

Stage == {"hazards", "leaves"}

LoopState == [pc : {"reports"}, stage : Stage, todo : SUBSET Report]

PostState == [pc : {"report"}, stage : Stage, todo : SUBSET Report, slot : Slot]

TabState == {Idle} \cup [pc : {"batch"}, slot : Slot] \cup LoopState \cup PostState

Shape ==
    /\ queue \in [Inspection \cup Report -> {"absent", "pending", "synced"}]
    /\ tab \in [Tab -> TabState]
    /\ slot \in [Slot -> SlotState]
    /\ stored \subseteq Inspection
    /\ filed \in [Report -> Nat]
    /\ alerted \in [Report -> Nat]

\* A tab that waits, waits for a request of its own.
Owns(t) ==
    tab[t].pc \in {"batch", "report"} =>
        /\ slot[tab[t].slot].kind = tab[t].pc
        /\ slot[tab[t].slot].owner = t

\* What a request has reached is so.
Earned(s) ==
    /\ slot[s].kind = "batch" => slot[s].created \subseteq stored
    /\ slot[s].kind = "report" =>
         /\ slot[s].step \in {"alert", "done"} => filed[slot[s].report] > 0
         /\ slot[s].step = "done" => alerted[slot[s].report] > 0

QueueInv ==
    /\ Shape
    /\ \A t \in Tab : Owns(t)
    /\ \A s \in Slot : Earned(s)
    /\ SyncedIsStored

LEMMA InitInv == Init => QueueInv
  <1> SUFFICES ASSUME Init PROVE QueueInv
    OBVIOUS
  <1>1. Shape
    BY DEF Init, Shape, SlotState, TabState
  <1>2. ASSUME NEW t \in Tab PROVE Owns(t)
    BY DEF Init, Owns, Idle
  <1>3. ASSUME NEW s \in Slot PROVE Earned(s)
    BY DEF Init, Earned, Free
  <1>4. SyncedIsStored
    BY DEF Init, SyncedIsStored
  <1> QED
    BY <1>1, <1>2, <1>3, <1>4 DEF QueueInv

-----------------------------------------------------------------------------
(* Slots.  A step that changes one slot and no tab keeps the ownership if  *)
(* the request keeps its kind and owner; one that changes a tab too keeps  *)
(* it if the slot belonged to nobody else.                                 *)

\* Each tab that keeps its state keeps its request, unless the slot changed hands.
LEMMA OwnsKept ==
    ASSUME Shape, NEW t \in Tab, Owns(t), tab'[t] = tab[t],
           NEW s \in Slot, \A x \in Slot \ {s} : slot'[x] = slot[x],
           \/ slot'[s].kind = slot[s].kind /\ slot'[s].owner = slot[s].owner
           \/ slot[s].owner # t
    PROVE  Owns(t)'
  <1>1. CASE tab[t].pc \notin {"batch", "report"}
    BY <1>1 DEF Owns
  <1>2. CASE tab[t].pc \in {"batch", "report"}
    <2>1. tab[t].slot \in Slot
      BY <1>2 DEF Shape, TabState, LoopState, PostState, Idle
    <2>2. slot[tab[t].slot].kind = tab[t].pc /\ slot[tab[t].slot].owner = t
      BY <1>2 DEF Owns
    <2>3. CASE tab[t].slot = s
      BY <2>2, <2>3 DEF Owns
    <2>4. CASE tab[t].slot # s
      <3>1. slot'[tab[t].slot] = slot[tab[t].slot]
        BY <2>1, <2>4
      <3> QED
        BY <2>2, <3>1 DEF Owns
    <2> QED
      BY <2>3, <2>4
  <1> QED
    BY <1>1, <1>2

\* Nobody owns a free slot, and None is nobody.
LEMMA FreeIsNobodys ==
    ASSUME NEW t \in Tab
    PROVE  Free.owner # t /\ Free.kind = "free" /\ None # t
  BY QueueAssumption DEF Free

\* The work of the server on one request.
LEMMA ServedInv ==
    ASSUME QueueInv, NEW s \in Slot,
           UNCHANGED <<queue, tab>>,
           \A x \in Slot \ {s} : slot'[x] = slot[x],
           slot' \in [Slot -> SlotState],
           \/ slot'[s].kind = slot[s].kind /\ slot'[s].owner = slot[s].owner
           \/ slot[s].owner = None,
           Earned(s)',
           stored \subseteq stored', stored' \subseteq Inspection,
           filed' \in [Report -> Nat], alerted' \in [Report -> Nat],
           \A r \in Report : filed'[r] >= filed[r] /\ alerted'[r] >= alerted[r]
    PROVE  QueueInv'
  <1>1. Shape'
    BY DEF QueueInv, Shape
  <1>2. ASSUME NEW t \in Tab PROVE Owns(t)'
    BY OwnsKept, FreeIsNobodys DEF QueueInv
  <1>3. ASSUME NEW x \in Slot PROVE Earned(x)'
    <2>1. CASE x = s
      BY <2>1
    <2>2. CASE x # s
      <3>1. slot'[x] = slot[x] /\ slot[x] \in SlotState /\ Earned(x)
        BY <2>2 DEF QueueInv, Shape
      <3>2. slot[x].kind = "report" => slot[x].report \in Report
        BY <3>1 DEF SlotState, ReportSlot, BatchSlot, Free
      <3>3. \A r \in Report : filed[r] \in Nat /\ alerted[r] \in Nat
                              /\ filed'[r] \in Nat /\ alerted'[r] \in Nat
        BY DEF QueueInv, Shape
      <3> QED
        BY <3>1, <3>2, <3>3 DEF Earned
    <2> QED
      BY <2>1, <2>2
  <1>4. SyncedIsStored'
    <2>1. \A r \in Report : filed[r] \in Nat /\ alerted[r] \in Nat
                            /\ filed'[r] \in Nat /\ alerted'[r] \in Nat
      BY DEF QueueInv, Shape
    <2> QED
      BY <2>1 DEF QueueInv, SyncedIsStored
  <1> QED
    BY <1>1, <1>2, <1>3, <1>4 DEF QueueInv

\* The step of one tab, with the one slot it may change: the tab is left waiting for
\* a request of its own or for none, and what it marks as synced is stored.
LEMMA FlushedInv ==
    ASSUME QueueInv, NEW t \in Tab, NEW s \in Slot,
           UNCHANGED <<stored, filed, alerted>>,
           \A x \in Tab \ {t} : tab'[x] = tab[x],
           \A x \in Slot \ {s} : slot'[x] = slot[x],
           tab' \in [Tab -> TabState],
           slot' \in [Slot -> SlotState],
           queue' \in [Inspection \cup Report -> {"absent", "pending", "synced"}],
           \/ slot[s].owner \in {t, None}
           \/ slot'[s] = slot[s],
           Earned(s)', Owns(t)', SyncedIsStored'
    PROVE  QueueInv'
  <1>1. Shape'
    BY DEF QueueInv, Shape
  <1>2. ASSUME NEW x \in Tab PROVE Owns(x)'
    <2>1. CASE x # t
      <3>1. slot'[s] = slot[s] \/ slot[s].owner # x
        BY <2>1, FreeIsNobodys
      <3> QED
        BY <2>1, <3>1, OwnsKept DEF QueueInv
    <2> QED
      BY <2>1
  <1>3. ASSUME NEW x \in Slot PROVE Earned(x)'
    <2>1. CASE x # s
      BY <2>1 DEF QueueInv, Earned
    <2> QED
      BY <2>1
  <1> QED
    BY <1>1, <1>2, <1>3 DEF QueueInv

-----------------------------------------------------------------------------
(* The server's steps.                                                     *)

LEMMA ReadItemInv == ASSUME QueueInv, NEW s \in Slot, ReadItem(s) PROVE QueueInv'
  <1>1. slot[s] \in BatchSlot /\ Earned(s) /\ slot \in [Slot -> SlotState]
    BY DEF ReadItem, QueueInv, Shape, SlotState, ReportSlot, Free
  <1>2. UNCHANGED <<queue, tab, stored, filed, alerted>>
    BY DEF ReadItem
  <1>3. PICK v : /\ slot' = [slot EXCEPT ![s] = v]
                 /\ v \in BatchSlot
                 /\ v.owner = slot[s].owner /\ v.created = slot[s].created
    <2>1. PICK i : \/ slot' = [slot EXCEPT ![s].todo = @ \ {i}]
                   \/ slot' = [slot EXCEPT ![s].failed = TRUE]
                   \/ i \in Valid /\ slot' = [slot EXCEPT ![s].inserting = i]
      BY DEF ReadItem
    <2>2. CASE slot' = [slot EXCEPT ![s].todo = @ \ {i}]
      <3> DEFINE v == [slot[s] EXCEPT !.todo = @ \ {i}]
      <3>1. v \in BatchSlot /\ v.owner = slot[s].owner /\ v.created = slot[s].created
        BY <1>1 DEF BatchSlot
      <3>2. slot' = [slot EXCEPT ![s] = v]
        BY <2>2
      <3> QED
        BY <3>1, <3>2
    <2>3. CASE slot' = [slot EXCEPT ![s].failed = TRUE]
      <3> DEFINE v == [slot[s] EXCEPT !.failed = TRUE]
      <3>1. v \in BatchSlot /\ v.owner = slot[s].owner /\ v.created = slot[s].created
        BY <1>1 DEF BatchSlot
      <3>2. slot' = [slot EXCEPT ![s] = v]
        BY <2>3
      <3> QED
        BY <3>1, <3>2
    <2>4. CASE i \in Valid /\ slot' = [slot EXCEPT ![s].inserting = i]
      <3> DEFINE v == [slot[s] EXCEPT !.inserting = i]
      <3>1. v \in BatchSlot /\ v.owner = slot[s].owner /\ v.created = slot[s].created
        BY <1>1, <2>4, QueueAssumption DEF BatchSlot
      <3>2. slot' = [slot EXCEPT ![s] = v]
        BY <2>4
      <3> QED
        BY <3>1, <3>2
    <2> QED
      BY <2>1, <2>2, <2>3, <2>4
  <1>4. slot'[s] = v /\ slot' \in [Slot -> SlotState]
    BY <1>1, <1>3 DEF SlotState
  <1>5. v.kind = "batch" /\ slot[s].kind = "batch"
    BY <1>1, <1>3 DEF BatchSlot
  <1>6. Earned(s)'
    BY <1>1, <1>2, <1>3, <1>4, <1>5 DEF Earned
  <1>7. \A r \in Report : filed'[r] >= filed[r] /\ alerted'[r] >= alerted[r]
    BY <1>2 DEF QueueInv, Shape
  <1>8. stored' \subseteq Inspection /\ filed' \in [Report -> Nat] /\ alerted' \in [Report -> Nat]
    BY <1>2 DEF QueueInv, Shape
  <1>9. \A x \in Slot \ {s} : slot'[x] = slot[x]
    BY <1>1, <1>3
  <1> QED
    BY <1>2, <1>3, <1>4, <1>5, <1>6, <1>7, <1>8, <1>9, ServedInv

LEMMA InsertItemInv == ASSUME QueueInv, NEW s \in Slot, InsertItem(s) PROVE QueueInv'
  <1>1. slot[s] \in BatchSlot /\ Earned(s) /\ slot \in [Slot -> SlotState]
    BY DEF InsertItem, QueueInv, Shape, SlotState, ReportSlot, Free
  <1>2. UNCHANGED <<queue, tab, filed, alerted>>
    BY DEF InsertItem
  <1>3. PICK i \in Inspection : i = slot[s].inserting
    BY <1>1 DEF InsertItem, BatchSlot
  <1>4. PICK v : /\ slot' = [slot EXCEPT ![s] = v]
                 /\ v \in BatchSlot
                 /\ v.owner = slot[s].owner
                 /\ v.created \subseteq stored'
                 /\ stored \subseteq stored' /\ stored' \subseteq Inspection
    <2>1. CASE /\ slot' = [slot EXCEPT ![s].failed = TRUE, ![s].inserting = None]
               /\ UNCHANGED stored
      <3> DEFINE u == [slot[s] EXCEPT !.failed = TRUE]
                 v == [u EXCEPT !.inserting = None]
      <3>1. slot' = [slot EXCEPT ![s] = v]
        BY <2>1, <1>1
      <3>2. u \in BatchSlot /\ u.owner = slot[s].owner /\ u.created = slot[s].created
        BY <1>1 DEF BatchSlot
      <3> HIDE DEF u
      <3>3. v \in BatchSlot /\ v.owner = slot[s].owner /\ v.created = slot[s].created
        BY <3>2 DEF BatchSlot
      <3>4. slot[s].created \subseteq stored
        BY <1>1 DEF Earned, BatchSlot
      <3>5. stored \subseteq Inspection
        BY DEF QueueInv, Shape
      <3> HIDE DEF v
      <3> QED
        BY <2>1, <3>1, <3>3, <3>4, <3>5
    <2>2. CASE /\ stored' = stored \cup {i}
               /\ slot' = [slot EXCEPT ![s].todo = @ \ {i},
                                       ![s].created = @ \cup {i},
                                       ![s].inserting = None]
      <3> DEFINE u == [slot[s] EXCEPT !.todo = @ \ {i}]
                 w == [u EXCEPT !.created = @ \cup {i}]
                 v == [w EXCEPT !.inserting = None]
      <3>1. slot' = [slot EXCEPT ![s] = v]
        BY <2>2, <1>1
      <3>2. u \in BatchSlot /\ u.owner = slot[s].owner /\ u.created = slot[s].created
        BY <1>1 DEF BatchSlot
      <3> HIDE DEF u
      <3>3. w \in BatchSlot /\ w.owner = slot[s].owner /\ w.created = slot[s].created \cup {i}
        BY <1>3, <3>2 DEF BatchSlot
      <3> HIDE DEF w
      <3>4. v \in BatchSlot /\ v.owner = slot[s].owner /\ v.created = slot[s].created \cup {i}
        BY <3>3 DEF BatchSlot
      <3>5. slot[s].created \subseteq stored
        BY <1>1 DEF Earned, BatchSlot
      <3>6. stored \subseteq Inspection
        BY DEF QueueInv, Shape
      <3> HIDE DEF v
      <3> QED
        BY <1>3, <2>2, <3>1, <3>4, <3>5, <3>6
    <2> QED
      BY <1>3, <2>1, <2>2 DEF InsertItem
  <1>5. slot'[s] = v /\ slot' \in [Slot -> SlotState]
    BY <1>1, <1>4 DEF SlotState
  <1>6. v.kind = "batch" /\ slot[s].kind = "batch"
    BY <1>1, <1>4 DEF BatchSlot
  <1>7. Earned(s)'
    BY <1>4, <1>5, <1>6 DEF Earned
  <1>8. \A r \in Report : filed'[r] >= filed[r] /\ alerted'[r] >= alerted[r]
    BY <1>2 DEF QueueInv, Shape
  <1>9. filed' \in [Report -> Nat] /\ alerted' \in [Report -> Nat]
    BY <1>2 DEF QueueInv, Shape
  <1>10. \A x \in Slot \ {s} : slot'[x] = slot[x]
    BY <1>1, <1>4
  <1> QED
    BY <1>2, <1>4, <1>5, <1>6, <1>7, <1>8, <1>9, <1>10, ServedInv

LEMMA ReportServedInv ==
    ASSUME QueueInv, NEW s \in Slot, FileReport(s) \/ RefuseReport(s) \/ AlertManager(s)
    PROVE  QueueInv'
  <1>1. slot[s] \in ReportSlot /\ Earned(s) /\ slot \in [Slot -> SlotState]
    BY DEF FileReport, RefuseReport, AlertManager, QueueInv, Shape, SlotState, BatchSlot,
           Free
  <1>2. UNCHANGED <<queue, tab, stored>>
    BY DEF FileReport, RefuseReport, AlertManager
  <1>3. PICK r \in Report : r = slot[s].report
    BY <1>1 DEF ReportSlot
  <1>4. filed \in [Report -> Nat] /\ alerted \in [Report -> Nat]
    BY DEF QueueInv, Shape
  <1>5. /\ filed' \in [Report -> Nat] /\ alerted' \in [Report -> Nat]
        /\ \A x \in Report : filed'[x] >= filed[x] /\ alerted'[x] >= alerted[x]
    <2>1. CASE FileReport(s)
      BY <1>3, <1>4, <2>1 DEF FileReport
    <2>2. CASE AlertManager(s)
      BY <1>3, <1>4, <2>2 DEF AlertManager
    <2>3. CASE RefuseReport(s)
      BY <1>4, <2>3 DEF RefuseReport
    <2> QED
      BY <2>1, <2>2, <2>3
  <1>6. PICK v : /\ slot' = [slot EXCEPT ![s] = v]
                 /\ v \in ReportSlot /\ v.owner = slot[s].owner /\ v.report = r
                 /\ v.step \in {"alert", "done"} => filed'[r] > 0
                 /\ v.step = "done" => alerted'[r] > 0
    <2>1. CASE FileReport(s)
      <3> DEFINE v == [slot[s] EXCEPT !.step = "alert"]
      <3>1. /\ v \in ReportSlot /\ v.owner = slot[s].owner
            /\ v.report = r /\ v.step = "alert"
        BY <1>1, <1>3 DEF ReportSlot
      <3>2. slot' = [slot EXCEPT ![s] = v]
        BY <2>1 DEF FileReport
      <3>3. filed'[r] > 0
        BY <1>3, <1>4, <2>1 DEF FileReport
      <3> QED
        BY <3>1, <3>2, <3>3
    <2>2. CASE AlertManager(s)
      <3> DEFINE v == [slot[s] EXCEPT !.step = "done"]
      <3>1. /\ v \in ReportSlot /\ v.owner = slot[s].owner
            /\ v.report = r /\ v.step = "done"
        BY <1>1, <1>3 DEF ReportSlot
      <3>2. slot' = [slot EXCEPT ![s] = v]
        BY <2>2 DEF AlertManager
      <3>3. alerted'[r] > 0
        BY <1>3, <1>4, <2>2 DEF AlertManager
      <3>4. filed'[r] > 0
        BY <1>1, <1>3, <2>2 DEF AlertManager, Earned
      <3> QED
        BY <3>1, <3>2, <3>3, <3>4
    <2>3. CASE RefuseReport(s)
      <3> DEFINE v == [slot[s] EXCEPT !.step = "refused"]
      <3>1. /\ v \in ReportSlot /\ v.owner = slot[s].owner
            /\ v.report = r /\ v.step = "refused"
        BY <1>1, <1>3 DEF ReportSlot
      <3>2. slot' = [slot EXCEPT ![s] = v]
        BY <2>3 DEF RefuseReport
      <3> QED
        BY <3>1, <3>2
    <2> QED
      BY <2>1, <2>2, <2>3
  <1>7. slot'[s] = v /\ slot' \in [Slot -> SlotState]
    BY <1>1, <1>6 DEF SlotState
  <1>8. v.kind = "report" /\ slot[s].kind = "report"
    BY <1>1, <1>6 DEF ReportSlot
  <1>9. Earned(s)'
    BY <1>6, <1>7, <1>8 DEF Earned
  <1>10. stored' \subseteq Inspection /\ stored \subseteq stored'
    BY <1>2 DEF QueueInv, Shape
  <1>11. \A x \in Slot \ {s} : slot'[x] = slot[x]
    BY <1>1, <1>6
  <1> QED
    BY <1>2, <1>5, <1>6, <1>7, <1>8, <1>9, <1>10, <1>11, ServedInv

LEMMA DiscardInv == ASSUME QueueInv, NEW s \in Slot, Discard(s) PROVE QueueInv'
  <1>1. UNCHANGED <<queue, tab, stored, filed, alerted>> /\ slot[s].owner = None
    BY DEF Discard
  <1>2. /\ slot' \in [Slot -> SlotState] /\ slot'[s] = Free
        /\ \A x \in Slot \ {s} : slot'[x] = slot[x]
    BY DEF Discard, QueueInv, Shape, SlotState
  <1>3. Earned(s)'
    BY <1>2 DEF Earned, Free
  <1>4. /\ stored' \subseteq Inspection /\ stored \subseteq stored'
        /\ filed' \in [Report -> Nat] /\ alerted' \in [Report -> Nat]
        /\ \A r \in Report : filed'[r] >= filed[r] /\ alerted'[r] >= alerted[r]
    BY <1>1 DEF QueueInv, Shape
  <1> QED
    BY <1>1, <1>2, <1>3, <1>4, ServedInv

-----------------------------------------------------------------------------
(* The client's steps.                                                     *)

\* A step of one tab that leaves the requests alone and the tab waiting for none.
LEMMA AloneInv ==
    ASSUME QueueInv, NEW t \in Tab, NEW v \in TabState,
           UNCHANGED <<queue, slot, stored, filed, alerted>>,
           tab' = [tab EXCEPT ![t] = v], v.pc \notin {"batch", "report"}
    PROVE  QueueInv'
  <1>1. Shape'
    BY DEF QueueInv, Shape
  <1>2. ASSUME NEW x \in Tab PROVE Owns(x)'
    BY DEF QueueInv, Shape, Owns
  <1>3. ASSUME NEW x \in Slot PROVE Earned(x)'
    BY DEF QueueInv, Earned
  <1>4. SyncedIsStored'
    BY DEF QueueInv, SyncedIsStored
  <1> QED
    BY <1>1, <1>2, <1>3, <1>4 DEF QueueInv

\* What a loop over the reports begins with.
LEMMA LoopsRead ==
    /\ HazardLoop \in TabState /\ HazardLoop.pc = "reports"
    /\ HazardLoop.todo = PendingIn(Hazard)
    /\ LeaveLoop \in TabState /\ LeaveLoop.pc = "reports"
    /\ LeaveLoop.todo = PendingIn(Leave)
  <1>1. PendingIn(Hazard) \subseteq Report /\ PendingIn(Leave) \subseteq Report
    BY DEF PendingIn, Report
  <1>2. HazardLoop \in LoopState /\ LeaveLoop \in LoopState
    BY <1>1 DEF HazardLoop, LeaveLoop, LoopState, Stage
  <1> QED
    BY <1>2 DEF HazardLoop, LeaveLoop, TabState

LEMMA EnqueueInv ==
    ASSUME QueueInv, NEW x \in Inspection \cup Report, Enqueue(x) PROVE QueueInv'
  <1>1. UNCHANGED <<tab, slot, stored, filed, alerted>>
    BY DEF Enqueue
  <1>2. Shape'
    BY <1>1 DEF Enqueue, QueueInv, Shape
  <1>3. ASSUME NEW t \in Tab PROVE Owns(t)'
    BY <1>1 DEF QueueInv, Owns
  <1>4. ASSUME NEW s \in Slot PROVE Earned(s)'
    BY <1>1 DEF QueueInv, Earned
  <1>5. SyncedIsStored'
    BY <1>1 DEF Enqueue, QueueInv, Shape, SyncedIsStored
  <1> QED
    BY <1>2, <1>3, <1>4, <1>5 DEF QueueInv

\* A tab's step that takes the free slot s for the request q and waits for it.
Posts(t, s, q, v) ==
    /\ slot[s] = Free
    /\ slot' = [slot EXCEPT ![s] = q]
    /\ tab' = [tab EXCEPT ![t] = v]
    /\ UNCHANGED <<queue, stored, filed, alerted>>
    /\ v.pc = q.kind /\ v.pc \in {"batch", "report"} /\ v.slot = s /\ q.owner = t
    /\ q.kind = "batch" => q.created = {}
    /\ q.kind = "report" => q.step = "file"

LEMMA PostedInv ==
    ASSUME QueueInv, NEW t \in Tab, NEW s \in Slot,
           NEW q \in BatchSlot \cup ReportSlot, NEW v \in TabState, Posts(t, s, q, v)
    PROVE  QueueInv'
  <1> USE DEF Posts
  <1>1. tab \in [Tab -> TabState] /\ slot \in [Slot -> SlotState]
    BY DEF QueueInv, Shape
  <1>2. /\ tab' \in [Tab -> TabState] /\ tab'[t] = v
        /\ \A x \in Tab \ {t} : tab'[x] = tab[x]
    BY <1>1
  <1>3. /\ slot' \in [Slot -> SlotState] /\ slot'[s] = q
        /\ \A x \in Slot \ {s} : slot'[x] = slot[x]
    BY <1>1 DEF SlotState
  <1>4. Earned(s)'
    BY <1>3 DEF Earned
  <1>5. Owns(t)'
    BY <1>2, <1>3 DEF Owns
  <1>6. SyncedIsStored' /\ queue' \in [Inspection \cup Report -> {"absent", "pending", "synced"}]
    BY DEF QueueInv, Shape, SyncedIsStored
  <1>7. slot[s].owner \in {t, None}
    BY DEF Free
  <1> QED
    BY <1>2, <1>3, <1>4, <1>5, <1>6, <1>7, FlushedInv

LEMMA StartInv == ASSUME QueueInv, NEW t \in Tab, Start(t) PROVE QueueInv'
  <1>1. queue \in [Inspection \cup Report -> {"absent", "pending", "synced"}]
    BY DEF QueueInv, Shape
  <1>2. PendingIn(Inspection) \subseteq Inspection
    BY DEF PendingIn
  <1>3. UNCHANGED <<queue, stored, filed, alerted>>
    BY DEF Start
  <1>4. ASSUME NEW s \in Slot, slot[s] = Free,
               slot' = [slot EXCEPT
                    ![s] = [kind |-> "batch", owner |-> t, failed |-> FALSE,
                            todo |-> PendingIn(Inspection), inserting |-> None,
                            created |-> {}]],
               tab' = [tab EXCEPT ![t] = [pc |-> "batch", slot |-> s]]
        PROVE  QueueInv'
    <2> DEFINE q == [kind |-> "batch", owner |-> t, failed |-> FALSE,
                     todo |-> PendingIn(Inspection), inserting |-> None, created |-> {}]
               v == [pc |-> "batch", slot |-> s]
    <2>1. q \in BatchSlot \cup ReportSlot
      BY <1>2 DEF BatchSlot, Owner
    <2>2. v \in TabState
      BY DEF TabState
    <2>3. /\ v.pc = q.kind /\ v.pc \in {"batch", "report"} /\ v.slot = s /\ q.owner = t
          /\ q.kind = "batch" => q.created = {}
          /\ q.kind = "report" => q.step = "file"
      OBVIOUS
    <2>4. slot' = [slot EXCEPT ![s] = q] /\ tab' = [tab EXCEPT ![t] = v]
      BY <1>4
    <2> HIDE DEF q, v
    <2>5. Posts(t, s, q, v)
      BY <1>3, <1>4, <2>3, <2>4 DEF Posts
    <2> QED
      BY <2>1, <2>2, <2>5, PostedInv, Zenon
  <1>5. CASE tab' = [tab EXCEPT ![t] = HazardLoop] /\ UNCHANGED slot
    <2>1. HazardLoop \in TabState /\ HazardLoop.pc \notin {"batch", "report"}
      BY LoopsRead
    <2> QED
      BY <1>3, <1>5, <2>1, AloneInv
  <1> QED
    BY <1>4, <1>5 DEF Start

LEMMA PostReportInv == ASSUME QueueInv, NEW t \in Tab, PostReport(t) PROVE QueueInv'
  <1>1. tab[t] \in LoopState
    BY DEF PostReport, QueueInv, Shape, TabState, PostState, Idle
  <1>2. PICK r \in tab[t].todo, s \in Slot :
           /\ slot[s] = Free
           /\ slot' = [slot EXCEPT
                ![s] = [kind |-> "report", owner |-> t, report |-> r, step |-> "file"]]
           /\ tab' = [tab EXCEPT
                ![t] = [pc |-> "report", stage |-> @.stage, todo |-> @.todo \ {r},
                        slot |-> s]]
    BY DEF PostReport
  <1> DEFINE q == [kind |-> "report", owner |-> t, report |-> r, step |-> "file"]
             v == [pc |-> "report", stage |-> tab[t].stage, todo |-> tab[t].todo \ {r},
                   slot |-> s]
  <1>3. q \in BatchSlot \cup ReportSlot
    BY <1>1 DEF ReportSlot, LoopState, Owner
  <1>4. v \in TabState
    BY <1>1 DEF TabState, LoopState, PostState
  <1>5. /\ v.pc = q.kind /\ v.pc \in {"batch", "report"} /\ v.slot = s /\ q.owner = t
        /\ q.kind = "batch" => q.created = {}
        /\ q.kind = "report" => q.step = "file"
    OBVIOUS
  <1>6. slot' = [slot EXCEPT ![s] = q] /\ tab' = [tab EXCEPT ![t] = v]
    BY <1>2
  <1>7. UNCHANGED <<queue, stored, filed, alerted>>
    BY DEF PostReport
  <1> HIDE DEF q, v
  <1>8. Posts(t, s, q, v)
    BY <1>2, <1>5, <1>6, <1>7 DEF Posts
  <1> QED
    BY <1>3, <1>4, <1>8, PostedInv, Zenon

LEMMA ReadLeavesInv == ASSUME QueueInv, NEW t \in Tab, ReadLeaves(t) PROVE QueueInv'
  <1>1. LeaveLoop \in TabState /\ LeaveLoop.pc \notin {"batch", "report"}
    BY LoopsRead
  <1>2. /\ tab' = [tab EXCEPT ![t] = LeaveLoop]
        /\ UNCHANGED <<queue, slot, stored, filed, alerted>>
    BY DEF ReadLeaves
  <1> QED
    BY <1>1, <1>2, AloneInv

LEMMA FinishInv == ASSUME QueueInv, NEW t \in Tab, Finish(t) PROVE QueueInv'
  <1>1. Idle \in TabState /\ Idle.pc \notin {"batch", "report"}
    BY DEF TabState, Idle
  <1>2. tab' = [tab EXCEPT ![t] = Idle] /\ UNCHANGED <<queue, slot, stored, filed, alerted>>
    BY DEF Finish
  <1> QED
    BY <1>1, <1>2, AloneInv

\* A tab's step away from the request it waited for, which is freed or left to itself.
LEMMA LeftInv ==
    ASSUME QueueInv, NEW t \in Tab, tab[t].pc \in {"batch", "report"}, NEW v \in TabState,
           tab' = [tab EXCEPT ![t] = v], v.pc \notin {"batch", "report"},
           Forsaken(tab[t].slot),
           queue' \in [Inspection \cup Report -> {"absent", "pending", "synced"}],
           SyncedIsStored', UNCHANGED <<stored, filed, alerted>>
    PROVE  QueueInv'
  <1>1. /\ tab \in [Tab -> TabState] /\ slot \in [Slot -> SlotState]
        /\ Owns(t)
    BY DEF QueueInv, Shape
  <1>2. PICK s \in Slot : s = tab[t].slot
    BY <1>1 DEF TabState, LoopState, PostState, Idle
  <1>3. slot[s].owner = t /\ slot[s] \in BatchSlot \cup ReportSlot /\ Earned(s)
    BY <1>1, <1>2 DEF Owns, SlotState, QueueInv, Free
  <1>4. PICK q \in SlotState :
           slot' = [slot EXCEPT ![s] = q] /\ (q = Free \/ q = [slot[s] EXCEPT !.owner = None])
    <2>1. CASE slot' = [slot EXCEPT ![s] = Free]
      BY <2>1 DEF SlotState
    <2>2. CASE slot' = [slot EXCEPT ![s].owner = None]
      <3>1. slot' = [slot EXCEPT ![s] = [slot[s] EXCEPT !.owner = None]]
        BY <2>2
      <3>2. [slot[s] EXCEPT !.owner = None] \in SlotState
        <4>1. CASE slot[s] \in BatchSlot
          BY <4>1 DEF BatchSlot, SlotState, Owner
        <4>2. CASE slot[s] \in ReportSlot
          BY <4>2 DEF ReportSlot, SlotState, Owner
        <4> QED
          BY <1>3, <4>1, <4>2
      <3> QED
        BY <3>1, <3>2
    <2> QED
      BY <1>2, <2>1, <2>2 DEF Forsaken
  <1>5. /\ slot' \in [Slot -> SlotState] /\ slot'[s] = q
        /\ \A x \in Slot \ {s} : slot'[x] = slot[x]
    BY <1>1, <1>4
  <1>6. Earned(s)'
    <2>1. CASE q = Free
      BY <1>5, <2>1 DEF Earned, Free
    <2>2. CASE q = [slot[s] EXCEPT !.owner = None]
      <3>1. CASE slot[s] \in BatchSlot
        <4>1. q.kind = "batch" /\ slot[s].kind = "batch" /\ q.created = slot[s].created
          BY <2>2, <3>1 DEF BatchSlot
        <4> QED
          BY <1>3, <1>5, <4>1 DEF Earned
      <3>2. CASE slot[s] \in ReportSlot
        <4>1. /\ q.kind = "report" /\ slot[s].kind = "report"
              /\ q.report = slot[s].report /\ q.step = slot[s].step
          BY <2>2, <3>2 DEF ReportSlot
        <4> QED
          BY <1>3, <1>5, <4>1 DEF Earned
      <3> QED
        BY <1>3, <3>1, <3>2
    <2> QED
      BY <1>4, <2>1, <2>2
  <1>7. /\ tab' \in [Tab -> TabState] /\ tab'[t] = v
        /\ \A x \in Tab \ {t} : tab'[x] = tab[x]
    BY <1>1
  <1>8. Owns(t)'
    BY <1>7 DEF Owns
  <1>9. slot[s].owner \in {t, None}
    BY <1>3
  <1> QED
    BY <1>5, <1>6, <1>7, <1>8, <1>9, FlushedInv

LEMMA TakeBatchAnswerInv ==
    ASSUME QueueInv, NEW t \in Tab, TakeBatchAnswer(t) PROVE QueueInv'
  <1>1. /\ queue \in [Inspection \cup Report -> {"absent", "pending", "synced"}]
        /\ tab \in [Tab -> TabState] /\ slot \in [Slot -> SlotState]
    BY DEF QueueInv, Shape
  <1>2. tab[t].pc = "batch" /\ UNCHANGED <<stored, filed, alerted>>
    BY DEF TakeBatchAnswer
  <1>3. PICK s \in Slot : s = tab[t].slot
    BY <1>1, <1>2 DEF TabState, LoopState, PostState, Idle
  <1>4. slot[s].kind = "batch" /\ slot[s].created \subseteq stored
    BY <1>2, <1>3 DEF QueueInv, Owns, Earned
  <1>5. \A x \in Inspection \cup Report :
           queue'[x] = queue[x] \/ (x \in stored /\ queue'[x] = "synced")
    <2>1. DOMAIN queue = Inspection \cup Report
      BY <1>1
    <2>2. queue' = [x \in DOMAIN queue |->
             IF x \in slot[s].created /\ ~slot[s].failed THEN "synced" ELSE queue[x]]
      BY <1>3 DEF TakeBatchAnswer
    <2> QED
      BY <1>4, <2>1, <2>2
  <1>6. queue' \in [Inspection \cup Report -> {"absent", "pending", "synced"}]
    <2>1. queue' = [x \in Inspection \cup Report |-> queue'[x]]
      BY <1>1 DEF TakeBatchAnswer
    <2> QED
      BY <1>1, <1>5, <2>1
  <1>7. \A x \in stored : x \notin Report
    BY QueueAssumption DEF QueueInv, Shape, Report
  <1>8. SyncedIsStored'
    BY <1>2, <1>5, <1>7 DEF QueueInv, SyncedIsStored
  <1>9. HazardLoop \in TabState /\ HazardLoop.pc \notin {"batch", "report"}
    BY LoopsRead
  <1>10. tab' = [tab EXCEPT ![t] = HazardLoop] /\ Forsaken(tab[t].slot)
    BY DEF TakeBatchAnswer, Forsaken
  <1> QED
    BY <1>2, <1>6, <1>8, <1>9, <1>10, LeftInv

LEMMA TakeReportAnswerInv ==
    ASSUME QueueInv, NEW t \in Tab, TakeReportAnswer(t) PROVE QueueInv'
  <1>1. /\ queue \in [Inspection \cup Report -> {"absent", "pending", "synced"}]
        /\ tab \in [Tab -> TabState] /\ slot \in [Slot -> SlotState]
    BY DEF QueueInv, Shape
  <1>2. tab[t].pc = "report" /\ UNCHANGED <<stored, filed, alerted>>
    BY DEF TakeReportAnswer
  <1>3. PICK s \in Slot : s = tab[t].slot
    BY <1>1, <1>2 DEF TabState, LoopState, PostState, Idle
  <1>4. tab[t] \in PostState
    BY <1>1, <1>2 DEF TabState, LoopState, Idle
  <1>5. slot[s].kind = "report" /\ Earned(s) /\ slot[s] \in SlotState
    BY <1>1, <1>2, <1>3 DEF QueueInv, Owns
  <1>6. PICK r \in Report : r = slot[s].report
    BY <1>5 DEF SlotState, ReportSlot, BatchSlot, Free
  <1>7. slot[s].step = "done" => filed[r] > 0 /\ alerted[r] > 0
    BY <1>5, <1>6 DEF Earned
  <1>8. \/ filed[r] > 0 /\ alerted[r] > 0
        \/ queue' = queue
    BY <1>3, <1>7 DEF TakeReportAnswer
  <1>9. queue' = [queue EXCEPT ![r] = "synced"] \/ queue' = queue
    BY <1>3, <1>6 DEF TakeReportAnswer
  <1>10. queue' \in [Inspection \cup Report -> {"absent", "pending", "synced"}]
    BY <1>1, <1>9
  <1>11. SyncedIsStored'
    <2>1. r \notin Inspection
      BY QueueAssumption DEF Report
    <2> QED
      BY <1>1, <1>2, <1>8, <1>9, <2>1 DEF QueueInv, SyncedIsStored
  <1> DEFINE v == [pc |-> "reports", stage |-> tab[t].stage, todo |-> tab[t].todo]
  <1>12. v \in TabState /\ v.pc \notin {"batch", "report"}
    BY <1>4 DEF TabState, LoopState, PostState
  <1>13. tab' = [tab EXCEPT ![t] = v] /\ Forsaken(tab[t].slot)
    BY DEF TakeReportAnswer, Forsaken
  <1> HIDE DEF v
  <1> QED
    BY <1>2, <1>10, <1>11, <1>12, <1>13, LeftInv

LEMMA FaultInv == ASSUME QueueInv, NEW t \in Tab, GiveUp(t) \/ Reload(t) PROVE QueueInv'
  <1>1. /\ queue \in [Inspection \cup Report -> {"absent", "pending", "synced"}]
        /\ tab \in [Tab -> TabState] /\ SyncedIsStored
    BY DEF QueueInv, Shape
  <1>2. UNCHANGED <<queue, stored, filed, alerted>>
    BY DEF GiveUp, Reload
  <1>3. SyncedIsStored'
    BY <1>1, <1>2 DEF SyncedIsStored
  <1>4. Idle \in TabState /\ Idle.pc \notin {"batch", "report"}
    BY DEF TabState, Idle
  <1>5. CASE GiveUp(t)
    <2> DEFINE w == [pc |-> "reports", stage |-> tab[t].stage, todo |-> tab[t].todo]
               v == IF tab[t].pc = "batch" THEN HazardLoop ELSE w
    <2>1. /\ tab[t].pc \in {"batch", "report"} /\ Forsaken(tab[t].slot)
          /\ tab' = [tab EXCEPT ![t] = v]
      BY <1>5 DEF GiveUp
    <2>3. ASSUME tab[t].pc = "report" PROVE w \in TabState
      <3>1. tab[t] \in PostState
        BY <1>1, <2>3 DEF TabState, LoopState, Idle
      <3>2. w \in LoopState
        BY <3>1 DEF LoopState, PostState
      <3> QED
        BY <3>2 DEF TabState
    <2>4. v \in TabState /\ v.pc \notin {"batch", "report"}
      <3>1. HazardLoop.pc = "reports" /\ w.pc = "reports"
        BY LoopsRead
      <3> HIDE DEF w
      <3>2. v.pc = "reports"
        BY <3>1
      <3>3. v \in TabState
        BY <2>1, <2>3, LoopsRead
      <3> QED
        BY <3>2, <3>3
    <2> HIDE DEF v
    <2> QED
      BY <1>1, <1>2, <1>3, <2>1, <2>4, LeftInv
  <1>6. CASE Reload(t) /\ tab[t].pc \in {"batch", "report"}
    <2>1. Forsaken(tab[t].slot) /\ tab' = [tab EXCEPT ![t] = Idle]
      BY <1>6 DEF Reload
    <2> QED
      BY <1>1, <1>2, <1>3, <1>4, <1>6, <2>1, LeftInv
  <1>7. CASE Reload(t) /\ tab[t].pc \notin {"batch", "report"}
    <2>1. UNCHANGED slot /\ tab' = [tab EXCEPT ![t] = Idle]
      BY <1>7 DEF Reload
    <2> QED
      BY <1>2, <1>4, <2>1, AloneInv
  <1> QED
    BY <1>5, <1>6, <1>7

LEMMA NextInv == QueueInv /\ [Next]_vars => QueueInv'
  <1> SUFFICES ASSUME QueueInv, [Next]_vars PROVE QueueInv'
    OBVIOUS
  <1>1. ASSUME NEW x \in Inspection \cup Report, Enqueue(x) PROVE QueueInv'
    BY <1>1, EnqueueInv
  <1>2. ASSUME NEW t \in Tab, Flush(t) PROVE QueueInv'
    BY <1>2, StartInv, TakeBatchAnswerInv, PostReportInv, TakeReportAnswerInv, ReadLeavesInv,
       FinishInv DEF Flush
  <1>3. ASSUME NEW t \in Tab, GiveUp(t) \/ Reload(t) PROVE QueueInv'
    BY <1>3, FaultInv
  <1>4. ASSUME NEW s \in Slot, Serve(s) PROVE QueueInv'
    BY <1>4, ReadItemInv, InsertItemInv, ReportServedInv, DiscardInv DEF Serve
  <1>5. CASE FileElsewhere \/ UNCHANGED vars
    <2> USE DEF FileElsewhere, vars
    <2>1. Shape'
      BY <1>5 DEF QueueInv, Shape
    <2>2. \A t \in Tab : Owns(t)'
      BY <1>5 DEF QueueInv, Owns
    <2>3. \A s \in Slot : Earned(s)'
      BY <1>5 DEF QueueInv, Earned
    <2>4. SyncedIsStored'
      BY <1>5 DEF QueueInv, SyncedIsStored
    <2> QED
      BY <2>1, <2>2, <2>3, <2>4 DEF QueueInv
  <1> QED
    BY <1>1, <1>2, <1>3, <1>4, <1>5 DEF Next

LEMMA QueueInvAlways == Spec => []QueueInv
  BY InitInv, NextInv, PTL DEF Spec

\* The queue, the flushes and the requests keep their shape, and the request a tab
\* waits for stays its own, for any number of tabs, items and faults.
THEOREM TypeCorrect == Spec => []TypeOK
  <1>1. QueueInv /\ keyless \in BOOLEAN => TypeOK
    <2> SUFFICES ASSUME QueueInv, keyless \in BOOLEAN PROVE TypeOK
      OBVIOUS
    <2>1. ASSUME NEW t \in Tab
          PROVE  \/ tab[t] = Idle
                 \/ /\ tab[t].pc = "batch"
                    /\ slot[tab[t].slot].kind = "batch"
                    /\ slot[tab[t].slot].owner = t
                 \/ /\ tab[t].pc = "reports"
                    /\ tab[t].stage \in {"hazards", "leaves"}
                    /\ tab[t].todo \subseteq Report
                 \/ /\ tab[t].pc = "report"
                    /\ tab[t].stage \in {"hazards", "leaves"}
                    /\ tab[t].todo \subseteq Report
                    /\ slot[tab[t].slot].kind = "report"
                    /\ slot[tab[t].slot].owner = t
      <3>1. tab[t] \in TabState /\ Owns(t)
        BY DEF QueueInv, Shape
      <3>2. CASE tab[t] = Idle
        BY <3>2
      <3>3. CASE tab[t] \in [pc : {"batch"}, slot : Slot]
        BY <3>1, <3>3 DEF Owns
      <3>4. CASE tab[t] \in LoopState
        BY <3>4 DEF LoopState, Stage
      <3>5. CASE tab[t] \in PostState
        BY <3>1, <3>5 DEF Owns, PostState, Stage
      <3> QED
        BY <3>1, <3>2, <3>3, <3>4, <3>5 DEF TabState
    <2> QED
      BY <2>1 DEF TypeOK, QueueInv, Shape
  <1>2. Init => keyless \in BOOLEAN
    BY DEF Init
  <1>3. keyless \in BOOLEAN /\ [Next]_vars => (keyless \in BOOLEAN)'
    BY DEF Next, Enqueue, Flush, Start, TakeBatchAnswer, PostReport, TakeReportAnswer,
           ReadLeaves, Finish, GiveUp, Reload, Serve, ReadItem, InsertItem, FileReport,
           RefuseReport, AlertManager, FileElsewhere, Discard, vars
  <1> QED
    BY <1>1, <1>2, <1>3, QueueInvAlways, PTL DEF Spec

\* Nothing leaves the queue before it has arrived: an inspection shown as synced is
\* in the database, and a report has been filed and the manager alerted
\* (sync-manager.ts:153-216), whatever is lost, reloaded or sent by another tab.
THEOREM SyncedAlwaysStored == Spec => []SyncedIsStored
  <1>1. QueueInv => SyncedIsStored
    BY DEF QueueInv
  <1> QED
    BY <1>1, QueueInvAlways, PTL
-----------------------------------------------------------------------------
(* How often a report is filed.                                            *)

\* The requests that have yet to take a step with report r.
AtStep(r, step) ==
    {s \in Slot : slot[s].kind = "report" /\ slot[s].report = r /\ slot[s].step = step}

\* Tab t is to post report r; it waits for an answer to it that may be good.
Holds(t, r) == tab[t].pc \in {"reports", "report"} /\ r \in tab[t].todo
Awaits(t, r) ==
    /\ tab[t].pc = "report"
    /\ slot[tab[t].slot].report = r
    /\ slot[tab[t].slot].step # "refused"

Spent(r) ==
    IF queue[r] = "synced" THEN {t \in Tab : ~Holds(t, r)} ELSE {t \in Tab : Awaits(t, r)}

FiledOK(r) ==
    /\ \A t \in Tab : Awaits(t, r) => ~Holds(t, r)
    /\ alerted[r] + Cardinality(AtStep(r, "alert")) <= filed[r]
    /\ filed[r] + Cardinality(AtStep(r, "file")) <= faults + Cardinality(Spent(r))

Finite == IsFiniteSet(Tab) /\ IsFiniteSet(Slot)

FiledInv == Finite /\ QueueInv /\ faults \in Nat /\ \A r \in Report : FiledOK(r)

LEMMA SetsFinite ==
    ASSUME Finite
    PROVE  \A r, step : /\ IsFiniteSet(AtStep(r, step)) /\ IsFiniteSet(AtStep(r, step)')
                        /\ IsFiniteSet(Spent(r)) /\ IsFiniteSet(Spent(r)')
  <1>1. \A r, step : AtStep(r, step) \subseteq Slot /\ AtStep(r, step)' \subseteq Slot
    BY DEF AtStep
  <1>2. \A r : Spent(r) \subseteq Tab /\ Spent(r)' \subseteq Tab
    BY DEF Spent
  <1> QED
    BY <1>1, <1>2, FS_Subset DEF Finite

LEMMA Shrinks ==
    ASSUME NEW S, NEW T, IsFiniteSet(T), S \subseteq T
    PROVE  /\ IsFiniteSet(S) /\ Cardinality(S) \in Nat /\ Cardinality(T) \in Nat
           /\ Cardinality(S) <= Cardinality(T)
  BY FS_Subset, FS_CardinalityType

LEMMA GrowsByOne ==
    ASSUME NEW S, NEW T, NEW x, IsFiniteSet(S), IsFiniteSet(T), S \subseteq T \cup {x}
    PROVE  /\ Cardinality(S) \in Nat /\ Cardinality(T) \in Nat
           /\ Cardinality(S) <= Cardinality(T) + 1
  <1>1. IsFiniteSet(T \cup {x}) /\ Cardinality(T \cup {x}) <= Cardinality(T) + 1
    <2>1. Cardinality(T) \in Nat
      BY FS_CardinalityType
    <2>2. /\ IsFiniteSet(T \cup {x})
          /\ \/ Cardinality(T \cup {x}) = Cardinality(T)
             \/ Cardinality(T \cup {x}) = Cardinality(T) + 1
      BY FS_AddElement
    <2> QED
      BY <2>1, <2>2
  <1>2. Cardinality(T \cup {x}) \in Nat /\ Cardinality(S) \in Nat /\ Cardinality(T) \in Nat
    BY <1>1, FS_CardinalityType
  <1>3. Cardinality(S) <= Cardinality(T \cup {x})
    BY <1>1, Shrinks
  <1> QED
    BY <1>1, <1>2, <1>3

LEMMA LosesOne ==
    ASSUME NEW S, NEW T, NEW x \in T, IsFiniteSet(T), S \subseteq T \ {x}
    PROVE  /\ Cardinality(S) \in Nat /\ Cardinality(T) \in Nat
           /\ Cardinality(S) + 1 <= Cardinality(T)
  <1>1. IsFiniteSet(T \ {x}) /\ Cardinality(T \ {x}) = Cardinality(T) - 1
    BY FS_RemoveElement
  <1>2. Cardinality(S) \in Nat /\ Cardinality(S) <= Cardinality(T \ {x})
    BY <1>1, Shrinks
  <1>3. Cardinality(T) \in Nat
    BY FS_CardinalityType
  <1> QED
    BY <1>1, <1>2, <1>3

\* What a report has cost, and the credit it was posted on.
Filing(r) == Cardinality(AtStep(r, "file"))
Alerting(r) == Cardinality(AtStep(r, "alert"))
Credit(r) == Cardinality(Spent(r))

LEMMA Numbers ==
    ASSUME Finite, Shape, NEW r \in Report
    PROVE  /\ {filed[r], alerted[r], Filing(r), Alerting(r), Credit(r)} \subseteq Nat
           /\ {Filing(r)', Alerting(r)', Credit(r)'} \subseteq Nat
  <1>1. {filed[r], alerted[r]} \subseteq Nat
    BY DEF Shape
  <1> QED
    BY <1>1, SetsFinite, FS_CardinalityType DEF Filing, Alerting, Credit

\* A step that posts and files nothing, and takes credit from tab t only for a fault.
LEMMA CountsStay ==
    ASSUME FiledInv, NEW r \in Report, NEW X,
           filed'[r] = filed[r], alerted'[r] = alerted[r],
           AtStep(r, "file")' \subseteq AtStep(r, "file"),
           AtStep(r, "alert")' \subseteq AtStep(r, "alert"),
           Spent(r) \ X \subseteq Spent(r)',
           \/ X = {} /\ faults' = faults
           \/ \E t : X = {t} /\ faults' = faults + 1,
           \A t \in Tab : Awaits(t, r)' => ~Holds(t, r)'
    PROVE  FiledOK(r)'
  <1>1. /\ {filed[r], alerted[r], Filing(r), Alerting(r), Credit(r)} \subseteq Nat
        /\ {Filing(r)', Alerting(r)', Credit(r)'} \subseteq Nat
    BY Numbers DEF FiledInv, QueueInv
  <1>2. Filing(r)' <= Filing(r) /\ Alerting(r)' <= Alerting(r)
    BY SetsFinite, Shrinks DEF Filing, Alerting, FiledInv
  <1>3. Credit(r) + faults <= Credit(r)' + faults'
    <2>1. CASE X = {} /\ faults' = faults
      <3>1. Spent(r) \subseteq Spent(r)'
        BY <2>1
      <3>2. Credit(r) <= Credit(r)'
        BY <3>1, SetsFinite, Shrinks DEF Credit, FiledInv
      <3> QED
        BY <1>1, <2>1, <3>2 DEF FiledInv
    <2>2. ASSUME NEW t, X = {t}, faults' = faults + 1
          PROVE  Credit(r) + faults <= Credit(r)' + faults'
      <3>1. Spent(r) \subseteq Spent(r)' \cup {t}
        BY <2>2
      <3>2. Credit(r) <= Credit(r)' + 1
        BY <3>1, SetsFinite, GrowsByOne DEF Credit, FiledInv
      <3> QED
        BY <1>1, <2>2, <3>2 DEF FiledInv
    <2> QED
      BY <2>1, <2>2
  <1>4. alerted[r] + Alerting(r) <= filed[r] /\ filed[r] + Filing(r) <= faults + Credit(r)
    BY DEF FiledInv, FiledOK, Filing, Alerting, Credit
  <1>5. faults \in Nat /\ faults' \in Nat
    BY DEF FiledInv
  <1>6. /\ alerted'[r] + Alerting(r)' <= filed'[r]
        /\ filed'[r] + Filing(r)' <= faults' + Credit(r)'
    BY <1>1, <1>2, <1>3, <1>4, <1>5
  <1> QED
    BY <1>6 DEF FiledOK, Filing, Alerting, Credit

\* A tab keeps the credit it has spent, if it goes on waiting or has not read the
\* report again.
LEMMA SpentStays ==
    ASSUME NEW r, NEW X, queue'[r] = "synced" <=> queue[r] = "synced",
           \A t \in Tab \ X : /\ Awaits(t, r) => Awaits(t, r)'
                              /\ queue[r] = "synced" /\ Holds(t, r)' => Holds(t, r)
    PROVE  Spent(r) \ X \subseteq Spent(r)'
  BY DEF Spent

\* The other tabs go on as they did when one slot changes hands.
LEMMA OthersPost ==
    ASSUME QueueInv, NEW t \in Tab, NEW s \in Slot, tab'[t] = tab[t],
           \A x \in Slot \ {s} : slot'[x] = slot[x],
           \/ slot[s].kind # "report"
           \/ slot[s].owner # t
           \/ /\ slot'[s].report = slot[s].report
              /\ slot'[s].step = "refused" <=> slot[s].step = "refused"
    PROVE  \A r : (Awaits(t, r)' <=> Awaits(t, r)) /\ (Holds(t, r)' <=> Holds(t, r))
  <1>1. \A r : Holds(t, r)' <=> Holds(t, r)
    BY DEF Holds
  <1>2. CASE tab[t].pc # "report"
    BY <1>1, <1>2 DEF Awaits
  <1>3. CASE tab[t].pc = "report"
    <2>1. tab[t].slot \in Slot
      BY <1>3 DEF QueueInv, Shape, TabState, LoopState, PostState, Idle
    <2>2. slot[tab[t].slot].kind = "report" /\ slot[tab[t].slot].owner = t
      BY <1>3 DEF QueueInv, Owns
    <2>3. /\ slot'[tab[t].slot].report = slot[tab[t].slot].report
          /\ slot'[tab[t].slot].step = "refused" <=> slot[tab[t].slot].step = "refused"
      BY <2>1, <2>2
    <2> QED
      BY <1>1, <2>3 DEF Awaits
  <1> QED
    BY <1>2, <1>3

\* A step of one slot that posts and files nothing.
LEMMA StepsStay ==
    ASSUME NEW s \in Slot, \A x \in Slot \ {s} : slot'[x] = slot[x], NEW r, NEW step,
           \/ slot'[s].kind # "report"
           \/ slot'[s].step # step
           \/ /\ slot'[s].kind = slot[s].kind
              /\ slot'[s].report = slot[s].report
              /\ slot'[s].step = slot[s].step
    PROVE  AtStep(r, step)' \subseteq AtStep(r, step)
  BY DEF AtStep

\* A report that is refused is posted no more, and its tab has its credit back.
LEMMA RefusedFiled ==
    ASSUME FiledInv, NEW s \in Slot, UNCHANGED <<queue, tab, filed, alerted, faults>>,
           \A x \in Slot \ {s} : slot'[x] = slot[x],
           slot[s].kind = "report", slot[s].step = "file",
           slot'[s].kind = "report", slot'[s].report = slot[s].report,
           slot'[s].step = "refused", NEW r \in Report
    PROVE  FiledOK(r)'
  <1>1. \A u \in Tab : Holds(u, r)' <=> Holds(u, r)
    BY DEF Holds
  <1>2. \A u \in Tab : tab[u].pc = "report" => tab[u].slot \in Slot
    BY DEF FiledInv, QueueInv, Shape, TabState, LoopState, PostState, Idle
  <1>3. \A u \in Tab : Awaits(u, r)' => Awaits(u, r)
    BY <1>2 DEF Awaits
  <1>4. \A u \in Tab : Awaits(u, r)' => ~Holds(u, r)'
    BY <1>1, <1>3 DEF FiledInv, FiledOK
  <1>5. AtStep(r, "alert")' \subseteq AtStep(r, "alert")
    BY DEF AtStep
  <1>6. CASE r # slot[s].report
    <2>1. \A u \in Tab : Awaits(u, r) => Awaits(u, r)'
      BY <1>2, <1>6 DEF Awaits
    <2>2. Spent(r) \ {} \subseteq Spent(r)'
      BY <1>1, <2>1, SpentStays
    <2>3. AtStep(r, "file")' \subseteq AtStep(r, "file")
      BY DEF AtStep
    <2> QED
      BY <1>4, <1>5, <2>2, <2>3, CountsStay
  <1>7. CASE r = slot[s].report
    <2>1. ASSUME NEW u \in Tab \ {slot[s].owner} PROVE Awaits(u, r) => Awaits(u, r)'
      BY <2>1, OthersPost DEF FiledInv
    <2>2. Spent(r) \ {slot[s].owner} \subseteq Spent(r)'
      BY <1>1, <2>1, SpentStays
    <2>3. Spent(r) \subseteq Spent(r)' \cup {slot[s].owner}
      BY <2>2
    <2>4. Credit(r) <= Credit(r)' + 1
      BY <2>3, SetsFinite, GrowsByOne DEF Credit, FiledInv
    <2>5. s \in AtStep(r, "file") /\ AtStep(r, "file")' \subseteq AtStep(r, "file") \ {s}
      BY <1>7 DEF AtStep
    <2>6. Filing(r)' + 1 <= Filing(r)
      BY <2>5, SetsFinite, LosesOne DEF Filing, FiledInv
    <2>7. Alerting(r)' <= Alerting(r)
      BY <1>5, SetsFinite, Shrinks DEF Alerting, FiledInv
    <2>8. /\ {filed[r], alerted[r], Filing(r), Alerting(r), Credit(r)} \subseteq Nat
          /\ {Filing(r)', Alerting(r)', Credit(r)'} \subseteq Nat
      BY Numbers DEF FiledInv, QueueInv
    <2>9. alerted[r] + Alerting(r) <= filed[r] /\ filed[r] + Filing(r) <= faults + Credit(r)
      BY DEF FiledInv, FiledOK, Filing, Alerting, Credit
    <2>10. faults' = faults /\ faults \in Nat /\ filed' = filed /\ alerted' = alerted
      BY DEF FiledInv
    <2>11. /\ alerted'[r] + Alerting(r)' <= filed'[r]
           /\ filed'[r] + Filing(r)' <= faults' + Credit(r)'
      BY <2>4, <2>6, <2>7, <2>8, <2>9, <2>10
    <2> QED
      BY <1>4, <2>11 DEF FiledOK, Filing, Alerting, Credit
  <1> QED
    BY <1>6, <1>7

\* The steps of the server.
LEMMA ServerFiled ==
    ASSUME FiledInv, NEW s \in Slot, Serve(s), NEW r \in Report PROVE FiledOK(r)'
  <1>1. /\ UNCHANGED <<queue, tab, faults>> /\ slot[s] \in SlotState
        /\ slot \in [Slot -> SlotState] /\ filed \in [Report -> Nat]
        /\ alerted \in [Report -> Nat]
    BY DEF FiledInv, QueueInv, Shape, Serve, ReadItem, InsertItem, FileReport, RefuseReport,
           AlertManager, Discard
  <1>2. \A x \in Slot \ {s} : slot'[x] = slot[x]
    BY <1>1 DEF Serve, ReadItem, InsertItem, FileReport, RefuseReport, AlertManager, Discard
  <1>3. ASSUME \/ slot[s].kind # "report"
               \/ slot[s].owner = None
               \/ /\ slot'[s].report = slot[s].report
                  /\ slot'[s].step = "refused" <=> slot[s].step = "refused"
        PROVE  /\ \A t \in Tab : Awaits(t, r)' => ~Holds(t, r)'
               /\ Spent(r) \ {} \subseteq Spent(r)'
    <2>1. \A t \in Tab : (Awaits(t, r)' <=> Awaits(t, r)) /\ (Holds(t, r)' <=> Holds(t, r))
      BY <1>1, <1>2, <1>3, OthersPost, QueueAssumption DEF FiledInv
    <2> QED
      BY <1>1, <2>1, SpentStays DEF FiledInv, FiledOK
  <1>4. CASE ReadItem(s) \/ InsertItem(s)
    <2>1. slot[s].kind = "batch" /\ UNCHANGED <<filed, alerted>>
      BY <1>4 DEF ReadItem, InsertItem
    <2>2. slot'[s].kind = "batch"
      <3>1. slot[s] \in BatchSlot
        BY <1>1, <2>1 DEF SlotState, ReportSlot, Free
      <3> QED
        BY <1>1, <1>4, <3>1 DEF ReadItem, InsertItem, BatchSlot
    <2>3. \A step : AtStep(r, step)' \subseteq AtStep(r, step)
      BY <1>2, <2>2, StepsStay
    <2> QED
      BY <1>1, <1>3, <2>1, <2>3, CountsStay
  <1>5. CASE Discard(s)
    <2>1. /\ slot[s].owner = None /\ UNCHANGED <<filed, alerted>>
          /\ slot'[s].kind = "free"
      BY <1>1, <1>5 DEF Discard, Free
    <2>2. \A step : AtStep(r, step)' \subseteq AtStep(r, step)
      BY <1>2, <2>1, StepsStay
    <2> QED
      BY <1>1, <1>3, <2>1, <2>2, CountsStay
  <1>6. ASSUME NEW next, slot[s].kind = "report", slot' = [slot EXCEPT ![s].step = next]
        PROVE  /\ slot[s].report \in Report
               /\ slot'[s].kind = "report" /\ slot'[s].report = slot[s].report
               /\ slot'[s].step = next
    <2>1. slot[s] \in ReportSlot
      BY <1>1, <1>6 DEF SlotState, BatchSlot, Free
    <2> QED
      BY <1>1, <1>6, <2>1 DEF ReportSlot
  <1>7. CASE FileReport(s)
    <2>1. /\ slot[s].kind = "report" /\ slot[s].step = "file" /\ UNCHANGED alerted
          /\ filed' = [filed EXCEPT ![slot[s].report] = @ + 1]
          /\ slot[s].report \in Report
          /\ slot'[s].kind = "report" /\ slot'[s].report = slot[s].report
          /\ slot'[s].step = "alert"
      BY <1>6, <1>7 DEF FileReport
    <2>2. CASE r # slot[s].report
      <3>1. \A step : AtStep(r, step)' \subseteq AtStep(r, step)
        BY <1>2, <2>1, <2>2 DEF AtStep
      <3>2. filed'[r] = filed[r]
        BY <1>1, <2>1, <2>2
      <3> QED
        BY <1>1, <1>3, <2>1, <3>1, <3>2, CountsStay
    <2>3. CASE r = slot[s].report
      <3>1. filed'[r] = filed[r] + 1 /\ alerted'[r] = alerted[r]
        BY <1>1, <2>1, <2>3
      <3>2. s \in AtStep(r, "file") /\ AtStep(r, "file")' \subseteq AtStep(r, "file") \ {s}
        BY <1>2, <2>1, <2>3 DEF AtStep
      <3>3. AtStep(r, "alert")' \subseteq AtStep(r, "alert") \cup {s}
        BY <1>2 DEF AtStep
      <3>4. Filing(r)' + 1 <= Filing(r)
        BY <3>2, SetsFinite, LosesOne DEF Filing, FiledInv
      <3>5. Alerting(r)' <= Alerting(r) + 1
        BY <3>3, SetsFinite, GrowsByOne DEF Alerting, FiledInv
      <3>6. Credit(r) <= Credit(r)'
        BY <1>3, <2>1, SetsFinite, Shrinks DEF Credit, FiledInv
      <3>7. /\ {filed[r], alerted[r], Filing(r), Alerting(r), Credit(r)} \subseteq Nat
            /\ {Filing(r)', Alerting(r)', Credit(r)'} \subseteq Nat
        BY Numbers DEF FiledInv, QueueInv
      <3>8. alerted[r] + Alerting(r) <= filed[r] /\ filed[r] + Filing(r) <= faults + Credit(r)
        BY DEF FiledInv, FiledOK, Filing, Alerting, Credit
      <3>9. faults' = faults /\ faults \in Nat
        BY <1>1 DEF FiledInv
      <3>10. /\ alerted'[r] + Alerting(r)' <= filed'[r]
             /\ filed'[r] + Filing(r)' <= faults' + Credit(r)'
        BY <3>1, <3>4, <3>5, <3>6, <3>7, <3>8, <3>9
      <3> QED
        BY <1>3, <2>1, <3>10 DEF FiledOK, Filing, Alerting, Credit
    <2> QED
      BY <2>2, <2>3
  <1>8. CASE AlertManager(s)
    <2>1. /\ slot[s].kind = "report" /\ slot[s].step = "alert" /\ UNCHANGED filed
          /\ alerted' = [alerted EXCEPT ![slot[s].report] = @ + 1]
          /\ slot[s].report \in Report
          /\ slot'[s].kind = "report" /\ slot'[s].report = slot[s].report
          /\ slot'[s].step = "done"
      BY <1>6, <1>8 DEF AlertManager
    <2>2. CASE r # slot[s].report
      <3>1. \A step : AtStep(r, step)' \subseteq AtStep(r, step)
        BY <1>2, <2>1, <2>2 DEF AtStep
      <3>2. alerted'[r] = alerted[r]
        BY <1>1, <2>1, <2>2
      <3> QED
        BY <1>1, <1>3, <2>1, <3>1, <3>2, CountsStay
    <2>3. CASE r = slot[s].report
      <3>1. filed'[r] = filed[r] /\ alerted'[r] = alerted[r] + 1
        BY <1>1, <2>1, <2>3
      <3>2. s \in AtStep(r, "alert") /\ AtStep(r, "alert")' \subseteq AtStep(r, "alert") \ {s}
        BY <1>2, <2>1, <2>3 DEF AtStep
      <3>3. AtStep(r, "file")' \subseteq AtStep(r, "file")
        BY <1>2, <2>1, StepsStay
      <3>4. Alerting(r)' + 1 <= Alerting(r)
        BY <3>2, SetsFinite, LosesOne DEF Alerting, FiledInv
      <3>5. Filing(r)' <= Filing(r)
        BY <3>3, SetsFinite, Shrinks DEF Filing, FiledInv
      <3>6. Credit(r) <= Credit(r)'
        BY <1>3, <2>1, SetsFinite, Shrinks DEF Credit, FiledInv
      <3>7. /\ {filed[r], alerted[r], Filing(r), Alerting(r), Credit(r)} \subseteq Nat
            /\ {Filing(r)', Alerting(r)', Credit(r)'} \subseteq Nat
        BY Numbers DEF FiledInv, QueueInv
      <3>8. alerted[r] + Alerting(r) <= filed[r] /\ filed[r] + Filing(r) <= faults + Credit(r)
        BY DEF FiledInv, FiledOK, Filing, Alerting, Credit
      <3>9. faults' = faults /\ faults \in Nat
        BY <1>1 DEF FiledInv
      <3>10. /\ alerted'[r] + Alerting(r)' <= filed'[r]
             /\ filed'[r] + Filing(r)' <= faults' + Credit(r)'
        BY <3>1, <3>4, <3>5, <3>6, <3>7, <3>8, <3>9
      <3> QED
        BY <1>3, <2>1, <3>10 DEF FiledOK, Filing, Alerting, Credit
    <2> QED
      BY <2>2, <2>3
  <1>9. CASE RefuseReport(s)
    <2>1. /\ slot[s].kind = "report" /\ slot[s].step = "file" /\ UNCHANGED <<filed, alerted>>
          /\ slot'[s].kind = "report" /\ slot'[s].report = slot[s].report
          /\ slot'[s].step = "refused"
      BY <1>6, <1>9 DEF RefuseReport
    <2> QED
      BY <1>1, <1>2, <2>1, RefusedFiled
  <1> QED
    BY <1>4, <1>5, <1>7, <1>8, <1>9 DEF Serve

Same(t, r) == (Awaits(t, r)' <=> Awaits(t, r)) /\ (Holds(t, r)' <=> Holds(t, r))

\* Tab t goes on without a request for r: it had none, or there is a fault.
LEMMA Leaves ==
    ASSUME FiledInv, NEW t \in Tab, NEW r \in Report,
           queue'[r] = "synced" <=> queue[r] = "synced",
           UNCHANGED <<filed, alerted>>,
           \A step : AtStep(r, step)' \subseteq AtStep(r, step),
           \A u \in Tab \ {t} : Same(u, r),
           ~Awaits(t, r)',
           queue[r] = "synced" /\ Holds(t, r)' => Holds(t, r),
           \/ faults' = faults /\ ~Awaits(t, r)
           \/ faults' = faults + 1
    PROVE  FiledOK(r)'
  <1>1. \A u \in Tab : Awaits(u, r)' => ~Holds(u, r)'
    BY DEF FiledInv, FiledOK, Same
  <1>2. CASE faults' = faults /\ ~Awaits(t, r)
    <2>1. \A u \in Tab \ {} : /\ Awaits(u, r) => Awaits(u, r)'
                              /\ queue[r] = "synced" /\ Holds(u, r)' => Holds(u, r)
      BY <1>2 DEF Same
    <2>2. Spent(r) \ {} \subseteq Spent(r)'
      BY <2>1, SpentStays
    <2> QED
      BY <1>1, <1>2, <2>2, CountsStay
  <1>3. CASE faults' = faults + 1
    <2>1. \A u \in Tab \ {t} : /\ Awaits(u, r) => Awaits(u, r)'
                               /\ queue[r] = "synced" /\ Holds(u, r)' => Holds(u, r)
      BY DEF Same
    <2>2. Spent(r) \ {t} \subseteq Spent(r)'
      BY <2>1, SpentStays
    <2> QED
      BY <1>1, <1>3, <2>2, CountsStay
  <1> QED
    BY <1>2, <1>3

\* Only the tab that waited for it notices that a request is left.
LEMMA RequestLeft ==
    ASSUME FiledInv, NEW t \in Tab, tab[t].pc \in {"batch", "report"},
           Forsaken(tab[t].slot), \A u \in Tab \ {t} : tab'[u] = tab[u]
    PROVE  /\ \A r, step : AtStep(r, step)' \subseteq AtStep(r, step)
           /\ \A r : \A u \in Tab \ {t} : Same(u, r)
  <1>1. PICK s \in Slot : s = tab[t].slot
    BY DEF FiledInv, QueueInv, Shape, TabState, LoopState, PostState, Idle
  <1>2. /\ slot[s].kind = tab[t].pc /\ slot[s].owner = t
        /\ slot \in [Slot -> SlotState]
    BY <1>1 DEF FiledInv, QueueInv, Owns, Shape
  <1>3. \A x \in Slot \ {s} : slot'[x] = slot[x]
    BY <1>1, <1>2 DEF Forsaken
  <1>4. \A r : \A u \in Tab \ {t} : Same(u, r)
    <2> SUFFICES ASSUME NEW u \in Tab \ {t} PROVE \A r : Same(u, r)
      OBVIOUS
    <2>1. slot[s].owner # u /\ tab'[u] = tab[u]
      BY <1>2
    <2> QED
      BY <1>3, <2>1, OthersPost DEF FiledInv, Same
  <1>5. \/ slot'[s].kind # "report"
        \/ /\ slot'[s].kind = slot[s].kind
           /\ slot'[s].report = slot[s].report
           /\ slot'[s].step = slot[s].step
    <2>1. CASE slot' = [slot EXCEPT ![s] = Free]
      BY <1>2, <2>1 DEF Free
    <2>2. CASE slot' = [slot EXCEPT ![s].owner = None]
      <3>1. slot'[s] = [slot[s] EXCEPT !.owner = None]
        BY <1>2, <2>2
      <3>2. slot[s] \in BatchSlot \/ slot[s] \in ReportSlot
        BY <1>2 DEF SlotState, Free
      <3>3. CASE slot[s] \in BatchSlot
        BY <3>1, <3>3 DEF BatchSlot
      <3>4. CASE slot[s] \in ReportSlot
        BY <3>1, <3>4 DEF ReportSlot
      <3> QED
        BY <3>2, <3>3, <3>4
    <2> QED
      BY <1>1, <2>1, <2>2 DEF Forsaken
  <1>6. \A r, step : AtStep(r, step)' \subseteq AtStep(r, step)
    BY <1>3, <1>5, StepsStay
  <1> QED
    BY <1>4, <1>6

\* A list of reports that is read now has none that is synced.
LEMMA ReadsPending ==
    ASSUME NEW t \in Tab, NEW r \in Report, tab'[t].pc = "reports",
           NEW X, tab'[t].todo = PendingIn(X)
    PROVE  ~Awaits(t, r)' /\ (Holds(t, r)' => queue[r] # "synced")
  BY DEF Awaits, Holds, PendingIn

LEMMA StartFiled ==
    ASSUME FiledInv, NEW t \in Tab, Start(t), NEW r \in Report PROVE FiledOK(r)'
  <1>1. /\ tab[t] = Idle /\ UNCHANGED <<queue, filed, alerted, faults>>
        /\ tab \in [Tab -> TabState] /\ slot \in [Slot -> SlotState]
    BY DEF Start, FiledInv, QueueInv, Shape
  <1>2. ~Awaits(t, r) /\ ~Holds(t, r)
    BY <1>1 DEF Awaits, Holds, Idle
  <1>3. ASSUME NEW s \in Slot, slot[s] = Free, NEW q, slot' = [slot EXCEPT ![s] = q],
               q.kind = "batch", tab' = [tab EXCEPT ![t] = [pc |-> "batch", slot |-> s]]
        PROVE  FiledOK(r)'
    <2>1. slot'[s].kind = "batch" /\ \A x \in Slot \ {s} : slot'[x] = slot[x]
      BY <1>1, <1>3
    <2>2. \A step : AtStep(r, step)' \subseteq AtStep(r, step)
      BY <2>1, StepsStay
    <2>3. ASSUME NEW u \in Tab \ {t} PROVE Same(u, r)
      <3>1. tab'[u] = tab[u] /\ slot[s].kind # "report"
        BY <1>1, <1>3 DEF Free
      <3> QED
        BY <2>1, <3>1, OthersPost DEF FiledInv, Same
    <2>4. ~Awaits(t, r)' /\ ~Holds(t, r)'
      BY <1>1, <1>3 DEF Awaits, Holds
    <2> QED
      BY <1>1, <1>2, <2>2, <2>3, <2>4, Leaves
  <1>4. CASE tab' = [tab EXCEPT ![t] = HazardLoop] /\ UNCHANGED slot
    <2>1. \A step : AtStep(r, step)' \subseteq AtStep(r, step)
      BY <1>4 DEF AtStep
    <2>2. \A u \in Tab \ {t} : Same(u, r)
      BY <1>1, <1>4 DEF Same, Awaits, Holds
    <2>3. tab'[t].pc = "reports" /\ tab'[t].todo = PendingIn(Hazard)
      BY <1>1, <1>4, LoopsRead
    <2>4. ~Awaits(t, r)' /\ (Holds(t, r)' => queue[r] # "synced")
      BY <2>3, ReadsPending
    <2> QED
      BY <1>1, <1>2, <2>1, <2>2, <2>4, Leaves
  <1>5. \/ \E s \in Slot : \E q :
              /\ slot[s] = Free /\ slot' = [slot EXCEPT ![s] = q] /\ q.kind = "batch"
              /\ tab' = [tab EXCEPT ![t] = [pc |-> "batch", slot |-> s]]
        \/ tab' = [tab EXCEPT ![t] = HazardLoop] /\ UNCHANGED slot
    <2>1. \A T, o : [kind |-> "batch", owner |-> o, failed |-> FALSE, todo |-> T,
                     inserting |-> None, created |-> {}].kind = "batch"
      OBVIOUS
    <2> QED
      BY <2>1 DEF Start
  <1> QED
    BY <1>3, <1>4, <1>5

LEMMA TakeBatchFiled ==
    ASSUME FiledInv, NEW t \in Tab, TakeBatchAnswer(t), NEW r \in Report PROVE FiledOK(r)'
  <1>1. /\ tab[t].pc = "batch" /\ UNCHANGED <<filed, alerted, faults>>
        /\ tab \in [Tab -> TabState] /\ slot \in [Slot -> SlotState]
        /\ queue \in [Inspection \cup Report -> {"absent", "pending", "synced"}]
        /\ Forsaken(tab[t].slot)
        /\ tab' = [tab EXCEPT ![t] = HazardLoop]
    BY DEF TakeBatchAnswer, FiledInv, QueueInv, Shape, Forsaken
  <1>2. queue'[r] = queue[r]
    <2>1. tab[t].slot \in Slot /\ slot[tab[t].slot].kind = "batch"
      BY <1>1 DEF FiledInv, QueueInv, Owns, TabState, LoopState, PostState, Idle
    <2>2. slot[tab[t].slot].created \subseteq Inspection
      BY <1>1, <2>1 DEF SlotState, BatchSlot, ReportSlot, Free
    <2>3. r \in DOMAIN queue /\ r \notin Inspection
      BY <1>1, QueueAssumption DEF Report
    <2> QED
      BY <2>2, <2>3 DEF TakeBatchAnswer
  <1>3. ~Awaits(t, r)
    BY <1>1 DEF Awaits
  <1>4. /\ \A step : AtStep(r, step)' \subseteq AtStep(r, step)
        /\ \A u \in Tab \ {t} : Same(u, r)
    BY <1>1, RequestLeft
  <1>5. tab'[t].pc = "reports" /\ tab'[t].todo = PendingIn(Hazard)
    BY <1>1, LoopsRead
  <1>6. ~Awaits(t, r)' /\ (Holds(t, r)' => queue[r] # "synced")
    BY <1>5, ReadsPending
  <1> QED
    BY <1>1, <1>2, <1>3, <1>4, <1>6, Leaves

\* A report is posted by a tab that has not spent its credit, and does now.
LEMMA PostFiled ==
    ASSUME FiledInv, NEW t \in Tab, PostReport(t), NEW r \in Report PROVE FiledOK(r)'
  <1>1. /\ tab[t].pc = "reports" /\ UNCHANGED <<queue, filed, alerted, faults>>
        /\ tab \in [Tab -> TabState] /\ slot \in [Slot -> SlotState]
    BY DEF PostReport, FiledInv, QueueInv, Shape
  <1>2. PICK p \in tab[t].todo, s \in Slot :
            /\ slot[s] = Free
            /\ slot' = [slot EXCEPT ![s] = [kind |-> "report", owner |-> t, report |-> p,
                                            step |-> "file"]]
            /\ tab' = [tab EXCEPT
                 ![t] = [pc |-> "report", stage |-> tab[t].stage,
                         todo |-> tab[t].todo \ {p}, slot |-> s]]
    BY <1>1 DEF PostReport
  <1>3. /\ slot'[s].kind = "report" /\ slot'[s].report = p /\ slot'[s].step = "file"
        /\ \A x \in Slot \ {s} : slot'[x] = slot[x]
    BY <1>1, <1>2
  <1>4. /\ tab'[t].pc = "report" /\ tab'[t].todo = tab[t].todo \ {p} /\ tab'[t].slot = s
        /\ \A u \in Tab \ {t} : tab'[u] = tab[u]
    BY <1>1, <1>2
  <1>5. ASSUME NEW u \in Tab \ {t} PROVE Same(u, r)
    <2>1. tab'[u] = tab[u] /\ slot[s].kind # "report"
      BY <1>2, <1>4 DEF Free
    <2> QED
      BY <1>3, <2>1, OthersPost DEF FiledInv, Same
  <1>6. ~Awaits(t, r) /\ (Awaits(t, r)' <=> r = p)
    BY <1>1, <1>3, <1>4 DEF Awaits
  <1>7. Holds(t, r)' <=> Holds(t, r) /\ r # p
    BY <1>1, <1>4 DEF Holds
  <1>8. CASE r # p
    <2>1. \A step : AtStep(r, step)' \subseteq AtStep(r, step)
      BY <1>3, <1>8 DEF AtStep
    <2> QED
      BY <1>1, <1>5, <1>6, <1>7, <1>8, <2>1, Leaves
  <1>9. CASE r = p
    <2>1. Holds(t, r) /\ ~Holds(t, r)' /\ Awaits(t, r)'
      BY <1>1, <1>2, <1>6, <1>7, <1>9 DEF Holds
    <2>2. \A u \in Tab : Awaits(u, r)' => ~Holds(u, r)'
      BY <1>5, <2>1 DEF FiledInv, FiledOK, Same
    <2>3. t \in Spent(r)' /\ Spent(r) \subseteq Spent(r)' \ {t}
      BY <1>1, <1>5, <1>6, <2>1 DEF Spent, Same
    <2>4. AtStep(r, "file")' \subseteq AtStep(r, "file") \cup {s}
      BY <1>3 DEF AtStep
    <2>5. AtStep(r, "alert")' \subseteq AtStep(r, "alert")
      BY <1>3, StepsStay
    <2>6. Credit(r) + 1 <= Credit(r)'
      BY <2>3, SetsFinite, LosesOne DEF Credit, FiledInv
    <2>7. Filing(r)' <= Filing(r) + 1
      BY <2>4, SetsFinite, GrowsByOne DEF Filing, FiledInv
    <2>8. Alerting(r)' <= Alerting(r)
      BY <2>5, SetsFinite, Shrinks DEF Alerting, FiledInv
    <2>9. /\ {filed[r], alerted[r], Filing(r), Alerting(r), Credit(r)} \subseteq Nat
          /\ {Filing(r)', Alerting(r)', Credit(r)'} \subseteq Nat
      BY Numbers DEF FiledInv, QueueInv
    <2>10. alerted[r] + Alerting(r) <= filed[r] /\ filed[r] + Filing(r) <= faults + Credit(r)
      BY DEF FiledInv, FiledOK, Filing, Alerting, Credit
    <2>11. faults' = faults /\ faults \in Nat /\ filed' = filed /\ alerted' = alerted
      BY <1>1 DEF FiledInv
    <2>12. /\ alerted'[r] + Alerting(r)' <= filed'[r]
           /\ filed'[r] + Filing(r)' <= faults' + Credit(r)'
      BY <2>6, <2>7, <2>8, <2>9, <2>10, <2>11
    <2> QED
      BY <2>2, <2>12 DEF FiledOK, Filing, Alerting, Credit
  <1> QED
    BY <1>8, <1>9

\* The credit of every tab that does not hold the report is spent once it is synced.
LEMMA TakeReportFiled ==
    ASSUME FiledInv, NEW t \in Tab, TakeReportAnswer(t), NEW r \in Report PROVE FiledOK(r)'
  <1>1. /\ tab[t].pc = "report" /\ UNCHANGED <<filed, alerted, faults>>
        /\ tab \in [Tab -> TabState] /\ slot \in [Slot -> SlotState]
        /\ queue \in [Inspection \cup Report -> {"absent", "pending", "synced"}]
        /\ queue' = IF slot[tab[t].slot].step = "done"
                    THEN [queue EXCEPT ![slot[tab[t].slot].report] = "synced"] ELSE queue
        /\ Answered(slot[tab[t].slot])
        /\ Forsaken(tab[t].slot)
        /\ tab' = [tab EXCEPT ![t] = [pc |-> "reports", stage |-> tab[t].stage,
                                     todo |-> tab[t].todo]]
    BY DEF TakeReportAnswer, FiledInv, QueueInv, Shape, Forsaken
  <1>2. /\ \A step : AtStep(r, step)' \subseteq AtStep(r, step)
        /\ \A u \in Tab \ {t} : Same(u, r)
    BY <1>1, RequestLeft
  <1>3. ~Awaits(t, r)' /\ (Holds(t, r)' <=> Holds(t, r))
    BY <1>1 DEF Awaits, Holds
  <1>4. CASE r # slot[tab[t].slot].report \/ slot[tab[t].slot].step # "done"
    <2>1. slot[tab[t].slot].kind = "report"
      BY <1>1 DEF FiledInv, QueueInv, Owns
    <2>2. slot[tab[t].slot].step \in {"done", "refused"}
      BY <1>1, <2>1 DEF Answered
    <2>3. queue'[r] = queue[r] /\ ~Awaits(t, r)
      BY <1>1, <1>4, <2>2 DEF Awaits
    <2> QED
      BY <1>1, <1>2, <1>3, <2>3, Leaves
  <1>5. CASE r = slot[tab[t].slot].report /\ slot[tab[t].slot].step = "done"
    <2>1. queue'[r] = "synced"
      BY <1>1, <1>5
    <2>2. \A u \in Tab : Holds(u, r)' <=> Holds(u, r)
      BY <1>2, <1>3 DEF Same
    <2>3. Spent(r) \ {} \subseteq Spent(r)'
      BY <2>1, <2>2 DEF Spent, FiledInv, FiledOK
    <2>4. \A u \in Tab : Awaits(u, r)' => ~Holds(u, r)'
      BY <1>2, <1>3 DEF FiledInv, FiledOK, Same
    <2> QED
      BY <1>1, <1>2, <2>3, <2>4, CountsStay
  <1> QED
    BY <1>4, <1>5

LEMMA ReadLeavesFiled ==
    ASSUME FiledInv, NEW t \in Tab, ReadLeaves(t), NEW r \in Report PROVE FiledOK(r)'
  <1>1. /\ tab[t].pc = "reports" /\ tab' = [tab EXCEPT ![t] = LeaveLoop]
        /\ UNCHANGED <<queue, slot, filed, alerted, faults>> /\ tab \in [Tab -> TabState]
    BY DEF ReadLeaves, FiledInv, QueueInv, Shape
  <1>2. \A step : AtStep(r, step)' \subseteq AtStep(r, step)
    BY <1>1 DEF AtStep
  <1>3. \A u \in Tab \ {t} : Same(u, r)
    BY <1>1 DEF Same, Awaits, Holds
  <1>4. tab'[t].pc = "reports" /\ tab'[t].todo = PendingIn(Leave)
    BY <1>1, LoopsRead
  <1>5. /\ ~Awaits(t, r) /\ ~Awaits(t, r)'
        /\ Holds(t, r)' => queue[r] # "synced"
    BY <1>1, <1>4, ReadsPending DEF Awaits
  <1> QED
    BY <1>1, <1>2, <1>3, <1>5, Leaves

LEMMA FinishFiled ==
    ASSUME FiledInv, NEW t \in Tab, Finish(t), NEW r \in Report PROVE FiledOK(r)'
  <1>1. /\ tab[t].pc = "reports" /\ tab' = [tab EXCEPT ![t] = Idle]
        /\ UNCHANGED <<queue, slot, filed, alerted, faults>> /\ tab \in [Tab -> TabState]
    BY DEF Finish, FiledInv, QueueInv, Shape
  <1>2. \A step : AtStep(r, step)' \subseteq AtStep(r, step)
    BY <1>1 DEF AtStep
  <1>3. \A u \in Tab \ {t} : Same(u, r)
    BY <1>1 DEF Same, Awaits, Holds
  <1>4. ~Awaits(t, r) /\ ~Awaits(t, r)' /\ ~Holds(t, r)'
    BY <1>1 DEF Awaits, Holds, Idle
  <1> QED
    BY <1>1, <1>2, <1>3, <1>4, Leaves

LEMMA FaultFiled ==
    ASSUME FiledInv, NEW t \in Tab, GiveUp(t) \/ Reload(t), NEW r \in Report
    PROVE  FiledOK(r)'
  <1>1. /\ UNCHANGED <<queue, filed, alerted>> /\ faults' = faults + 1
        /\ tab \in [Tab -> TabState]
    BY DEF GiveUp, Reload, FiledInv, QueueInv, Shape
  <1>2. PICK v : /\ tab' = [tab EXCEPT ![t] = v] /\ v.pc \in {"idle", "reports"}
                 /\ v.pc = "reports" =>
                      \/ v.todo = PendingIn(Hazard)
                      \/ tab[t].pc = "report" /\ v.todo = tab[t].todo
    <2>1. CASE GiveUp(t)
      <3> DEFINE w == [pc |-> "reports", stage |-> tab[t].stage, todo |-> tab[t].todo]
                 v == IF tab[t].pc = "batch" THEN HazardLoop ELSE w
      <3>1. tab' = [tab EXCEPT ![t] = v] /\ tab[t].pc \in {"batch", "report"}
        BY <2>1 DEF GiveUp
      <3>2. /\ v.pc = "reports"
            /\ v.todo = IF tab[t].pc = "batch" THEN PendingIn(Hazard) ELSE tab[t].todo
        BY LoopsRead
      <3> HIDE DEF v
      <3> QED
        BY <3>1, <3>2
    <2>2. CASE Reload(t)
      <3>1. tab' = [tab EXCEPT ![t] = Idle] /\ Idle.pc = "idle"
        BY <2>2 DEF Reload, Idle
      <3> QED
        BY <3>1
    <2> QED
      BY <2>1, <2>2
  <1>3. tab'[t] = v /\ \A u \in Tab \ {t} : tab'[u] = tab[u]
    BY <1>1, <1>2
  <1>4. ~Awaits(t, r)' /\ (queue[r] = "synced" /\ Holds(t, r)' => Holds(t, r))
    BY <1>2, <1>3 DEF Awaits, Holds, PendingIn
  <1>5. /\ \A step : AtStep(r, step)' \subseteq AtStep(r, step)
        /\ \A u \in Tab \ {t} : Same(u, r)
    <2>1. CASE tab[t].pc \in {"batch", "report"}
      <3>1. Forsaken(tab[t].slot)
        BY <2>1 DEF GiveUp, Reload
      <3> QED
        BY <1>3, <2>1, <3>1, RequestLeft
    <2>2. CASE tab[t].pc \notin {"batch", "report"}
      <3>1. UNCHANGED slot
        BY <2>2 DEF GiveUp, Reload
      <3> QED
        BY <1>3, <3>1 DEF AtStep, Same, Awaits, Holds
    <2> QED
      BY <2>1, <2>2
  <1> QED
    BY <1>1, <1>4, <1>5, Leaves

LEMMA FiledNext == FiledInv /\ [Next]_vars => FiledInv'
  <1> SUFFICES ASSUME FiledInv, [Next]_vars PROVE FiledInv'
    OBVIOUS
  <1>1. QueueInv'
    BY NextInv DEF FiledInv
  <1>2. faults' \in Nat
    <2>1. faults' = faults \/ faults' = faults + 1
      BY DEF Next, Enqueue, Flush, Start, TakeBatchAnswer, PostReport, TakeReportAnswer,
             ReadLeaves, Finish, GiveUp, Reload, Serve, ReadItem, InsertItem, FileReport,
             RefuseReport, AlertManager, FileElsewhere, Discard, vars
    <2> QED
      BY <2>1 DEF FiledInv
  <1>3. ASSUME NEW r \in Report PROVE FiledOK(r)'
    <2>1. ASSUME UNCHANGED <<tab, slot, filed, alerted, faults>>,
                 queue'[r] = "synced" <=> queue[r] = "synced"
          PROVE  FiledOK(r)'
      BY <2>1 DEF FiledInv, FiledOK, Spent, AtStep, Awaits, Holds
    <2>2. ASSUME NEW x \in Inspection \cup Report, Enqueue(x) PROVE FiledOK(r)'
      <3>1. queue'[r] = "synced" <=> queue[r] = "synced"
        BY <2>2 DEF Enqueue, FiledInv, QueueInv, Shape
      <3> QED
        BY <2>1, <2>2, <3>1 DEF Enqueue
    <2>3. ASSUME NEW t \in Tab, Flush(t) PROVE FiledOK(r)'
      BY <2>3, StartFiled, TakeBatchFiled, PostFiled, TakeReportFiled, ReadLeavesFiled,
         FinishFiled DEF Flush
    <2>4. ASSUME NEW t \in Tab, GiveUp(t) \/ Reload(t) PROVE FiledOK(r)'
      BY <2>4, FaultFiled
    <2>5. ASSUME NEW s \in Slot, Serve(s) PROVE FiledOK(r)'
      BY <2>5, ServerFiled
    <2>6. CASE FileElsewhere \/ UNCHANGED vars
      BY <2>1, <2>6 DEF FileElsewhere, vars
    <2> QED
      BY <2>2, <2>3, <2>4, <2>5, <2>6 DEF Next
  <1> QED
    BY <1>1, <1>2, <1>3 DEF FiledInv, Finite

\* For any finite number of tabs and of requests, and however many answers are lost
\* and tabs reloaded: a report opens at most one record per tab and per fault.
THEOREM ReportsFiledSparingly ==
    ASSUME Finite
    PROVE  Spec => []FiledSparingly
  <1>1. Init => FiledInv
    <2> SUFFICES ASSUME Init, NEW r \in Report PROVE FiledOK(r)
      BY InitInv DEF FiledInv, Init
    <2>1. AtStep(r, "file") = {} /\ AtStep(r, "alert") = {}
      BY DEF Init, AtStep, Free
    <2>2. \A t \in Tab : ~Awaits(t, r)
      BY DEF Init, Awaits, Idle
    <2>3. Credit(r) \in Nat
      BY SetsFinite, FS_CardinalityType DEF Credit
    <2>4. filed[r] = 0 /\ alerted[r] = 0 /\ faults = 0
      BY DEF Init
    <2>5. Cardinality({}) = 0
      BY FS_EmptySet
    <2> QED
      BY <2>1, <2>2, <2>3, <2>4, <2>5 DEF FiledOK, Credit
  <1>2. FiledInv => FiledSparingly
    <2> SUFFICES ASSUME FiledInv, NEW r \in Report
                 PROVE  alerted[r] <= filed[r] /\ filed[r] <= faults + Cardinality(Tab)
      BY DEF FiledSparingly
    <2>1. {filed[r], alerted[r], Filing(r), Alerting(r), Credit(r)} \subseteq Nat
      BY Numbers DEF FiledInv, QueueInv
    <2>2. Spent(r) \subseteq Tab
      BY DEF Spent
    <2>3. Cardinality(Tab) \in Nat /\ Credit(r) <= Cardinality(Tab)
      BY <2>2, Shrinks DEF Credit, Finite
    <2>4. alerted[r] + Alerting(r) <= filed[r] /\ filed[r] + Filing(r) <= faults + Credit(r)
      BY DEF FiledInv, FiledOK, Filing, Alerting, Credit
    <2> QED
      BY <2>1, <2>3, <2>4 DEF FiledInv
  <1> QED
    BY <1>1, <1>2, FiledNext, PTL DEF Spec
================================================================================
