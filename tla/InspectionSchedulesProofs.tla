------------------------ MODULE InspectionSchedulesProofs ------------------------
(***************************************************************************)
(* Theorems about InspectionSchedules for any number of requests and       *)
(* schedules.                                                              *)
(*                                                                         *)
(* What is to hold of the documents must hold of the copies requests are    *)
(* about to save (CopiesSound).  What holds of one request at a time rests  *)
(* on the copies of a check being the documents themselves (Serial).        *)
(***************************************************************************)
EXTENDS MCInspectionSchedules, FiniteSetTheorems, TLAPS

\* TypeOK, and that a schedule whose inspector is to be told exists.
TypeInv ==
    /\ TypeOK
    /\ handler = [h \in Handler |-> handler[h]]
    /\ \A h \in Handler : handler[h].pc = "inform" => sched[handler[h].sched] # Absent

LEMMA DocsDiffer == \A d \in Doc : d # Absent
  <1>1. \A d \in Doc : d.status # "ABSENT"
    BY DEF Doc, Status
  <1>2. Absent.status = "ABSENT"
    BY DEF Absent
  <1> QED
    BY <1>1, <1>2

LEMMA IdlePc == Idle.pc = "idle"
  BY DEF Idle

LEMMA InitTypeInv == Init => TypeInv
  BY IdlePc DEF Init, TypeInv, TypeOK, IsHandler

\* A step that changes request h only, into r.
LEMMA StateOK ==
    ASSUME TypeInv, NEW h \in Handler, NEW r, IsHandler(r),
           handler' = [handler EXCEPT ![h] = r],
           r.pc = "inform" => sched'[r.sched] # Absent,
           sched' \in [Schedule -> Doc \cup {Absent}],
           \A s \in Schedule : sched[s] # Absent => sched'[s] # Absent,
           late' \cup informed' \subseteq Schedule,
           \A s \in late' \cup informed' : sched'[s] # Absent,
           lapses' \in [Schedule -> Nat], escalated' \in [Schedule -> Nat], crashes' \in Nat
    PROVE  TypeInv'
  <1>1. \A g \in Handler : handler'[g] = IF g = h THEN r ELSE handler[g]
    BY DEF TypeInv
  <1>2. handler' = [g \in Handler |-> handler'[g]]
    BY DEF TypeInv
  <1>3. \A g \in Handler : IsHandler(handler'[g])
    BY <1>1 DEF TypeInv, TypeOK
  <1>4. (\A g \in Handler : IsHandler(handler[g]))'
    BY <1>3
  <1>5. \A g \in Handler : handler[g].pc = "inform" => handler[g].sched \in Schedule
    BY IdlePc DEF TypeInv, TypeOK, IsHandler
  <1>6. \A g \in Handler : handler'[g].pc = "inform" => sched'[handler'[g].sched] # Absent
    BY <1>1, <1>5 DEF TypeInv
  <1> QED
    BY <1>2, <1>4, <1>6 DEF TypeInv, TypeOK

LEMMA NextTypeInv == TypeInv /\ [Next]_vars => TypeInv'
  <1> SUFFICES ASSUME TypeInv, [Next]_vars PROVE TypeInv'
    OBVIOUS
  <1>1. /\ sched \in [Schedule -> Doc \cup {Absent}]
        /\ \A h \in Handler : IsHandler(handler[h])
        /\ late \cup informed \subseteq Schedule
        /\ \A s \in late \cup informed : sched[s] # Absent
        /\ lapses \in [Schedule -> Nat] /\ escalated \in [Schedule -> Nat] /\ crashes \in Nat
    BY DEF TypeInv, TypeOK
  <1>2. IsHandler(Idle)
    BY DEF IsHandler
  <1>3. ASSUME NEW h \in Handler, NEW s \in Schedule, Insert(h, s) PROVE TypeInv'
    <2> DEFINE r == [pc |-> "inform", sched |-> s]
               d == [status |-> "ASSIGNED", inspection |-> FALSE, stamped |-> FALSE]
    <2>1. d \in Doc
      BY DEF Doc, Status
    <2>2. IsHandler(r) /\ r.sched = s
      BY DEF IsHandler
    <2>3. sched' = [sched EXCEPT ![s] = d] /\ handler' = [handler EXCEPT ![h] = r]
          /\ UNCHANGED <<late, informed, lapses, escalated, crashes>>
      BY <1>3 DEF Insert
    <2> HIDE DEF r, d
    <2>4. sched' \in [Schedule -> Doc \cup {Absent}] /\ sched'[s] # Absent
      BY <1>1, <2>1, <2>3, DocsDiffer
    <2>5. \A u : sched[u] # Absent => sched'[u] # Absent
      BY <1>1, <2>3, <2>4
    <2> QED
      BY <1>1, <2>2, <2>3, <2>4, <2>5, StateOK
  <1>4. ASSUME NEW h \in Handler, Inform(h) PROVE TypeInv'
    <2>1. informed' = informed \cup {handler[h].sched} /\ handler' = [handler EXCEPT ![h] = Idle]
          /\ UNCHANGED <<sched, late, lapses, escalated, crashes>>
          /\ sched[handler[h].sched] # Absent
      BY <1>4 DEF Inform, TypeInv
    <2>2. handler[h].sched \in Schedule
      BY <1>1, <1>4, IdlePc DEF Inform, IsHandler
    <2> QED
      BY <1>1, <1>2, <2>1, <2>2, IdlePc, StateOK
  <1>5. ASSUME NEW s \in Schedule, DueDatePasses(s) PROVE TypeInv'
    <2>1. \A h \in Handler : IsHandler(handler[h])'
      BY <1>1, <1>5 DEF DueDatePasses, IsHandler
    <2> QED
      BY <1>1, <1>5, <2>1 DEF DueDatePasses, TypeInv, TypeOK
  <1>6. ASSUME NEW h \in Handler, NEW s \in Schedule, NEW status \in Asked,
               NEW named \in BOOLEAN, ReadToPatch(h, s, status, named)
        PROVE TypeInv'
    <2> DEFINE d == Patched(sched[s], status, named)
               r == IF status = "COMPLETED" /\ named THEN [pc |-> "complete", sched |-> s]
                    ELSE [pc |-> "patch", sched |-> s, doc |-> d]
    <2>1. d \in Doc
      BY <1>1, <1>6, ScheduleAssumption DEF ReadToPatch, Patched, Doc
    <2>2. handler' = [handler EXCEPT ![h] = r]
          /\ UNCHANGED <<sched, late, informed, lapses, escalated, crashes>>
      BY <1>6 DEF ReadToPatch
    <2> HIDE DEF d
    <2>3. IsHandler(r) /\ r.pc # "inform"
      BY <2>1 DEF IsHandler
    <2> HIDE DEF r
    <2> QED
      BY <1>1, <2>2, <2>3, StateOK
  <1>7. ASSUME NEW h \in Handler, ReadToComplete(h) PROVE TypeInv'
    <2> DEFINE r == [pc |-> "patch", sched |-> handler[h].sched, doc |-> Completed]
    <2>1. Completed \in Doc
      BY DEF Completed, Doc, Status
    <2>2. handler[h].sched \in Schedule
      BY <1>1, <1>7, IdlePc DEF ReadToComplete, IsHandler
    <2>3. handler' = [handler EXCEPT ![h] = r]
          /\ UNCHANGED <<sched, late, informed, lapses, escalated, crashes>>
      BY <1>7 DEF ReadToComplete
    <2>4. IsHandler(r) /\ r.pc # "inform"
      BY <2>1, <2>2 DEF IsHandler
    <2> HIDE DEF r
    <2> QED
      BY <1>1, <2>3, <2>4, StateOK
  <1>8. ASSUME NEW h \in Handler, SavePatch(h) PROVE TypeInv'
    <2>1. handler[h].sched \in Schedule /\ handler[h].doc \in Doc
      BY <1>1, <1>8, IdlePc DEF SavePatch, IsHandler
    <2>2. sched' = [sched EXCEPT ![handler[h].sched] = handler[h].doc]
          /\ handler' = [handler EXCEPT ![h] = Idle]
          /\ UNCHANGED <<late, informed, lapses, escalated, crashes>>
      BY <1>8 DEF SavePatch
    <2>3. sched' \in [Schedule -> Doc \cup {Absent}]
          /\ \A u : sched[u] # Absent => sched'[u] # Absent
      BY <1>1, <2>1, <2>2, DocsDiffer
    <2> QED
      BY <1>1, <1>2, <2>2, <2>3, IdlePc, StateOK
  <1>9. ASSUME NEW h \in Handler, ReadLate(h) PROVE TypeInv'
    <2> DEFINE S == {u \in Uncompleted : sched[u].status # "OVERDUE"}
               docs == [s \in S |-> sched[s]]
               r == [pc |-> "sweep", docs |-> docs]
    <2>1. \A s \in S : sched[s] # Absent /\ s \in late
      BY <1>1 DEF Uncompleted
    <2>2. handler' = [handler EXCEPT ![h] = r]
          /\ UNCHANGED <<sched, late, informed, lapses, escalated, crashes>>
      BY <1>9 DEF ReadLate
    <2>3. DOMAIN docs = S /\ \A s \in S : docs[s] = sched[s]
      OBVIOUS
    <2>4. late \subseteq Schedule
      BY DEF TypeInv, TypeOK
    <2>5. docs \in [DOMAIN docs -> Doc] /\ DOMAIN docs \subseteq Schedule
      BY <1>1, <2>1, <2>4
    <2> HIDE DEF docs
    <2>6. IsHandler(r) /\ r.pc # "inform"
      BY <2>5 DEF IsHandler
    <2> HIDE DEF r
    <2> QED
      BY <1>1, <2>2, <2>6, StateOK
  <1>10. ASSUME NEW h \in Handler, MarkOverdue(h) PROVE TypeInv'
    <2>1. PICK s \in DOMAIN handler[h].docs :
             /\ sched' = [sched EXCEPT ![s] = [handler[h].docs[s] EXCEPT !.status = "OVERDUE"]]
             /\ lapses' = [lapses EXCEPT ![s] = IF sched[s].status = "OVERDUE" THEN @ ELSE @ + 1]
             /\ handler' = [handler EXCEPT
                  ![h] = [pc |-> "escalate", sched |-> s, docs |-> Without(handler[h].docs, s)]]
             /\ UNCHANGED <<late, informed, escalated, crashes>>
      BY <1>10 DEF MarkOverdue
    <2> DEFINE docs == handler[h].docs
               less == Without(docs, s)
               d == [docs[s] EXCEPT !.status = "OVERDUE"]
               r == [pc |-> "escalate", sched |-> s, docs |-> less]
    <2>2. docs \in [DOMAIN docs -> Doc] /\ DOMAIN docs \subseteq Schedule
      BY <1>1, <1>10, IdlePc DEF MarkOverdue, IsHandler
    <2> HIDE DEF docs
    <2>3. d \in Doc
      BY <2>1, <2>2 DEF Doc, Status, docs
    <2>4. less \in [DOMAIN less -> Doc] /\ DOMAIN less \subseteq Schedule
      BY <2>2 DEF Without
    <2>5. s \in Schedule
      BY <2>1, <2>2 DEF docs
    <2> HIDE DEF less
    <2>6. IsHandler(r) /\ r.pc # "inform"
      BY <2>4, <2>5 DEF IsHandler
    <2>7. handler' = [handler EXCEPT ![h] = r] /\ sched' = [sched EXCEPT ![s] = d]
      BY <2>1 DEF less, docs
    <2> HIDE DEF r, d
    <2>8. sched' \in [Schedule -> Doc \cup {Absent}]
          /\ \A u : sched[u] # Absent => sched'[u] # Absent
      BY <1>1, <2>3, <2>5, <2>7, DocsDiffer
    <2>9. lapses' \in [Schedule -> Nat]
      <3>1. CASE sched[s].status = "OVERDUE"
        BY <1>1, <2>1, <3>1
      <3>2. CASE sched[s].status # "OVERDUE"
        BY <1>1, <2>1, <2>5, <3>2
      <3> QED
        BY <3>1, <3>2
    <2>10. \A u \in late' \cup informed' : sched'[u] # Absent
      BY <1>1, <2>1, <2>8
    <2> QED
      BY <1>1, <2>1, <2>6, <2>7, <2>8, <2>9, <2>10, StateOK
  <1>11. ASSUME NEW h \in Handler, Escalate(h) PROVE TypeInv'
    <2> DEFINE r == [pc |-> "sweep", docs |-> handler[h].docs]
    <2>1. handler[h].docs \in [DOMAIN handler[h].docs -> Doc]
          /\ DOMAIN handler[h].docs \subseteq Schedule
      BY <1>1, <1>11, IdlePc DEF Escalate, IsHandler
    <2>2. IsHandler(r) /\ r.pc # "inform"
      BY <2>1 DEF IsHandler
    <2>3. handler' = [handler EXCEPT ![h] = r]
          /\ escalated' = [escalated EXCEPT ![handler[h].sched] = @ + 1]
          /\ UNCHANGED <<sched, late, informed, lapses, crashes>>
      BY <1>11 DEF Escalate
    <2> HIDE DEF r
    <2>4. escalated' \in [Schedule -> Nat]
      <3>1. handler[h].sched \in Schedule
        BY <1>1, <1>11, IdlePc DEF Escalate, IsHandler
      <3> QED
        BY <1>1, <2>3, <3>1
    <2> QED
      BY <1>1, <2>2, <2>3, <2>4, StateOK
  <1>12. ASSUME NEW h \in Handler, EndSweep(h) \/ Abort(h) PROVE TypeInv'
    <2>1. handler' = [handler EXCEPT ![h] = Idle]
          /\ UNCHANGED <<sched, late, informed, lapses, escalated>>
          /\ (crashes' = crashes \/ crashes' = crashes + 1)
      BY <1>12 DEF EndSweep, Abort
    <2>2. crashes' \in Nat
      BY <1>1, <2>1
    <2> QED
      BY <1>1, <1>2, <2>1, <2>2, IdlePc, StateOK
  <1>13. CASE UNCHANGED vars
    <2>1. \A h \in Handler : IsHandler(handler[h])'
      BY <1>1, <1>13 DEF vars, IsHandler
    <2> QED
      BY <1>1, <1>13, <2>1 DEF vars, TypeInv, TypeOK
  <1> QED
    BY <1>3, <1>4, <1>5, <1>6, <1>7, <1>8, <1>9, <1>10, <1>11, <1>12, <1>13 DEF Next

\* The schedules and the requests keep their shape, and nobody is told of a schedule
\* that does not exist (schedule_service.py).
THEOREM TypeCorrect == Spec => []TypeOK
  <1>1. TypeInv => TypeOK
    BY DEF TypeInv
  <1> QED
    BY <1>1, InitTypeInv, NextTypeInv, PTL DEF Spec
-----------------------------------------------------------------------------
(* A completion time comes with its inspection.                               *)

Named(d) == d.stamped => d.inspection

\* The documents, and the copies that requests are about to save.
CopiesSound ==
    /\ \A s \in Schedule : Named(sched[s])
    /\ \A h \in Handler :
          /\ handler[h].pc = "patch" => Named(handler[h].doc)
          /\ handler[h].pc \in {"sweep", "escalate"} =>
                \A s \in DOMAIN handler[h].docs : Named(handler[h].docs[s])

\* A step that changes request h only, into r.
LEMMA CopySound ==
    ASSUME TypeInv, CopiesSound, NEW h \in Handler, NEW r,
           handler' = [handler EXCEPT ![h] = r],
           \A s \in Schedule : Named(sched'[s]),
           r.pc = "patch" => Named(r.doc),
           r.pc \in {"sweep", "escalate"} => \A s \in DOMAIN r.docs : Named(r.docs[s])
    PROVE  CopiesSound'
  <1>1. \A g \in Handler : handler'[g] = IF g = h THEN r ELSE handler[g]
    BY DEF TypeInv
  <1>2. \A s \in Schedule : Named(sched[s])'
    BY DEF Named
  <1>3. ASSUME NEW g \in Handler
        PROVE  /\ handler'[g].pc = "patch" => Named(handler'[g].doc)
               /\ handler'[g].pc \in {"sweep", "escalate"} =>
                     \A s \in DOMAIN handler'[g].docs : Named(handler'[g].docs[s])
    <2>1. CASE g = h
      BY <1>1, <2>1
    <2>2. CASE g # h
      BY <1>1, <2>2 DEF CopiesSound
    <2> QED
      BY <2>1, <2>2
  <1> QED
    BY <1>2, <1>3 DEF CopiesSound, Named

LEMMA NextCopiesSound == TypeInv /\ CopiesSound /\ [Next]_vars => CopiesSound'
  <1> SUFFICES ASSUME TypeInv, CopiesSound, [Next]_vars PROVE CopiesSound'
    OBVIOUS
  <1>1. \A s \in Schedule : Named(sched[s]) /\ sched[s] \in Doc \cup {Absent}
    BY DEF CopiesSound, TypeInv, TypeOK
  <1>2. /\ sched \in [Schedule -> Doc \cup {Absent}] /\ late \subseteq Schedule
        /\ \A h \in Handler : IsHandler(handler[h])
    BY DEF TypeInv, TypeOK
  <1>3. ASSUME NEW h \in Handler, NEW s \in Schedule, Insert(h, s) PROVE CopiesSound'
    <2> DEFINE r == [pc |-> "inform", sched |-> s]
               d == [status |-> "ASSIGNED", inspection |-> FALSE, stamped |-> FALSE]
    <2>1. sched' = [sched EXCEPT ![s] = d] /\ handler' = [handler EXCEPT ![h] = r]
      BY <1>3 DEF Insert
    <2>2. Named(d) /\ r.pc = "inform"
      BY DEF Named
    <2> HIDE DEF r, d
    <2>3. \A u \in Schedule : Named(sched'[u])
      BY <1>1, <1>2, <2>1, <2>2
    <2> QED
      BY <2>1, <2>2, <2>3, CopySound
  <1>4. ASSUME NEW h \in Handler, Inform(h) \/ EndSweep(h) \/ Abort(h) PROVE CopiesSound'
    <2>1. handler' = [handler EXCEPT ![h] = Idle] /\ sched' = sched
      BY <1>4 DEF Inform, EndSweep, Abort
    <2> QED
      BY <1>1, <2>1, IdlePc, CopySound
  <1>5. ASSUME NEW h \in Handler, NEW s \in Schedule, NEW status \in Asked,
               NEW named \in BOOLEAN, ReadToPatch(h, s, status, named)
        PROVE CopiesSound'
    <2> DEFINE d == Patched(sched[s], status, named)
               r == IF status = "COMPLETED" /\ named THEN [pc |-> "complete", sched |-> s]
                    ELSE [pc |-> "patch", sched |-> s, doc |-> d]
    <2>1. handler' = [handler EXCEPT ![h] = r] /\ sched' = sched
      BY <1>5 DEF ReadToPatch
    <2>2. Named(d)
      BY <1>1 DEF Patched, Named
    <2> HIDE DEF d
    <2>3. (r.pc = "patch" => Named(r.doc)) /\ r.pc \in {"complete", "patch"}
      BY <2>2
    <2> HIDE DEF r
    <2> QED
      BY <1>1, <2>1, <2>3, CopySound
  <1>6. ASSUME NEW h \in Handler, ReadToComplete(h) PROVE CopiesSound'
    <2> DEFINE r == [pc |-> "patch", sched |-> handler[h].sched, doc |-> Completed]
    <2>1. handler' = [handler EXCEPT ![h] = r] /\ sched' = sched
      BY <1>6 DEF ReadToComplete
    <2>2. Named(Completed)
      BY DEF Completed, Named
    <2>3. r.pc = "patch" /\ r.doc = Completed
      OBVIOUS
    <2> HIDE DEF r
    <2> QED
      BY <1>1, <2>1, <2>2, <2>3, CopySound
  <1>7. ASSUME NEW h \in Handler, SavePatch(h) PROVE CopiesSound'
    <2>1. handler[h].pc = "patch" /\ handler' = [handler EXCEPT ![h] = Idle]
          /\ sched' = [sched EXCEPT ![handler[h].sched] = handler[h].doc]
      BY <1>7 DEF SavePatch
    <2>2. Named(handler[h].doc)
      BY <2>1 DEF CopiesSound
    <2>3. \A u \in Schedule : Named(sched'[u])
      BY <1>1, <1>2, <2>1, <2>2
    <2> QED
      BY <2>1, <2>3, IdlePc, CopySound
  <1>8. ASSUME NEW h \in Handler, ReadLate(h) PROVE CopiesSound'
    <2> DEFINE S == {u \in Uncompleted : sched[u].status # "OVERDUE"}
               docs == [s \in S |-> sched[s]]
               r == [pc |-> "sweep", docs |-> docs]
    <2>1. handler' = [handler EXCEPT ![h] = r] /\ sched' = sched
      BY <1>8 DEF ReadLate
    <2>2. \A s \in DOMAIN docs : Named(docs[s])
      BY <1>1, <1>2 DEF Uncompleted
    <2> HIDE DEF docs
    <2>3. r.pc = "sweep" /\ r.docs = docs
      OBVIOUS
    <2> HIDE DEF r
    <2> QED
      BY <1>1, <2>1, <2>2, <2>3, CopySound
  <1>9. ASSUME NEW h \in Handler, MarkOverdue(h) PROVE CopiesSound'
    <2> DEFINE docs == handler[h].docs
    <2>1. PICK s \in DOMAIN docs :
             /\ sched' = [sched EXCEPT ![s] = [docs[s] EXCEPT !.status = "OVERDUE"]]
             /\ handler' = [handler EXCEPT
                  ![h] = [pc |-> "escalate", sched |-> s, docs |-> Without(docs, s)]]
      BY <1>9 DEF MarkOverdue
    <2>2. \A u \in DOMAIN docs : Named(docs[u]) /\ docs[u] \in Doc
      BY <1>2, <1>9, IdlePc DEF MarkOverdue, CopiesSound, IsHandler
    <2> DEFINE less == Without(docs, s)
               d == [docs[s] EXCEPT !.status = "OVERDUE"]
               r == [pc |-> "escalate", sched |-> s, docs |-> less]
    <2>3. Named(d)
      BY <2>2 DEF Named, Doc
    <2>4. handler' = [handler EXCEPT ![h] = r] /\ sched' = [sched EXCEPT ![s] = d]
      BY <2>1
    <2>5. \A u \in DOMAIN less : Named(less[u])
      BY <2>2 DEF Without
    <2> HIDE DEF less, d
    <2>6. r.pc = "escalate" /\ r.docs = less
      OBVIOUS
    <2> HIDE DEF r
    <2>7. \A u \in Schedule : Named(sched'[u])
      BY <1>1, <1>2, <2>3, <2>4
    <2> QED
      BY <2>4, <2>5, <2>6, <2>7, CopySound
  <1>10. ASSUME NEW h \in Handler, Escalate(h) PROVE CopiesSound'
    <2> DEFINE r == [pc |-> "sweep", docs |-> handler[h].docs]
    <2>1. handler' = [handler EXCEPT ![h] = r] /\ sched' = sched /\ handler[h].pc = "escalate"
      BY <1>10 DEF Escalate
    <2>2. r.pc = "sweep" /\ r.docs = handler[h].docs
      OBVIOUS
    <2> HIDE DEF r
    <2>3. \A s \in DOMAIN handler[h].docs : Named(handler[h].docs[s])
      BY <2>1 DEF CopiesSound
    <2> QED
      BY <1>1, <2>1, <2>2, <2>3, CopySound
  <1>11. ASSUME UNCHANGED <<sched, handler>> PROVE CopiesSound'
    BY <1>11 DEF CopiesSound, Named
  <1> QED
    BY <1>3, <1>4, <1>5, <1>6, <1>7, <1>8, <1>9, <1>10, <1>11 DEF Next, DueDatePasses, vars

\* However checks, patches and completions interleave, a stamped schedule names its
\* inspection.
THEOREM StampAlwaysNeedsInspection == Spec => []StampNeedsInspection
  <1>1. Init => CopiesSound
    BY IdlePc DEF Init, CopiesSound, Named, Absent
  <1>2. CopiesSound => StampNeedsInspection
    BY DEF CopiesSound, Named, StampNeedsInspection
  <1> QED
    BY <1>1, <1>2, InitTypeInv, NextTypeInv, NextCopiesSound, PTL DEF Spec

-----------------------------------------------------------------------------
(* Escalation.                                                                *)

Escalators(s) == {h \in Handler : handler[h].pc = "escalate" /\ handler[h].sched = s}

LEMMA EscalatorsFinite ==
    ASSUME IsFiniteSet(Handler), NEW s
    PROVE  /\ IsFiniteSet(Escalators(s)) /\ Escalating(s) = Cardinality(Escalators(s))
           /\ Escalating(s) \in Nat
  <1>1. IsFiniteSet(Escalators(s))
    BY FS_Subset DEF Escalators
  <1> QED
    BY <1>1, FS_CardinalityType DEF Escalators, Escalating

\* A check that marks s owes a notice for it.
LEMMA MarkCounts ==
    ASSUME IsFiniteSet(Handler), TypeInv, NEW h \in Handler, MarkOverdue(h)
    PROVE  \E s \in Schedule :
              /\ s \in DOMAIN handler[h].docs
              /\ sched' = [sched EXCEPT ![s] = [handler[h].docs[s] EXCEPT !.status = "OVERDUE"]]
              /\ lapses'[s] = IF sched[s].status = "OVERDUE" THEN lapses[s] ELSE lapses[s] + 1
              /\ Escalating(s)' = Escalating(s) + 1
              /\ escalated' = escalated
              /\ handler'[h].pc = "escalate" /\ handler'[h].docs = Without(handler[h].docs, s)
              /\ \A u \in Schedule : u # s =>
                    Escalating(u)' = Escalating(u) /\ lapses'[u] = lapses[u]
  <1>1. PICK s \in DOMAIN handler[h].docs :
             /\ sched' = [sched EXCEPT ![s] = [handler[h].docs[s] EXCEPT !.status = "OVERDUE"]]
             /\ lapses' = [lapses EXCEPT ![s] = IF sched[s].status = "OVERDUE" THEN @ ELSE @ + 1]
             /\ handler' = [handler EXCEPT
                  ![h] = [pc |-> "escalate", sched |-> s, docs |-> Without(handler[h].docs, s)]]
             /\ escalated' = escalated /\ handler[h].pc = "sweep"
    BY DEF MarkOverdue
  <1>2. s \in Schedule
    BY <1>1, IdlePc DEF TypeInv, TypeOK, IsHandler
  <1>3. lapses'[s] = (IF sched[s].status = "OVERDUE" THEN lapses[s] ELSE lapses[s] + 1)
        /\ \A u \in Schedule : u # s => lapses'[u] = lapses[u]
    BY <1>1, <1>2 DEF TypeInv, TypeOK
  <1> DEFINE r == [pc |-> "escalate", sched |-> s, docs |-> Without(handler[h].docs, s)]
  <1>4. r.pc = "escalate" /\ r.sched = s /\ r.docs = Without(handler[h].docs, s)
    OBVIOUS
  <1>5. handler' = [handler EXCEPT ![h] = r]
    BY <1>1
  <1> HIDE DEF r
  <1>6. \A g \in Handler : handler'[g] = IF g = h THEN r ELSE handler[g]
    BY <1>5 DEF TypeInv
  <1>7. Escalators(s)' = Escalators(s) \cup {h} /\ h \notin Escalators(s)
    BY <1>1, <1>4, <1>6 DEF Escalators
  <1>8. \A u : u # s => Escalators(u)' = Escalators(u)
    BY <1>1, <1>4, <1>6 DEF Escalators
  <1>9. Escalating(s)' = Escalating(s) + 1
    <2>1. Escalating(s) = Cardinality(Escalators(s))
          /\ Escalating(s)' = Cardinality(Escalators(s)')
      BY DEF Escalating, Escalators
    <2>2. IsFiniteSet(Escalators(s))
      BY EscalatorsFinite
    <2> QED
      BY <1>7, <2>1, <2>2, FS_AddElement
  <1>10. \A u : u # s => Escalating(u)' = Escalating(u)
    BY <1>8 DEF Escalating, Escalators
  <1> QED
    BY <1>1, <1>2, <1>3, <1>4, <1>6, <1>9, <1>10

\* The notice of s goes out.
LEMMA EscalateCounts ==
    ASSUME IsFiniteSet(Handler), TypeInv, NEW h \in Handler, Escalate(h)
    PROVE  \E s \in Schedule :
              /\ escalated'[s] = escalated[s] + 1 /\ Escalating(s)' = Escalating(s) - 1
              /\ lapses' = lapses
              /\ \A u \in Schedule : u # s =>
                    Escalating(u)' = Escalating(u) /\ escalated'[u] = escalated[u]
  <1> DEFINE r == [pc |-> "sweep", docs |-> handler[h].docs]
  <1>0. PICK s : s = handler[h].sched
    OBVIOUS
  <1>1. /\ handler[h].pc = "escalate" /\ lapses' = lapses
        /\ escalated' = [escalated EXCEPT ![s] = @ + 1]
        /\ handler' = [handler EXCEPT ![h] = r]
    BY <1>0 DEF Escalate
  <1>2. s \in Schedule
    BY <1>0, <1>1, IdlePc DEF TypeInv, TypeOK, IsHandler
  <1>3. escalated'[s] = escalated[s] + 1
        /\ \A u \in Schedule : u # s => escalated'[u] = escalated[u]
    BY <1>1, <1>2 DEF TypeInv, TypeOK
  <1>4. r.pc = "sweep"
    OBVIOUS
  <1> HIDE DEF r
  <1>5. \A g \in Handler : handler'[g] = IF g = h THEN r ELSE handler[g]
    BY <1>1 DEF TypeInv
  <1>6. Escalators(s)' = Escalators(s) \ {h} /\ h \in Escalators(s)
    BY <1>0, <1>1, <1>4, <1>5 DEF Escalators
  <1>7. \A u : u # s => Escalators(u)' = Escalators(u)
    BY <1>0, <1>1, <1>4, <1>5 DEF Escalators
  <1>8. Escalating(s)' = Escalating(s) - 1
    <2>1. Escalating(s) = Cardinality(Escalators(s))
          /\ Escalating(s)' = Cardinality(Escalators(s)')
      BY DEF Escalating, Escalators
    <2>2. IsFiniteSet(Escalators(s))
      BY EscalatorsFinite
    <2> QED
      BY <1>6, <2>1, <2>2, FS_RemoveElement
  <1>9. \A u : u # s => Escalating(u)' = Escalating(u)
    BY <1>7 DEF Escalating, Escalators
  <1> QED
    BY <1>1, <1>2, <1>3, <1>8, <1>9

\* Every other step leaves the counts alone, unless a request dies.
LEMMA OthersCountNothing ==
    ASSUME TypeInv, [Next]_vars, crashes' = crashes,
           \A h \in Handler : ~MarkOverdue(h) /\ ~Escalate(h)
    PROVE  /\ UNCHANGED <<lapses, escalated>>
           /\ \A s : Escalating(s)' = Escalating(s)
  <1>1. ASSUME NEW h \in Handler, NEW r, handler' = [handler EXCEPT ![h] = r],
               handler[h].pc # "escalate", r.pc # "escalate"
        PROVE  \A s : Escalating(s)' = Escalating(s)
    <2>1. \A g \in Handler : handler'[g] = IF g = h THEN r ELSE handler[g]
      BY <1>1 DEF TypeInv
    <2>2. \A s : Escalators(s)' = Escalators(s)
      BY <1>1, <2>1 DEF Escalators
    <2> QED
      BY <2>2 DEF Escalating, Escalators
  <1>2. ASSUME handler' = handler PROVE \A s : Escalating(s)' = Escalating(s)
    BY <1>2 DEF Escalating
  <1>3. ASSUME NEW h \in Handler, NEW s \in Schedule, Insert(h, s)
        PROVE  \A u : Escalating(u)' = Escalating(u)
    <2> DEFINE r == [pc |-> "inform", sched |-> s]
    <2>1. handler' = [handler EXCEPT ![h] = r] /\ r.pc = "inform" /\ handler[h] = Idle
      BY <1>3 DEF Insert
    <2> HIDE DEF r
    <2> QED
      BY <1>1, <2>1, IdlePc
  <1>4. ASSUME NEW h \in Handler, Inform(h) \/ EndSweep(h) \/ SavePatch(h)
        PROVE  \A u : Escalating(u)' = Escalating(u)
    <2>1. handler' = [handler EXCEPT ![h] = Idle] /\ handler[h].pc # "escalate"
      BY <1>4 DEF Inform, EndSweep, SavePatch
    <2> QED
      BY <1>1, <2>1, IdlePc
  <1>5. ASSUME NEW h \in Handler, NEW s \in Schedule, NEW status \in Asked,
               NEW named \in BOOLEAN, ReadToPatch(h, s, status, named)
        PROVE  \A u : Escalating(u)' = Escalating(u)
    <2> DEFINE r == IF status = "COMPLETED" /\ named THEN [pc |-> "complete", sched |-> s]
                    ELSE [pc |-> "patch", sched |-> s, doc |-> Patched(sched[s], status, named)]
    <2>1. handler' = [handler EXCEPT ![h] = r] /\ handler[h] = Idle
      BY <1>5 DEF ReadToPatch
    <2>2. r.pc \in {"complete", "patch"}
      OBVIOUS
    <2> HIDE DEF r
    <2> QED
      BY <1>1, <2>1, <2>2, IdlePc
  <1>6. ASSUME NEW h \in Handler, ReadToComplete(h)
        PROVE  \A u : Escalating(u)' = Escalating(u)
    <2> DEFINE r == [pc |-> "patch", sched |-> handler[h].sched, doc |-> Completed]
    <2>1. handler' = [handler EXCEPT ![h] = r] /\ r.pc = "patch" /\ handler[h].pc = "complete"
      BY <1>6 DEF ReadToComplete
    <2> HIDE DEF r
    <2> QED
      BY <1>1, <2>1
  <1>7. ASSUME NEW h \in Handler, ReadLate(h) PROVE \A u : Escalating(u)' = Escalating(u)
    <2> DEFINE S == {u \in Uncompleted : sched[u].status # "OVERDUE"}
               r == [pc |-> "sweep", docs |-> [s \in S |-> sched[s]]]
    <2>1. handler' = [handler EXCEPT ![h] = r] /\ handler[h] = Idle
      BY <1>7 DEF ReadLate
    <2>2. r.pc = "sweep"
      OBVIOUS
    <2> HIDE DEF r
    <2> QED
      BY <1>1, <2>1, <2>2, IdlePc
  <1>8. ASSUME NEW h \in Handler, Abort(h) PROVE FALSE
    BY <1>8 DEF Abort, TypeInv, TypeOK
  <1>9. UNCHANGED <<lapses, escalated>>
    BY <1>8 DEF Next, vars, DueDatePasses, Insert, Inform, ReadToPatch, ReadToComplete,
                SavePatch, ReadLate, EndSweep
  <1> QED
    BY <1>2, <1>3, <1>4, <1>5, <1>6, <1>7, <1>8, <1>9 DEF Next, DueDatePasses, vars

LEMMA CrashesGrow == TypeInv /\ [Next]_vars /\ crashes' = 0 => crashes = 0 /\ crashes' = crashes
  <1> SUFFICES ASSUME TypeInv, [Next]_vars, crashes' = 0 PROVE crashes = 0
    OBVIOUS
  <1>1. crashes' = crashes \/ crashes' = crashes + 1
    BY DEF Next, vars, DueDatePasses, Insert, Inform, ReadToPatch, ReadToComplete, SavePatch,
           ReadLate, MarkOverdue, Escalate, EndSweep, Abort
  <1> QED
    BY <1>1 DEF TypeInv, TypeOK

\* While no request dies every lapse is escalated or about to be, with any number of
\* checks and patches of stale copies at once.
THEOREM EveryLapseAlwaysEscalated ==
  ASSUME IsFiniteSet(Handler) PROVE Spec => []EveryLapseEscalated
  <1>1. Init => EveryLapseEscalated
    <2> SUFFICES ASSUME Init, NEW s \in Schedule PROVE lapses[s] <= escalated[s] + Escalating(s)
      BY DEF EveryLapseEscalated
    <2> QED
      BY EscalatorsFinite DEF Init
  <1>2. TypeInv /\ EveryLapseEscalated /\ [Next]_vars => EveryLapseEscalated'
    <2> SUFFICES ASSUME TypeInv, EveryLapseEscalated, [Next]_vars, crashes' = 0,
                        NEW s \in Schedule
                 PROVE  lapses'[s] <= escalated'[s] + Escalating(s)'
      BY DEF EveryLapseEscalated
    <2>1. crashes' = crashes /\ lapses[s] <= escalated[s] + Escalating(s)
      BY CrashesGrow DEF EveryLapseEscalated
    <2>2. lapses[s] \in Nat /\ escalated[s] \in Nat /\ Escalating(s) \in Nat
      BY EscalatorsFinite DEF TypeInv, TypeOK
    <2>3. ASSUME NEW h \in Handler, MarkOverdue(h)
          PROVE  lapses'[s] <= escalated'[s] + Escalating(s)'
      BY <2>1, <2>2, <2>3, MarkCounts
    <2>4. ASSUME NEW h \in Handler, Escalate(h)
          PROVE  lapses'[s] <= escalated'[s] + Escalating(s)'
      BY <2>1, <2>2, <2>4, EscalateCounts
    <2> QED
      BY <2>1, <2>3, <2>4, OthersCountNothing
  <1> QED
    BY <1>1, <1>2, InitTypeInv, NextTypeInv, PTL DEF Spec
-----------------------------------------------------------------------------
(* One request at a time.                                                     *)

Alone == \A g, h \in Handler : handler[g] # Idle /\ handler[h] # Idle => g = h

LEMMA NoteAlone ==
    ASSUME IsFiniteSet(Handler), Note, overlapped \in BOOLEAN, ~overlapped'
    PROVE  ~overlapped /\ Alone'
  <1> DEFINE T == {h \in Handler : handler'[h] # Idle}
  <1>1. ~overlapped /\ ~(Cardinality(T) > 1)
    BY DEF Note
  <1>2. IsFiniteSet(T)
    BY FS_Subset
  <1>3. ASSUME NEW g \in T, NEW h \in T, g # h PROVE FALSE
    <2>1. IsFiniteSet(T \ {g}) /\ Cardinality(T \ {g}) = Cardinality(T) - 1
      BY <1>2, <1>3, FS_RemoveElement
    <2>2. Cardinality(T \ {g}) \in Nat /\ Cardinality(T) \in Nat
      BY <1>2, <2>1, FS_CardinalityType
    <2>3. T \ {g} = {}
      BY <1>1, <2>1, <2>2, FS_EmptySet
    <2> QED
      BY <1>3, <2>3
  <1> QED
    BY <1>1, <1>3 DEF Alone

\* A check holds the documents themselves, none of them completed or overdue; a patch
\* keeps the inspection and asks for what clients ask for.
Current(r, docs) ==
    /\ r.pc \in {"sweep", "escalate"} =>
          \A s \in DOMAIN r.docs :
             r.docs[s] = docs[s] /\ docs[s].status \notin {"OVERDUE", "COMPLETED"}
    /\ r.pc = "patch" =>
          /\ docs[r.sched].inspection => r.doc.inspection
          /\ r.doc.status \in Asked \cup {"COMPLETED"}

CountsAgree == crashes = 0 => \A s \in Schedule : escalated[s] + Escalating(s) = lapses[s]

Serial == Alone /\ CountsAgree /\ \A h \in Handler : Current(handler[h], sched)

\* Of requests that do not overlap only the one that moves has a copy.
LEMMA SerialStep ==
    ASSUME TypeInv, Serial, Alone', CountsAgree', NEW h \in Handler, NEW r,
           handler' = [handler EXCEPT ![h] = r], handler[h] # Idle \/ r # Idle,
           Current(r, sched')
    PROVE  Serial'
  <1>1. \A g \in Handler : handler'[g] = IF g = h THEN r ELSE handler[g]
    BY DEF TypeInv
  <1>2. \A g \in Handler : g # h => handler'[g] = Idle
    BY <1>1 DEF Serial, Alone
  <1>3. \A g \in Handler : Current(handler'[g], sched')
    BY <1>1, <1>2, IdlePc DEF Current
  <1>4. (\A g \in Handler : Current(handler[g], sched))'
    BY <1>3 DEF Current
  <1> QED
    BY <1>4 DEF Serial

LEMMA NextCounts ==
    ASSUME IsFiniteSet(Handler), TypeInv, Serial, [Next]_vars PROVE CountsAgree'
  <1> SUFFICES ASSUME crashes' = 0, NEW s \in Schedule
               PROVE  escalated'[s] + Escalating(s)' = lapses'[s]
    BY DEF CountsAgree
  <1>1. crashes' = crashes /\ escalated[s] + Escalating(s) = lapses[s]
    BY CrashesGrow DEF Serial, CountsAgree
  <1>2. lapses[s] \in Nat /\ escalated[s] \in Nat /\ Escalating(s) \in Nat
    BY EscalatorsFinite DEF TypeInv, TypeOK
  <1>3. ASSUME NEW h \in Handler, MarkOverdue(h)
        PROVE  escalated'[s] + Escalating(s)' = lapses'[s]
    <2>1. \A u \in DOMAIN handler[h].docs : sched[u].status # "OVERDUE"
      BY <1>3 DEF Serial, Current, MarkOverdue
    <2> QED
      BY <1>1, <1>2, <1>3, <2>1, MarkCounts
  <1>4. ASSUME NEW h \in Handler, Escalate(h)
        PROVE  escalated'[s] + Escalating(s)' = lapses'[s]
    BY <1>1, <1>2, <1>4, EscalateCounts
  <1> QED
    BY <1>1, <1>3, <1>4, OthersCountNothing

LEMMA NextSerial ==
    ASSUME IsFiniteSet(Handler), TypeInv, Serial, Alone', [Next]_vars PROVE Serial'
  <1>1. CountsAgree'
    BY NextCounts
  <1>2. \A h \in Handler : IsHandler(handler[h])
    BY DEF TypeInv, TypeOK
  <1>3. Current(Idle, sched')
    BY IdlePc DEF Current
  <1>4. ASSUME NEW h \in Handler, NEW s \in Schedule, Insert(h, s) PROVE Serial'
    <2> DEFINE r == [pc |-> "inform", sched |-> s]
    <2>1. handler' = [handler EXCEPT ![h] = r] /\ r.pc = "inform"
      BY <1>4 DEF Insert
    <2> HIDE DEF r
    <2>2. Current(r, sched') /\ r # Idle
      BY <2>1, IdlePc DEF Current
    <2> QED
      BY <1>1, <2>1, <2>2, SerialStep
  <1>5. ASSUME NEW h \in Handler,
               Inform(h) \/ EndSweep(h) \/ SavePatch(h) \/ Abort(h)
        PROVE  Serial'
    <2>1. handler' = [handler EXCEPT ![h] = Idle] /\ handler[h] # Idle
      BY <1>5, IdlePc DEF Inform, EndSweep, SavePatch, Abort
    <2> QED
      BY <1>1, <1>3, <2>1, SerialStep
  <1>6. ASSUME NEW h \in Handler, NEW s \in Schedule, NEW status \in Asked,
               NEW named \in BOOLEAN, ReadToPatch(h, s, status, named)
        PROVE  Serial'
    <2> DEFINE d == Patched(sched[s], status, named)
               r == IF status = "COMPLETED" /\ named THEN [pc |-> "complete", sched |-> s]
                    ELSE [pc |-> "patch", sched |-> s, doc |-> d]
    <2>1. handler' = [handler EXCEPT ![h] = r] /\ sched' = sched
      BY <1>6 DEF ReadToPatch
    <2>2. d.status = status /\ (sched[s].inspection => d.inspection)
      BY DEF Patched
    <2> HIDE DEF d
    <2>3. r.pc = "complete" \/ (r.pc = "patch" /\ r.sched = s /\ r.doc = d)
      OBVIOUS
    <2> HIDE DEF r
    <2>4. Current(r, sched') /\ r # Idle
      BY <2>1, <2>2, <2>3, IdlePc DEF Current
    <2> QED
      BY <1>1, <2>1, <2>4, SerialStep
  <1>7. ASSUME NEW h \in Handler, ReadToComplete(h) PROVE Serial'
    <2> DEFINE r == [pc |-> "patch", sched |-> handler[h].sched, doc |-> Completed]
    <2>1. handler' = [handler EXCEPT ![h] = r] /\ r.pc = "patch" /\ r.doc = Completed
      BY <1>7 DEF ReadToComplete
    <2>2. Completed.status = "COMPLETED" /\ Completed.inspection = TRUE
      BY DEF Completed
    <2> HIDE DEF r
    <2>3. Current(r, sched') /\ r # Idle
      BY <2>1, <2>2, IdlePc DEF Current
    <2> QED
      BY <1>1, <2>1, <2>3, SerialStep
  <1>8. ASSUME NEW h \in Handler, ReadLate(h) PROVE Serial'
    <2> DEFINE S == {u \in Uncompleted : sched[u].status # "OVERDUE"}
               docs == [s \in S |-> sched[s]]
               r == [pc |-> "sweep", docs |-> docs]
    <2>1. handler' = [handler EXCEPT ![h] = r] /\ sched' = sched
      BY <1>8 DEF ReadLate
    <2>2. \A s \in DOMAIN docs :
             docs[s] = sched[s] /\ sched[s].status \notin {"OVERDUE", "COMPLETED"}
      BY DEF Uncompleted
    <2> HIDE DEF docs
    <2>3. r.pc = "sweep" /\ r.docs = docs
      OBVIOUS
    <2> HIDE DEF r
    <2>4. Current(r, sched') /\ r # Idle
      BY <2>1, <2>2, <2>3, IdlePc DEF Current
    <2> QED
      BY <1>1, <2>1, <2>4, SerialStep
  <1>9. ASSUME NEW h \in Handler, MarkOverdue(h) PROVE Serial'
    <2> DEFINE docs == handler[h].docs
    <2>1. PICK s \in DOMAIN docs :
             /\ sched' = [sched EXCEPT ![s] = [docs[s] EXCEPT !.status = "OVERDUE"]]
             /\ handler' = [handler EXCEPT
                  ![h] = [pc |-> "escalate", sched |-> s, docs |-> Without(docs, s)]]
             /\ handler[h].pc = "sweep"
      BY <1>9 DEF MarkOverdue
    <2> DEFINE less == Without(docs, s)
               r == [pc |-> "escalate", sched |-> s, docs |-> less]
    <2>2. handler' = [handler EXCEPT ![h] = r]
      BY <2>1
    <2>3. \A u \in DOMAIN docs :
             docs[u] = sched[u] /\ sched[u].status \notin {"OVERDUE", "COMPLETED"}
      BY <2>1 DEF Serial, Current
    <2>4. \A u \in DOMAIN less : u \in DOMAIN docs /\ u # s /\ less[u] = docs[u]
      BY DEF Without
    <2>5. DOMAIN docs \subseteq Schedule /\ DOMAIN sched = Schedule
      BY <1>2, <2>1, IdlePc DEF IsHandler, TypeInv, TypeOK
    <2> HIDE DEF less
    <2>6. r.pc = "escalate" /\ r.docs = less
      OBVIOUS
    <2> HIDE DEF r
    <2>7. \A u \in Schedule : u # s => sched'[u] = sched[u]
      BY <2>1, <2>5
    <2>8. Current(r, sched') /\ r # Idle
      BY <2>3, <2>4, <2>5, <2>6, <2>7, IdlePc DEF Current
    <2> QED
      BY <1>1, <2>2, <2>8, SerialStep
  <1>10. ASSUME NEW h \in Handler, Escalate(h) PROVE Serial'
    <2> DEFINE r == [pc |-> "sweep", docs |-> handler[h].docs]
    <2>1. handler' = [handler EXCEPT ![h] = r] /\ sched' = sched /\ handler[h].pc = "escalate"
      BY <1>10 DEF Escalate
    <2>2. r.pc = "sweep" /\ r.docs = handler[h].docs
      OBVIOUS
    <2> HIDE DEF r
    <2>3. Current(r, sched') /\ r # Idle
      BY <2>1, <2>2, IdlePc DEF Current, Serial
    <2> QED
      BY <1>1, <2>1, <2>3, SerialStep
  <1>11. ASSUME UNCHANGED <<sched, handler>> PROVE Serial'
    BY <1>1, <1>11 DEF Serial, Alone, Current
  <1> QED
    BY <1>4, <1>5, <1>6, <1>7, <1>8, <1>9, <1>10, <1>11 DEF Next, DueDatePasses, vars

SerialInv == TypeInv /\ overlapped \in BOOLEAN /\ (~overlapped => Serial)

LEMMA InitSerialInv == ASSUME IsFiniteSet(Handler), MCInit PROVE SerialInv
  <1>1. TypeInv
    BY InitTypeInv DEF MCInit
  <1>2. \A h \in Handler : handler[h] = Idle
    BY DEF MCInit, Init
  <1>3. \A s : Escalators(s) = {}
    BY <1>2, IdlePc DEF Escalators
  <1>4. \A s : Escalating(s) = 0
    BY <1>3, FS_EmptySet DEF Escalating, Escalators
  <1>5. CountsAgree
    BY <1>4 DEF MCInit, Init, CountsAgree
  <1>6. \A h \in Handler : Current(handler[h], sched)
    BY <1>2, IdlePc DEF Current
  <1> QED
    BY <1>1, <1>2, <1>5, <1>6 DEF MCInit, SerialInv, Serial, Alone

LEMMA NextSerialInv ==
    ASSUME IsFiniteSet(Handler), SerialInv, [MCNext]_<<vars, overlapped>>
    PROVE  SerialInv'
  <1>1. [Next]_vars /\ TypeInv'
    BY NextTypeInv DEF MCNext, Next, SerialInv
  <1>2. CASE UNCHANGED <<vars, overlapped>>
    <2>1. Alone' <=> Alone
      BY <1>2 DEF Alone, vars
    <2> QED
      BY <1>1, <1>2, <2>1, NextSerial DEF SerialInv, Serial
  <1>3. CASE Note
    <2>1. overlapped' \in BOOLEAN
      BY <1>3 DEF Note, SerialInv
    <2> QED
      BY <1>1, <1>3, <2>1, NoteAlone, NextSerial DEF SerialInv
  <1> QED
    BY <1>2, <1>3 DEF MCNext

\* Of one request at a time, a lapse is escalated once however often the check runs.
THEOREM EscalatedAlwaysOnce ==
  ASSUME IsFiniteSet(Handler) PROVE MCSpec => []EscalatedOnce
  <1>1. MCInit => SerialInv
    BY InitSerialInv
  <1>2. SerialInv /\ [MCNext]_<<vars, overlapped>> => SerialInv'
    BY NextSerialInv
  <1>3. SerialInv => EscalatedOnce
    BY DEF SerialInv, Serial, CountsAgree, EscalatedOnce, OneNoticePerLapse
  <1> QED
    BY <1>1, <1>2, <1>3, PTL DEF MCSpec

\* Until two requests overlap, completed schedules are not made overdue and
\* inspections stay named, if clients do not ask for OVERDUE, which the code lets them.
THEOREM CompletionAlwaysStands ==
  ASSUME IsFiniteSet(Handler), "OVERDUE" \notin Asked
  PROVE  MCSpec => CompletionStandsSerially
  <1> DEFINE Stands == \A s \in Schedule :
                          /\ sched[s].status = "COMPLETED" => sched'[s].status # "OVERDUE"
                          /\ sched[s].inspection => sched'[s].inspection
  <1>1. MCInit => SerialInv
    BY InitSerialInv
  <1>2. SerialInv /\ [MCNext]_<<vars, overlapped>> => SerialInv'
    BY NextSerialInv
  <1>3. SerialInv /\ [MCNext]_<<vars, overlapped>> =>
            [~overlapped' => Stands]_<<vars, overlapped>>
    <2> SUFFICES ASSUME SerialInv, MCNext, ~overlapped' PROVE Stands
      OBVIOUS
    <2>1. TypeInv /\ Serial
      BY NoteAlone DEF SerialInv, MCNext, Note
    <2>2. /\ sched \in [Schedule -> Doc \cup {Absent}]
          /\ \A h \in Handler : IsHandler(handler[h]) /\ Current(handler[h], sched)
      BY <2>1 DEF TypeInv, TypeOK, Serial
    <2>3. Absent.inspection = FALSE /\ Absent.status = "ABSENT"
      BY DEF Absent
    <2>4. ASSUME NEW h \in Handler, NEW s \in Schedule, Insert(h, s) PROVE Stands
      BY <2>2, <2>3, <2>4 DEF Insert
    <2>5. ASSUME NEW h \in Handler, SavePatch(h) PROVE Stands
      <3> DEFINE s == handler[h].sched
                 d == handler[h].doc
      <3>1. sched' = [sched EXCEPT ![s] = d] /\ handler[h].pc = "patch"
        BY <2>5 DEF SavePatch
      <3>2. (sched[s].inspection => d.inspection) /\ d.status \in Asked \cup {"COMPLETED"}
        BY <2>2, <3>1 DEF Current
      <3> HIDE DEF s, d
      <3> QED
        BY <2>2, <3>1, <3>2
    <2>6. ASSUME NEW h \in Handler, MarkOverdue(h) PROVE Stands
      <3> DEFINE docs == handler[h].docs
      <3>1. PICK s \in DOMAIN docs :
               sched' = [sched EXCEPT ![s] = [docs[s] EXCEPT !.status = "OVERDUE"]]
               /\ handler[h].pc = "sweep"
        BY <2>6 DEF MarkOverdue
      <3> DEFINE d == [docs[s] EXCEPT !.status = "OVERDUE"]
      <3>2. docs[s] = sched[s] /\ sched[s].status # "COMPLETED" /\ docs[s] \in Doc
        BY <2>2, <3>1, IdlePc DEF Current, IsHandler
      <3>3. d.inspection = sched[s].inspection
        BY <3>2 DEF Doc
      <3>4. sched' = [sched EXCEPT ![s] = d]
        BY <3>1
      <3> HIDE DEF d
      <3> QED
        BY <2>2, <3>2, <3>3, <3>4
    <2>7. ASSUME sched' = sched PROVE Stands
      BY <2>7
    <2> HIDE DEF Stands
    <2> QED
      BY <2>4, <2>5, <2>6, <2>7
      DEF MCNext, DueDatePasses, Inform, ReadToPatch, ReadToComplete, ReadLate, Escalate,
          EndSweep, Abort
  <1> QED
    BY <1>1, <1>2, <1>3, PTL DEF MCSpec, CompletionStandsSerially
================================================================================
