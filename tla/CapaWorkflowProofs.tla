-------------------------- MODULE CapaWorkflowProofs --------------------------
(* Proofs about CapaWorkflow for any number of handlers, any roles and any *)
(* synchronised items: stale copies, merges, imports in any state, emptied *)
(* lists of evidence and crashes are allowed throughout.  Where such an    *)
(* item takes a promise away, the history of MCCapaWorkflow says so.       *)
EXTENDS MCCapaWorkflow, SequenceTheorems, FiniteSetTheorems, TLAPS

\* What a handler holds agrees with itself: the document it is about to save is
\* in the state its event leads to, and its event is a step that was permitted.
EventLegal(e) ==
    /\ Permitted(e.from, e.to, e.role)
    /\ e.to = "VERIFIED" => e.role \in Verifier

EventsSound ==
    /\ \A h \in Handler :
         /\ handler[h].pc \in {"read", "saved"} => EventLegal(handler[h].event)
         /\ handler[h].pc = "read" => handler[h].doc.state = handler[h].event.to
    /\ \A i \in DOMAIN trail : EventLegal(trail[i])

\* A document that keeps the promises, wherever its copies are.
EvidenceSound(d) == d.state \in Rectified => d.evidence

VerifierSound(d) == d.state \in Attested => d.verifiedBy \in Verifier

\* A copy that a transition is about to save has the evidence its state calls for;
\* a copy of a synchronisation may not, and is noted when it is saved.
EvidenceInv ==
    ~stripped =>
        /\ EvidenceSound(capa)
        /\ \A h \in Handler :
             handler[h].pc = "read" => EvidenceSound(handler[h].doc)

\* The state of filing is remembered from the filing on.
FiledSound == IF capa = Absent THEN filedAs = "ABSENT" ELSE filedAs \in CAPAState

\* Copies of the present document have its verifier; copies to insert do not
\* matter, because they are saved by filing only.
VerifierInv ==
    filedAs \notin Attested =>
        /\ VerifierSound(capa)
        /\ \A h \in Handler :
             handler[h].pc \in {"read", "merge"} => VerifierSound(handler[h].doc)

\* A copy about to be merged is in a state that is vouched for.
CopiesVouched ==
    crashes = 0 =>
        /\ capa.state \in Vouched \cup {filedAs}
        /\ \A h \in Handler :
             handler[h].pc = "merge" =>
                 handler[h].doc.state \in Vouched \cup {filedAs}

\* A step of the workflow with its history.
MCvars == <<vars, history>>

Step == (Next /\ Note) \/ UNCHANGED MCvars

LEMMA MCNextIsNext == MCNext => Next /\ Note
  BY DEF MCNext, Next

LEMMA StepIsNext == [MCNext]_<<vars, history>> => Step /\ [Next]_vars
  BY MCNextIsNext DEF Step, MCvars

-----------------------------------------------------------------------------
(* Types: no assumption on the items beyond CapaAssumption.                *)

LEMMA InitTypeOK == Init => TypeOK
  BY CapaAssumption DEF Init, TypeOK, Absent, Idle, IsHandler

LEMMA EventInRecordSet ==
  ASSUME NEW e, IsEvent(e)
  PROVE  e \in [from : CAPAState, to : CAPAState, role : Role]
  BY DEF IsEvent

LEMMA MovedIsDoc ==
  ASSUME NEW d, IsDoc(d), NEW to \in CAPAState, NEW role \in Role,
         NEW evidence \in BOOLEAN
  PROVE  IsDoc(Moved(d, to, role, evidence))
  <1> DEFINE m == Moved(d, to, role, evidence)
  <1>1. m = [state |-> m.state, evidence |-> m.evidence,
             verifiedBy |-> m.verifiedBy, version |-> m.version, key |-> m.key]
    BY DEF Moved
  <1>2. m.state \in CAPAState
    BY DEF Moved
  <1>3. m.evidence \in BOOLEAN
    <2>1. CASE to = "RECTIFICATION_SUBMITTED" /\ evidence
      <3>1. m.evidence = TRUE
        BY <2>1 DEF Moved
      <3> QED
        BY <3>1
    <2>2. CASE ~(to = "RECTIFICATION_SUBMITTED" /\ evidence)
      <3>1. m.evidence = d.evidence
        BY <2>2 DEF Moved
      <3> QED
        BY <3>1 DEF IsDoc
    <2> QED
      BY <2>1, <2>2
  <1>4. m.verifiedBy \in Role \cup {None}
    BY DEF Moved, IsDoc
  <1>5. m.version \in Nat \ {0}
    BY DEF Moved, IsDoc
  <1> QED
    BY <1>1, <1>2, <1>3, <1>4, <1>5 DEF IsDoc

LEMMA MergedIsDoc ==
  ASSUME NEW d, IsDoc(d), NEW item \in Item
  PROVE  IsDoc(Merged(d, item))
  BY CapaAssumption DEF IsDoc, Merged

LEMMA ImportedIsDoc ==
  ASSUME NEW item \in Item
  PROVE  IsDoc(Imported(item))
  BY CapaAssumption DEF IsDoc, Imported

\* The next-state relation keeps the types.
LEMMA TypeStep ==
  ASSUME TypeOK, [Next]_vars
  PROVE  TypeOK'
  <1> USE CapaAssumption
  <1>1. ASSUME NEW evidence \in BOOLEAN, Create(evidence) PROVE TypeOK'
    BY <1>1 DEF Create, TypeOK, IsDoc, IsHandler, CAPAState
  <1>2. ASSUME NEW h \in Handler, NEW to \in CAPAState, NEW role \in Role,
               NEW evidence \in BOOLEAN, Read(h, to, role, evidence)
        PROVE  TypeOK'
    <2> DEFINE e == [from |-> capa.state, to |-> to, role |-> role]
    <2>1. IsDoc(capa)
      BY <1>2 DEF Read, TypeOK
    <2>2. IsDoc(Moved(capa, to, role, evidence))
      BY <2>1, MovedIsDoc
    <2>3. IsEvent(e)
      BY <2>1 DEF IsDoc, IsEvent
    <2>4. IsHandler([pc |-> "read", doc |-> Moved(capa, to, role, evidence),
                     event |-> e])
      BY <2>2, <2>3 DEF IsHandler
    <2> QED
      BY <1>2, <2>4 DEF Read, TypeOK
  <1>3. ASSUME NEW h \in Handler, Save(h) PROVE TypeOK'
    BY <1>3 DEF Save, TypeOK, IsHandler, Idle
  <1>4. ASSUME NEW h \in Handler, Audit(h) PROVE TypeOK'
    <2>1. IsEvent(handler[h].event)
      BY <1>4 DEF Audit, TypeOK, IsHandler, Idle
    <2>2. trail' \in Seq([from : CAPAState, to : CAPAState, role : Role])
      BY <1>4, <2>1, EventInRecordSet DEF Audit, TypeOK
    <2> QED
      BY <1>4, <2>2 DEF Audit, TypeOK, IsHandler
  <1>5. ASSUME NEW h \in Handler, NEW item \in Item, SyncRead(h, item)
        PROVE  TypeOK'
    <2>1. CASE handler' = [handler EXCEPT
                 ![h] = [pc |-> "insert", doc |-> Imported(item)]]
      BY <1>5, <2>1, ImportedIsDoc DEF SyncRead, TypeOK, IsHandler
    <2>2. CASE /\ SyncStatus(capa, item) = "MERGE"
               /\ handler' = [handler EXCEPT
                    ![h] = [pc |-> "merge", doc |-> Merged(capa, item)]]
      <3>1. capa # Absent
        BY <2>2 DEF SyncStatus
      <3>2. IsDoc(Merged(capa, item))
        BY <3>1, MergedIsDoc DEF TypeOK
      <3> QED
        BY <1>5, <2>2, <3>2 DEF SyncRead, TypeOK, IsHandler
    <2>3. CASE handler' = [handler EXCEPT
                 ![h] = [pc |-> "conflict", key |-> item.key]]
      BY <1>5, <2>3 DEF SyncRead, TypeOK, IsHandler
    <2> QED
      BY <1>5, <2>1, <2>2, <2>3 DEF SyncRead
  <1>6. ASSUME NEW h \in Handler, SyncInsert(h) PROVE TypeOK'
    BY <1>6 DEF SyncInsert, TypeOK, IsHandler, Idle
  <1>7. ASSUME NEW h \in Handler, SyncSave(h) PROVE TypeOK'
    BY <1>7 DEF SyncSave, TypeOK, IsHandler, Idle
  <1>8. ASSUME NEW h \in Handler, SyncConflict(h) PROVE TypeOK'
    BY <1>8 DEF SyncConflict, TypeOK, IsHandler
  <1>9. ASSUME NEW h \in Handler, Abort(h) PROVE TypeOK'
    BY <1>9 DEF Abort, TypeOK, IsHandler
  <1>10. CASE UNCHANGED vars
    BY <1>10 DEF vars, TypeOK
  <1> QED
    BY <1>1, <1>2, <1>3, <1>4, <1>5, <1>6, <1>7, <1>8, <1>9, <1>10
    DEF Next, CreateRefused, Refuse

\* The shape of documents, handlers and blocks is kept by the service whatever
\* clients send.
THEOREM TypeCorrect == Spec => []TypeOK
  BY InitTypeOK, TypeStep, PTL DEF Spec

-----------------------------------------------------------------------------
(* The blocks of the ledger.                                               *)

LEMMA AppendedDomain ==
  ASSUME NEW S, NEW s \in Seq(S), NEW e \in S
  PROVE  /\ DOMAIN Append(s, e) = DOMAIN s \cup {Len(s) + 1}
         /\ Append(s, e)[Len(s) + 1] = e
         /\ \A i \in DOMAIN s : Append(s, e)[i] = s[i]
  <1>1. Len(s) \in Nat /\ DOMAIN s = 1..Len(s)
    OBVIOUS
  <1>2. DOMAIN Append(s, e) = 1..(Len(s) + 1)
    OBVIOUS
  <1>3. 1..(Len(s) + 1) = 1..Len(s) \cup {Len(s) + 1}
    BY <1>1
  <1> QED
    BY <1>1, <1>2, <1>3

\* A step appends nothing, or one event a handler had saved.
LEMMA TrailStep ==
  ASSUME TypeOK, [Next]_vars
  PROVE  \/ trail' = trail
         \/ \E h \in Handler :
              /\ handler[h].pc = "saved"
              /\ IsEvent(handler[h].event)
              /\ trail' = Append(trail, handler[h].event)
              /\ DOMAIN trail' = DOMAIN trail \cup {Len(trail) + 1}
              /\ trail'[Len(trail) + 1] = handler[h].event
              /\ \A i \in DOMAIN trail : trail'[i] = trail[i]
  <1>1. ASSUME NEW h \in Handler, Audit(h)
        PROVE  /\ IsEvent(handler[h].event)
               /\ DOMAIN trail' = DOMAIN trail \cup {Len(trail) + 1}
               /\ trail'[Len(trail) + 1] = handler[h].event
               /\ \A i \in DOMAIN trail : trail'[i] = trail[i]
    <2>1. IsEvent(handler[h].event)
      BY <1>1 DEF Audit, TypeOK, IsHandler, Idle
    <2>2. handler[h].event \in [from : CAPAState, to : CAPAState, role : Role]
      BY <2>1, EventInRecordSet
    <2>3. trail \in Seq([from : CAPAState, to : CAPAState, role : Role])
      BY DEF TypeOK
    <2>4. trail' = Append(trail, handler[h].event)
      BY <1>1 DEF Audit
    <2> QED
      BY <2>1, <2>2, <2>3, <2>4, AppendedDomain
  <1>2. ASSUME Next, \A h \in Handler : ~Audit(h) PROVE trail' = trail
    BY <1>2 DEF Next, Create, CreateRefused, Refuse, vars, Read, Save, SyncRead, SyncInsert,
                SyncSave, SyncConflict, Abort
  <1>3. CASE UNCHANGED vars
    BY <1>3 DEF vars
  <1> QED
    BY <1>1, <1>2, <1>3 DEF Audit

\* What is permitted depends on the document read, which the event remembers.
LEMMA EventStep ==
  ASSUME TypeOK, EventsSound, [Next]_vars
  PROVE  EventsSound'
  <1>1. \A i \in DOMAIN trail' : EventLegal(trail'[i])
    BY TrailStep DEF EventsSound
  <1>2. ASSUME NEW h \in Handler, NEW to \in CAPAState, NEW role \in Role,
               NEW evidence \in BOOLEAN, Read(h, to, role, evidence)
        PROVE  EventsSound'
    <2>1. handler'[h].event = [from |-> capa.state, to |-> to, role |-> role]
      BY <1>2 DEF Read, TypeOK
    <2>2. handler'[h].doc.state = to
      BY <1>2 DEF Read, TypeOK, Moved
    <2>3. EventLegal(handler'[h].event)
      BY <1>2, <2>1 DEF Read, Accepted, EventLegal
    <2> QED
      BY <1>1, <1>2, <2>1, <2>2, <2>3 DEF Read, EventsSound, TypeOK
  <1>3. ASSUME NEW h \in Handler, Save(h) PROVE EventsSound'
    BY <1>1, <1>3 DEF Save, EventsSound, TypeOK
  <1>4. ASSUME NEW h \in Handler, handler' = [handler EXCEPT ![h] = Idle]
        PROVE  EventsSound'
    BY <1>1, <1>4 DEF EventsSound, TypeOK, Idle
  <1>5. ASSUME NEW h \in Handler, NEW item \in Item, SyncRead(h, item)
        PROVE  EventsSound'
    BY <1>1, <1>5 DEF SyncRead, EventsSound, TypeOK
  <1>6. CASE UNCHANGED handler
    BY <1>1, <1>6 DEF EventsSound
  <1> QED
    BY <1>2, <1>3, <1>4, <1>5, <1>6
    DEF Next, vars, Create, CreateRefused, Refuse, Audit, SyncInsert, SyncSave, SyncConflict,
        Abort

\* Every block records a permitted step by a permitted role, whatever handlers
\* interleave and whatever clients synchronise (transition, lines 51-103).
THEOREM TrailAlwaysLegal == Spec => []TrailLegal
  <1>1. Init => EventsSound
    BY DEF Init, EventsSound, Idle
  <1>2. EventsSound => TrailLegal
    BY DEF EventsSound, TrailLegal, EventLegal
  <1> QED
    BY <1>1, <1>2, InitTypeOK, TypeStep, EventStep, PTL DEF Spec

-----------------------------------------------------------------------------
(* The document and its copies.                                            *)

\* A transition the checks accept keeps the evidence a state calls for.
LEMMA MovedEvidence ==
  ASSUME NEW d, EvidenceSound(d), NEW to \in CAPAState, NEW role \in Role,
         NEW evidence \in BOOLEAN, Accepted(d, to, role, evidence)
  PROVE  EvidenceSound(Moved(d, to, role, evidence))
  <1> DEFINE m == Moved(d, to, role, evidence)
  <1>1. m.state = to
    BY DEF Moved
  <1>2. ASSUME to \in Rectified
        PROVE  m.evidence
    <2>1. CASE to = "RECTIFICATION_SUBMITTED" /\ evidence
      BY <2>1 DEF Moved
    <2>2. CASE to = "RECTIFICATION_SUBMITTED" /\ ~evidence
      <3>1. m.evidence = d.evidence
        BY <2>2 DEF Moved
      <3> QED
        BY <3>1, <2>2 DEF Accepted
    <2>3. CASE to \in {"VERIFIED", "CLOSED"}
      <3>1. m.evidence = d.evidence
        BY <2>3 DEF Moved
      <3>2. d.state \in {"RECTIFICATION_SUBMITTED", "VERIFIED"}
        BY <2>3 DEF Accepted, Permitted, CAPA_ALLOWED_TRANSITIONS
      <3> QED
        BY <3>1, <3>2 DEF EvidenceSound, Rectified
    <2> QED
      BY <1>2, <2>1, <2>2, <2>3 DEF Rectified
  <1> QED
    BY <1>1, <1>2 DEF EvidenceSound

\* A transition the checks accept has its verifier, or keeps the one there was.
LEMMA MovedVerifier ==
  ASSUME NEW d, VerifierSound(d), NEW to \in CAPAState, NEW role \in Role,
         NEW evidence \in BOOLEAN, Accepted(d, to, role, evidence)
  PROVE  VerifierSound(Moved(d, to, role, evidence))
  <1>1. CASE to \in Attested
    BY <1>1 DEF Attested, Moved, Accepted, Permitted, CAPA_ALLOWED_TRANSITIONS,
                VerifierSound
  <1>2. CASE to \notin Attested
    BY <1>2 DEF VerifierSound, Moved
  <1> QED
    BY <1>1, <1>2

\* What a synchronisation saves without being noted as stripping has its evidence.
LEMMA UnstrippedSound ==
  ASSUME Synced, ~Strips, EvidenceSound(capa)
  PROVE  EvidenceSound(capa')
  BY DEF Strips, EvidenceSound

LEMMA EvidenceStep ==
  ASSUME TypeOK, EvidenceInv, Step
  PROVE  EvidenceInv'
  <1> SUFFICES ASSUME ~stripped' PROVE EvidenceInv'
    BY DEF EvidenceInv
  <1>0. /\ EvidenceSound(capa)
        /\ \A h \in Handler :
             handler[h].pc = "read" => EvidenceSound(handler[h].doc)
    BY DEF EvidenceInv, Step, Note, MCvars, history
  <1>1. ASSUME NEW evidence \in BOOLEAN, Create(evidence) PROVE EvidenceInv'
    BY <1>0, <1>1 DEF Create, EvidenceInv, EvidenceSound, Rectified
  <1>2. ASSUME NEW h \in Handler, NEW to \in CAPAState, NEW role \in Role,
               NEW evidence \in BOOLEAN, Read(h, to, role, evidence)
        PROVE  EvidenceInv'
    <2>1. EvidenceSound(Moved(capa, to, role, evidence))
      BY <1>0, <1>2, MovedEvidence DEF Read
    <2>2. handler'[h].doc = Moved(capa, to, role, evidence)
      BY <1>2 DEF Read, TypeOK
    <2> QED
      BY <1>0, <1>2, <2>1, <2>2 DEF Read, EvidenceInv, TypeOK
  <1>3. ASSUME NEW h \in Handler, Save(h) PROVE EvidenceInv'
    BY <1>0, <1>3 DEF Save, EvidenceInv, TypeOK
  <1>4. ASSUME NEW h \in Handler, Audit(h) \/ SyncConflict(h) \/ Abort(h)
        PROVE  EvidenceInv'
    BY <1>0, <1>4 DEF Audit, SyncConflict, Abort, EvidenceInv, TypeOK, Idle
  <1>5. ASSUME NEW h \in Handler, NEW item \in Item, SyncRead(h, item)
        PROVE  EvidenceInv'
    BY <1>0, <1>5 DEF SyncRead, EvidenceInv, TypeOK
  <1>6. ASSUME NEW h \in Handler, SyncInsert(h) \/ SyncSave(h), Note
        PROVE  EvidenceInv'
    <2>1. EvidenceSound(capa')
      BY <1>0, <1>6, UnstrippedSound DEF Note, Synced
    <2>2. handler' = [handler EXCEPT ![h] = Idle]
      BY <1>6 DEF SyncInsert, SyncSave
    <2> QED
      BY <1>0, <2>1, <2>2 DEF EvidenceInv, TypeOK, Idle
  <1>7. CASE UNCHANGED vars
    BY <1>0, <1>7 DEF vars, EvidenceInv
  <1> QED
    BY <1>1, <1>2, <1>3, <1>4, <1>5, <1>6, <1>7
    DEF Step, Next, CreateRefused, Refuse, MCvars

\* A document that is stored stays stored, and what it was filed as is not forgotten.
LEMMA FiledStep ==
  ASSUME TypeOK, FiledSound, Step
  PROVE  /\ FiledSound'
         /\ capa # Absent => capa' # Absent /\ filedAs' = filedAs
         /\ capa' = capa => filedAs' = filedAs
  <1>1. [Next]_vars /\ TypeOK'
    BY TypeStep DEF Step, MCvars
  <1>2. \A d : IsDoc(d) => d # Absent /\ d.state \in CAPAState
    BY DEF IsDoc, Absent, CAPAState
  <1>3. capa # Absent => capa' # Absent
    <2>1. ASSUME NEW h \in Handler, Save(h) \/ SyncSave(h) PROVE capa' # Absent
      <3>1. capa' = handler[h].doc /\ IsDoc(handler[h].doc)
        BY <2>1 DEF Save, SyncSave, TypeOK, IsHandler, Idle
      <3> QED
        BY <1>2, <3>1
    <2>2. ASSUME NEW h \in Handler, SyncInsert(h), capa # Absent
          PROVE  capa' # Absent
      BY <2>2 DEF SyncInsert
    <2> QED
      BY <1>1, <2>1, <2>2
      DEF Next, vars, Create, CreateRefused, Refuse, Read, Audit, SyncRead,
          SyncConflict, Abort
  <1>4. CASE Note
    <2>1. filedAs' = IF capa = Absent THEN capa'.state ELSE filedAs
      BY <1>4 DEF Note
    <2>2. Absent.state = "ABSENT"
      BY DEF Absent
    <2>3. capa' = Absent \/ IsDoc(capa')
      BY <1>1 DEF TypeOK
    <2> QED
      BY <1>2, <1>3, <2>1, <2>2, <2>3 DEF FiledSound
  <1>5. CASE UNCHANGED MCvars
    BY <1>5 DEF MCvars, vars, history, FiledSound
  <1> QED
    BY <1>4, <1>5 DEF Step

LEMMA VerifierStep ==
  ASSUME TypeOK, FiledSound, VerifierInv, Step
  PROVE  VerifierInv'
  <1> SUFFICES ASSUME filedAs' \notin Attested PROVE VerifierInv'
    BY DEF VerifierInv
  <1>0. /\ VerifierSound(capa)
        /\ \A h \in Handler :
             handler[h].pc \in {"read", "merge"} => VerifierSound(handler[h].doc)
    <2>1. capa = Absent => filedAs \notin Attested
      BY DEF FiledSound, Attested
    <2>2. capa # Absent => filedAs \notin Attested
      BY FiledStep
    <2> QED
      BY <2>1, <2>2 DEF VerifierInv
  <1>1. ASSUME NEW evidence \in BOOLEAN, Create(evidence) PROVE VerifierInv'
    BY <1>0, <1>1 DEF Create, VerifierInv, VerifierSound, Attested
  <1>2. ASSUME NEW h \in Handler, NEW to \in CAPAState, NEW role \in Role,
               NEW evidence \in BOOLEAN, Read(h, to, role, evidence)
        PROVE  VerifierInv'
    <2>1. VerifierSound(Moved(capa, to, role, evidence))
      BY <1>0, <1>2, MovedVerifier DEF Read
    <2>2. handler'[h].doc = Moved(capa, to, role, evidence)
      BY <1>2 DEF Read, TypeOK
    <2> QED
      BY <1>0, <1>2, <2>1, <2>2 DEF Read, VerifierInv, TypeOK
  <1>3. ASSUME NEW h \in Handler, Save(h) \/ SyncSave(h) PROVE VerifierInv'
    BY <1>0, <1>3 DEF Save, SyncSave, VerifierInv, TypeOK, Idle
  <1>4. ASSUME NEW h \in Handler, Audit(h) \/ SyncConflict(h) \/ Abort(h)
        PROVE  VerifierInv'
    BY <1>0, <1>4 DEF Audit, SyncConflict, Abort, VerifierInv, TypeOK, Idle
  <1>5. ASSUME NEW h \in Handler, NEW item \in Item, SyncRead(h, item)
        PROVE  VerifierInv'
    <2>1. VerifierSound(Merged(capa, item))
      BY <1>0 DEF VerifierSound, Merged
    <2> QED
      BY <1>0, <1>5, <2>1 DEF SyncRead, VerifierInv, TypeOK
  <1>6. ASSUME NEW h \in Handler, SyncInsert(h), Note PROVE VerifierInv'
    <2>1. VerifierSound(capa')
      <3>1. CASE capa = Absent
        BY <1>6, <3>1 DEF Note, VerifierSound
      <3>2. CASE capa # Absent
        BY <1>0, <1>6, <3>2 DEF SyncInsert
      <3> QED
        BY <3>1, <3>2
    <2> QED
      BY <1>0, <1>6, <2>1 DEF SyncInsert, VerifierInv, TypeOK, Idle
  <1>7. CASE UNCHANGED vars
    BY <1>0, <1>7 DEF vars, VerifierInv
  <1> QED
    BY <1>1, <1>2, <1>3, <1>4, <1>5, <1>6, <1>7
    DEF Step, Next, CreateRefused, Refuse, MCvars

LEMMA InitSound ==
  MCInit => TypeOK /\ EventsSound /\ EvidenceInv /\ FiledSound /\ VerifierInv
              /\ CopiesVouched
  <1>1. Absent.state = "ABSENT"
    BY DEF Absent
  <1>2. EvidenceSound(Absent) /\ VerifierSound(Absent)
    BY <1>1 DEF EvidenceSound, VerifierSound, Rectified, Attested
  <1> QED
    BY <1>1, <1>2, InitTypeOK
    DEF MCInit, Init, EventsSound, EvidenceInv, FiledSound, VerifierInv,
        CopiesVouched, Idle

\* Whatever clients synchronise and however requests overlap or die, a transition
\* never leaves a rectified CAPA without evidence: only a synchronised item whose
\* list is empty does (capa_service.py:58-66, sync_service.py:315, 328).
THEOREM EvidenceAlwaysHeld == MCSpec => []EvidenceUnlessStripped
  <1>1. EvidenceInv => EvidenceUnlessStripped
    BY DEF EvidenceInv, EvidenceUnlessStripped, EvidenceHeld, EvidenceSound
  <1>2. TypeOK /\ EvidenceInv /\ [MCNext]_<<vars, history>> =>
          TypeOK' /\ EvidenceInv'
    BY StepIsNext, TypeStep, EvidenceStep
  <1> QED
    BY <1>1, <1>2, InitSound, PTL DEF MCSpec

\* Whatever clients synchronise and however requests overlap or die, a CAPA filed
\* or imported in a state before VERIFIED has a verifier of an authorised role once
\* it is verified (capa_service.py:69-76, sync_service.py:323-334).
THEOREM VerifierAlwaysHeld == MCSpec => []VerifierUnlessImported
  <1>1. VerifierInv => VerifierUnlessImported
    BY DEF VerifierInv, VerifierUnlessImported, VerifierHeld, VerifierSound
  <1>2. TypeOK /\ FiledSound /\ VerifierInv /\ [MCNext]_<<vars, history>> =>
          TypeOK' /\ FiledSound' /\ VerifierInv'
    BY StepIsNext, TypeStep, FiledStep, VerifierStep
  <1> QED
    BY <1>1, <1>2, InitSound, PTL DEF MCSpec

-----------------------------------------------------------------------------
(* What is vouched for.                                                    *)

LEMMA VouchedMember ==
  ASSUME NEW x
  PROVE  x \in Vouched <=>
           \/ \E i \in DOMAIN trail : x = trail[i].to
           \/ \E h \in Handler : handler[h].pc = "saved"
                                   /\ x = handler[h].event.to
  BY DEF Vouched

LEMMA VouchedMemberNext ==
  ASSUME NEW x
  PROVE  x \in Vouched' <=>
           \/ \E i \in DOMAIN trail' : x = trail'[i].to
           \/ \E h \in Handler : handler'[h].pc = "saved"
                                   /\ x = handler'[h].event.to
  BY DEF Vouched

\* Only a crash between the save and the append loses a voucher.
LEMMA VouchedGrows ==
  ASSUME TypeOK, [Next]_vars, crashes' = 0
  PROVE  crashes = 0 /\ Vouched \subseteq Vouched'
  <1>1. crashes = 0 /\ \A h \in Handler : ~Abort(h)
    <2>1. \A h \in Handler : ~Abort(h)
      BY DEF Abort, TypeOK
    <2> QED
      BY <2>1 DEF Next, Create, CreateRefused, Refuse, vars, Read, Save, Audit, SyncRead,
                  SyncInsert, SyncSave, SyncConflict
  <1>2. ASSUME NEW i \in DOMAIN trail PROVE trail[i].to \in Vouched'
    <2>1. i \in DOMAIN trail' /\ trail'[i] = trail[i]
      BY TrailStep
    <2> QED
      BY <2>1, VouchedMemberNext
  <1>3. ASSUME NEW g \in Handler, handler[g].pc = "saved"
        PROVE  handler[g].event.to \in Vouched'
    <2>1. CASE Audit(g)
      <3>1. /\ trail' = Append(trail, handler[g].event)
            /\ handler[g].event \in
                 [from : CAPAState, to : CAPAState, role : Role]
        BY <2>1, <1>3, EventInRecordSet DEF Audit, TypeOK, IsHandler, Idle
      <3>2. Len(trail) + 1 \in DOMAIN trail'
            /\ trail'[Len(trail) + 1] = handler[g].event
        BY <3>1, AppendedDomain DEF TypeOK
      <3> QED
        BY <3>2, VouchedMemberNext
    <2>2. CASE ~Audit(g)
      <3>1. handler'[g] = handler[g]
        BY <1>1, <1>3, <2>2
        DEF Next, Create, CreateRefused, Refuse, vars, Read, Save, Audit, SyncRead,
            SyncInsert, SyncSave, SyncConflict, TypeOK, Idle
      <3> QED
        BY <3>1, <1>3, VouchedMemberNext
    <2> QED
      BY <2>1, <2>2
  <1> QED
    BY <1>1, <1>2, <1>3, VouchedMember

\* A state that is vouched for stays so: what a CAPA was filed as does not change.
LEMMA VoucherKept ==
  ASSUME TypeOK, FiledSound, Step, crashes' = 0,
         NEW x, x \in Vouched \cup {filedAs}, x \in CAPAState \/ capa' = capa
  PROVE  x \in Vouched' \cup {filedAs'}
  <1>1. Vouched \subseteq Vouched'
    BY VouchedGrows DEF Step, MCvars
  <1>2. CASE capa # Absent \/ capa' = capa
    BY <1>1, <1>2, FiledStep
  <1>3. CASE capa = Absent /\ x \in CAPAState
    <2>1. x # filedAs
      BY <1>3 DEF FiledSound, CAPAState
    <2> QED
      BY <1>1, <2>1
  <1> QED
    BY <1>2, <1>3

LEMMA VouchedStep ==
  ASSUME TypeOK, EventsSound, FiledSound, CopiesVouched, Step
  PROVE  CopiesVouched'
  <1> SUFFICES ASSUME crashes' = 0 PROVE CopiesVouched'
    BY DEF CopiesVouched
  <1>0. crashes = 0
    BY VouchedGrows DEF Step, MCvars
  <1>1. /\ capa' = capa => capa.state \in Vouched' \cup {filedAs'}
        /\ capa # Absent => capa.state \in Vouched' \cup {filedAs'}
    BY <1>0, VoucherKept DEF CopiesVouched, TypeOK, IsDoc
  <1>2. ASSUME NEW h \in Handler, handler[h].pc = "merge"
        PROVE  handler[h].doc.state \in Vouched' \cup {filedAs'}
    <2>1. handler[h].doc.state \in CAPAState
      <3>1. IsDoc(handler[h].doc)
        BY <1>2 DEF TypeOK, IsHandler, Idle
      <3> QED
        BY <3>1 DEF IsDoc
    <2> QED
      BY <1>0, <1>2, <2>1, VoucherKept DEF CopiesVouched
  <1>3. ASSUME NEW evidence \in BOOLEAN, Create(evidence), Note
        PROVE  CopiesVouched'
    BY <1>2, <1>3 DEF Create, CopiesVouched, Note
  <1>4. ASSUME NEW h \in Handler, NEW to \in CAPAState, NEW role \in Role,
               NEW evidence \in BOOLEAN, Read(h, to, role, evidence)
        PROVE  CopiesVouched'
    BY <1>1, <1>2, <1>4 DEF Read, TypeOK, CopiesVouched
  <1>5. ASSUME NEW h \in Handler, Save(h) PROVE CopiesVouched'
    <2>1. /\ handler'[h].pc = "saved"
          /\ handler'[h].event = handler[h].event
          /\ capa'.state = handler[h].event.to
      BY <1>5 DEF Save, EventsSound, TypeOK
    <2>2. capa'.state \in Vouched'
      BY <2>1, VouchedMemberNext
    <2> QED
      BY <1>2, <1>5, <2>2 DEF Save, TypeOK, CopiesVouched
  <1>6. ASSUME NEW h \in Handler, Audit(h) \/ SyncConflict(h) \/ Abort(h)
        PROVE  CopiesVouched'
    BY <1>1, <1>2, <1>6
    DEF Audit, SyncConflict, Abort, TypeOK, Idle, CopiesVouched
  <1>7. ASSUME NEW h \in Handler, NEW item \in Item, SyncRead(h, item)
        PROVE  CopiesVouched'
    <2>1. CASE handler' = [handler EXCEPT
                 ![h] = [pc |-> "insert", doc |-> Imported(item)]]
      BY <1>1, <1>2, <1>7, <2>1 DEF SyncRead, TypeOK, CopiesVouched
    <2>2. CASE /\ SyncStatus(capa, item) = "MERGE"
               /\ handler' = [handler EXCEPT
                    ![h] = [pc |-> "merge", doc |-> Merged(capa, item)]]
      <3>1. Merged(capa, item).state = capa.state
        BY DEF Merged
      <3> QED
        BY <1>1, <1>2, <1>7, <2>2, <3>1 DEF SyncRead, TypeOK, CopiesVouched
    <2>3. CASE handler' = [handler EXCEPT
                 ![h] = [pc |-> "conflict", key |-> item.key]]
      BY <1>1, <1>2, <1>7, <2>3 DEF SyncRead, TypeOK, CopiesVouched
    <2> QED
      BY <1>7, <2>1, <2>2, <2>3 DEF SyncRead
  <1>8. ASSUME NEW h \in Handler, SyncInsert(h), Note PROVE CopiesVouched'
    <2>1. capa'.state \in Vouched' \cup {filedAs'}
      <3>1. CASE capa = Absent
        BY <1>8, <3>1 DEF Note
      <3>2. CASE capa # Absent
        BY <1>1, <1>8, <3>2 DEF SyncInsert
      <3> QED
        BY <3>1, <3>2
    <2> QED
      BY <1>2, <1>8, <2>1 DEF SyncInsert, TypeOK, Idle, CopiesVouched
  <1>9. ASSUME NEW h \in Handler, SyncSave(h) PROVE CopiesVouched'
    <2>1. capa'.state \in Vouched' \cup {filedAs'}
      BY <1>2, <1>9 DEF SyncSave
    <2> QED
      BY <1>2, <1>9, <2>1 DEF SyncSave, TypeOK, Idle, CopiesVouched
  <1>10. CASE UNCHANGED vars
    BY <1>1, <1>2, <1>10 DEF vars, CopiesVouched
  <1> QED
    BY <1>3, <1>4, <1>5, <1>6, <1>7, <1>8, <1>9, <1>10
    DEF Step, Next, CreateRefused, Refuse, MCvars

\* While no request dies half way, every state but the one a CAPA was filed or
\* imported in is recorded in the ledger or about to be: no interleaving of saves,
\* appends and merges of any items leaves a change the ledger will never show
\* (transition, lines 89-103).
THEOREM StateAlwaysVouched == MCSpec => []StateVouched
  <1>1. CopiesVouched => StateVouched
    BY DEF CopiesVouched, StateVouched
  <1>2. TypeOK /\ EventsSound /\ FiledSound /\ CopiesVouched
          /\ [MCNext]_<<vars, history>> =>
        TypeOK' /\ EventsSound' /\ FiledSound' /\ CopiesVouched'
    BY StepIsNext, TypeStep, EventStep, FiledStep, VouchedStep
  <1> QED
    BY <1>1, <1>2, InitSound, PTL DEF MCSpec
-----------------------------------------------------------------------------
(* No two requests at once.                                                *)

Alone == \A g, h \in Handler : handler[g] # Idle /\ handler[h] # Idle => g = h

\* A request r at work has read the document d as it still is.
ReadSound(d, r) ==
  /\ r.pc = "read" =>
       /\ d # Absent
       /\ \E to \in CAPAState, role \in Role, evidence \in BOOLEAN :
            /\ Accepted(d, to, role, evidence)
            /\ r.doc = Moved(d, to, role, evidence)
            /\ r.event = [from |-> d.state, to |-> to, role |-> role]
  /\ r.pc = "merge" => d # Absent /\ \E item \in Item : r.doc = Merged(d, item)
  /\ r.pc = "insert" => \E item \in Item : r.doc = Imported(item)

ReadsSound == \A h \in Handler : ReadSound(capa, handler[h])

\* The state the blocks lead to.
PathEnd == IF trail = <<>> THEN filedAs ELSE trail[Len(trail)].to

\* The blocks form one path.  It ends in the present state, or where the step
\* begins that was saved and has no block yet.
PathSound ==
  crashes = 0 =>
    /\ capa = Absent => trail = <<>>
    /\ \A i \in DOMAIN trail :
         trail[i].from = IF i = 1 THEN filedAs ELSE trail[i - 1].to
    /\ \A h \in Handler : handler[h].pc = "saved" =>
         /\ capa # Absent
         /\ handler[h].event.from = PathEnd
         /\ handler[h].event.to = capa.state
    /\ (\A h \in Handler : handler[h].pc # "saved") /\ capa # Absent =>
         capa.state = PathEnd

SerialInv == Alone /\ ReadsSound /\ PathSound

LEMMA InitSerialInv == MCInit => SerialInv
  BY DEF MCInit, Init, SerialInv, Alone, ReadsSound, ReadSound, PathSound, Absent, Idle

LEMMA IdleSound == ASSUME NEW d PROVE ReadSound(d, Idle)
  BY DEF ReadSound, Idle

\* One request moves on and the others are as they were, or nobody is at work.
LEMMA ReadsKept ==
  ASSUME TypeOK, ReadsSound, NEW h \in Handler, NEW r,
         handler' = [handler EXCEPT ![h] = r], ReadSound(capa', r),
         capa' = capa \/ \A g \in Handler \ {h} : handler[g] = Idle
  PROVE  ReadsSound'
  <1>1. ASSUME NEW g \in Handler PROVE ReadSound(capa', handler'[g])
    <2>1. CASE g = h
      BY <2>1 DEF TypeOK
    <2>2. CASE g # h
      <3>1. handler'[g] = handler[g]
        BY <2>2 DEF TypeOK
      <3> QED
        BY <2>2, <3>1, IdleSound DEF ReadsSound
    <2> QED
      BY <2>1, <2>2
  <1> QED
    BY <1>1 DEF ReadsSound

LEMMA ReadsStep ==
  ASSUME TypeOK, SerialInv, Alone', [Next]_vars
  PROVE  ReadsSound'
  <1>0. Alone /\ ReadsSound
    BY DEF SerialInv
  <1>1. ASSUME NEW evidence \in BOOLEAN, Create(evidence) PROVE ReadsSound'
    BY <1>0, <1>1 DEF Create, ReadsSound, ReadSound
  <1>2. ASSUME NEW h \in Handler, NEW to \in CAPAState, NEW role \in Role,
               NEW evidence \in BOOLEAN, Read(h, to, role, evidence)
        PROVE  ReadsSound'
    <2> DEFINE r == [pc |-> "read", doc |-> Moved(capa, to, role, evidence),
                     event |-> [from |-> capa.state, to |-> to, role |-> role]]
    <2>1. /\ handler' = [handler EXCEPT ![h] = r] /\ capa' = capa
          /\ capa # Absent /\ Accepted(capa, to, role, evidence)
      BY <1>2 DEF Read
    <2>2. ReadSound(capa, r)
      BY <2>1 DEF ReadSound
    <2> QED
      BY <1>0, <2>1, <2>2, ReadsKept
  <1>3. ASSUME NEW h \in Handler, NEW item \in Item, SyncRead(h, item)
        PROVE  ReadsSound'
    <2>1. PICK r : /\ handler' = [handler EXCEPT ![h] = r]
                   /\ \/ r = [pc |-> "insert", doc |-> Imported(item)]
                      \/ capa # Absent /\ r = [pc |-> "merge", doc |-> Merged(capa, item)]
                      \/ r = [pc |-> "conflict", key |-> item.key]
      BY <1>3 DEF SyncRead, SyncStatus
    <2>2. ReadSound(capa, r)
      BY <2>1 DEF ReadSound
    <2> QED
      BY <1>0, <1>3, <2>1, <2>2, ReadsKept DEF SyncRead
  <1>4. ASSUME NEW h \in Handler, Save(h) \/ SyncInsert(h) \/ SyncSave(h)
        PROVE  ReadsSound'
    <2>1. PICK r : handler' = [handler EXCEPT ![h] = r] /\ r.pc \in {"saved", "idle"}
      <3>1. CASE Save(h)
        <4> DEFINE s == [pc |-> "saved", event |-> handler[h].event]
        <4>1. handler' = [handler EXCEPT ![h] = s] /\ s.pc = "saved"
          BY <3>1 DEF Save
        <4> HIDE DEF s
        <4> QED
          BY <4>1
      <3>2. CASE SyncInsert(h) \/ SyncSave(h)
        <4>1. handler' = [handler EXCEPT ![h] = Idle] /\ Idle.pc = "idle"
          BY <3>2 DEF SyncInsert, SyncSave, Idle
        <4> QED
          BY <4>1
      <3> QED
        BY <1>4, <3>1, <3>2
    <2>2. handler[h] # Idle
      <3>1. handler[h].pc \in {"read", "insert", "merge"}
        BY <1>4 DEF Save, SyncInsert, SyncSave
      <3> QED
        BY <3>1 DEF Idle
    <2>3. \A g \in Handler \ {h} : handler[g] = Idle
      BY <1>0, <2>2 DEF Alone
    <2>4. ReadSound(capa', r)
      BY <2>1 DEF ReadSound
    <2> QED
      BY <1>0, <2>1, <2>3, <2>4, ReadsKept
  <1>5. ASSUME NEW h \in Handler, Audit(h) \/ SyncConflict(h) \/ Abort(h)
        PROVE  ReadsSound'
    <2>1. handler' = [handler EXCEPT ![h] = Idle] /\ capa' = capa
      BY <1>5 DEF Audit, SyncConflict, Abort
    <2> QED
      BY <1>0, <2>1, IdleSound, ReadsKept
  <1>6. CASE UNCHANGED vars
    BY <1>0, <1>6 DEF vars, ReadsSound
  <1> QED
    BY <1>1, <1>2, <1>3, <1>4, <1>5, <1>6 DEF Next, CreateRefused, Refuse

LEMMA PathStep ==
  ASSUME TypeOK, FiledSound, SerialInv, Alone', Step
  PROVE  PathSound'
  <1> USE DEF SerialInv
  <1>0. /\ capa # Absent => capa' # Absent /\ filedAs' = filedAs
        /\ capa' = capa => filedAs' = filedAs
    BY FiledStep
  <1>1. ASSUME NEW evidence \in BOOLEAN, Create(evidence), Note PROVE PathSound'
    <2>1. filedAs' = capa'.state /\ capa' # Absent
      BY <1>1 DEF Create, Note, Absent
    <2> QED
      BY <1>1, <2>1 DEF Create, PathSound, PathEnd
  <1>2. ASSUME NEW h \in Handler, NEW to \in CAPAState, NEW role \in Role,
               NEW evidence \in BOOLEAN, Read(h, to, role, evidence)
        PROVE  PathSound'
    BY <1>0, <1>2 DEF Read, PathSound, PathEnd, TypeOK, Idle
  <1>3. ASSUME NEW h \in Handler, NEW item \in Item, SyncRead(h, item)
        PROVE  PathSound'
    BY <1>0, <1>3 DEF SyncRead, PathSound, PathEnd, TypeOK, Idle
  <1>4. ASSUME NEW h \in Handler,
               Save(h) \/ Audit(h) \/ SyncInsert(h) \/ SyncSave(h),
               NEW g \in Handler, g # h
        PROVE  handler[g].pc # "saved" /\ handler'[g].pc # "saved"
    <2>1. handler[h] # Idle
      BY <1>4 DEF Save, Audit, SyncInsert, SyncSave, Idle
    <2>2. handler[g] = Idle
      BY <1>4, <2>1 DEF Alone
    <2>3. handler'[g] = handler[g]
      BY <1>4 DEF Save, Audit, SyncInsert, SyncSave, TypeOK
    <2> QED
      BY <2>2, <2>3 DEF Idle
  <1>5. ASSUME NEW h \in Handler, Save(h) PROVE PathSound'
    <2>1. PICK to \in CAPAState, role \in Role, evidence \in BOOLEAN :
            /\ handler[h].doc = Moved(capa, to, role, evidence)
            /\ handler[h].event = [from |-> capa.state, to |-> to, role |-> role]
      BY <1>5 DEF Save, ReadsSound, ReadSound
    <2>2. /\ capa'.state = to /\ capa # Absent /\ capa' # Absent
          /\ UNCHANGED <<trail, crashes, filedAs>>
      <3>1. capa # Absent
        BY <1>5 DEF Save, ReadsSound, ReadSound
      <3>2. capa'.state = to /\ UNCHANGED <<trail, crashes>>
        BY <1>5, <2>1 DEF Save, Moved
      <3> QED
        BY <1>0, <3>1, <3>2
    <2>3. handler'[h].pc = "saved" /\ handler'[h].event = handler[h].event
      BY <1>5 DEF Save, TypeOK
    <2>4. \A g \in Handler : handler[g].pc # "saved"
      BY <1>4, <1>5 DEF Save, Idle
    <2>5. crashes = 0 => capa.state = PathEnd
      BY <1>5, <2>4 DEF Save, ReadsSound, ReadSound, PathSound
    <2>6. \A g \in Handler \ {h} : handler'[g].pc # "saved"
      BY <1>4, <1>5 DEF Save, Idle
    <2>7. PathEnd' = PathEnd
      BY <2>2 DEF PathEnd
    <2> QED
      BY <2>1, <2>2, <2>3, <2>5, <2>6, <2>7 DEF PathSound
  <1>6. ASSUME NEW h \in Handler, Audit(h) PROVE PathSound'
    <2> DEFINE e == handler[h].event
    <2>1. e \in [from : CAPAState, to : CAPAState, role : Role]
      BY <1>6, EventInRecordSet DEF Audit, TypeOK, IsHandler, Idle
    <2>2. /\ trail' = Append(trail, e) /\ UNCHANGED <<capa, crashes, filedAs>>
          /\ \A g \in Handler : handler'[g].pc # "saved"
      BY <1>0, <1>4, <1>6 DEF Audit, TypeOK, Idle
    <2>3. /\ DOMAIN trail' = DOMAIN trail \cup {Len(trail) + 1}
          /\ trail'[Len(trail) + 1] = e
          /\ \A i \in DOMAIN trail : trail'[i] = trail[i]
      BY <2>1, <2>2, AppendedDomain DEF TypeOK
    <2>4. Len(trail) \in Nat /\ DOMAIN trail = 1..Len(trail)
          /\ (trail = <<>> <=> Len(trail) = 0)
      BY DEF TypeOK
    <2>5. Len(trail') = Len(trail) + 1 /\ trail' # <<>>
      BY <2>1, <2>2 DEF TypeOK
    <2>6. PathEnd' = e.to
      BY <2>3, <2>5 DEF PathEnd
    <2>7. ASSUME crashes = 0, NEW i \in DOMAIN trail'
          PROVE  trail'[i].from = IF i = 1 THEN filedAs ELSE trail'[i - 1].to
      <3>1. CASE i \in DOMAIN trail
        <4>1. trail[i].from = IF i = 1 THEN filedAs ELSE trail[i - 1].to
          BY <2>7, <3>1 DEF PathSound
        <4>2. i # 1 => i - 1 \in DOMAIN trail
          BY <2>4, <3>1
        <4> QED
          BY <2>3, <3>1, <4>1, <4>2
      <3>2. CASE i = Len(trail) + 1
        <4>1. e.from = PathEnd
          BY <1>6, <2>7 DEF PathSound, Audit
        <4>2. i # 1 => i - 1 = Len(trail) /\ Len(trail) \in DOMAIN trail
          BY <2>4, <3>2
        <4>3. i = 1 <=> trail = <<>>
          BY <2>4, <3>2
        <4>4. trail'[i].from = PathEnd
          BY <2>3, <3>2, <4>1
        <4>5. i # 1 => trail'[i - 1] = trail[Len(trail)]
          BY <2>3, <4>2
        <4> QED
          BY <4>3, <4>4, <4>5 DEF PathEnd
      <3> QED
        BY <2>3, <3>1, <3>2
    <2>8. crashes = 0 => capa # Absent /\ e.to = capa.state
      BY <1>6 DEF PathSound, Audit
    <2> QED
      BY <2>2, <2>6, <2>7, <2>8 DEF PathSound
  <1>7. ASSUME NEW h \in Handler, SyncInsert(h), Note PROVE PathSound'
    <2>1. PICK item \in Item : handler[h].doc = Imported(item)
      BY <1>7 DEF SyncInsert, ReadsSound, ReadSound
    <2>2. \A g \in Handler : handler[g].pc # "saved" /\ handler'[g].pc # "saved"
      BY <1>4, <1>7 DEF SyncInsert, TypeOK, Idle
    <2>3. CASE capa = Absent
      <3>1. capa' = Imported(item) /\ filedAs' = capa'.state
        BY <1>7, <2>1, <2>3 DEF SyncInsert, Note
      <3>2. capa' # Absent
        BY <3>1 DEF Imported, Absent
      <3> QED
        BY <1>7, <2>2, <2>3, <3>1, <3>2 DEF SyncInsert, PathSound, PathEnd
    <2>4. CASE capa # Absent
      BY <1>0, <1>7, <2>2, <2>4 DEF SyncInsert, PathSound, PathEnd
    <2> QED
      BY <2>3, <2>4
  <1>8. ASSUME NEW h \in Handler, SyncSave(h) PROVE PathSound'
    <2>1. PICK item \in Item : handler[h].doc = Merged(capa, item)
      BY <1>8 DEF SyncSave, ReadsSound, ReadSound
    <2>2. /\ capa # Absent /\ capa' = handler[h].doc /\ capa'.state = capa.state
          /\ UNCHANGED <<trail, crashes>>
      BY <1>8, <2>1 DEF SyncSave, ReadsSound, ReadSound, Merged
    <2>3. \A g \in Handler : handler[g].pc # "saved" /\ handler'[g].pc # "saved"
      BY <1>4, <1>8 DEF SyncSave, TypeOK, Idle
    <2>4. capa' # Absent /\ filedAs' = filedAs
      BY <1>0, <2>2
    <2> QED
      BY <2>2, <2>3, <2>4 DEF PathSound, PathEnd
  <1>9. ASSUME NEW h \in Handler, SyncConflict(h) PROVE PathSound'
    BY <1>0, <1>9 DEF SyncConflict, PathSound, PathEnd, TypeOK, Idle
  <1>10. ASSUME NEW h \in Handler, Abort(h) PROVE PathSound'
    <2>1. crashes' # 0
      BY <1>10 DEF Abort, TypeOK
    <2> QED
      BY <2>1 DEF PathSound
  <1>11. CASE UNCHANGED vars
    BY <1>0, <1>11 DEF vars, PathSound, PathEnd
  <1> QED
    BY <1>1, <1>2, <1>3, <1>5, <1>6, <1>7, <1>8, <1>9, <1>10, <1>11
    DEF Step, Next, CreateRefused, Refuse, MCvars

\* The history says when requests never met.
LEMMA NoteAlone ==
  ASSUME IsFiniteSet(Handler), Note, overlapped \in BOOLEAN, ~overlapped'
  PROVE  ~overlapped /\ Alone'
  <1> DEFINE T == {h \in Handler : handler'[h] # Idle}
  <1>1. ~overlapped /\ ~(Cardinality(T) > 1)
    BY DEF Note
  <1>2. IsFiniteSet(T)
    BY FS_Subset
  <1>3. ASSUME NEW g \in T, NEW h \in T, g # h PROVE FALSE
    <2>1. IsFiniteSet(T \ {g}) /\ Cardinality(T \ {g}) = Cardinality(T) - 1
      BY <1>2, <1>3, FS_RemoveElement
    <2>2. Cardinality(T \ {g}) \in Nat /\ Cardinality(T) \in Nat
      BY <1>2, <2>1, FS_CardinalityType
    <2>3. Cardinality(T \ {g}) = 0
      BY <1>1, <2>1, <2>2
    <2>4. T \ {g} = {}
      BY <2>1, <2>3, FS_EmptySet
    <2> QED
      BY <1>3, <2>4
  <1> QED
    BY <1>1, <1>3 DEF Alone

\* Until two requests overlap.
Unmet == overlapped \in BOOLEAN /\ (~overlapped => SerialInv)

LEMMA InitUnmet == MCInit => Unmet
  BY InitSerialInv DEF MCInit, Unmet

LEMMA UnmetStep ==
  ASSUME IsFiniteSet(Handler)
  PROVE  TypeOK /\ FiledSound /\ Unmet /\ Step => Unmet'
  <1> SUFFICES ASSUME TypeOK, FiledSound, Unmet, Step PROVE Unmet'
    OBVIOUS
  <1>1. [Next]_vars
    BY DEF Step, MCvars
  <1>2. ASSUME SerialInv, Alone' PROVE SerialInv'
    BY <1>1, <1>2, ReadsStep, PathStep DEF SerialInv
  <1>3. CASE Note
    <2>1. overlapped' \in BOOLEAN
      BY <1>3 DEF Note, Unmet
    <2>2. ~overlapped' => ~overlapped /\ Alone'
      BY <1>3, NoteAlone DEF Unmet
    <2> QED
      BY <1>2, <2>1, <2>2 DEF Unmet
  <1>4. CASE UNCHANGED MCvars
    <2>1. overlapped' = overlapped /\ (SerialInv => Alone')
      BY <1>4 DEF MCvars, vars, history, SerialInv, Alone
    <2> QED
      BY <1>2, <2>1 DEF Unmet
  <1> QED
    BY <1>3, <1>4 DEF Step

\* Until two requests overlap or one dies, the blocks of a CAPA tell its whole
\* history: they form one path to the present state from the state it was filed or
\* imported in, whatever clients synchronise (capa_service.py:51-103,
\* sync_service.py:300-334).
THEOREM TrailAlwaysPath ==
  ASSUME IsFiniteSet(Handler)
  PROVE  MCSpec => []TrailIsPathSerially
  <1>1. Unmet => TrailIsPathSerially
    <2> SUFFICES ASSUME Unmet, ~overlapped, crashes = 0, Busy = {}, capa # Absent
                 PROVE  /\ \A i \in DOMAIN trail :
                             trail[i].from = IF i = 1 THEN filedAs ELSE trail[i - 1].to
                        /\ capa.state = PathEnd
      BY DEF TrailIsPathSerially, TrailIsPath, PathEnd
    <2>1. \A h \in Handler : handler[h].pc # "saved"
      BY DEF Busy, Idle
    <2> QED
      BY <2>1 DEF Unmet, SerialInv, PathSound
  <1>2. TypeOK /\ FiledSound /\ Unmet /\ [MCNext]_<<vars, history>> =>
          TypeOK' /\ FiledSound' /\ Unmet'
    BY StepIsNext, TypeStep, FiledStep, UnmetStep
  <1> QED
    BY <1>1, <1>2, InitUnmet, InitSound, PTL DEF MCSpec

-----------------------------------------------------------------------------
(* The lifecycle the workflow promises.                                    *)

\* Saving what a transition made of the present document climbs one state, or
\* re-opens.
LEMMA SaveKeepsPromise ==
  ASSUME TypeOK, ReadsSound, NEW h \in Handler, Save(h)
  PROVE  Promise!Next
  <1>1. PICK to \in CAPAState, role \in Role, evidence \in BOOLEAN :
          /\ Accepted(capa, to, role, evidence)
          /\ handler[h].doc = Moved(capa, to, role, evidence)
    BY DEF Save, ReadsSound, ReadSound
  <1>2. capa' = Moved(capa, to, role, evidence)
    BY <1>1 DEF Save
  <1>3. IsDoc(capa)
    BY DEF Save, ReadsSound, ReadSound, TypeOK
  <1>4. /\ capa.state \in CAPAState /\ capa.evidence \in BOOLEAN
        /\ capa'.state = to
        /\ capa'.verifiedBy = IF to = "VERIFIED" THEN role ELSE capa.verifiedBy
    BY <1>2, <1>3 DEF IsDoc, Moved
  <1>5. capa'.evidence = (capa.evidence \/ to = "RECTIFICATION_SUBMITTED")
    <2>1. CASE to = "RECTIFICATION_SUBMITTED" /\ evidence
      BY <1>2, <1>4, <2>1 DEF Moved
    <2>2. CASE to = "RECTIFICATION_SUBMITTED" /\ ~evidence
      <3>1. capa'.evidence = capa.evidence /\ capa.evidence
        BY <1>1, <1>2, <2>2 DEF Moved, Accepted
      <3> QED
        BY <1>4, <2>2, <3>1
    <2>3. CASE to # "RECTIFICATION_SUBMITTED"
      <3>1. capa'.evidence = capa.evidence
        BY <1>2, <2>3 DEF Moved
      <3> QED
        BY <1>4, <2>3, <3>1
    <2> QED
      BY <2>1, <2>2, <2>3
  <1>6. (capa'.verifiedBy \in Verifier) = (capa.verifiedBy \in Verifier \/ to = "VERIFIED")
    <2>1. CASE to = "VERIFIED"
      BY <1>1, <1>4, <2>1 DEF Accepted
    <2>2. CASE to # "VERIFIED"
      BY <1>4, <2>2
    <2> QED
      BY <2>1, <2>2
  <1>7. CASE to = "REPORTED"
    <2>1. capa'.evidence = capa.evidence /\ capa'.verifiedBy = capa.verifiedBy
      BY <1>4, <1>5, <1>7
    <2>2. Promise!Reopen
      BY <1>4, <1>7, <2>1 DEF Promise!Reopen, CAPAState
    <2> QED
      BY <2>2 DEF Promise!Next
  <1>8. CASE to # "REPORTED"
    <2>1. <<capa.state, to>> \in CAPA_ALLOWED_TRANSITIONS
      BY <1>1, <1>8 DEF Accepted, Permitted
    <2>2. Promise!Advance
      <3>1. \E edge \in CAPA_ALLOWED_TRANSITIONS :
              edge[1] = capa.state /\ capa'.state = edge[2]
        BY <1>4, <2>1
      <3> QED
        BY <1>4, <1>5, <1>6, <3>1 DEF Promise!Advance
    <2> QED
      BY <2>2 DEF Promise!Next
  <1> QED
    BY <1>7, <1>8

\* The other steps that write the document file it as REPORTED, strip it, add
\* evidence, or leave what the lifecycle speaks of alone.
LEMMA OthersKeepPromise ==
  ASSUME TypeOK, ReadsSound, capa' # capa, Note, ~Strips,
         filedAs' \in {"ABSENT", "REPORTED"},
         \/ \E evidence \in BOOLEAN : Create(evidence)
         \/ \E h \in Handler : SyncInsert(h) \/ SyncSave(h)
  PROVE  \/ Promise!Next
         \/ UNCHANGED <<capa.state, capa.evidence, capa.verifiedBy \in Verifier>>
  <1>1. Absent.state = "ABSENT" /\ Absent.verifiedBy = None /\ None \notin Verifier
    BY CapaAssumption DEF Absent
  <1>2. ASSUME NEW evidence \in BOOLEAN, Create(evidence) PROVE Promise!Next
    <2>1. Promise!File
      BY <1>1, <1>2 DEF Create, Promise!File
    <2> QED
      BY <2>1 DEF Promise!Next
  <1>3. ASSUME NEW h \in Handler, SyncInsert(h) PROVE Promise!Next
    <2>1. PICK item \in Item : handler[h].doc = Imported(item)
      BY <1>3 DEF SyncInsert, ReadsSound, ReadSound
    <2>2. capa = Absent /\ capa' = Imported(item)
      BY <1>3, <2>1 DEF SyncInsert
    <2>3. capa'.state = "REPORTED"
      BY <2>2, CapaAssumption DEF Note, Imported, CAPAState
    <2>4. Promise!File
      BY <1>1, <2>2, <2>3, CapaAssumption DEF Imported, Promise!File
    <2> QED
      BY <2>4 DEF Promise!Next
  <1>4. ASSUME NEW h \in Handler, SyncSave(h)
        PROVE  \/ Promise!Next
               \/ UNCHANGED <<capa.state, capa.evidence,
                              capa.verifiedBy \in Verifier>>
    <2>1. PICK item \in Item : handler[h].doc = Merged(capa, item)
      BY <1>4 DEF SyncSave, ReadsSound, ReadSound
    <2>2. /\ capa'.state = capa.state /\ capa'.verifiedBy = capa.verifiedBy
          /\ capa'.evidence = item.evidence /\ capa # Absent
      BY <1>4, <2>1 DEF SyncSave, ReadsSound, ReadSound, Merged
    <2>3. capa.state # "ABSENT" /\ capa.evidence \in BOOLEAN
      BY <2>2 DEF TypeOK, IsDoc, CAPAState
    <2>4. CASE item.evidence = TRUE
      <3>1. Promise!Document
        BY <2>2, <2>3, <2>4 DEF Promise!Document
      <3> QED
        BY <3>1 DEF Promise!Next
    <2>5. CASE item.evidence = FALSE
      <3>1. capa.evidence = FALSE
        BY <1>4, <2>2, <2>3, <2>5 DEF Strips, Synced
      <3> QED
        BY <2>2, <2>5, <3>1
    <2> QED
      BY <2>4, <2>5, CapaAssumption
  <1> QED
    BY <1>2, <1>3, <1>4

\* Until two requests overlap, a CAPA filed as REPORTED that no synchronisation
\* stripped of evidence follows the lifecycle the workflow promises: every step of a
\* transition, of a synchronised merge and of a request that dies is a step of
\* CapaLifecycle or leaves the document as it is (capa_service.py:33-115,
\* sync_service.py:300-334).
THEOREM LifecycleAlwaysKept ==
  ASSUME IsFiniteSet(Handler)
  PROVE  MCSpec => KeepsLifecycle
  <1>1. MCInit => Promise!Init
    BY CapaAssumption DEF MCInit, Init, Absent, Promise!Init
  <1>2. TypeOK /\ FiledSound /\ Unmet /\ [MCNext]_<<vars, history>> =>
          TypeOK' /\ FiledSound' /\ Unmet'
    BY StepIsNext, TypeStep, FiledStep, UnmetStep
  <1>3. TypeOK /\ Unmet /\ [MCNext]_<<vars, history>> =>
          [~overlapped' /\ ~stripped' /\ filedAs' \in {"ABSENT", "REPORTED"} =>
             Promise!Next \/ UNCHANGED <<capa.state, capa.evidence,
                                         capa.verifiedBy \in Verifier>>]_<<vars, history>>
    <2> SUFFICES ASSUME TypeOK, Unmet, MCNext, ~overlapped', ~stripped',
                        filedAs' \in {"ABSENT", "REPORTED"}, capa' # capa
                 PROVE  \/ Promise!Next
                        \/ UNCHANGED <<capa.state, capa.evidence,
                                       capa.verifiedBy \in Verifier>>
      OBVIOUS
    <2>1. ReadsSound /\ Note /\ ~Strips
      BY MCNextIsNext, NoteAlone DEF Unmet, SerialInv, Note
    <2>2. \/ \E evidence \in BOOLEAN : Create(evidence)
          \/ \E h \in Handler : Save(h) \/ SyncInsert(h) \/ SyncSave(h)
      BY DEF MCNext, CreateRefused, Refuse, vars, Read, Audit, SyncRead,
             SyncConflict, Abort
    <2> QED
      BY <2>1, <2>2, SaveKeepsPromise, OthersKeepPromise
  <1> QED
    BY <1>1, <1>2, <1>3, InitUnmet, InitSound, PTL DEF MCSpec, KeepsLifecycle
==============================================================================
