----------------------------- MODULE CapaWorkflow -----------------------------
(***************************************************************************)
(* The corrective-action (CAPA) workflow of one violation: its document in *)
(* MongoDB, the request handlers that move it along the state machine      *)
(* (app/services/capa_service.py), the batch synchronisation that also     *)
(* writes it (_upsert_capa of app/services/sync_service.py), and the       *)
(* STATUS_CHANGE blocks the transitions leave in the audit ledger.         *)
(*                                                                         *)
(* A transition reads the document, checks the request against what it     *)
(* read, saves the whole document and appends to the ledger: three awaited *)
(* calls with nothing held between them.  Documents of different           *)
(* violations share no state but the ledger (AuditLedger), so one is       *)
(* followed; of a list of evidence URLs only its being non-empty is kept,  *)
(* of the verifier's identity the role.                                    *)
(***************************************************************************)
EXTENDS Naturals, Sequences, FiniteSets

CONSTANTS
    Handler,      \* request handlers that may run at the same time
    Role,         \* the roles users act in
    Verifier,     \* roles that may verify (minimum_capa_verification_role)
    Reopener,     \* roles that may re-open (CAPA_REOPEN_ROLES)
    None,         \* no role, no idempotency key
    Item,         \* CAPA items that clients synchronise
    MaxVersion,   \* bound on the version a request works on
    MaxTrail,     \* bound on the transitions started
    MaxCrash      \* bound on requests that die half way

CAPA_ALLOWED_TRANSITIONS ==
    {<<"REPORTED", "NOTICE_ISSUED">>,
     <<"NOTICE_ISSUED", "ASSIGNED">>,
     <<"ASSIGNED", "RECTIFICATION_SUBMITTED">>,
     <<"RECTIFICATION_SUBMITTED", "VERIFIED">>,
     <<"VERIFIED", "CLOSED">>}

CAPAState == {"REPORTED", "NOTICE_ISSUED", "ASSIGNED",
              "RECTIFICATION_SUBMITTED", "VERIFIED", "CLOSED"}

ASSUME CapaAssumption ==
    /\ Verifier \subseteq Role
    /\ Reopener \subseteq Role
    /\ None \notin Role
    /\ \A i \in Item :
         /\ i = [key |-> i.key, version |-> i.version, state |-> i.state,
                 evidence |-> i.evidence]
         /\ i.version \in Nat \ {0}
         /\ i.state \in CAPAState
         /\ i.evidence \in BOOLEAN

VARIABLES
    capa,       \* the document, or Absent
    conflicts,  \* idempotency keys in sync_conflict_log
    handler,    \* each handler's local state
    trail,      \* the STATUS_CHANGE blocks, oldest first
    crashes     \* how many requests died half way

vars == <<capa, conflicts, handler, trail, crashes>>

Absent == [state |-> "ABSENT", evidence |-> FALSE, verifiedBy |-> None,
           version |-> 0, key |-> None]

Idle == [pc |-> "idle"]

Init ==
    /\ capa = Absent
    /\ conflicts = {}
    /\ handler = [h \in Handler |-> Idle]
    /\ trail = <<>>
    /\ crashes = 0

Busy == {h \in Handler : handler[h] # Idle}

-----------------------------------------------------------------------------
(* Filing: POST /violations (no evidence) and POST /worker/report-issue    *)
(* (a photo or none).  Neither is recorded in the audit ledger.            *)
Create(evidence) ==
    /\ capa = Absent
    /\ capa' = [state |-> "REPORTED", evidence |-> evidence,
                verifiedBy |-> None, version |-> 1, key |-> None]
    /\ UNCHANGED <<conflicts, handler, trail, crashes>>

(* Filing fails: the document carries no idempotency key, the unique index *)
(* on the key holds null like any value, and another violation is stored   *)
(* without one.  DuplicateKeyError, which nothing handles: the answer is   *)
(* 500 and nothing is written.  The other violations' documents are not    *)
(* followed here (OfflineQueue follows them), so it may happen or not.     *)
CreateRefused == capa = Absent /\ UNCHANGED vars

\* Mutant of Permitted: a closed CAPA may be verified again.
PermittedAgain(from, to, role) ==
    IF to = "REPORTED"
    THEN role \in Reopener
    ELSE <<from, to>> \in CAPA_ALLOWED_TRANSITIONS
                            \cup {<<"CLOSED", "VERIFIED">>}

\* _assert_transition_allowed.
Permitted(from, to, role) ==
    IF to = "REPORTED"
    THEN role \in Reopener
    ELSE <<from, to>> \in CAPA_ALLOWED_TRANSITIONS

\* Mutant of Accepted: no evidence check.
AcceptedBare(doc, to, role, evidence) ==
    /\ Permitted(doc.state, to, role)
    /\ to = "VERIFIED" => role \in Verifier

\* Mutant of Accepted: no role check before a verification.
AcceptedAnyRole(doc, to, role, evidence) ==
    /\ Permitted(doc.state, to, role)
    /\ to = "RECTIFICATION_SUBMITTED" => evidence \/ doc.evidence

\* Every check of transition, made on the document that was read.
Accepted(doc, to, role, evidence) ==
    /\ Permitted(doc.state, to, role)
    /\ to = "RECTIFICATION_SUBMITTED" => evidence \/ doc.evidence
    /\ to = "VERIFIED" => role \in Verifier

\* The document a transition saves.
Moved(doc, to, role, evidence) ==
    [state |-> to,
     evidence |-> IF to = "RECTIFICATION_SUBMITTED" /\ evidence
                  THEN TRUE ELSE doc.evidence,
     verifiedBy |-> IF to = "VERIFIED" THEN role ELSE doc.verifiedBy,
     version |-> doc.version + 1,
     key |-> doc.key]

(* transition up to its first write: get_for_update (which takes no lock), *)
(* the checks, and the changes to the copy in memory.                      *)
Read(h, to, role, evidence) ==
    /\ handler[h] = Idle
    /\ capa # Absent
    /\ capa.version < MaxVersion
    /\ Len(trail) + Cardinality(Busy) < MaxTrail
    /\ Accepted(capa, to, role, evidence)
    /\ handler' = [handler EXCEPT
         ![h] = [pc |-> "read",
                 doc |-> Moved(capa, to, role, evidence),
                 event |-> [from |-> capa.state, to |-> to, role |-> role]]]
    /\ UNCHANGED <<capa, conflicts, trail, crashes>>

Refused ==
    {r \in CAPAState \X Role \X BOOLEAN :
        capa = Absent \/ ~Accepted(capa, r[1], r[2], r[3])}

(* A request is refused: 404, 403, 409 or 422, and nothing changes.        *)
Refuse == Refused # {} /\ UNCHANGED vars

\* Mutant of Save: transition returns before it appends the block.
SaveUnaudited(h) ==
    /\ handler[h].pc = "read"
    /\ capa' = handler[h].doc
    /\ handler' = [handler EXCEPT ![h] = Idle]
    /\ UNCHANGED <<conflicts, trail, crashes>>

(* transition: the whole document is saved, whatever it has become.        *)
Save(h) ==
    /\ handler[h].pc = "read"
    /\ capa' = handler[h].doc
    /\ handler' = [handler EXCEPT ![h] = [pc |-> "saved", event |-> @.event]]
    /\ UNCHANGED <<conflicts, trail, crashes>>

\* Mutant of Audit: the block records the state found in the database.
AuditReread(h) ==
    /\ handler[h].pc = "saved"
    /\ trail' = Append(trail, [handler[h].event EXCEPT !.to = capa.state])
    /\ handler' = [handler EXCEPT ![h] = Idle]
    /\ UNCHANGED <<capa, conflicts, crashes>>

\* Mutant of Audit: the block leaves out who made the step.
AuditAnonymous(h) ==
    /\ handler[h].pc = "saved"
    /\ trail' = Append(trail, [from |-> handler[h].event.from,
                              to |-> handler[h].event.to])
    /\ handler' = [handler EXCEPT ![h] = Idle]
    /\ UNCHANGED <<capa, conflicts, crashes>>

(* transition: the block is appended after the save.                       *)
Audit(h) ==
    /\ handler[h].pc = "saved"
    /\ trail' = Append(trail, handler[h].event)
    /\ handler' = [handler EXCEPT ![h] = Idle]
    /\ UNCHANGED <<capa, conflicts, crashes>>

-----------------------------------------------------------------------------
(* _upsert_capa.                                                           *)

\* The server's answer to an item: it depends on the document read.
SyncStatus(doc, item) ==
    IF doc = Absent THEN "NEW"
    ELSE IF doc.key = item.key /\ doc.version = item.version THEN "DUPLICATE"
    ELSE IF item.version < doc.version THEN "CONFLICT"
    ELSE IF item.version = doc.version THEN "MERGE"
    ELSE "NEW"

\* Mutant of Merged: the client's state is merged too.
MergedState(doc, item) ==
    [state |-> item.state, evidence |-> item.evidence,
     verifiedBy |-> doc.verifiedBy, version |-> doc.version + 1,
     key |-> item.key]

Merged(doc, item) ==
    [state |-> doc.state, evidence |-> item.evidence,
     verifiedBy |-> doc.verifiedBy, version |-> doc.version + 1,
     key |-> item.key]

\* An item the server does not know is stored in the state the client gives.
Imported(item) ==
    [state |-> item.state, evidence |-> item.evidence, verifiedBy |-> None,
     version |-> 1, key |-> item.key]

(* get_by_id and the choice of what to write.                              *)
SyncRead(h, item) ==
    /\ handler[h] = Idle
    /\ capa.version < MaxVersion
    /\ \/ /\ SyncStatus(capa, item) = "NEW"
          /\ handler' = [handler EXCEPT
               ![h] = [pc |-> "insert", doc |-> Imported(item)]]
       \/ /\ SyncStatus(capa, item) = "MERGE"
          /\ handler' = [handler EXCEPT
               ![h] = [pc |-> "merge", doc |-> Merged(capa, item)]]
       \/ /\ SyncStatus(capa, item) = "CONFLICT"
          /\ handler' = [handler EXCEPT
               ![h] = [pc |-> "conflict", key |-> item.key]]
    /\ UNCHANGED <<capa, conflicts, trail, crashes>>

(* The insertion: refused when the id exists, and the request fails.       *)
SyncInsert(h) ==
    /\ handler[h].pc = "insert"
    /\ capa' = IF capa = Absent THEN handler[h].doc ELSE capa
    /\ handler' = [handler EXCEPT ![h] = Idle]
    /\ UNCHANGED <<conflicts, trail, crashes>>

(* The merge saves the whole document it read; no block is appended.       *)
SyncSave(h) ==
    /\ handler[h].pc = "merge"
    /\ capa' = handler[h].doc
    /\ handler' = [handler EXCEPT ![h] = Idle]
    /\ UNCHANGED <<conflicts, trail, crashes>>

(* The conflict is logged; a key logged before makes the request fail.     *)
SyncConflict(h) ==
    /\ handler[h].pc = "conflict"
    /\ conflicts' = conflicts \cup {handler[h].key}
    /\ handler' = [handler EXCEPT ![h] = Idle]
    /\ UNCHANGED <<capa, trail, crashes>>

(* The request dies between two awaits.                                    *)
Abort(h) ==
    /\ handler[h] # Idle
    /\ crashes < MaxCrash
    /\ crashes' = crashes + 1
    /\ handler' = [handler EXCEPT ![h] = Idle]
    /\ UNCHANGED <<capa, conflicts, trail>>

Next ==
    \/ \E evidence \in BOOLEAN : Create(evidence)
    \/ CreateRefused
    \/ Refuse
    \/ \E h \in Handler :
         \/ \E to \in CAPAState, role \in Role, evidence \in BOOLEAN :
              Read(h, to, role, evidence)
         \/ Save(h)
         \/ Audit(h)
         \/ \E item \in Item : SyncRead(h, item)
         \/ SyncInsert(h)
         \/ SyncSave(h)
         \/ SyncConflict(h)
         \/ Abort(h)

Spec == Init /\ [][Next]_vars

-----------------------------------------------------------------------------
(* Properties.                                                             *)

IsDoc(d) ==
    /\ d = [state |-> d.state, evidence |-> d.evidence,
            verifiedBy |-> d.verifiedBy, version |-> d.version, key |-> d.key]
    /\ d.state \in CAPAState
    /\ d.evidence \in BOOLEAN
    /\ d.verifiedBy \in Role \cup {None}
    /\ d.version \in Nat \ {0}

IsEvent(e) ==
    /\ e = [from |-> e.from, to |-> e.to, role |-> e.role]
    /\ e.from \in CAPAState
    /\ e.to \in CAPAState
    /\ e.role \in Role

IsHandler(r) ==
    \/ r = Idle
    \/ r.pc = "read" /\ r = [pc |-> "read", doc |-> r.doc, event |-> r.event]
         /\ IsDoc(r.doc) /\ IsEvent(r.event)
    \/ r.pc = "saved" /\ r = [pc |-> "saved", event |-> r.event]
         /\ IsEvent(r.event)
    \/ r.pc = "insert" /\ r = [pc |-> "insert", doc |-> r.doc] /\ IsDoc(r.doc)
    \/ r.pc = "merge" /\ r = [pc |-> "merge", doc |-> r.doc] /\ IsDoc(r.doc)
    \/ r.pc = "conflict" /\ r = [pc |-> "conflict", key |-> r.key]

\* The shape of the document, of the handlers' local states and of the blocks.
TypeOK ==
    /\ capa = Absent \/ IsDoc(capa)
    /\ DOMAIN handler = Handler
    /\ \A h \in Handler : IsHandler(handler[h])
    /\ trail \in Seq([from : CAPAState, to : CAPAState, role : Role])
    /\ crashes \in Nat

\* States past the submission of a rectification, and past its verification.
Rectified == {"RECTIFICATION_SUBMITTED", "VERIFIED", "CLOSED"}
Attested == {"VERIFIED", "CLOSED"}

\* A CAPA whose rectification was submitted carries evidence, as violation_capa.py
\* line 17 has it ("Required at RECTIFICATION_SUBMITTED").  A synchronised item
\* with an emptied list breaks it (sync_service.py:315): see EvidenceUnlessStripped.
EvidenceHeld == capa.state \in Rectified => capa.evidence

\* A CAPA that is verified or closed names a verifier whose role may verify
\* (enums.py:32-39).  An item the server does not know breaks it, stored in the
\* state the client gives (sync_service.py:327): see VerifierUnlessImported.
VerifierHeld == capa.state \in Attested => capa.verifiedBy \in Verifier

\* A verified CAPA has its evidence or its verifier.  The documents want both
\* (violation_capa.py:17, enums.py:33); synchronised items can take away both.
VerifiedIsBacked ==
    capa.state \in Attested => capa.evidence \/ capa.verifiedBy \in Verifier

\* Every block of the audit ledger records a step the state machine allows, taken
\* by a role it allows, although the document may have changed between the read
\* the step was checked on and the save.
TrailLegal ==
    \A i \in DOMAIN trail :
        /\ Permitted(trail[i].from, trail[i].to, trail[i].role)
        /\ trail[i].to = "VERIFIED" => trail[i].role \in Verifier

\* The states a block leads to, or will once it is appended.
Vouched ==
    {trail[i].to : i \in DOMAIN trail}
      \cup {handler[h].event.to : h \in {g \in Handler : handler[g].pc = "saved"}}
==============================================================================
