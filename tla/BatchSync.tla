------------------------------- MODULE BatchSync -------------------------------
(***************************************************************************)
(* Batch synchronisation of one inspection by offline clients              *)
(* (_upsert_inspection of app/services/sync_service.py, called by          *)
(* POST /sync/batch).                                                      *)
(*                                                                         *)
(* A client edits the record on the version it last saw, under a fresh     *)
(* idempotency key, and sends the edit as often as it likes: a response    *)
(* may be lost, a request may be answered late.  The server reads the      *)
(* record, decides, and writes it, its audit block and its answer in       *)
(* separate awaited calls.  Records share nothing but the order of a batch *)
(* (OfflineQueue), so one is followed.  The content of the record is the   *)
(* key of the edit that wrote it last.                                     *)
(***************************************************************************)
EXTENDS Naturals, FiniteSets, Functions

CONSTANTS
    Handler,      \* requests that may be processed at the same time
    Key,          \* idempotency keys: a bound on the edits made
    None,         \* no edit
    MaxVersion,   \* bound on the version of the record
    MaxCrash      \* bound on requests that die half way

ASSUME SyncAssumption == None \notin Key

VARIABLES
    doc,        \* the record: version (0 before it exists) and content
    base,       \* the version each edit made so far was made on
    published,  \* the versions the record has had
    handler,    \* each request's local state
    conflicts,  \* keys in sync_conflict_log, unique by index
    audited,    \* how many audit blocks each edit has left
    answers,    \* <<key, status>> the server has answered
    crashes     \* how many requests died half way

vars == <<doc, base, published, handler, conflicts, audited, answers, crashes>>

Idle == [pc |-> "idle"]

Init ==
    /\ doc = [version |-> 0, key |-> None]
    /\ base = <<>>
    /\ published = {}
    /\ handler = [h \in Handler |-> Idle]
    /\ conflicts = {}
    /\ audited = [k \in Key |-> 0]
    /\ answers = {}
    /\ crashes = 0

-----------------------------------------------------------------------------
(* A client makes an edit: of a record it has seen, on a version it was    *)
(* told, or of one it makes up itself, which starts at version 1.          *)
Compose(k) ==
    /\ k \notin DOMAIN base
    /\ \E v \in {1} \cup published :
         base' = [i \in DOMAIN base \cup {k} |-> IF i = k THEN v ELSE base[i]]
    /\ UNCHANGED <<doc, published, handler, conflicts, audited, answers,
                   crashes>>

\* Mutant of Decision: an edit made on an older version is merged.
DecisionByVersion(k) ==
    IF doc.version = 0 THEN "insert"
    ELSE IF base[k] <= doc.version THEN "merge"
    ELSE "insert"

\* What _upsert_inspection does with edit k of the record it has read.
Decision(k) ==
    IF doc.version = 0 THEN "insert"
    ELSE IF doc.key = k /\ doc.version = base[k] THEN "duplicate"
    ELSE IF base[k] < doc.version THEN "conflict"
    ELSE IF base[k] = doc.version THEN "merge"
    ELSE "insert"

(* get_by_id and the decision.  A duplicate is answered at once.           *)
Deliver(h, k) ==
    /\ handler[h] = Idle
    /\ k \in DOMAIN base
    /\ doc.version < MaxVersion
    /\ LET d == Decision(k)
       IN  /\ handler' = [handler EXCEPT
                ![h] = IF d = "duplicate" THEN Idle
                       ELSE [pc |-> d, key |-> k, version |-> doc.version + 1]]
           /\ answers' = IF d = "duplicate"
                         THEN answers \cup {<<k, "DUPLICATE">>} ELSE answers
    /\ UNCHANGED <<doc, base, published, conflicts, audited, crashes>>

(* geofence.validate refuses the position: 404 or 422, before any write.   *)
Reject(h) ==
    /\ handler[h].pc \in {"insert", "merge"}
    /\ handler' = [handler EXCEPT ![h] = Idle]
    /\ UNCHANGED <<doc, base, published, conflicts, audited, answers, crashes>>

\* Mutant of Merge: the block is left out.
MergeUnaudited(h) ==
    /\ handler[h].pc = "merge"
    /\ doc' = [version |-> handler[h].version, key |-> handler[h].key]
    /\ published' = published \cup {handler[h].version}
    /\ answers' = answers \cup {<<handler[h].key, "UPDATED">>}
    /\ handler' = [handler EXCEPT ![h] = Idle]
    /\ UNCHANGED <<base, conflicts, audited, crashes>>

(* The whole merged document is saved, whatever the record has become.     *)
Merge(h) ==
    /\ handler[h].pc = "merge"
    /\ doc' = [version |-> handler[h].version, key |-> handler[h].key]
    /\ published' = published \cup {handler[h].version}
    /\ handler' = [handler EXCEPT
         ![h] = [pc |-> "audit", key |-> @.key, answer |-> "UPDATED"]]
    /\ UNCHANGED <<base, conflicts, audited, answers, crashes>>

\* Mutant of Insert: an existing record is overwritten instead of refused.
InsertOverwriting(h) ==
    /\ handler[h].pc = "insert"
    /\ doc' = [version |-> 1, key |-> handler[h].key]
    /\ published' = published \cup {1}
    /\ handler' = [handler EXCEPT
         ![h] = [pc |-> "audit", key |-> @.key, answer |-> "CREATED"]]
    /\ UNCHANGED <<base, conflicts, audited, answers, crashes>>

(* The new record is inserted at version 1; when its id exists the         *)
(* insertion fails and with it the request.                                *)
Insert(h) ==
    /\ handler[h].pc = "insert"
    /\ \/ /\ doc.version = 0
          /\ doc' = [version |-> 1, key |-> handler[h].key]
          /\ published' = published \cup {1}
          /\ handler' = [handler EXCEPT
               ![h] = [pc |-> "audit", key |-> @.key, answer |-> "CREATED"]]
       \/ /\ doc.version # 0
          /\ handler' = [handler EXCEPT ![h] = Idle]
          /\ UNCHANGED <<doc, published>>
    /\ UNCHANGED <<base, conflicts, audited, answers, crashes>>

(* The audit block is appended, and the item answered.                     *)
AppendAudit(h) ==
    /\ handler[h].pc = "audit"
    /\ audited' = [audited EXCEPT ![handler[h].key] = @ + 1]
    /\ answers' = answers \cup {<<handler[h].key, handler[h].answer>>}
    /\ handler' = [handler EXCEPT ![h] = Idle]
    /\ UNCHANGED <<doc, base, published, conflicts, crashes>>

(* The conflict is logged and answered; a key logged before makes the      *)
(* insertion fail and with it the request.                                 *)
LogConflict(h) ==
    /\ handler[h].pc = "conflict"
    /\ conflicts' = conflicts \cup {handler[h].key}
    /\ answers' = IF handler[h].key \in conflicts THEN answers
                  ELSE answers \cup {<<handler[h].key, "CONFLICT">>}
    /\ handler' = [handler EXCEPT ![h] = Idle]
    /\ UNCHANGED <<doc, base, published, audited, crashes>>

(* The request dies between two awaits.                                    *)
Abort(h) ==
    /\ handler[h] # Idle
    /\ crashes < MaxCrash
    /\ crashes' = crashes + 1
    /\ handler' = [handler EXCEPT ![h] = Idle]
    /\ UNCHANGED <<doc, base, published, conflicts, audited, answers>>

Next ==
    \/ \E k \in Key : Compose(k)
    \/ \E h \in Handler :
         \/ \E k \in Key : Deliver(h, k)
         \/ Reject(h)
         \/ Merge(h)
         \/ Insert(h)
         \/ AppendAudit(h)
         \/ LogConflict(h)
         \/ Abort(h)

Spec == Init /\ [][Next]_vars

-----------------------------------------------------------------------------
(* Properties.                                                             *)

Answer == {"CREATED", "UPDATED", "CONFLICT", "DUPLICATE"}

\* The shape of the record, of the requests' local states and of the answers.
TypeOK ==
    /\ doc.version \in Nat
    /\ doc.key \in Key \cup {None}
    /\ DOMAIN base \subseteq Key
    /\ \A k \in DOMAIN base : base[k] \in Nat \ {0}
    /\ published \subseteq Nat \ {0}
    /\ handler \in [Handler ->
         {Idle}
           \cup [pc : {"insert", "merge", "conflict"}, key : DOMAIN base,
                 version : Nat \ {0}]
           \cup [pc : {"audit"}, key : DOMAIN base,
                 answer : {"CREATED", "UPDATED"}]]
    /\ conflicts \subseteq Key
    /\ audited \in [Key -> Nat]
    /\ answers \subseteq Key \X Answer
    /\ crashes \in Nat

Saved(k) ==
    \/ audited[k] > 0
    \/ \E h \in Handler : handler[h].pc = "audit" /\ handler[h].key = k

\* While no request has died, the content of the record and every edit answered
\* DUPLICATE were saved by a request that appended its audit block or is about
\* to: nothing is taken for processed that left no trace (lines 172-177).
ContentAccounted ==
    crashes = 0 =>
        /\ doc.version > 0 => Saved(doc.key)
        /\ \A k \in Key : <<k, "DUPLICATE">> \in answers => Saved(k)

\* However many requests race, one of them creates the record: the others fail
\* (line 265).
CreatedOnce ==
    \A j, k \in Key :
        <<j, "CREATED">> \in answers /\ <<k, "CREATED">> \in answers => j = k

\* With one request at a time an edit leaves one audit block at most, however
\* often and however late it is sent again (lines 172-204).
AppliedOnce == \A k \in Key : audited[k] <= 1

\* With one request at a time and none dying, the version counts the edits in the
\* audit ledger, so none was overwritten unseen.
VersionCountsEdits ==
    crashes = 0 /\ (\A h \in Handler : handler[h].pc # "audit") =>
        doc.version = Cardinality({k \in Key : audited[k] > 0})
==============================================================================
