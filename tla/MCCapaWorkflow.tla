--------------------------- MODULE MCCapaWorkflow ---------------------------
(* CapaWorkflow with the history its properties need, and small instances  *)
(* of it for TLC.  Clients may synchronise any item: the service checks    *)
(* neither its state nor its evidence.                                     *)
EXTENDS CapaWorkflow, TLC

CONSTANTS
    k1, k2,     \* idempotency keys
    MaxShared   \* bound on requests that begin after two have overlapped

\* History: what happened on the way to the present state.
VARIABLES
    overlapped,   \* two requests have been in the server at once
    stripped,     \* a synchronisation left the CAPA without evidence that was
                  \* there, or that its state calls for
    filedAs       \* the state it was filed or imported in, "ABSENT" before

Symmetry == Permutations(Handler)

\* An edit of a report with a photo, and an item that claims to be verified with
\* no evidence to show: it is imported so, or merged into a verified CAPA.
SyncedItem ==
    {[key |-> k1, version |-> 3, state |-> "REPORTED", evidence |-> TRUE],
     [key |-> k1, version |-> 5, state |-> "VERIFIED", evidence |-> FALSE]}

\* A CAPA with evidence that a client holds to be verified, and an edit from which
\* the evidence was taken out.
UnbackedItem ==
    {[key |-> k1, version |-> 1, state |-> "VERIFIED", evidence |-> TRUE],
     [key |-> k2, version |-> 1, state |-> "REPORTED", evidence |-> FALSE]}

\* A synchronisation is writing its copy.
Synced == \E h \in Handler : SyncInsert(h) \/ SyncSave(h)

Strips ==
    /\ Synced /\ capa' # capa
    /\ ~capa'.evidence
    /\ capa.evidence \/ capa'.state \in Rectified

Note ==
    /\ overlapped' = (overlapped
                        \/ Cardinality({h \in Handler : handler'[h] # Idle}) > 1)
    /\ stripped' = (stripped \/ Strips)
    /\ filedAs' = IF capa = Absent THEN capa'.state ELSE filedAs

\* Once requests have overlapped new ones begin on a young document only.
Room == overlapped => capa.version < MaxShared /\ Len(trail) < MaxShared

\* Next, with the history kept.
MCNext ==
    \/ \E evidence \in BOOLEAN : Create(evidence) /\ Note
    \/ CreateRefused /\ Note
    \/ Refuse /\ Note
    \/ \E h \in Handler :
         \/ \E to \in CAPAState, role \in Role, evidence \in BOOLEAN :
              Room /\ Read(h, to, role, evidence) /\ Note
         \/ Save(h) /\ Note
         \/ Audit(h) /\ Note
         \/ \E item \in Item : Room /\ SyncRead(h, item) /\ Note
         \/ SyncInsert(h) /\ Note
         \/ SyncSave(h) /\ Note
         \/ SyncConflict(h) /\ Note
         \/ Abort(h) /\ Note

MCInit ==
    /\ Init
    /\ overlapped = FALSE
    /\ stripped = FALSE
    /\ filedAs = "ABSENT"

history == <<overlapped, stripped, filedAs>>

MCSpec == MCInit /\ [][MCNext]_<<vars, history>>

Promise == INSTANCE CapaLifecycle WITH
    state <- capa.state,
    evidenced <- capa.evidence,
    verified <- capa.verifiedBy \in Verifier

\* Only a synchronised item can leave a rectified CAPA without evidence: however
\* transitions overlap each other, merges and crashes, the whole documents they
\* save never do (capa_service.py:58-66 checks the copy it read, line 89 saves it).
EvidenceUnlessStripped == ~stripped => EvidenceHeld

\* Only an import can make a CAPA verified without a verifier: a CAPA filed in an
\* earlier state is verified by a role that may, whichever transitions, merges of
\* stale copies and crashes come between (capa_service.py:69-76).
VerifierUnlessImported == filedAs \notin Attested => VerifierHeld

\* While no request has died, the state in the database is the one it was filed or
\* imported in, or a block records the step into it, or the handler that made the
\* step is about to append that block (save, line 89, then append, line 92) -
\* merges of stale copies by the batch synchronisation included.
StateVouched == crashes = 0 => capa.state \in Vouched \cup {filedAs}

\* The blocks form one path from the state the CAPA was filed in to the present one.
TrailIsPath ==
    Busy = {} /\ capa # Absent =>
        /\ \A i \in DOMAIN trail :
             trail[i].from = IF i = 1 THEN filedAs ELSE trail[i - 1].to
        /\ capa.state = IF trail = <<>> THEN filedAs ELSE trail[Len(trail)].to

\* As long as no two requests overlap, and none has died, the blocks tell the whole
\* history since the filing, which no synchronised item, whatever state it claims,
\* leaves (capa_service.py:89-113, sync_service.py:300-334).
TrailIsPathSerially == ~overlapped /\ crashes = 0 => TrailIsPath

\* A CAPA filed as REPORTED that no synchronisation stripped goes through the life
\* cycle the workflow promises as long as no two requests overlap, requests that
\* die half way included (capa_service.py:33-115).
KeepsLifecycle ==
    /\ Promise!Init
    /\ [][~overlapped' /\ ~stripped' /\ filedAs' \in {"ABSENT", "REPORTED"} =>
            Promise!Next \/ UNCHANGED <<capa.state, capa.evidence,
                                        capa.verifiedBy \in Verifier>>]_<<vars, history>>
=============================================================================
