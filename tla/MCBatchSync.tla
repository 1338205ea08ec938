----------------------------- MODULE MCBatchSync -----------------------------
(* A small instance of BatchSync for TLC.                                  *)
EXTENDS BatchSync, TLC

\* History: two requests have been in the server at once.
VARIABLE overlapped

Symmetry == Permutations(Handler) \cup Permutations(Key)

Note == overlapped' = (overlapped
                         \/ Cardinality({h \in Handler : handler'[h] # Idle}) > 1)

\* Next, with the history kept.
MCNext ==
    \/ \E k \in Key : Compose(k) /\ Note
    \/ \E h \in Handler :
         \/ \E k \in Key : Deliver(h, k) /\ Note
         \/ Reject(h) /\ Note
         \/ Merge(h) /\ Note
         \/ Insert(h) /\ Note
         \/ AppendAudit(h) /\ Note
         \/ LogConflict(h) /\ Note
         \/ Abort(h) /\ Note

MCInit == Init /\ overlapped = FALSE

MCSpec == MCInit /\ [][MCNext]_<<vars, overlapped>>

Promise == INSTANCE VersionedRecord WITH
    version <- doc.version, content <- doc.key

\* The record is a register with optimistic concurrency control
\* (app/api/v1/sync.py:24, "idempotency and optimistic concurrency control").
KeepsRegister == Promise!Spec

\* As long as no two requests overlap it is, with edits sent again at any time and
\* requests that die half way (_upsert_inspection, lines 165-277).
KeepsRegisterSerially ==
    /\ Promise!Init
    /\ [][~overlapped' => Promise!Next \/ UNCHANGED <<base, doc>>]_<<vars, overlapped>>

\* As long as no two requests overlap an edit leaves one audit block at most,
\* however often and however late it is sent again, and, none dying, the version
\* counts the edits in the audit ledger: none was overwritten unseen (172-239).
EditsCounted == ~overlapped => AppliedOnce /\ VersionCountsEdits
=============================================================================
