--------------------------- MODULE VersionedRecord ---------------------------
(* What optimistic concurrency control promises of one record: an edit is  *)
(* accepted only on the version it was made on, and makes the next one.    *)
EXTENDS Naturals
CONSTANT None
VARIABLES
    base,       \* the version each edit was made on, for the edits made so far
    version,    \* 0 before the record exists
    content     \* the edit that made this version

Init == base = <<>> /\ version = 0 /\ content = None

Compose ==
    /\ \A k \in DOMAIN base : k \in DOMAIN base' /\ base'[k] = base[k]
    /\ UNCHANGED <<version, content>>

Accept(k) ==
    /\ version = 0 \/ base[k] = version
    /\ version' = version + 1
    /\ content' = k
    /\ UNCHANGED base

Next == Compose \/ \E k \in DOMAIN base : Accept(k)

Spec == Init /\ [][Next]_<<base, version, content>>
==============================================================================
