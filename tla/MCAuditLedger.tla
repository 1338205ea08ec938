---------------------------- MODULE MCAuditLedger ----------------------------
(* Small instances of AuditLedger for TLC.                                 *)
EXTENDS AuditLedger, TLC

\* Handlers and document ids are interchangeable.
Symmetry == Permutations(Handler) \cup Permutations(BlockId)

\* Bounds on the instance: with both mines in use nothing is lost, no good answer
\* is kept, and every block sealed the same payload; and as the mines are alike, it
\* is always the same one that is used alone.
MinesInUse ==
    {b.mine : b \in ledger \cup lost}
        \cup {handler[h].mine : h \in {g \in Handler : "mine" \in DOMAIN handler[g]}}

MixedIsPlain ==
    \/ MinesInUse \subseteq {CHOOSE m \in Mine : TRUE}
    \/ MinesInUse = Mine /\ lost = {} /\ certified = {}
       /\ Cardinality({b.hash[4] : b \in ledger}) <= 1

BoundedSpec == Init /\ [][Next /\ MixedIsPlain']_vars

\* The history a chain seals: the payload hashed into the block of each number.
SealedHistory(m) ==
    [n \in 1..Cardinality(Chain({m})) |->
        (CHOOSE b \in Chain({m}) : b.seq = n).hash[4]]

SealedLog == [m \in Mine |-> SealedHistory(m)]

Promise == INSTANCE ChainLog WITH log <- SealedLog

\* As long as no chain has forked and nothing is lost outside the service, the
\* ledger is the append-only log it promises to be: every append of any request
\* adds one record at the end of one mine's history, and no falsification, however
\* stale the copy it saves, changes what was sealed (audit_service.append, lines
\* 61-88; simulate_tamper, lines 222-242).
KeepsPromise ==
    /\ Promise!Init
    /\ [][~Forked(Mine)' /\ lost = {} /\ lost' = {} =>
            Promise!Next \/ UNCHANGED SealedLog]_vars
=============================================================================
