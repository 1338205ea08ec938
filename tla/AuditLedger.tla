------------------------------ MODULE AuditLedger ------------------------------
(***************************************************************************)
(* The statutory audit ledger: one SHA-256 hash chain per mine site, kept  *)
(* as MongoDB documents (app/services/audit_service.py over                *)
(* app/infrastructure/repositories/audit_ledger_repository.py).            *)
(*                                                                         *)
(* A request handler appends a block in two awaited database calls: it     *)
(* reads the newest block of the mine, then inserts a block numbered and   *)
(* linked from what it read.  Nothing holds between the two calls, and the *)
(* index on (mine_site_id, sequence_number) is not unique.                 *)
(*                                                                         *)
(* A digest is modelled by the tuple that is hashed, so two digests are    *)
(* equal exactly when their inputs are: SHA-256 is taken as collision      *)
(* free, and the concatenation it is applied to as unambiguous (the mine   *)
(* id has a fixed width, a digest is 64 hex digits, a payload opens with a *)
(* brace).                                                                 *)
(***************************************************************************)
EXTENDS Naturals, FiniteSets, Functions

CONSTANTS
    Mine,       \* mine sites, each with a chain of its own
    Handler,    \* request handlers that may run at the same time
    Payload,    \* what a block records
    Falsified,  \* payloads the tamper demonstration may write over a block's
    NoEdit,     \* marks an append that no falsification follows
    BlockId,    \* document ids: a bound on the blocks ever inserted
    MaxLost     \* bound on blocks removed behind the service's back

ASSUME LedgerAssumption ==
    /\ Falsified \subseteq Payload
    /\ NoEdit \notin Payload
    /\ MaxLost \in Nat

VARIABLES
    ledger,     \* the documents of the collection audit_ledger
    lost,       \* blocks removed outside the service
    handler,    \* each handler's local state
    certified   \* <<mine, sequence, payload>> some verification reported intact

vars == <<ledger, lost, handler, certified>>

GENESIS == <<>>

Digest(m, n, prev, d) == <<m, n, prev, d>>

Idle == [pc |-> "idle"]

Init ==
    /\ ledger = {}
    /\ lost = {}
    /\ handler = [h \in Handler |-> Idle]
    /\ certified = {}

-----------------------------------------------------------------------------
(* Reading the collection.                                                 *)

Chain(M) == {b \in ledger : b.mine \in M}

\* The blocks get_last_for_mine may return: the sort leaves ties open.
Newest(m) == {b \in Chain({m}) : \A c \in Chain({m}) : c.seq <= b.seq}

\* Every block there has been, as it was last seen.
Known == ledger \cup lost

Unused == BlockId \ {b.id : b \in Known}

\* The scan's inputs: all blocks of the mines in M by sequence number, equal
\* numbers in any order.
Scans(M) ==
    {s \in Bijection(1..Cardinality(Chain(M)), Chain(M)) :
        \A i, j \in DOMAIN s : i < j => s[i].seq <= s[j].seq}

Intact(b) == b.hash = Digest(b.mine, b.seq, b.prev, b.payload)

\* Mutant of Linked: one remembered digest for all mines.
LinkedAcrossMines(s, k) ==
    s[k].prev = IF k = 1 THEN GENESIS ELSE s[k - 1].hash

\* Mutant of Linked: only the first block of a scan is checked.
LinkedFirstOnly(s, k) == k = 1 => s[k].prev = GENESIS

\* The link check at position k: the digest remembered for the mine is that
\* of its last block scanned before, or GENESIS when there is none.
Linked(s, k) ==
    LET before == {j \in 1..(k - 1) : s[j].mine = s[k].mine}
    IN  \/ /\ before = {}
           /\ s[k].prev = GENESIS
        \/ \E j \in before :
               /\ \A i \in before : i <= j
               /\ s[k].prev = s[j].hash

Sound(s, k) == Intact(s[k]) /\ Linked(s, k)

IsValid(s) == \A k \in DOMAIN s : Sound(s, k)

\* Mutant of BrokenAt: the scan goes on and reports the last bad block.
BrokenAtLast(s) ==
    LET final == CHOOSE k \in DOMAIN s :
                     ~Sound(s, k) /\ \A j \in DOMAIN s : k < j => Sound(s, j)
    IN  s[final].seq

\* The sequence number a failed scan reports: that of the first bad block.
BrokenAt(s) ==
    LET first == CHOOSE k \in DOMAIN s :
                     ~Sound(s, k) /\ \A j \in 1..(k - 1) : Sound(s, j)
    IN  s[first].seq

Facts(M) == {<<b.mine, b.seq, b.payload>> : b \in Chain(M)}

-----------------------------------------------------------------------------
(* A request to append payload d to the chain of m reaches a handler.      *)
Request(h, m, d) ==
    /\ handler[h] = Idle
    /\ handler' = [handler EXCEPT
         ![h] = [pc |-> "begin", mine |-> m, payload |-> d, value |-> NoEdit]]
    /\ UNCHANGED <<ledger, lost, certified>>

\* Mutant of NextLink: numbered by count_for_mine instead of the newest block.
NextLinkByCount(m) ==
    IF Chain({m}) = {}
    THEN {[seq |-> 1, prev |-> GENESIS]}
    ELSE {[seq |-> Cardinality(Chain({m})) + 1, prev |-> b.hash] :
             b \in Newest(m)}

\* Number and link of the block that would follow the newest one.
NextLink(m) ==
    IF Chain({m}) = {}
    THEN {[seq |-> 1, prev |-> GENESIS]}
    ELSE {[seq |-> b.seq + 1, prev |-> b.hash] : b \in Newest(m)}

(* append, first await: number and link come from the newest block.        *)
ReadLast(h) ==
    /\ handler[h].pc = "begin"
    /\ \E link \in NextLink(handler[h].mine) :
         handler' = [handler EXCEPT
           ![h] = [pc |-> "read", mine |-> @.mine, payload |-> @.payload,
                   value |-> @.value, seq |-> link.seq, prev |-> link.prev]]
    /\ UNCHANGED <<ledger, lost, certified>>

\* Mutant of NewBlock: the digest leaves out the link.
NewBlockUnlinked(r, i) ==
    [id |-> i, mine |-> r.mine, seq |-> r.seq, prev |-> r.prev,
     payload |-> r.payload,
     hash |-> Digest(r.mine, r.seq, GENESIS, r.payload)]

NewBlock(r, i) ==
    [id |-> i, mine |-> r.mine, seq |-> r.seq, prev |-> r.prev,
     payload |-> r.payload,
     hash |-> Digest(r.mine, r.seq, r.prev, r.payload)]

(* append, second await: the block is inserted, whatever the chain is now. *)
(* A falsification goes on with the document it has just inserted.         *)
InsertBlock(h) ==
    /\ handler[h].pc = "read"
    /\ \E i \in Unused :
         LET b == NewBlock(handler[h], i)
         IN  /\ ledger' = ledger \cup {b}
             /\ handler' = [handler EXCEPT
                  ![h] = IF @.value = NoEdit
                         THEN Idle
                         ELSE [pc |-> "found", block |-> b, value |-> @.value]]
    /\ UNCHANGED <<lost, certified>>

(* simulate_tamper, first await: find a block by mine and number; when     *)
(* there is none, one is appended first.                                   *)
FindToFalsify(h, m, n, d, v) ==
    /\ handler[h] = Idle
    /\ LET found == {b \in Chain({m}) : b.seq = n}
       IN  \/ \E b \in found :
                handler' = [handler EXCEPT
                  ![h] = [pc |-> "found", block |-> b, value |-> v]]
           \/ /\ found = {}
              /\ handler' = [handler EXCEPT
                   ![h] = [pc |-> "begin", mine |-> m, payload |-> d,
                           value |-> v]]
    /\ UNCHANGED <<ledger, lost, certified>>

\* Mutant of SaveFalsified: the digest is recomputed with the new payload.
SaveRehashed(h) ==
    /\ handler[h].pc = "found"
    /\ LET b == handler[h].block
           v == handler[h].value
       IN  /\ ledger' = {c \in ledger : c.id # b.id}
                          \cup {[b EXCEPT !.payload = v,
                                   !.hash = Digest(b.mine, b.seq, b.prev, v)]}
           /\ lost' = {c \in lost : c.id # b.id}
    /\ handler' = [handler EXCEPT ![h] = Idle]
    /\ UNCHANGED certified

(* simulate_tamper, last await: save writes the whole document read before *)
(* with the new payload and the old digest; it is an upsert.               *)
SaveFalsified(h) ==
    /\ handler[h].pc = "found"
    /\ LET b == handler[h].block
       IN  /\ ledger' = {c \in ledger : c.id # b.id}
                          \cup {[b EXCEPT !.payload = handler[h].value]}
           /\ lost' = {c \in lost : c.id # b.id}
    /\ handler' = [handler EXCEPT ![h] = Idle]
    /\ UNCHANGED certified

(* The request dies between two awaits: client gone, worker restarted.     *)
Abort(h) ==
    /\ handler[h] # Idle
    /\ handler' = [handler EXCEPT ![h] = Idle]
    /\ UNCHANGED <<ledger, lost, certified>>

(* verify_ledger_integrity over the mines M, whose answer the auditor      *)
(* keeps when it is good.                                                  *)
Verify(M) ==
    /\ \E s \in Scans(M) : IsValid(s)
    /\ certified' = certified \cup Facts(M)
    /\ UNCHANGED <<ledger, lost, handler>>

(* A block disappears from the collection outside the service.             *)
LoseBlock(b) ==
    /\ Cardinality(lost) < MaxLost
    /\ ledger' = ledger \ {b}
    /\ lost' = lost \cup {b}
    /\ UNCHANGED <<handler, certified>>

Scopes == {{m} : m \in Mine} \cup {Mine}

Next ==
    \/ \E h \in Handler :
         \/ \E m \in Mine, d \in Payload : Request(h, m, d)
         \/ ReadLast(h)
         \/ InsertBlock(h)
         \/ \E m \in Mine, n \in 1..Cardinality(BlockId), d \in Payload,
               v \in Falsified : FindToFalsify(h, m, n, d, v)
         \/ SaveFalsified(h)
         \/ Abort(h)
    \/ \E M \in Scopes : Verify(M)
    \/ \E b \in ledger : LoseBlock(b)

Spec == Init /\ [][Next]_vars

-----------------------------------------------------------------------------
(* Properties.                                                             *)

\* A digest is GENESIS or the tuple of what was hashed.
IsBlock(b) ==
    /\ b = [id |-> b.id, mine |-> b.mine, seq |-> b.seq, prev |-> b.prev,
            payload |-> b.payload, hash |-> b.hash]
    /\ b.id \in BlockId
    /\ b.mine \in Mine
    /\ b.seq \in Nat \ {0}
    /\ b.payload \in Payload
    /\ \E d \in Payload : b.hash = Digest(b.mine, b.seq, b.prev, d)

IsHandler(r) ==
    \/ r = Idle
    \/ /\ r.pc = "begin"
       /\ r = [pc |-> "begin", mine |-> r.mine, payload |-> r.payload,
               value |-> r.value]
       /\ r.mine \in Mine /\ r.payload \in Payload
       /\ r.value \in Falsified \cup {NoEdit}
    \/ /\ r.pc = "read"
       /\ r = [pc |-> "read", mine |-> r.mine, payload |-> r.payload,
               value |-> r.value, seq |-> r.seq, prev |-> r.prev]
       /\ r.mine \in Mine /\ r.payload \in Payload
       /\ r.value \in Falsified \cup {NoEdit}
       /\ r.seq \in Nat \ {0}
    \/ /\ r.pc = "found"
       /\ r = [pc |-> "found", block |-> r.block, value |-> r.value]
       /\ IsBlock(r.block)
       /\ r.value \in Falsified

\* The shape of every document and of every handler's local state, and that a
\* document id names one document.
TypeOK ==
    /\ \A b \in Known : IsBlock(b)
    /\ \A b, c \in Known : b.id = c.id => b = c
    /\ DOMAIN handler = Handler
    /\ \A h \in Handler : IsHandler(handler[h])
    /\ certified \subseteq Mine \X (Nat \ {0}) \X Payload

\* What a link may point at: nothing for a first block, else a block of the
\* same mine that carries the digest and the number before.
Rooted(m, n, p) ==
    \/ n = 1 /\ p = GENESIS
    \/ \E c \in ledger : c.mine = m /\ c.hash = p /\ n = c.seq + 1

\* Whatever the interleaving of appends and falsifications, every block's link
\* leads to a block of its own mine with the number before it
\* (audit_service.append, lines 61-88): appends may fork a chain but they never
\* leave a gap or a dangling link.  Blocks lost outside the service may.
LinksResolve == lost = {} => \A b \in ledger : Rooted(b.mine, b.seq, b.prev)

Forked(M) ==
    \E b, c \in Chain(M) : b # c /\ b.mine = c.mine /\ b.seq = c.seq

Tampered(M) == \E b \in Chain(M) : ~Intact(b)

\* A verification answers "valid" exactly when no payload differs from the one
\* hashed and no two blocks of a mine have the same number: with nothing lost, a
\* chain break is reported for a fork and for nothing else, in every order the
\* sort may return equal numbers in (verify_ledger_integrity, lines 140-196).
VerdictExact ==
    lost = {} => \A M \in Scopes : \A s \in Scans(M) :
        IsValid(s) <=> (~Tampered(M) /\ ~Forked(M))

\* On a chain that is not forked a failed verification names the first block
\* whose payload was changed; on a forked one it never names a later block.
TamperLocated ==
    lost = {} => \A m \in Mine : \A s \in Scans({m}) :
        \A b \in Chain({m}) :
            /\ ~Intact(b)
            /\ \A c \in Chain({m}) : ~Intact(c) => b.seq <= c.seq
            => /\ BrokenAt(s) <= b.seq
               /\ ~Forked({m}) => BrokenAt(s) = b.seq

\* Once a verification called a history intact, every later verification that
\* answers "valid" still finds each certified block with the payload it had: no
\* falsification can hide behind later appends.
CertifiedHistoryStands ==
    lost = {} => \A M \in Scopes :
        (\E s \in Scans(M) : IsValid(s)) =>
            {f \in certified : f[1] \in M} \subseteq Facts(M)

\* When a block's predecessor is gone, no verification of its mine answers
\* "valid": a hole in a chain is always reported, falsifications and forks or not.
HoleReported ==
    \A M \in Scopes : \A s \in Scans(M) :
        (\E b \in Chain(M) : ~Rooted(b.mine, b.seq, b.prev)) => ~IsValid(s)

\* A chain nobody falsified verifies.
NoFalseAlarm ==
    \A M \in Scopes : \A s \in Scans(M) : ~Tampered(M) => IsValid(s)

SameSeal(b, c) ==
    /\ b.id = c.id
    /\ b.mine = c.mine
    /\ b.seq = c.seq
    /\ b.prev = c.prev
    /\ b.hash = c.hash

\* No step of the service removes a block or changes its number, link or digest:
\* whole-document saves of stale copies included.
SealKept ==
    [][\A b \in ledger :
         \/ b \in lost'
         \/ \E c \in ledger' : SameSeal(b, c)]_vars
===============================================================================
