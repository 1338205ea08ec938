-------------------------- MODULE AuditLedgerProofs --------------------------
(***************************************************************************)
(* What holds of the audit ledger for every set of mines, handlers,        *)
(* payloads and document ids.                                              *)
(*                                                                         *)
(* The inductive invariant speaks of every block there has been (Known),   *)
(* because a stale whole-document save may bring a lost block back: links  *)
(* resolve among known blocks (KnownLinks), what a handler is about to     *)
(* write agrees with them (HandlersSound), and what was certified is what  *)
(* the digest of a known block seals (CertifiedSealed).                    *)
(***************************************************************************)
EXTENDS MCAuditLedger, SequenceTheorems, FunctionTheorems,
        FiniteSetTheorems, WellFoundedInduction, TLAPS

KnownRoot(m, n, p) ==
    \/ n = 1 /\ p = GENESIS
    \/ \E c \in Known : c.mine = m /\ c.hash = p /\ n = c.seq + 1

\* The copy a handler is about to save carries the seal of a known block, and
\* the link a handler is about to insert leads to one.
HandlerSound(h) ==
    /\ handler[h].pc = "found" =>
           \E c \in Known : SameSeal(handler[h].block, c)
    /\ handler[h].pc = "read" =>
           KnownRoot(handler[h].mine, handler[h].seq, handler[h].prev)

HandlersSound == \A h \in Handler : HandlerSound(h)

KnownLinks == \A b \in Known : KnownRoot(b.mine, b.seq, b.prev)

CertifiedSealed ==
    \A f \in certified : \E c \in Known :
        /\ c.mine = f[1]
        /\ c.seq = f[2]
        /\ c.hash = Digest(f[1], f[2], c.prev, f[3])

IInv == TypeOK /\ HandlersSound /\ KnownLinks /\ CertifiedSealed

USE LedgerAssumption

-----------------------------------------------------------------------------
\* A block built from a handler that has read its link is a block.
LEMMA NewBlockIsBlock ==
    ASSUME NEW r, NEW i \in BlockId, IsHandler(r), r.pc = "read"
    PROVE  /\ IsBlock(NewBlock(r, i))
           /\ NewBlock(r, i).id = i
           /\ NewBlock(r, i).mine = r.mine
           /\ NewBlock(r, i).seq = r.seq
           /\ NewBlock(r, i).prev = r.prev
<1>1. /\ r.mine \in Mine /\ r.payload \in Payload
      /\ r.seq \in Nat \ {0}
  BY DEF IsHandler, Idle
<1>2. QED
  BY <1>1 DEF IsBlock, NewBlock

\* Writing another payload into a block keeps its seal and its shape.
LEMMA FalsifiedIsBlock ==
    ASSUME NEW b, NEW v \in Payload, IsBlock(b)
    PROVE  /\ IsBlock([b EXCEPT !.payload = v])
           /\ SameSeal([b EXCEPT !.payload = v], b)
<1> DEFINE c == [b EXCEPT !.payload = v]
<1>1. /\ b = [id |-> b.id, mine |-> b.mine, seq |-> b.seq, prev |-> b.prev,
              payload |-> b.payload, hash |-> b.hash]
      /\ b.id \in BlockId
      /\ b.mine \in Mine
      /\ b.seq \in Nat \ {0}
      /\ \E d \in Payload : b.hash = Digest(b.mine, b.seq, b.prev, d)
  BY DEF IsBlock
<1>2. c = [id |-> b.id, mine |-> b.mine, seq |-> b.seq, prev |-> b.prev,
           payload |-> v, hash |-> b.hash]
  BY <1>1
<1> HIDE DEF c
<1>3. /\ c.id = b.id /\ c.mine = b.mine /\ c.seq = b.seq /\ c.prev = b.prev
      /\ c.payload = v /\ c.hash = b.hash
  BY <1>2
<1>4. IsBlock(c) /\ SameSeal(c, b)
  BY <1>1, <1>2, <1>3 DEF IsBlock, SameSeal
<1>5. QED
  BY <1>4 DEF c

\* The two ways the handlers' steps change what is known.
Inserts(b) == Known' = Known \cup {b}
Rewrites(b) == Known' = {c \in Known : c.id # b.id} \cup {b}

-----------------------------------------------------------------------------
(* Type correctness.                                                       *)

LEMMA InitTypeOK == Init => TypeOK
BY DEF Init, TypeOK, Known, IsHandler, Idle

LEMMA LinkTyped ==
    ASSUME TypeOK, NEW m \in Mine, NEW link \in NextLink(m)
    PROVE  /\ link = [seq |-> link.seq, prev |-> link.prev]
           /\ link.seq \in Nat \ {0}
           /\ KnownRoot(m, link.seq, link.prev)
<1>1. CASE Chain({m}) = {}
  BY <1>1 DEF NextLink, KnownRoot
<1>2. CASE Chain({m}) # {}
  <2>1. PICK b \in Newest(m) : link = [seq |-> b.seq + 1, prev |-> b.hash]
    BY <1>2 DEF NextLink
  <2>2. b \in Known /\ b.mine = m
    BY <2>1 DEF Newest, Chain, Known
  <2>3. b.seq \in Nat \ {0}
    BY <2>2 DEF TypeOK, IsBlock
  <2>4. QED
    BY <2>1, <2>2, <2>3 DEF KnownRoot
<1>3. QED
  BY <1>1, <1>2

LEMMA NextTypeOK == TypeOK /\ [Next]_vars => TypeOK'
<1> SUFFICES ASSUME TypeOK, [Next]_vars
             PROVE  TypeOK'
  OBVIOUS
<1>1. ASSUME NEW h \in Handler, NEW m \in Mine, NEW d \in Payload,
             Request(h, m, d)
      PROVE  TypeOK'
  BY <1>1 DEF Request, TypeOK, Known, IsHandler, IsBlock, Idle, Digest
<1>2. ASSUME NEW h \in Handler, ReadLast(h)
      PROVE  TypeOK'
  <2>1. /\ handler[h].mine \in Mine /\ handler[h].payload \in Payload
        /\ handler[h].value \in Falsified \cup {NoEdit}
    BY <1>2 DEF ReadLast, TypeOK, IsHandler, Idle
  <2>2. PICK link \in NextLink(handler[h].mine) :
          handler' = [handler EXCEPT
            ![h] = [pc |-> "read", mine |-> @.mine, payload |-> @.payload,
                    value |-> @.value, seq |-> link.seq, prev |-> link.prev]]
    BY <1>2 DEF ReadLast
  <2>3. link.seq \in Nat \ {0}
    BY <2>1, <2>2, LinkTyped
  <2>4. IsHandler(handler'[h])
    BY <2>1, <2>2, <2>3 DEF IsHandler, TypeOK
  <2>5. /\ DOMAIN handler' = Handler
        /\ \A g \in Handler : IsHandler(handler'[g])
    BY <2>2, <2>4 DEF TypeOK
  <2>6. QED
    BY <1>2, <2>5 DEF ReadLast, TypeOK, Known
<1>3. ASSUME NEW h \in Handler, InsertBlock(h)
      PROVE  TypeOK'
  <2>1. IsHandler(handler[h]) /\ handler[h].pc = "read"
    BY <1>3 DEF InsertBlock, TypeOK
  <2>2. PICK i \in Unused :
          /\ ledger' = ledger \cup {NewBlock(handler[h], i)}
          /\ handler' = [handler EXCEPT
               ![h] = IF @.value = NoEdit
                      THEN Idle
                      ELSE [pc |-> "found", block |-> NewBlock(handler[h], i),
                            value |-> @.value]]
          /\ UNCHANGED <<lost, certified>>
    BY <1>3 DEF InsertBlock
  <2> DEFINE b == NewBlock(handler[h], i)
  <2>3. IsBlock(b) /\ b.id = i
    BY <2>1, <2>2, NewBlockIsBlock DEF Unused
  <2>4. handler[h].value \in Falsified \cup {NoEdit}
    BY <2>1 DEF IsHandler, Idle
  <2>5. Inserts(b)
    BY <2>2 DEF Inserts, Known
  <2>6. \A c \in Known : c.id # b.id
    BY <2>2, <2>3 DEF Unused
  <2> HIDE DEF b
  <2>7. IsHandler(handler'[h])
    BY <2>2, <2>3, <2>4 DEF IsHandler, TypeOK, b
  <2>8. \A g \in Handler : IsHandler(handler'[g])
    BY <2>2, <2>7 DEF TypeOK
  <2>9. DOMAIN handler' = Handler /\ certified' = certified
    BY <2>2 DEF TypeOK
  <2>10. /\ \A c \in Known' : IsBlock(c)
         /\ \A c, e \in Known' : c.id = e.id => c = e
    BY <2>3, <2>5, <2>6 DEF TypeOK, Inserts
  <2>11. QED
    BY <2>8, <2>9, <2>10 DEF TypeOK
<1>4. ASSUME NEW h \in Handler, NEW m \in Mine, NEW n, NEW d \in Payload,
             NEW v \in Falsified, FindToFalsify(h, m, n, d, v)
      PROVE  TypeOK'
  <2>1. /\ \A g \in Handler \ {h} : handler'[g] = handler[g]
        /\ DOMAIN handler' = Handler
        /\ IsHandler(handler'[h])
    BY <1>4 DEF FindToFalsify, TypeOK, IsHandler, Chain, Known
  <2>2. QED
    BY <1>4, <2>1 DEF FindToFalsify, TypeOK, Known
<1>5. ASSUME NEW h \in Handler, SaveFalsified(h)
      PROVE  TypeOK'
  <2>1. IsBlock(handler[h].block) /\ handler[h].value \in Payload
    BY <1>5 DEF SaveFalsified, TypeOK, IsHandler, Idle
  <2> DEFINE b == [handler[h].block EXCEPT !.payload = handler[h].value]
  <2>2. IsBlock(b) /\ b.id = handler[h].block.id
    BY <2>1, FalsifiedIsBlock DEF SameSeal
  <2>3. Rewrites(b)
    BY <1>5, <2>2 DEF SaveFalsified, Rewrites, Known
  <2> HIDE DEF b
  <2>4. /\ \A c \in Known' : IsBlock(c)
        /\ \A c, e \in Known' : c.id = e.id => c = e
    BY <2>2, <2>3 DEF TypeOK, Rewrites
  <2>5. /\ DOMAIN handler' = Handler
        /\ \A g \in Handler : IsHandler(handler'[g])
    BY <1>5 DEF SaveFalsified, TypeOK, IsHandler
  <2>6. QED
    BY <1>5, <2>4, <2>5 DEF SaveFalsified, TypeOK
<1>6. ASSUME NEW h \in Handler, Abort(h)
      PROVE  TypeOK'
  BY <1>6 DEF Abort, TypeOK, Known, IsHandler
<1>7. ASSUME NEW M \in Scopes, Verify(M)
      PROVE  TypeOK'
  <2>1. Facts(M) \subseteq Mine \X (Nat \ {0}) \X Payload
    BY DEF Facts, Chain, TypeOK, Known, IsBlock
  <2>2. QED
    BY <1>7, <2>1 DEF Verify, TypeOK, Known
<1>8. ASSUME NEW b \in ledger, LoseBlock(b)
      PROVE  TypeOK'
  <2>1. Known' = Known
    BY <1>8 DEF LoseBlock, Known
  <2>2. QED
    BY <1>8, <2>1 DEF LoseBlock, TypeOK
<1>9. CASE UNCHANGED vars
  BY <1>9 DEF vars, TypeOK, Known
<1>10. QED
  BY <1>1, <1>2, <1>3, <1>4, <1>5, <1>6, <1>7, <1>8, <1>9 DEF Next

\* Every document and handler state keeps its shape, and an id names one
\* document (audit_service.append and simulate_tamper, lines 49-88 and 206-239).
THEOREM TypeCorrect == Spec => []TypeOK
BY InitTypeOK, NextTypeOK, PTL DEF Spec

-----------------------------------------------------------------------------
(* The inductive invariant.                                                *)

SealsKept == \A c \in Known : \E e \in Known' : SameSeal(c, e)

\* Whatever the step, a known block stays known under the same seal.
LEMMA StepKeepsSeals ==
    ASSUME TypeOK, HandlersSound, [Next]_vars
    PROVE  SealsKept
<1>1. ASSUME NEW h \in Handler, InsertBlock(h)
      PROVE  SealsKept
  BY <1>1 DEF InsertBlock, SealsKept, Known, SameSeal
<1>2. ASSUME NEW h \in Handler, SaveFalsified(h)
      PROVE  SealsKept
  <2>1. IsBlock(handler[h].block) /\ handler[h].value \in Payload
    BY <1>2 DEF SaveFalsified, TypeOK, IsHandler, Idle
  <2> DEFINE b == [handler[h].block EXCEPT !.payload = handler[h].value]
  <2>2. SameSeal(b, handler[h].block)
    BY <2>1, FalsifiedIsBlock
  <2>3. Rewrites(b)
    BY <1>2, <2>2 DEF SaveFalsified, Rewrites, Known, SameSeal
  <2>4. PICK k \in Known : SameSeal(handler[h].block, k)
    BY <1>2 DEF HandlersSound, HandlerSound, SaveFalsified
  <2> HIDE DEF b
  <2>5. SameSeal(k, b) /\ k.id = b.id
    BY <2>2, <2>4 DEF SameSeal
  <2>6. ASSUME NEW c \in Known
        PROVE  \E e \in Known' : SameSeal(c, e)
    <3>1. CASE c.id = b.id
      <4>1. c = k
        BY <2>5, <3>1 DEF TypeOK
      <4>2. QED
        BY <2>3, <2>5, <4>1 DEF Rewrites
    <3>2. CASE c.id # b.id
      BY <2>3, <3>2 DEF Rewrites, SameSeal
    <3>3. QED
      BY <3>1, <3>2
  <2>7. QED
    BY <2>6 DEF SealsKept
<1>3. ASSUME NEW b \in ledger, LoseBlock(b)
      PROVE  SealsKept
  BY <1>3 DEF LoseBlock, SealsKept, Known, SameSeal
<1>4. ASSUME UNCHANGED <<ledger, lost>>
      PROVE  SealsKept
  BY <1>4 DEF SealsKept, Known, SameSeal
<1>5. QED
  BY <1>1, <1>2, <1>3, <1>4
     DEF Next, vars, Request, ReadLast, FindToFalsify, Abort, Verify

\* So what a link points at stays there.
LEMMA RootStays ==
    ASSUME SealsKept, NEW m, NEW n, NEW p, KnownRoot(m, n, p)
    PROVE  KnownRoot(m, n, p)'
BY DEF SealsKept, KnownRoot, SameSeal

LEMMA CertifiedStays ==
    ASSUME SealsKept, CertifiedSealed, certified' = certified
    PROVE  CertifiedSealed'
BY DEF SealsKept, CertifiedSealed, SameSeal

\* A handler the step leaves alone stays sound.
LEMMA OthersSound ==
    ASSUME SealsKept, NEW h \in Handler, HandlerSound(h),
           handler'[h] = handler[h]
    PROVE  HandlerSound(h)'
<1>1. ASSUME handler[h].pc = "found"
      PROVE  \E c \in Known' : SameSeal(handler[h].block, c)
  <2>1. PICK c \in Known : SameSeal(handler[h].block, c)
    BY <1>1 DEF HandlerSound
  <2>2. PICK e \in Known' : SameSeal(c, e)
    BY DEF SealsKept
  <2>3. QED
    BY <2>1, <2>2 DEF SameSeal
<1>2. ASSUME handler[h].pc = "read"
      PROVE  KnownRoot(handler[h].mine, handler[h].seq, handler[h].prev)'
  <2>1. KnownRoot(handler[h].mine, handler[h].seq, handler[h].prev)
    BY <1>2 DEF HandlerSound
  <2> DEFINE m == handler[h].mine
             n == handler[h].seq
             p == handler[h].prev
  <2>2. KnownRoot(m, n, p)
    BY <2>1
  <2>3. /\ handler'[h].mine = m /\ handler'[h].seq = n
        /\ handler'[h].prev = p
    OBVIOUS
  <2> HIDE DEF m, n, p
  <2>4. \/ n = 1 /\ p = GENESIS
        \/ \E c \in Known' : c.mine = m /\ c.hash = p /\ n = c.seq + 1
    BY <2>2 DEF KnownRoot, SealsKept, SameSeal
  <2>5. QED
    BY <2>3, <2>4 DEF KnownRoot
<1>3. QED
  BY <1>1, <1>2 DEF HandlerSound

LEMMA InitIInv == Init => IInv
BY InitTypeOK DEF Init, IInv, HandlersSound, HandlerSound, KnownLinks,
                  CertifiedSealed, Known, Idle

LEMMA NextIInv == IInv /\ [Next]_vars => IInv'
<1> SUFFICES ASSUME IInv, [Next]_vars
             PROVE  IInv'
  OBVIOUS
<1> USE DEF IInv
<1>1. TypeOK' /\ SealsKept
  BY NextTypeOK, StepKeepsSeals
<1>2. ASSUME UNCHANGED <<ledger, lost, certified>>,
             NEW h \in Handler, HandlerSound(h)',
             \A g \in Handler \ {h} : handler'[g] = handler[g]
      PROVE  IInv'
  <2>1. HandlersSound'
    BY <1>1, <1>2, OthersSound DEF HandlersSound
  <2>2. Known' = Known
    BY <1>2 DEF Known
  <2>3. KnownLinks' /\ CertifiedSealed'
    BY <1>2, <2>2 DEF KnownLinks, KnownRoot, CertifiedSealed
  <2>4. QED
    BY <1>1, <2>1, <2>3
<1>3. ASSUME NEW h \in Handler, NEW m \in Mine, NEW d \in Payload,
             Request(h, m, d)
      PROVE  IInv'
  <2>1. HandlerSound(h)'
    BY <1>3 DEF Request, HandlerSound, TypeOK
  <2>2. QED
    BY <1>2, <1>3, <2>1 DEF Request, TypeOK
<1>4. ASSUME NEW h \in Handler, ReadLast(h)
      PROVE  IInv'
  <2>1. handler[h].mine \in Mine
    BY <1>4 DEF ReadLast, TypeOK, IsHandler, Idle
  <2>2. PICK link \in NextLink(handler[h].mine) :
          handler' = [handler EXCEPT
            ![h] = [pc |-> "read", mine |-> @.mine, payload |-> @.payload,
                    value |-> @.value, seq |-> link.seq, prev |-> link.prev]]
    BY <1>4 DEF ReadLast
  <2>3. KnownRoot(handler[h].mine, link.seq, link.prev)
    BY <2>1, <2>2, LinkTyped
  <2>4. Known' = Known
    BY <1>4 DEF ReadLast, Known
  <2>5. /\ handler'[h].pc = "read" /\ handler'[h].mine = handler[h].mine
        /\ handler'[h].seq = link.seq /\ handler'[h].prev = link.prev
    BY <2>2 DEF TypeOK
  <2>6. HandlerSound(h)'
    BY <2>3, <2>4, <2>5 DEF HandlerSound, KnownRoot
  <2>7. QED
    BY <1>2, <1>4, <2>2, <2>6 DEF ReadLast, TypeOK
<1>5. ASSUME NEW h \in Handler, InsertBlock(h)
      PROVE  IInv'
  <2>1. IsHandler(handler[h]) /\ handler[h].pc = "read"
    BY <1>5 DEF InsertBlock, TypeOK
  <2>2. PICK i \in Unused :
          /\ ledger' = ledger \cup {NewBlock(handler[h], i)}
          /\ handler' = [handler EXCEPT
               ![h] = IF @.value = NoEdit
                      THEN Idle
                      ELSE [pc |-> "found", block |-> NewBlock(handler[h], i),
                            value |-> @.value]]
          /\ UNCHANGED <<lost, certified>>
    BY <1>5 DEF InsertBlock
  <2> DEFINE b == NewBlock(handler[h], i)
  <2>3. /\ b.mine = handler[h].mine /\ b.seq = handler[h].seq
        /\ b.prev = handler[h].prev
    BY DEF NewBlock
  <2>4. Inserts(b)
    BY <2>2 DEF Inserts, Known
  <2>5. KnownRoot(b.mine, b.seq, b.prev)
    BY <2>1, <2>3 DEF HandlersSound, HandlerSound
  <2>6. \/ handler'[h] = Idle
        \/ handler'[h].pc = "found" /\ handler'[h].block = b
    BY <2>2 DEF TypeOK
  <2> HIDE DEF b
  <2>7. HandlerSound(h)'
    BY <2>4, <2>6 DEF HandlerSound, Inserts, SameSeal, Idle
  <2>8. HandlersSound'
    BY <1>1, <2>2, <2>7, OthersSound DEF HandlersSound, TypeOK
  <2>9. KnownLinks'
    BY <2>4, <2>5 DEF KnownLinks, KnownRoot, Inserts
  <2>10. CertifiedSealed'
    BY <1>1, <2>2, CertifiedStays
  <2>11. QED
    BY <1>1, <2>8, <2>9, <2>10
<1>6. ASSUME NEW h \in Handler, NEW m \in Mine, NEW n, NEW d \in Payload,
             NEW v \in Falsified, FindToFalsify(h, m, n, d, v)
      PROVE  IInv'
  <2>1. HandlerSound(h)'
    BY <1>6 DEF FindToFalsify, HandlerSound, TypeOK, Chain, Known, SameSeal
  <2>2. QED
    BY <1>2, <1>6, <2>1 DEF FindToFalsify, TypeOK
<1>7. ASSUME NEW h \in Handler, SaveFalsified(h)
      PROVE  IInv'
  <2>1. IsBlock(handler[h].block) /\ handler[h].value \in Payload
    BY <1>7 DEF SaveFalsified, TypeOK, IsHandler, Idle
  <2> DEFINE b == [handler[h].block EXCEPT !.payload = handler[h].value]
  <2>2. SameSeal(b, handler[h].block)
    BY <2>1, FalsifiedIsBlock
  <2>3. Rewrites(b)
    BY <1>7, <2>2 DEF SaveFalsified, Rewrites, Known, SameSeal
  <2>4. PICK k \in Known : SameSeal(handler[h].block, k)
    BY <1>7 DEF HandlersSound, HandlerSound, SaveFalsified
  <2>5. b.mine = k.mine /\ b.seq = k.seq /\ b.prev = k.prev
    BY <2>2, <2>4 DEF SameSeal
  <2> HIDE DEF b
  <2>6. ASSUME NEW c \in Known'
        PROVE  KnownRoot(c.mine, c.seq, c.prev)'
    <3>1. PICK e \in Known : /\ c.mine = e.mine /\ c.seq = e.seq
                             /\ c.prev = e.prev
      BY <2>3, <2>5 DEF Rewrites
    <3>2. KnownRoot(e.mine, e.seq, e.prev)
      BY DEF KnownLinks
    <3>3. QED
      BY <1>1, <3>1, <3>2 DEF KnownRoot, SealsKept, SameSeal
  <2>7. HandlerSound(h)'
    BY <1>7 DEF SaveFalsified, HandlerSound, TypeOK, Idle
  <2>8. HandlersSound'
    BY <1>1, <1>7, <2>7, OthersSound DEF SaveFalsified, HandlersSound, TypeOK
  <2>9. KnownLinks'
    BY <2>6 DEF KnownLinks
  <2>10. CertifiedSealed'
    BY <1>1, <1>7, CertifiedStays DEF SaveFalsified
  <2>11. QED
    BY <1>1, <2>8, <2>9, <2>10
<1>8. ASSUME NEW h \in Handler, Abort(h)
      PROVE  IInv'
  <2>1. HandlerSound(h)'
    BY <1>8 DEF Abort, HandlerSound, TypeOK, Idle
  <2>2. QED
    BY <1>2, <1>8, <2>1 DEF Abort, TypeOK
<1>9. ASSUME UNCHANGED Known, UNCHANGED handler, CertifiedSealed'
      PROVE  IInv'
  BY <1>1, <1>9 DEF HandlersSound, HandlerSound, KnownLinks, KnownRoot
<1>10. ASSUME NEW M \in Scopes, Verify(M)
       PROVE  IInv'
  <2>1. PICK s \in Scans(M) : IsValid(s)
    BY <1>10 DEF Verify
  <2>2. ASSUME NEW b \in Chain(M)
        PROVE  Intact(b)
    BY <2>1 DEF Scans, IsValid, Sound, Bijection, Surjection
  <2>3. Known' = Known /\ certified' = certified \cup Facts(M)
    BY <1>10 DEF Verify, Known
  <2>4. ASSUME NEW f \in Facts(M)
        PROVE  \E c \in Known :
                 /\ c.mine = f[1] /\ c.seq = f[2]
                 /\ c.hash = Digest(f[1], f[2], c.prev, f[3])
    BY <2>2 DEF Facts, Chain, Known, Intact
  <2>5. CertifiedSealed'
    BY <2>3, <2>4 DEF CertifiedSealed
  <2>6. QED
    BY <1>9, <1>10, <2>3, <2>5 DEF Verify
<1>11. ASSUME NEW b \in ledger, LoseBlock(b)
       PROVE  IInv'
  <2>1. Known' = Known
    BY <1>11 DEF LoseBlock, Known
  <2>2. QED
    BY <1>9, <1>11, <2>1 DEF LoseBlock, CertifiedSealed
<1>12. CASE UNCHANGED vars
  BY <1>9, <1>12 DEF vars, Known, CertifiedSealed
<1>13. QED
  BY <1>3, <1>4, <1>5, <1>6, <1>7, <1>8, <1>10, <1>11, <1>12 DEF Next

LEMMA Invariance == Spec => []IInv
BY InitIInv, NextIInv, PTL DEF Spec

\* Every link leads to a block of its own mine with the number before it, for
\* any number of handlers (audit_service.append, lines 61-88).
THEOREM LinksAlwaysResolve == Spec => []LinksResolve
<1>1. IInv => LinksResolve
  BY DEF IInv, LinksResolve, KnownLinks, KnownRoot, Rooted, Known
<1>2. QED
  BY <1>1, Invariance, PTL

\* No step removes a block or changes its seal, stale saves included
\* (audit_service.simulate_tamper, lines 217-239).
THEOREM SealsAlwaysKept == Spec => SealKept
<1>1. IInv /\ [Next]_vars =>
        [\A b \in ledger : \/ b \in lost'
                           \/ \E c \in ledger' : SameSeal(b, c)]_vars
  <2> SUFFICES ASSUME IInv, [Next]_vars, NEW b \in ledger, b \notin lost'
               PROVE  \E c \in ledger' : SameSeal(b, c)
    OBVIOUS
  <2>1. PICK c \in Known' : SameSeal(b, c)
    BY StepKeepsSeals DEF IInv, SealsKept, Known
  <2>2. CASE c \in ledger'
    BY <2>1, <2>2
  <2>3. CASE c \in lost'
    <3>1. CASE ledger \subseteq ledger'
      BY <3>1 DEF SameSeal
    <3>2. ASSUME NEW h \in Handler, SaveFalsified(h)
          PROVE  \E e \in ledger' : SameSeal(b, e)
      <4>1. lost' \subseteq lost
        BY <3>2 DEF SaveFalsified
      <4>2. c = b
        BY <2>1, <2>3, <4>1 DEF IInv, TypeOK, Known, SameSeal
      <4>3. QED
        BY <2>3, <4>2
    <3>3. ASSUME NEW e \in ledger, LoseBlock(e)
          PROVE  \E x \in ledger' : SameSeal(b, x)
      BY <3>3 DEF LoseBlock, SameSeal
    <3>4. QED
      BY <3>1, <3>2, <3>3
         DEF Next, vars, Request, ReadLast, InsertBlock, FindToFalsify, Abort,
             Verify
  <2>4. QED
    BY <2>2, <2>3 DEF Known
<1>2. QED
  BY <1>1, Invariance, PTL DEF Spec, SealKept

-----------------------------------------------------------------------------
(* What a verification says.                                               *)

LEMMA DigestInjective ==
    ASSUME NEW m1, NEW n1, NEW p1, NEW d1, NEW m2, NEW n2, NEW p2, NEW d2
    PROVE  /\ Digest(m1, n1, p1, d1) = Digest(m2, n2, p2, d2)
                => m1 = m2 /\ n1 = n2 /\ p1 = p2 /\ d1 = d2
           /\ Digest(m1, n1, p1, d1) # GENESIS
BY DEF Digest, GENESIS

LEMMA InitFinite == Init => IsFiniteSet(Known)
BY FS_EmptySet DEF Init, Known

LEMMA NextFinite ==
    IsFiniteSet(Known) /\ [Next]_vars => IsFiniteSet(Known)'
<1> SUFFICES ASSUME IsFiniteSet(Known), [Next]_vars
             PROVE  IsFiniteSet(Known')
  OBVIOUS
<1>1. \E b : Known' \subseteq Known \cup {b}
  <2>1. ASSUME NEW h \in Handler, InsertBlock(h)
        PROVE  \E b : Known' \subseteq Known \cup {b}
    BY <2>1 DEF InsertBlock, Known
  <2>2. ASSUME NEW h \in Handler, SaveFalsified(h)
        PROVE  \E b : Known' \subseteq Known \cup {b}
    BY <2>2 DEF SaveFalsified, Known
  <2>3. ASSUME Known' \subseteq Known
        PROVE  \E b : Known' \subseteq Known \cup {b}
    BY <2>3
  <2>4. ASSUME UNCHANGED <<ledger, lost>>
        PROVE  Known' \subseteq Known
    BY <2>4 DEF Known
  <2>5. ASSUME NEW b \in ledger, LoseBlock(b)
        PROVE  Known' \subseteq Known
    BY <2>5 DEF LoseBlock, Known
  <2>6. QED
    BY <2>1, <2>2, <2>3, <2>4, <2>5
       DEF Next, vars, Request, ReadLast, FindToFalsify, Abort, Verify
<1>2. PICK b : Known' \subseteq Known \cup {b}
  BY <1>1
<1>3. IsFiniteSet(Known \cup {b})
  BY FS_AddElement
<1>4. QED
  BY <1>2, <1>3, FS_Subset

LEMMA Finiteness == Spec => []IsFiniteSet(Known)
BY InitFinite, NextFinite, PTL DEF Spec

\* A scan numbers the blocks of its mines.
LEMMA ScanFacts ==
    ASSUME IInv, IsFiniteSet(Known), NEW M \in SUBSET Mine, NEW s \in Scans(M)
    PROVE  /\ Cardinality(Chain(M)) \in Nat
           /\ DOMAIN s = 1..Cardinality(Chain(M))
           /\ \A k \in DOMAIN s : s[k] \in Chain(M)
           /\ \A b \in Chain(M) : \E k \in DOMAIN s : s[k] = b
           /\ \A i, j \in DOMAIN s : s[i] = s[j] => i = j
           /\ \A i, j \in DOMAIN s : i < j => s[i].seq <= s[j].seq
           /\ \A b \in Chain(M) : b \in Known /\ IsBlock(b) /\ b.mine \in M
<1>1. Chain(M) \in SUBSET Known
  BY DEF Chain, Known
<1>2. Cardinality(Chain(M)) \in Nat
  BY <1>1, FS_Subset, FS_CardinalityType
<1>3. QED
  BY <1>1, <1>2 DEF Scans, Bijection, Injection, Surjection, IsInjective,
                    Chain, IInv, TypeOK

LEMMA ValidMeansIntactLine ==
    ASSUME IInv, IsFiniteSet(Known), NEW M \in SUBSET Mine, NEW s \in Scans(M),
           IsValid(s)
    PROVE  ~Tampered(M) /\ ~Forked(M)
<1>1. ~Tampered(M)
  BY ScanFacts DEF Tampered, IsValid, Sound
<1>2. ASSUME NEW i \in DOMAIN s, NEW j \in DOMAIN s, i < j,
             s[i].mine = s[j].mine, s[i].seq = s[j].seq
      PROVE  FALSE
  <2> DEFINE before == {k \in 1..(j - 1) : s[k].mine = s[j].mine}
  <2>1. i \in before
    BY <1>2, ScanFacts
  <2>2. PICK a \in before : i <= a /\ s[j].prev = s[a].hash
    BY <1>2, <2>1 DEF IsValid, Sound, Linked
  <2>3. a \in DOMAIN s /\ a < j /\ s[a].mine = s[j].mine
    BY <1>2, <2>2, ScanFacts
  <2>4. s[a].hash = Digest(s[a].mine, s[a].seq, s[a].prev, s[a].payload)
    BY <2>3 DEF IsValid, Sound, Intact
  <2>5. s[j].prev # GENESIS
    BY <2>2, <2>4, DigestInjective
  <2>6. KnownRoot(s[j].mine, s[j].seq, s[j].prev)
    BY ScanFacts DEF IInv, KnownLinks
  <2>7. PICK c \in Known : c.hash = s[j].prev /\ s[j].seq = c.seq + 1
    BY <2>5, <2>6 DEF KnownRoot
  <2>8. c.seq = s[a].seq
    <3>1. PICK d \in Payload : c.hash = Digest(c.mine, c.seq, c.prev, d)
      BY DEF IInv, TypeOK, IsBlock
    <3>2. Digest(c.mine, c.seq, c.prev, d)
            = Digest(s[a].mine, s[a].seq, s[a].prev, s[a].payload)
      BY <2>2, <2>4, <2>7, <3>1
    <3>3. QED
      BY <3>2, DigestInjective
  <2>9. s[i].seq <= s[a].seq
    BY <2>2, <2>3, ScanFacts DEF IsBlock
  <2>10. s[a].seq \in Nat /\ s[j].seq \in Nat
    BY <2>3, ScanFacts DEF IsBlock
  <2>11. QED
    BY <1>2, <2>7, <2>8, <2>9, <2>10
<1>3. ASSUME Forked(M)
      PROVE  FALSE
  <2>1. PICK b \in Chain(M), c \in Chain(M) :
          b # c /\ b.mine = c.mine /\ b.seq = c.seq
    BY <1>3 DEF Forked
  <2>2. PICK i \in DOMAIN s, j \in DOMAIN s : s[i] = b /\ s[j] = c
    BY ScanFacts
  <2>3. i < j \/ j < i
    BY <2>1, <2>2, ScanFacts
  <2>4. QED
    BY <1>2, <2>1, <2>2, <2>3
<1>4. QED
  BY <1>1, <1>3

\* Without a fork and with nothing lost, every link check of a scan succeeds.
LEMMA UnforkedIsLinked ==
    ASSUME IInv, IsFiniteSet(Known), lost = {}, NEW M \in SUBSET Mine,
           NEW s \in Scans(M), ~Forked(M), NEW k \in DOMAIN s
    PROVE  Linked(s, k)
<1> DEFINE before == {j \in 1..(k - 1) : s[j].mine = s[k].mine}
<1>1. \A j \in before : /\ j \in DOMAIN s /\ j < k
                        /\ s[j].mine = s[k].mine
                        /\ s[j].seq <= s[k].seq
                        /\ s[j].seq # s[k].seq
                        /\ s[j].seq \in Nat \ {0}
  <2> SUFFICES ASSUME NEW j \in before
               PROVE  /\ j \in DOMAIN s /\ j < k
                      /\ s[j].mine = s[k].mine
                      /\ s[j].seq <= s[k].seq
                      /\ s[j].seq # s[k].seq
                      /\ s[j].seq \in Nat \ {0}
    OBVIOUS
  <2>1. j \in DOMAIN s /\ j < k /\ s[j].mine = s[k].mine
    BY ScanFacts
  <2>2. s[j] # s[k] /\ s[j] \in Chain(M) /\ s[k] \in Chain(M)
    BY <2>1, ScanFacts
  <2>3. QED
    BY <2>1, <2>2, ScanFacts DEF Forked, IsBlock
<1>2. s[k] \in Known /\ s[k].seq \in Nat \ {0} /\ s[k].mine \in M
  BY ScanFacts DEF IsBlock
<1>3. KnownRoot(s[k].mine, s[k].seq, s[k].prev)
  BY <1>2 DEF IInv, KnownLinks
<1>4. CASE s[k].seq = 1 /\ s[k].prev = GENESIS
  <2>1. before = {}
    BY <1>1, <1>4
  <2>2. QED
    BY <1>4, <2>1 DEF Linked
<1>5. CASE \E c \in Known : /\ c.mine = s[k].mine /\ c.hash = s[k].prev
                            /\ s[k].seq = c.seq + 1
  <2>1. PICK c \in Known : /\ c.mine = s[k].mine /\ c.hash = s[k].prev
                           /\ s[k].seq = c.seq + 1
    BY <1>5
  <2>2. c \in Chain(M)
    BY <1>2, <2>1 DEF Chain, Known
  <2>3. PICK j \in DOMAIN s : s[j] = c
    BY <2>2, ScanFacts
  <2>4. s[j].seq \in Nat
    BY <2>2, <2>3, ScanFacts DEF IsBlock
  <2>5. j < k
    <3>1. ~(k < j)
      BY <2>1, <2>3, <2>4, ScanFacts
    <3>2. j # k
      BY <2>1, <2>3, <2>4
    <3>3. QED
      BY <3>1, <3>2, ScanFacts
  <2>6. j \in before
    BY <2>1, <2>3, <2>5, ScanFacts
  <2>7. ASSUME NEW i \in before
        PROVE  i <= j
    <3>1. SUFFICES ASSUME j < i
                   PROVE  FALSE
      BY <2>6
    <3>2. i \in DOMAIN s /\ s[j].seq <= s[i].seq /\ s[i] # s[j]
      BY <1>1, <3>1, ScanFacts
    <3>3. s[i].seq = s[j].seq
      BY <1>1, <2>1, <2>3, <2>4, <3>2
    <3>4. s[i] \in Chain(M) /\ s[j] \in Chain(M) /\ s[i].mine = s[j].mine
      BY <1>1, <2>1, <2>3, <3>2, ScanFacts
    <3>5. QED
      BY <3>2, <3>3, <3>4 DEF Forked
  <2>8. QED
    BY <2>1, <2>3, <2>6, <2>7 DEF Linked
<1>6. QED
  BY <1>3, <1>4, <1>5 DEF KnownRoot

LEMMA IntactLineIsValid ==
    ASSUME IInv, IsFiniteSet(Known), lost = {}, NEW M \in SUBSET Mine,
           NEW s \in Scans(M), ~Tampered(M), ~Forked(M)
    PROVE  IsValid(s)
BY ScanFacts, UnforkedIsLinked DEF IsValid, Sound, Tampered

\* A scan without a failure leaves no block without its predecessor.
LEMMA ValidMeansRooted ==
    ASSUME IInv, IsFiniteSet(Known), NEW M \in SUBSET Mine, NEW s \in Scans(M),
           IsValid(s), NEW b \in Chain(M)
    PROVE  Rooted(b.mine, b.seq, b.prev)
<1>1. PICK k \in DOMAIN s : s[k] = b
  BY ScanFacts
<1>2. KnownRoot(b.mine, b.seq, b.prev)
  BY ScanFacts DEF IInv, KnownLinks
<1>3. Linked(s, k)
  BY DEF IsValid, Sound
<1> DEFINE before == {j \in 1..(k - 1) : s[j].mine = s[k].mine}
<1>4. CASE b.prev = GENESIS
  <2>1. ASSUME NEW c \in Known
        PROVE  c.hash # GENESIS
    BY DigestInjective DEF IInv, TypeOK, IsBlock
  <2>2. QED
    BY <1>2, <1>4, <2>1 DEF KnownRoot, Rooted
<1>5. CASE b.prev # GENESIS
  <2>1. PICK a \in before : b.prev = s[a].hash
    BY <1>1, <1>3, <1>5 DEF Linked
  <2>2. a \in DOMAIN s /\ s[a].mine = b.mine
    BY <1>1, <2>1, ScanFacts
  <2>3. s[a].hash = Digest(s[a].mine, s[a].seq, s[a].prev, s[a].payload)
    BY <2>2 DEF IsValid, Sound, Intact
  <2>4. PICK c \in Known : c.hash = b.prev /\ b.seq = c.seq + 1
    BY <1>2, <1>5 DEF KnownRoot
  <2>5. PICK d \in Payload : c.hash = Digest(c.mine, c.seq, c.prev, d)
    BY DEF IInv, TypeOK, IsBlock
  <2>6. Digest(c.mine, c.seq, c.prev, d)
          = Digest(s[a].mine, s[a].seq, s[a].prev, s[a].payload)
    BY <2>1, <2>3, <2>4, <2>5
  <2>7. c.seq = s[a].seq
    BY <2>6, DigestInjective
  <2>8. s[a] \in ledger
    BY <2>2, ScanFacts DEF Chain
  <2>9. QED
    BY <2>1, <2>2, <2>4, <2>7, <2>8 DEF Rooted
<1>6. QED
  BY <1>4, <1>5

\* A scan that fails has a first failure.
LEMMA FirstFailure ==
    ASSUME IInv, IsFiniteSet(Known), NEW M \in SUBSET Mine, NEW s \in Scans(M),
           NEW k \in DOMAIN s, ~Sound(s, k)
    PROVE  \E f \in DOMAIN s : /\ ~Sound(s, f)
                               /\ \A j \in 1..(f - 1) : Sound(s, j)
<1> DEFINE Bad == {j \in DOMAIN s : ~Sound(s, j)}
<1>1. Bad \subseteq Nat /\ k \in Bad
  BY ScanFacts
<1>2. PICK f \in Bad : \A j \in Bad : ~(<<j, f>> \in OpToRel(<, Nat))
  BY <1>1, NatLessThanWellFounded, WFMin
<1>3. \A j \in Bad : ~(j < f)
  BY <1>1, <1>2 DEF OpToRel
<1>4. \A j \in 1..(f - 1) : j \in DOMAIN s /\ j < f
  BY <1>1, ScanFacts
<1>5. QED
  BY <1>3, <1>4

\* A verification answers "valid" exactly when nothing was falsified and no
\* number was given twice, for any number of mines, handlers and blocks
\* (verify_ledger_integrity, lines 140-196).
THEOREM VerdictAlwaysExact == Spec => []VerdictExact
<1>1. \A M \in Scopes : M \in SUBSET Mine
  BY DEF Scopes
<1>2. IInv /\ IsFiniteSet(Known) => VerdictExact
  BY <1>1, ValidMeansIntactLine, IntactLineIsValid DEF VerdictExact
<1>3. QED
  BY <1>2, Invariance, Finiteness, PTL

\* What a verification once called intact is what every later "valid" answer
\* covers (verify_ledger_integrity with append and simulate_tamper).
THEOREM CertifiedAlwaysStands == Spec => []CertifiedHistoryStands
<1>1. IInv /\ IsFiniteSet(Known) => CertifiedHistoryStands
  <2> SUFFICES ASSUME IInv, IsFiniteSet(Known), lost = {},
                      NEW M \in Scopes, NEW s \in Scans(M), IsValid(s),
                      NEW f \in certified, f[1] \in M
               PROVE  f \in Facts(M)
    BY DEF CertifiedHistoryStands
  <2>1. PICK c \in Known : /\ c.mine = f[1] /\ c.seq = f[2]
                           /\ c.hash = Digest(f[1], f[2], c.prev, f[3])
    BY DEF IInv, CertifiedSealed
  <2>2. c \in Chain(M)
    BY <2>1 DEF Chain, Known
  <2>3. M \in SUBSET Mine
    BY DEF Scopes
  <2>4. Intact(c)
    BY <2>2, <2>3, ScanFacts DEF IsValid, Sound
  <2>5. Digest(f[1], f[2], c.prev, f[3])
          = Digest(c.mine, c.seq, c.prev, c.payload)
    BY <2>1, <2>4 DEF Intact
  <2>6. c.payload = f[3]
    BY <2>5, DigestInjective
  <2>7. f = <<f[1], f[2], f[3]>>
    BY DEF IInv, TypeOK
  <2>8. QED
    BY <2>1, <2>2, <2>6, <2>7 DEF Facts
<1>2. QED
  BY <1>1, Invariance, Finiteness, PTL

\* A block whose predecessor is gone makes every verification of its mine fail,
\* however many blocks were lost and whatever was falsified
\* (verify_ledger_integrity, lines 140-196).
THEOREM HoleAlwaysReported == Spec => []HoleReported
<1>1. \A M \in Scopes : M \in SUBSET Mine
  BY DEF Scopes
<1>2. IInv /\ IsFiniteSet(Known) => HoleReported
  BY <1>1, ValidMeansRooted DEF HoleReported
<1>3. QED
  BY <1>2, Invariance, Finiteness, PTL

\* A failed verification names no block after the first falsified one, and on an
\* unforked chain exactly that one (verify_ledger_integrity, lines 140-196).
THEOREM TamperAlwaysLocated == Spec => []TamperLocated
<1>1. IInv /\ IsFiniteSet(Known) => TamperLocated
  <2> SUFFICES ASSUME IInv, IsFiniteSet(Known), lost = {}, NEW m \in Mine,
                      NEW s \in Scans({m}), NEW b \in Chain({m}), ~Intact(b),
                      \A c \in Chain({m}) : ~Intact(c) => b.seq <= c.seq
               PROVE  /\ BrokenAt(s) <= b.seq
                      /\ ~Forked({m}) => BrokenAt(s) = b.seq
    BY DEF TamperLocated
  <2>1. {m} \in SUBSET Mine
    OBVIOUS
  <2>2. PICK k \in DOMAIN s : s[k] = b
    BY <2>1, ScanFacts
  <2>3. ~Sound(s, k)
    BY <2>2 DEF Sound
  <2>4. \E f \in DOMAIN s : ~Sound(s, f) /\ \A j \in 1..(f - 1) : Sound(s, j)
    BY <2>1, <2>3, FirstFailure
  <2>5. PICK f \in DOMAIN s : /\ BrokenAt(s) = s[f].seq
                             /\ ~Sound(s, f)
                             /\ \A j \in 1..(f - 1) : Sound(s, j)
    BY <2>4 DEF BrokenAt
  <2>6. f \in Nat /\ k \in Nat /\ k >= 1
    BY <2>1, ScanFacts
  <2>7. ~(k < f)
    BY <2>3, <2>5, <2>6
  <2>8. s[f].seq <= s[k].seq /\ s[f].seq \in Nat /\ s[k].seq \in Nat
    <3>1. s[f].seq \in Nat /\ s[k].seq \in Nat
      BY <2>1, ScanFacts DEF IsBlock
    <3>2. f < k \/ f = k
      BY <2>6, <2>7
    <3>3. QED
      BY <2>1, <3>1, <3>2, ScanFacts
  <2>9. ASSUME ~Forked({m})
        PROVE  b.seq <= s[f].seq
    <3>1. Linked(s, f)
      BY <2>1, <2>9, UnforkedIsLinked
    <3>2. ~Intact(s[f]) /\ s[f] \in Chain({m})
      BY <2>1, <2>5, <3>1, ScanFacts DEF Sound
    <3>3. QED
      BY <3>2
  <2>10. QED
    BY <2>2, <2>5, <2>8, <2>9
<1>2. QED
  BY <1>1, Invariance, Finiteness, PTL

-----------------------------------------------------------------------------
(* Appends one at a time.  Serial is the condition the repository's note   *)
(* (audit_ledger_repository.py, lines 16-17) leaves to a lock that is not  *)
(* there: no two requests in the service at once, and nothing lost.        *)

Serial == MaxLost = 0 /\ \A g, h \in Handler : g = h

SInv ==
    /\ lost = {}
    /\ \A b, c \in ledger : b.mine = c.mine /\ b.seq = c.seq => b = c
    /\ \A h \in Handler : handler[h].pc = "read" =>
         \A b \in ledger : b.mine = handler[h].mine => b.seq < handler[h].seq

LEMMA InitSInv == Init => SInv
BY DEF Init, SInv, Idle

LEMMA NextSInv ==
    ASSUME Serial
    PROVE  IInv /\ SInv /\ [Next]_vars => SInv'
<1> SUFFICES ASSUME IInv, SInv, [Next]_vars
             PROVE  SInv'
  OBVIOUS
<1> USE DEF SInv
<1>1. ASSUME NEW h \in Handler, UNCHANGED <<ledger, lost>>,
             handler'[h].pc # "read"
      PROVE  SInv'
  BY <1>1 DEF Serial
<1>2. ASSUME NEW h \in Handler, NEW m \in Mine, NEW d \in Payload,
             Request(h, m, d)
      PROVE  SInv'
  BY <1>1, <1>2 DEF Request, IInv, TypeOK
<1>3. ASSUME NEW h \in Handler, ReadLast(h)
      PROVE  SInv'
  <2>1. PICK link \in NextLink(handler[h].mine) :
          handler' = [handler EXCEPT
            ![h] = [pc |-> "read", mine |-> @.mine, payload |-> @.payload,
                    value |-> @.value, seq |-> link.seq, prev |-> link.prev]]
    BY <1>3 DEF ReadLast
  <2>2. ASSUME NEW b \in ledger, b.mine = handler[h].mine
        PROVE  b.seq < link.seq
    <3>1. b \in Chain({handler[h].mine})
      BY <2>2 DEF Chain
    <3>2. PICK e \in Newest(handler[h].mine) : link.seq = e.seq + 1
      BY <2>1, <3>1 DEF NextLink
    <3>3. b.seq <= e.seq /\ e \in Known /\ b \in Known
      BY <3>1, <3>2 DEF Newest, Chain, Known
    <3>4. QED
      BY <3>2, <3>3 DEF IInv, TypeOK, IsBlock
  <2>3. handler'[h].mine = handler[h].mine /\ handler'[h].seq = link.seq
    BY <2>1 DEF IInv, TypeOK
  <2>4. QED
    BY <1>3, <2>2, <2>3 DEF ReadLast, Serial
<1>4. ASSUME NEW h \in Handler, InsertBlock(h)
      PROVE  SInv'
  <2>1. PICK i \in Unused :
          /\ ledger' = ledger \cup {NewBlock(handler[h], i)}
          /\ handler' = [handler EXCEPT
               ![h] = IF @.value = NoEdit
                      THEN Idle
                      ELSE [pc |-> "found", block |-> NewBlock(handler[h], i),
                            value |-> @.value]]
          /\ lost' = lost
    BY <1>4 DEF InsertBlock
  <2> DEFINE b == NewBlock(handler[h], i)
  <2>2. b.mine = handler[h].mine /\ b.seq = handler[h].seq
    BY DEF NewBlock
  <2>3. handler'[h].pc # "read"
    BY <2>1 DEF Idle, IInv, TypeOK
  <2> HIDE DEF b
  <2>4. \A c \in ledger : c.mine = b.mine => c.seq # b.seq
    <3>1. handler[h].seq \in Nat
      BY <1>4 DEF InsertBlock, IInv, TypeOK, IsHandler, Idle
    <3>2. \A c \in ledger : c.seq \in Nat
      BY DEF IInv, TypeOK, Known, IsBlock
    <3>3. QED
      BY <1>4, <2>2, <3>1, <3>2 DEF InsertBlock
  <2>5. \A c, e \in ledger' : c.mine = e.mine /\ c.seq = e.seq => c = e
    BY <2>1, <2>4 DEF b
  <2>6. QED
    BY <2>1, <2>3, <2>5 DEF Serial
<1>5. ASSUME NEW h \in Handler, NEW m \in Mine, NEW n, NEW d \in Payload,
             NEW v \in Falsified, FindToFalsify(h, m, n, d, v)
      PROVE  SInv'
  BY <1>1, <1>5 DEF FindToFalsify, IInv, TypeOK
<1>6. ASSUME NEW h \in Handler, SaveFalsified(h)
      PROVE  SInv'
  <2>1. IsBlock(handler[h].block) /\ handler[h].value \in Payload
    BY <1>6 DEF SaveFalsified, IInv, TypeOK, IsHandler, Idle
  <2> DEFINE b == [handler[h].block EXCEPT !.payload = handler[h].value]
  <2>2. SameSeal(b, handler[h].block)
    BY <2>1, FalsifiedIsBlock
  <2>3. PICK k \in ledger : SameSeal(handler[h].block, k)
    BY <1>6 DEF IInv, HandlersSound, HandlerSound, SaveFalsified, Known
  <2>4. ledger' = {c \in ledger : c.id # b.id} \cup {b} /\ lost' = {}
    BY <1>6, <2>2 DEF SaveFalsified, SameSeal
  <2>5. b.id = k.id /\ b.mine = k.mine /\ b.seq = k.seq
    BY <2>2, <2>3 DEF SameSeal
  <2> HIDE DEF b
  <2>6. \A c, e \in ledger' : c.mine = e.mine /\ c.seq = e.seq => c = e
    BY <2>3, <2>4, <2>5
  <2>7. handler'[h].pc # "read"
    BY <1>6 DEF SaveFalsified, Idle, IInv, TypeOK
  <2>8. QED
    BY <2>4, <2>6, <2>7 DEF Serial
<1>7. ASSUME NEW h \in Handler, Abort(h)
      PROVE  SInv'
  BY <1>1, <1>7 DEF Abort, Idle, IInv, TypeOK
<1>8. ASSUME NEW M \in Scopes, Verify(M)
      PROVE  SInv'
  BY <1>8 DEF Verify
<1>9. ASSUME NEW b \in ledger, LoseBlock(b)
      PROVE  FALSE
  <2>1. Cardinality(lost) = 0
    BY FS_EmptySet
  <2>2. QED
    BY <1>9, <2>1 DEF LoseBlock, Serial
<1>10. CASE UNCHANGED vars
  BY <1>10 DEF vars
<1>11. QED
  BY <1>2, <1>3, <1>4, <1>5, <1>6, <1>7, <1>8, <1>9, <1>10 DEF Next

\* With appends one at a time and nothing lost, a chain nobody falsified always
\* verifies: the false alarms of the concurrent service come from its forks
\* alone (audit_service.append, lines 61-88; verify_ledger_integrity, 140-196).
THEOREM SerialNeverAlarms ==
    ASSUME Serial
    PROVE  Spec => []NoFalseAlarm
<1>1. \A M \in Scopes : M \in SUBSET Mine
  BY DEF Scopes
<1>2. IInv /\ SInv /\ IsFiniteSet(Known) => NoFalseAlarm
  <2> SUFFICES ASSUME IInv, SInv, IsFiniteSet(Known), NEW M \in Scopes,
                      NEW s \in Scans(M), ~Tampered(M)
               PROVE  IsValid(s)
    BY DEF NoFalseAlarm
  <2>1. ~Forked(M)
    BY DEF SInv, Forked, Chain
  <2>2. QED
    BY <1>1, <2>1, IntactLineIsValid DEF SInv
<1>3. QED
  BY <1>2, Invariance, Finiteness, InitSInv, NextSInv, PTL DEF Spec
-----------------------------------------------------------------------------
(* The log the ledger promises.                                            *)

Numbers(m) == {b.seq : b \in {c \in Known : c.mine = m}}

\* The blocks there have been are numbered from 1 without a gap.
NoGap == \A m \in Mine : \E n \in Nat : Numbers(m) = 1..n

LEMMA InitNoGap == Init => NoGap
<1>1. 1..0 = {}
  OBVIOUS
<1>2. QED
  BY <1>1 DEF Init, NoGap, Numbers, Known

\* Equal seals, equal numbers.
LEMMA NumbersStay ==
    ASSUME SealsKept, \A e \in Known' : \E c \in Known : SameSeal(c, e), NEW m
    PROVE  Numbers(m)' = Numbers(m)
BY DEF SealsKept, Numbers, SameSeal

\* A step inserts a block that is linked to a known one, or keeps the seals.
LEMMA SealsStep ==
    ASSUME IInv, [Next]_vars
    PROVE  \/ \E h \in Handler, i \in Unused :
                /\ InsertBlock(h)
                /\ IsBlock(NewBlock(handler[h], i))
                /\ NewBlock(handler[h], i).id = i
                /\ NewBlock(handler[h], i).mine = handler[h].mine
                /\ NewBlock(handler[h], i).seq = handler[h].seq
                /\ handler[h].mine \in Mine
                /\ KnownRoot(handler[h].mine, handler[h].seq, handler[h].prev)
                /\ ledger' = ledger \cup {NewBlock(handler[h], i)}
                /\ lost' = lost
           \/ \A e \in Known' : \E c \in Known : SameSeal(c, e)
<1>1. ASSUME NEW h \in Handler, InsertBlock(h)
      PROVE  \E i \in Unused :
                /\ InsertBlock(h)
                /\ IsBlock(NewBlock(handler[h], i))
                /\ NewBlock(handler[h], i).id = i
                /\ NewBlock(handler[h], i).mine = handler[h].mine
                /\ NewBlock(handler[h], i).seq = handler[h].seq
                /\ handler[h].mine \in Mine
                /\ KnownRoot(handler[h].mine, handler[h].seq, handler[h].prev)
                /\ ledger' = ledger \cup {NewBlock(handler[h], i)}
                /\ lost' = lost
  <2>1. IsHandler(handler[h]) /\ handler[h].pc = "read"
    BY <1>1 DEF InsertBlock, IInv, TypeOK
  <2>2. PICK i \in Unused :
          ledger' = ledger \cup {NewBlock(handler[h], i)} /\ lost' = lost
    BY <1>1 DEF InsertBlock
  <2>3. i \in BlockId
    BY DEF Unused
  <2>4. handler[h].mine \in Mine
    BY <2>1 DEF IsHandler, Idle
  <2>5. KnownRoot(handler[h].mine, handler[h].seq, handler[h].prev)
    BY <2>1 DEF IInv, HandlersSound, HandlerSound
  <2>6. QED
    BY <1>1, <2>1, <2>2, <2>3, <2>4, <2>5, NewBlockIsBlock
<1>2. ASSUME NEW h \in Handler, SaveFalsified(h)
      PROVE  \A e \in Known' : \E c \in Known : SameSeal(c, e)
  <2>1. IsBlock(handler[h].block) /\ handler[h].value \in Payload
    BY <1>2 DEF SaveFalsified, IInv, TypeOK, IsHandler, Idle
  <2> DEFINE b == [handler[h].block EXCEPT !.payload = handler[h].value]
  <2>2. SameSeal(b, handler[h].block)
    BY <2>1, FalsifiedIsBlock
  <2>3. Rewrites(b)
    BY <1>2, <2>2 DEF SaveFalsified, Rewrites, Known, SameSeal
  <2>4. PICK k \in Known : SameSeal(handler[h].block, k)
    BY <1>2 DEF IInv, HandlersSound, HandlerSound, SaveFalsified
  <2> HIDE DEF b
  <2>5. SameSeal(k, b)
    BY <2>2, <2>4 DEF SameSeal
  <2>6. QED
    BY <2>3, <2>5 DEF Rewrites, SameSeal
<1>3. ASSUME Known' \subseteq Known
      PROVE  \A e \in Known' : \E c \in Known : SameSeal(c, e)
  BY <1>3 DEF SameSeal
<1>4. ASSUME UNCHANGED <<ledger, lost>>
      PROVE  Known' \subseteq Known
  BY <1>4 DEF Known
<1>5. ASSUME NEW b \in ledger, LoseBlock(b)
      PROVE  Known' \subseteq Known
  BY <1>5 DEF LoseBlock, Known
<1>6. QED
  BY <1>1, <1>2, <1>3, <1>4, <1>5
     DEF Next, vars, Request, ReadLast, FindToFalsify, Abort, Verify

LEMMA NextNoGap == IInv /\ NoGap /\ [Next]_vars => NoGap'
<1> SUFFICES ASSUME IInv, NoGap, [Next]_vars, NEW m \in Mine
             PROVE  \E n \in Nat : Numbers(m)' = 1..n
  BY DEF NoGap
<1>1. PICK n \in Nat : Numbers(m) = 1..n
  BY DEF NoGap
<1>2. SealsKept
  BY StepKeepsSeals DEF IInv
<1>3. CASE \A e \in Known' : \E c \in Known : SameSeal(c, e)
  BY <1>1, <1>2, <1>3, NumbersStay
<1>4. ASSUME NEW b, Known' = Known \cup {b}, b.mine = m,
             KnownRoot(m, b.seq, b.prev)
      PROVE  \E k \in Nat : Numbers(m)' = 1..k
  <2>1. Numbers(m)' = Numbers(m) \cup {b.seq}
    BY <1>4 DEF Numbers
  <2>2. b.seq \in 1..(n + 1)
    BY <1>1, <1>4 DEF KnownRoot, Numbers
  <2>3. CASE b.seq = n + 1
    <3>1. 1..(n + 1) = 1..n \cup {n + 1}
      OBVIOUS
    <3>2. QED
      BY <1>1, <2>1, <2>3, <3>1
  <2>4. CASE b.seq # n + 1
    BY <1>1, <2>1, <2>2, <2>4
  <2>5. QED
    BY <2>3, <2>4
<1>5. ASSUME NEW b, Known' = Known \cup {b}, b.mine # m
      PROVE  Numbers(m)' = Numbers(m)
  BY <1>5 DEF Numbers
<1>6. ASSUME NEW h \in Handler, NEW i \in Unused,
             NewBlock(handler[h], i).mine = handler[h].mine,
             NewBlock(handler[h], i).seq = handler[h].seq,
             KnownRoot(handler[h].mine, handler[h].seq, handler[h].prev),
             ledger' = ledger \cup {NewBlock(handler[h], i)}, lost' = lost
      PROVE  \E k \in Nat : Numbers(m)' = 1..k
  <2> DEFINE b == NewBlock(handler[h], i)
  <2>1. /\ Known' = Known \cup {b}
        /\ KnownRoot(b.mine, b.seq, b.prev)
    BY <1>6 DEF Known, NewBlock
  <2> HIDE DEF b
  <2>2. QED
    BY <1>1, <1>4, <1>5, <2>1
<1>7. QED
  BY <1>3, <1>6, SealsStep

\* What SealedHistory is, when nothing is lost and no chain forks: it has the
\* payload sealed in each block at the block's number.
HistorySound ==
    \A m \in Mine :
        LET n == Cardinality(Chain({m}))
        IN  /\ n \in Nat
            /\ Numbers(m) = 1..n
            /\ SealedHistory(m) \in [1..n -> Payload]
            /\ \A b \in Chain({m}) : SealedHistory(m)[b.seq] = b.hash[4]

Plain == IInv /\ NoGap /\ IsFiniteSet(Known) /\ lost = {} /\ ~Forked(Mine)

LEMMA PlainHistory == Plain => HistorySound
<1> SUFFICES ASSUME Plain, NEW m \in Mine
             PROVE  LET n == Cardinality(Chain({m}))
                    IN  /\ n \in Nat
                        /\ Numbers(m) = 1..n
                        /\ SealedHistory(m) \in [1..n -> Payload]
                        /\ \A b \in Chain({m}) : SealedHistory(m)[b.seq] = b.hash[4]
  BY DEF HistorySound
<1> DEFINE C == Chain({m})
<1>1. C = {b \in Known : b.mine = m}
  BY DEF Chain, Known, Plain
<1>2. IsFiniteSet(C)
  BY <1>1, FS_Subset DEF Plain
<1>3. PICK n \in Nat : Numbers(m) = 1..n
  BY DEF Plain, NoGap
<1>4. \A b, c \in C : b.seq = c.seq => b = c
  BY DEF Plain, Forked, Chain
<1>5. Numbers(m) = {b.seq : b \in C}
  BY <1>1 DEF Numbers
<1>6. Cardinality(C) = n
  <2> DEFINE f == [b \in C |-> b.seq]
  <2>1. f \in Bijection(C, 1..n)
    <3>1. f \in [C -> 1..n]
      BY <1>3, <1>5
    <3>2. \A a, b \in C : f[a] = f[b] => a = b
      BY <1>4
    <3>3. \A k \in 1..n : \E b \in C : f[b] = k
      BY <1>3, <1>5
    <3> HIDE DEF f
    <3>4. QED
      BY <3>1, <3>2, <3>3, Fun_IsBij
  <2>2. ExistsBijection(C, 1..n)
    BY <2>1 DEF ExistsBijection
  <2>3. Cardinality(1..n) = Cardinality(C)
    BY <1>2, <2>2, FS_Bijection
  <2>4. QED
    BY <2>3, FS_Interval
<1>7. SealedHistory(m) = [k \in 1..n |-> (CHOOSE b \in C : b.seq = k).hash[4]]
  BY <1>6 DEF SealedHistory
<1>8. \A b \in C : b.seq \in 1..n /\ b.hash[4] \in Payload
  <2>1. \A b \in C : b.seq \in 1..n
    BY <1>3, <1>5
  <2>2. ASSUME NEW b \in C PROVE b.hash[4] \in Payload
    <3>1. IsBlock(b)
      BY <1>1 DEF Plain, IInv, TypeOK
    <3>2. QED
      BY <3>1 DEF IsBlock, Digest
  <2>3. QED
    BY <2>1, <2>2
<1>9. ASSUME NEW k \in 1..n
      PROVE  \E b \in C : b.seq = k /\ b = CHOOSE c \in C : c.seq = k
  <2>1. \E b \in C : b.seq = k
    BY <1>3, <1>5
  <2>2. QED
    BY <2>1
<1>10. \A b \in C : b = CHOOSE c \in C : c.seq = b.seq
  BY <1>4, <1>8, <1>9
<1> HIDE DEF C
<1>11. SealedHistory(m) \in [1..n -> Payload]
  BY <1>7, <1>8, <1>9
<1>12. \A b \in C : SealedHistory(m)[b.seq] = b.hash[4]
  BY <1>7, <1>8, <1>10
<1>13. QED
  BY <1>3, <1>6, <1>11, <1>12 DEF C

\* A chain that kept its numbers and seals seals the same history.
LEMMA SameHistory ==
    ASSUME HistorySound, HistorySound', NEW m \in Mine,
           Numbers(m)' = Numbers(m),
           \A c \in Chain({m}) : \E e \in Chain({m})' : SameSeal(c, e),
           lost = {}
    PROVE  SealedHistory(m)' = SealedHistory(m)
<1> DEFINE n == Cardinality(Chain({m}))
           k == Cardinality(Chain({m})')
           s == SealedHistory(m)
           t == SealedHistory(m)'
<1>1. /\ n \in Nat /\ Numbers(m) = 1..n
      /\ s \in [1..n -> Payload]
      /\ \A b \in Chain({m}) : s[b.seq] = b.hash[4]
  BY DEF HistorySound
<1>2. /\ k \in Nat /\ Numbers(m)' = 1..k
      /\ t \in [1..k -> Payload]
      /\ \A b \in Chain({m})' : t[b.seq] = b.hash[4]
  BY DEF HistorySound
<1>3. \A i \in 1..n : \E b \in Chain({m}) : b.seq = i
  BY <1>1 DEF Numbers, Chain, Known
<1> HIDE DEF n, k, s, t
<1>4. k = n
  <2>1. 1..k = 1..n
    BY <1>1, <1>2
  <2>2. QED
    BY <1>1, <1>2, <2>1
<1>5. ASSUME NEW i \in 1..n PROVE t[i] = s[i]
  <2>1. PICK b \in Chain({m}) : b.seq = i
    BY <1>3
  <2>2. PICK e \in Chain({m})' : SameSeal(b, e)
    BY <2>1
  <2>3. t[e.seq] = e.hash[4] /\ s[b.seq] = b.hash[4]
    BY <1>1, <1>2
  <2>4. QED
    BY <2>1, <2>2, <2>3 DEF SameSeal
<1>6. s \in Seq(Payload) /\ t \in Seq(Payload) /\ Len(s) = n /\ Len(t) = n
  BY <1>1, <1>2, <1>4
<1>7. t = s
  BY <1>5, <1>6, SeqEqual
<1>8. QED
  BY <1>7 DEF s, t

\* Of a chain that does not fork, an inserted block is the next.
LEMMA InsertedIsNext ==
    ASSUME Plain, HistorySound, HistorySound', ~Forked(Mine)', lost' = {},
           NEW m \in Mine, NEW b, b \notin ledger, b.mine = m,
           KnownRoot(m, b.seq, b.prev), b.hash[4] \in Payload,
           ledger' = ledger \cup {b}
    PROVE  SealedHistory(m)' = Append(SealedHistory(m), b.hash[4])
<1> DEFINE n == Cardinality(Chain({m}))
           k == Cardinality(Chain({m})')
           s == SealedHistory(m)
           t == SealedHistory(m)'
<1>1. /\ n \in Nat /\ Numbers(m) = 1..n
      /\ s \in [1..n -> Payload]
      /\ \A c \in Chain({m}) : s[c.seq] = c.hash[4]
  BY DEF HistorySound
<1>2. /\ k \in Nat /\ Numbers(m)' = 1..k
      /\ t \in [1..k -> Payload]
      /\ \A c \in Chain({m})' : t[c.seq] = c.hash[4]
  BY DEF HistorySound
<1>3. Numbers(m)' = Numbers(m) \cup {b.seq}
  BY DEF Numbers, Known, Plain
<1>4. Chain({m})' = Chain({m}) \cup {b}
  BY DEF Chain
<1>5. \A i \in 1..n : \E c \in Chain({m}) : c.seq = i
  BY <1>1 DEF Numbers, Chain, Known, Plain
<1>6. b.seq \in 1..(n + 1)
  <2>1. CASE b.seq = 1
    BY <1>1, <2>1
  <2>2. ASSUME NEW c \in Known, c.mine = m, b.seq = c.seq + 1
        PROVE  b.seq \in 1..(n + 1)
    <3>1. c.seq \in 1..n
      BY <1>1, <2>2 DEF Numbers
    <3> HIDE DEF n
    <3>2. QED
      BY <1>1, <2>2, <3>1
  <2>3. QED
    BY <2>1, <2>2 DEF KnownRoot
<1>7. b.seq \notin 1..n
  <2> SUFFICES ASSUME b.seq \in 1..n PROVE FALSE
    OBVIOUS
  <2>1. PICK c \in Chain({m}) : c.seq = b.seq
    BY <1>5
  <2>2. c # b /\ c \in ledger' /\ b \in ledger' /\ c.mine = m
    BY DEF Chain
  <2>3. QED
    BY <2>1, <2>2 DEF Forked, Chain
<1> HIDE DEF n, k, s, t
<1>8. b.seq = n + 1
  BY <1>1, <1>6, <1>7
<1>9. k = n + 1
  <2>1. 1..k = 1..n \cup {n + 1}
    BY <1>1, <1>2, <1>3, <1>8
  <2>2. 1..n \cup {n + 1} = 1..(n + 1)
    BY <1>1
  <2>3. 1..k = 1..(n + 1)
    BY <2>1, <2>2
  <2>4. QED
    BY <1>1, <1>2, <2>3
<1>10. ASSUME NEW i \in 1..n PROVE t[i] = s[i]
  <2>1. PICK c \in Chain({m}) : c.seq = i
    BY <1>5
  <2>2. c \in Chain({m})'
    BY <1>4, <2>1
  <2>3. t[c.seq] = c.hash[4] /\ s[c.seq] = c.hash[4]
    BY <1>1, <1>2, <2>1, <2>2
  <2>4. QED
    BY <2>1, <2>3
<1>11. t[n + 1] = b.hash[4]
  BY <1>2, <1>4, <1>8
<1>12. s \in Seq(Payload) /\ Len(s) = n
  BY <1>1
<1>13. t \in Seq(Payload) /\ Len(t) = n + 1
  BY <1>1, <1>2, <1>9
<1>14. /\ Append(s, b.hash[4]) \in Seq(Payload)
       /\ Len(Append(s, b.hash[4])) = n + 1
       /\ \A i \in 1..n : Append(s, b.hash[4])[i] = s[i]
       /\ Append(s, b.hash[4])[n + 1] = b.hash[4]
  BY <1>12, AppendProperties
<1>15. t = Append(s, b.hash[4])
  <2>1. \A i \in 1..(n + 1) : t[i] = Append(s, b.hash[4])[i]
    BY <1>1, <1>10, <1>11, <1>14
  <2>2. QED
    BY <1>13, <1>14, <2>1, SeqEqual
<1>16. QED
  BY <1>15 DEF s, t

\* A step after which no chain forks had none before it.
LEMMA ForksStay ==
    ASSUME IInv, [Next]_vars, lost = {}, lost' = {}, ~Forked(Mine)'
    PROVE  ~Forked(Mine)
<1> SUFFICES ASSUME NEW b \in ledger, NEW c \in ledger, b # c,
                    b.mine = c.mine, b.seq = c.seq, b.mine \in Mine
             PROVE  Forked(Mine)'
  BY DEF Forked, Chain
<1>1. SealsKept
  BY StepKeepsSeals DEF IInv
<1>2. PICK e \in Known' : SameSeal(b, e)
  BY <1>1 DEF SealsKept, Known
<1>3. PICK f \in Known' : SameSeal(c, f)
  BY <1>1 DEF SealsKept, Known
<1>4. b.id # c.id
  BY DEF IInv, TypeOK, Known
<1>5. QED
  BY <1>2, <1>3, <1>4 DEF SameSeal, Forked, Chain, Known

\* A step of plain chains records one payload in one mine's history, or none.
LEMMA StepRecords ==
    ASSUME [Next]_vars, Plain, Plain', HistorySound, HistorySound'
    PROVE  Promise!Next \/ UNCHANGED SealedLog
<1>1. SealsKept
  BY StepKeepsSeals DEF Plain, IInv
<1>2. ASSUME NEW m \in Mine, NEW c \in Chain({m})
      PROVE  \E e \in Chain({m})' : SameSeal(c, e)
  <2>1. PICK e \in Known' : SameSeal(c, e)
    BY <1>1 DEF SealsKept, Chain, Known
  <2>2. QED
    BY <2>1 DEF Chain, Known, Plain, SameSeal
<1>3. ASSUME NEW m \in Mine, Numbers(m)' = Numbers(m)
      PROVE  SealedHistory(m)' = SealedHistory(m)
  BY <1>2, <1>3, SameHistory DEF Plain
<1>4. CASE \A e \in Known' : \E c \in Known : SameSeal(c, e)
  <2>1. \A m \in Mine : SealedHistory(m)' = SealedHistory(m)
    BY <1>1, <1>3, <1>4, NumbersStay
  <2>2. QED
    BY <2>1 DEF SealedLog
<1>5. ASSUME NEW b, IsBlock(b), b \notin ledger,
             KnownRoot(b.mine, b.seq, b.prev), ledger' = ledger \cup {b}
      PROVE  Promise!Next
  <2>1. b.mine \in Mine /\ b.hash[4] \in Payload
    BY <1>5 DEF IsBlock, Digest
  <2>2. SealedHistory(b.mine)' = Append(SealedHistory(b.mine), b.hash[4])
    BY <1>5, <2>1, InsertedIsNext DEF Plain
  <2>3. ASSUME NEW m \in Mine, m # b.mine
        PROVE  SealedHistory(m)' = SealedHistory(m)
    <3>1. Numbers(m)' = Numbers(m)
      BY <1>5, <2>3 DEF Numbers, Known, Plain
    <3>2. QED
      BY <1>3, <3>1
  <2>4. SealedLog' = [SealedLog EXCEPT ![b.mine] = Append(@, b.hash[4])]
    BY <2>1, <2>2, <2>3 DEF SealedLog
  <2>5. QED
    BY <2>1, <2>4 DEF Promise!Next, Promise!Record
<1>6. ASSUME NEW h \in Handler, NEW i \in Unused,
             IsBlock(NewBlock(handler[h], i)),
             NewBlock(handler[h], i).id = i,
             KnownRoot(handler[h].mine, handler[h].seq, handler[h].prev),
             ledger' = ledger \cup {NewBlock(handler[h], i)}
      PROVE  Promise!Next
  <2> DEFINE b == NewBlock(handler[h], i)
  <2>1. KnownRoot(b.mine, b.seq, b.prev)
    BY <1>6 DEF NewBlock
  <2>2. b \notin ledger
    BY <1>6 DEF Unused, Known
  <2>3. QED
    BY <1>5, <1>6, <2>1, <2>2
<1>7. QED
  BY <1>4, <1>6, SealsStep DEF Plain

\* For any number of handlers, mines and blocks, the ledger is the append-only
\* log it promises to be until a chain forks or a block is lost outside the
\* service (audit_service.append, lines 61-88; simulate_tamper, 222-242).
THEOREM PromiseAlwaysKept == Spec => KeepsPromise
<1>1. Init => Promise!Init
  <2> SUFFICES ASSUME Init PROVE SealedLog = [m \in Mine |-> <<>>]
    BY DEF Promise!Init
  <2>1. ASSUME NEW m \in Mine PROVE SealedHistory(m) = <<>>
    <3>1. Cardinality(Chain({m})) = 0
      BY FS_EmptySet DEF Init, Chain
    <3>2. SealedHistory(m) \in [1..0 -> Payload]
      BY <3>1 DEF SealedHistory
    <3>3. SealedHistory(m) \in Seq(Payload) /\ Len(SealedHistory(m)) = 0
      BY <3>2
    <3>4. QED
      BY <3>3, EmptySeq
  <2>2. QED
    BY <2>1 DEF SealedLog
<1>3. Plain' => HistorySound'
  BY PlainHistory, PTL
<1>4. IInv /\ IInv' /\ NoGap /\ NoGap' /\ IsFiniteSet(Known) /\ IsFiniteSet(Known)'
         /\ [Next]_vars
      => [~Forked(Mine)' /\ lost = {} /\ lost' = {} =>
            Promise!Next \/ UNCHANGED SealedLog]_vars
  <2> SUFFICES ASSUME IInv, IInv', NoGap, NoGap', IsFiniteSet(Known),
                      IsFiniteSet(Known)', [Next]_vars,
                      ~Forked(Mine)', lost = {}, lost' = {}
               PROVE  Promise!Next \/ UNCHANGED SealedLog
    OBVIOUS
  <2>1. Plain
    BY ForksStay DEF Plain
  <2>2. Plain'
    BY DEF Plain
  <2>3. QED
    BY <1>3, <2>1, <2>2, PlainHistory, StepRecords
<1>5. QED
  BY <1>1, <1>4, Invariance, Finiteness, InitNoGap, NextNoGap, PTL
     DEF Spec, KeepsPromise
================================================================================
