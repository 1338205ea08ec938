---------------------------- MODULE BatchSyncProofs ----------------------------
(***************************************************************************)
(* Theorems about BatchSync for any number of requests, edits and crashes.  *)
(*                                                                         *)
(* ContentAccounted is inductive beside the shape.  CreatedOnce needs that  *)
(* the creator counts from the insertion on, and that a record, once        *)
(* created, keeps a version.                                                *)
(***************************************************************************)
EXTENDS MCBatchSync, FiniteSetTheorems, TLAPS

\* What a request remembers: TypeOK in two parts.
States ==
    {Idle}
      \cup [pc : {"insert", "merge", "conflict"}, key : DOMAIN base, version : Nat \ {0}]
      \cup [pc : {"audit"}, key : DOMAIN base, answer : {"CREATED", "UPDATED"}]

RecordOK ==
    /\ doc.version \in Nat
    /\ doc.key \in Key \cup {None}
    /\ DOMAIN base \subseteq Key
    /\ \A k \in DOMAIN base : base[k] \in Nat \ {0}
    /\ published \subseteq Nat \ {0}
    /\ conflicts \subseteq Key
    /\ audited \in [Key -> Nat]
    /\ answers \subseteq Key \X Answer
    /\ crashes \in Nat

LEMMA TypeParts == RecordOK' /\ handler' \in [Handler -> States'] => TypeOK'
  BY DEF TypeOK, RecordOK, States

LEMMA InitTypeOK == Init => TypeOK
  BY DEF Init, TypeOK

\* Every step keeps the shape.
LEMMA NextTypeOK == TypeOK /\ [Next]_vars => TypeOK'
  <1> SUFFICES ASSUME TypeOK, [Next]_vars PROVE TypeOK'
    OBVIOUS
  <1> USE DEF TypeOK, Idle
  <1>1. ASSUME NEW k \in Key, Compose(k) PROVE TypeOK'
    BY <1>1 DEF Compose
  <1>2. ASSUME NEW h \in Handler, NEW k \in Key, Deliver(h, k) PROVE TypeOK'
    BY <1>2 DEF Deliver, Decision, Answer
  <1>3. ASSUME NEW h \in Handler, Reject(h) PROVE TypeOK'
    BY <1>3 DEF Reject
  <1>4. ASSUME NEW h \in Handler, Merge(h) PROVE TypeOK'
    <2>1. handler[h].key \in DOMAIN base /\ handler[h].version \in Nat \ {0}
      BY <1>4 DEF Merge
    <2> DEFINE r == [pc |-> "audit", key |-> handler[h].key, answer |-> "UPDATED"]
    <2>2. r \in [pc : {"audit"}, key : DOMAIN base, answer : {"CREATED", "UPDATED"}]
      BY <2>1
    <2>3. handler' = [handler EXCEPT ![h] = r]
      BY <1>4 DEF Merge
    <2> HIDE DEF r
    <2>4. r \in States'
      BY <1>4, <2>2 DEF States, Merge
    <2>5. handler' \in [Handler -> States']
      BY <1>4, <2>3, <2>4 DEF States, Merge
    <2>6. RecordOK'
      BY <1>4, <2>1 DEF RecordOK, Merge
    <2> QED
      BY <2>5, <2>6, TypeParts
  <1>5. ASSUME NEW h \in Handler, Insert(h) PROVE TypeOK'
    <2>1. handler[h].key \in DOMAIN base
      BY <1>5 DEF Insert
    <2> DEFINE r == [pc |-> "audit", key |-> handler[h].key, answer |-> "CREATED"]
    <2>2. r \in [pc : {"audit"}, key : DOMAIN base, answer : {"CREATED", "UPDATED"}]
      BY <2>1
    <2>3. handler' = [handler EXCEPT ![h] = r] \/ handler' = [handler EXCEPT ![h] = Idle]
      BY <1>5 DEF Insert
    <2> HIDE DEF r
    <2>4. r \in States'
      BY <1>5, <2>2 DEF States, Insert
    <2>5. handler' \in [Handler -> States']
      BY <1>5, <2>3, <2>4 DEF States, Insert
    <2>6. RecordOK'
      <3>1. CASE doc' = doc /\ published' = published
        BY <1>5, <3>1 DEF RecordOK, Insert
      <3>2. CASE /\ doc' = [version |-> 1, key |-> handler[h].key]
                 /\ published' = published \cup {1}
        BY <1>5, <2>1, <3>2 DEF RecordOK, Insert
      <3> QED
        BY <1>5, <3>1, <3>2 DEF Insert
    <2> QED
      BY <2>5, <2>6, TypeParts
  <1>6. ASSUME NEW h \in Handler, AppendAudit(h) PROVE TypeOK'
    BY <1>6 DEF AppendAudit, Answer
  <1>7. ASSUME NEW h \in Handler, LogConflict(h) PROVE TypeOK'
    BY <1>7 DEF LogConflict, Answer
  <1>8. ASSUME NEW h \in Handler, Abort(h) PROVE TypeOK'
    BY <1>8 DEF Abort
  <1>9. CASE UNCHANGED vars
    BY <1>9 DEF vars
  <1> QED
    BY <1>1, <1>2, <1>3, <1>4, <1>5, <1>6, <1>7, <1>8, <1>9 DEF Next

\* The record, the requests and the answers keep their shape, whatever requests
\* interleave, are sent again or die (sync_service.py:165-277).
THEOREM TypeCorrect == Spec => []TypeOK
  BY InitTypeOK, NextTypeOK, PTL DEF Spec
-----------------------------------------------------------------------------
(* Nothing is taken for processed that left no trace.                         *)

\* A request that has saved stays there until it has appended its block, or dies.
LEMMA SavedStands ==
    ASSUME TypeOK, [Next]_vars, crashes' = crashes, NEW k \in Key, Saved(k)
    PROVE  Saved(k)'
  <1> USE DEF TypeOK, Idle
  <1>1. CASE audited[k] > 0
    <2>1. ASSUME NEW h \in Handler, AppendAudit(h) PROVE audited'[k] \in Nat /\ audited'[k] > 0
      <3>1. handler[h].key \in Key
        BY <2>1 DEF AppendAudit
      <3> QED
        BY <1>1, <2>1, <3>1 DEF AppendAudit
    <2>2. audited' = audited \/ \E h \in Handler : AppendAudit(h)
      BY DEF Next, vars, Compose, Deliver, Reject, Merge, Insert, LogConflict, Abort
    <2> QED
      BY <1>1, <2>1, <2>2 DEF Saved
  <1>2. ASSUME NEW g \in Handler, handler[g].pc = "audit", handler[g].key = k
        PROVE  Saved(k)'
    <2>1. CASE handler'[g] = handler[g]
      BY <1>2, <2>1 DEF Saved
    <2>2. CASE AppendAudit(g)
      BY <1>2, <2>2 DEF AppendAudit, Saved
    <2>3. ASSUME NEW h \in Handler, NEW j \in Key, Deliver(h, j) PROVE handler'[g] = handler[g]
      BY <1>2, <2>3 DEF Deliver
    <2>4. ASSUME NEW h \in Handler, Reject(h) \/ LogConflict(h) PROVE handler'[g] = handler[g]
      BY <1>2, <2>4 DEF Reject, LogConflict
    <2>5. ASSUME NEW h \in Handler, Merge(h) \/ Insert(h) PROVE handler'[g] = handler[g]
      BY <1>2, <2>5 DEF Merge, Insert
    <2>6. ASSUME NEW h \in Handler, h # g, AppendAudit(h) PROVE handler'[g] = handler[g]
      BY <2>6 DEF AppendAudit
    <2>7. ASSUME NEW h \in Handler, Abort(h) PROVE FALSE
      BY <2>7 DEF Abort
    <2>8. ASSUME (\E j \in Key : Compose(j)) \/ UNCHANGED vars PROVE handler'[g] = handler[g]
      BY <2>8 DEF Compose, vars
    <2> QED
      BY <2>1, <2>2, <2>3, <2>4, <2>5, <2>6, <2>7, <2>8 DEF Next
  <1> QED
    BY <1>1, <1>2 DEF Saved

ContentInv == TypeOK /\ ContentAccounted /\ (doc.version > 0 => doc.key \in Key)

LEMMA NextContentAccounted == ContentInv /\ [Next]_vars => ContentAccounted'
  <1> SUFFICES ASSUME TypeOK, ContentAccounted, doc.version > 0 => doc.key \in Key,
                      [Next]_vars, crashes' = 0
               PROVE  ContentAccounted'
    BY DEF ContentAccounted, ContentInv
  <1>1. crashes = 0 /\ crashes' = crashes
    <2>1. crashes' = crashes \/ crashes' = crashes + 1
      BY DEF Next, vars, Compose, Deliver, Reject, Merge, Insert, AppendAudit, LogConflict, Abort
    <2> QED
      BY <2>1 DEF TypeOK
  <1>2. \A k \in Key : Saved(k) => Saved(k)'
    BY <1>1, SavedStands
  <1>3. /\ doc.version > 0 => Saved(doc.key)
        /\ \A k \in Key : <<k, "DUPLICATE">> \in answers => Saved(k)
    BY <1>1 DEF ContentAccounted
  <1>4. doc.version > 0 => doc.key \in Key
    OBVIOUS
  <1>5. ASSUME NEW h \in Handler, Merge(h) \/ Insert(h), doc' # doc
        PROVE  ContentAccounted'
    <2>1. doc'.key = handler[h].key /\ answers' = answers
      BY <1>5 DEF Merge, Insert
    <2>2. handler'[h].pc = "audit" /\ handler'[h].key = handler[h].key
      BY <1>5 DEF Merge, Insert, TypeOK
    <2>3. Saved(doc.key)'
      BY <2>1, <2>2 DEF Saved
    <2> QED
      BY <1>2, <1>3, <2>1, <2>3 DEF ContentAccounted
  <1>6. ASSUME NEW h \in Handler, NEW k \in Key, Deliver(h, k) PROVE ContentAccounted'
    <2>1. doc' = doc
      BY <1>6 DEF Deliver
    <2>2. ASSUME NEW j \in Key, <<j, "DUPLICATE">> \in answers', <<j, "DUPLICATE">> \notin answers
          PROVE  Saved(j)
      <3>1. Decision(k) = "duplicate" /\ j = k
        BY <1>6, <2>2 DEF Deliver
      <3>2. doc.key = k /\ doc.version = base[k] /\ k \in DOMAIN base
        BY <1>6, <3>1 DEF Decision, Deliver
      <3>3. doc.version > 0
        BY <3>2 DEF TypeOK
      <3> QED
        BY <1>3, <3>1, <3>2, <3>3
    <2> QED
      BY <1>2, <1>3, <1>4, <2>1, <2>2 DEF ContentAccounted
  <1>7. ASSUME doc' = doc,
               \A j \in Key : <<j, "DUPLICATE">> \in answers' => <<j, "DUPLICATE">> \in answers
        PROVE  ContentAccounted'
    BY <1>2, <1>3, <1>4, <1>7 DEF ContentAccounted
  <1>8. ASSUME NEW h \in Handler, AppendAudit(h) PROVE ContentAccounted'
    <2>1. handler[h].answer \in {"CREATED", "UPDATED"}
      BY <1>8 DEF AppendAudit, TypeOK, Idle
    <2> QED
      BY <1>7, <1>8, <2>1 DEF AppendAudit
  <1>9. ASSUME NEW h \in Handler, Reject(h) \/ LogConflict(h) \/ Abort(h)
        PROVE  ContentAccounted'
    BY <1>7, <1>9 DEF Reject, LogConflict, Abort
  <1>10. ASSUME NEW h \in Handler, Merge(h) \/ Insert(h), doc' = doc PROVE ContentAccounted'
    BY <1>7, <1>10 DEF Merge, Insert
  <1>11. ASSUME NEW k \in Key, Compose(k) PROVE ContentAccounted'
    BY <1>7, <1>11 DEF Compose
  <1>12. CASE UNCHANGED vars
    BY <1>7, <1>12 DEF vars
  <1> QED
    BY <1>5, <1>6, <1>8, <1>9, <1>10, <1>11, <1>12 DEF Next

\* While no request dies, the record and every edit answered DUPLICATE have a block,
\* or a request about to append it.
THEOREM ContentAlwaysAccounted == Spec => []ContentAccounted
  <1>1. Init => ContentInv
    BY InitTypeOK DEF Init, ContentAccounted, ContentInv
  <1>2. ContentInv /\ [Next]_vars => ContentInv'
    <2> SUFFICES ASSUME ContentInv, [Next]_vars PROVE ContentInv'
      OBVIOUS
    <2>1. TypeOK' /\ ContentAccounted'
      BY NextTypeOK, NextContentAccounted DEF ContentInv
    <2>2. ASSUME NEW h \in Handler, Merge(h) \/ Insert(h), doc' # doc PROVE doc'.key \in Key
      BY <2>2 DEF Merge, Insert, ContentInv, TypeOK, Idle
    <2>3. doc' = doc \/ \E h \in Handler : Merge(h) \/ Insert(h)
      BY DEF Next, vars, Compose, Deliver, Reject, AppendAudit, LogConflict, Abort
    <2> QED
      BY <2>1, <2>2, <2>3 DEF ContentInv
  <1>3. ContentInv => ContentAccounted
    BY DEF ContentInv
  <1> QED
    BY <1>1, <1>2, <1>3, PTL DEF Spec

-----------------------------------------------------------------------------
(* One request creates the record.                                            *)

\* A creation counts from the insertion on.
Created(k) ==
    \/ <<k, "CREATED">> \in answers
    \/ \E h \in Handler : /\ handler[h].pc = "audit" /\ handler[h].answer = "CREATED"
                         /\ handler[h].key = k

CreatedInv ==
    /\ TypeOK
    /\ \A k \in Key : Created(k) => doc.version # 0
    /\ \A j, k \in Key : Created(j) /\ Created(k) => j = k

LEMMA NextCreatedInv == CreatedInv /\ [Next]_vars => CreatedInv'
  <1> SUFFICES ASSUME CreatedInv, [Next]_vars PROVE CreatedInv'
    OBVIOUS
  <1>1. TypeOK /\ TypeOK'
    BY NextTypeOK DEF CreatedInv
  <1>2. doc.version # 0 => doc'.version # 0
    <2>1. ASSUME NEW h \in Handler, Merge(h) PROVE doc'.version # 0
      BY <1>1, <2>1 DEF Merge, TypeOK, Idle
    <2>2. ASSUME NEW h \in Handler, Insert(h), doc.version # 0 PROVE doc' = doc
      BY <2>2 DEF Insert
    <2> QED
      BY <2>1, <2>2
      DEF Next, vars, Compose, Deliver, Reject, AppendAudit, LogConflict, Abort
  <1>3. ASSUME \A k \in Key : Created(k)' => Created(k) PROVE CreatedInv'
    BY <1>1, <1>2, <1>3 DEF CreatedInv
  <1>4. ASSUME NEW h \in Handler, Insert(h), doc.version = 0 PROVE CreatedInv'
    <2>1. \A k \in Key : ~Created(k)
      BY <1>4 DEF CreatedInv
    <2>2. answers' = answers /\ doc'.version = 1
      BY <1>4 DEF Insert
    <2>3. \A g \in Handler : g # h => handler'[g] = handler[g]
      BY <1>1, <1>4 DEF Insert, TypeOK
    <2>4. handler'[h].key = handler[h].key
      BY <1>1, <1>4 DEF Insert, TypeOK
    <2>5. \A k \in Key : Created(k)' => k = handler[h].key
      BY <2>1, <2>2, <2>3, <2>4 DEF Created
    <2> QED
      BY <1>1, <2>2, <2>5 DEF CreatedInv
  <1>5. ASSUME NEW h \in Handler, AppendAudit(h) PROVE CreatedInv'
    <2>1. /\ handler[h].pc = "audit"
          /\ answers' = answers \cup {<<handler[h].key, handler[h].answer>>}
      BY <1>5 DEF AppendAudit
    <2>2. \A g \in Handler : handler'[g].pc = "audit" => handler'[g] = handler[g]
      BY <1>1, <1>5 DEF AppendAudit, TypeOK, Idle
    <2> QED
      BY <1>3, <2>1, <2>2 DEF Created
  <1>6. ASSUME \A k \in Key : <<k, "CREATED">> \in answers' => <<k, "CREATED">> \in answers,
               \A g \in Handler : handler'[g].pc = "audit" /\ handler'[g].answer = "CREATED"
                                    => handler'[g] = handler[g]
        PROVE  CreatedInv'
    BY <1>3, <1>6 DEF Created
  <1>7. ASSUME NEW h \in Handler, NEW k \in Key, Deliver(h, k) PROVE CreatedInv'
    <2>1. \A g \in Handler : g # h => handler'[g] = handler[g]
      BY <1>1, <1>7 DEF Deliver, TypeOK
    <2>2. handler'[h].pc # "audit"
      BY <1>1, <1>7 DEF Deliver, TypeOK, Decision, Idle
    <2> QED
      BY <1>6, <1>7, <2>1, <2>2 DEF Deliver
  <1>8. ASSUME NEW h \in Handler, Merge(h) PROVE CreatedInv'
    <2>1. \A g \in Handler : g # h => handler'[g] = handler[g]
      BY <1>1, <1>8 DEF Merge, TypeOK
    <2>2. handler'[h].answer = "UPDATED"
      BY <1>1, <1>8 DEF Merge, TypeOK
    <2> QED
      BY <1>6, <1>8, <2>1, <2>2 DEF Merge
  <1>9. ASSUME NEW h \in Handler, Reject(h) \/ LogConflict(h) \/ Abort(h) \/
               (Insert(h) /\ doc.version # 0)
        PROVE  CreatedInv'
    <2>1. \A g \in Handler : g # h => handler'[g] = handler[g]
      BY <1>1, <1>9 DEF Reject, LogConflict, Abort, Insert, TypeOK
    <2>2. handler'[h].pc # "audit"
      BY <1>1, <1>9 DEF Reject, LogConflict, Abort, Insert, TypeOK, Idle
    <2>3. \A k \in Key : <<k, "CREATED">> \in answers' => <<k, "CREATED">> \in answers
      BY <1>9 DEF Reject, LogConflict, Abort, Insert
    <2> QED
      BY <1>6, <2>1, <2>2, <2>3
  <1>10. CASE UNCHANGED vars
    BY <1>6, <1>10 DEF vars
  <1>11. ASSUME NEW k \in Key, Compose(k) PROVE CreatedInv'
    BY <1>6, <1>11 DEF Compose
  <1> QED
    BY <1>4, <1>5, <1>7, <1>8, <1>9, <1>10, <1>11 DEF Next

\* However many requests race to create the record, one is answered CREATED.
THEOREM AlwaysCreatedOnce == Spec => []CreatedOnce
  <1>1. Init => CreatedInv
    BY InitTypeOK DEF Init, CreatedInv, Created, Idle
  <1>2. CreatedInv => CreatedOnce
    BY DEF CreatedInv, CreatedOnce, Created
  <1> QED
    BY <1>1, <1>2, NextCreatedInv, PTL DEF Spec
-----------------------------------------------------------------------------
(* One request at a time.                                                     *)

Alone == \A g, h \in Handler : handler[g] # Idle /\ handler[h] # Idle => g = h

LEMMA NoteAlone ==
    ASSUME IsFiniteSet(Handler), Note, overlapped \in BOOLEAN, ~overlapped'
    PROVE  ~overlapped /\ Alone'
  <1> DEFINE T == {h \in Handler : handler'[h] # Idle}
  <1>1. ~overlapped /\ ~(Cardinality(T) > 1)
    BY DEF Note
  <1>2. IsFiniteSet(T)
    BY FS_Subset
  <1>3. ASSUME NEW g \in T, NEW h \in T, g # h PROVE FALSE
    <2>1. IsFiniteSet(T \ {g}) /\ Cardinality(T \ {g}) = Cardinality(T) - 1
      BY <1>2, <1>3, FS_RemoveElement
    <2>2. Cardinality(T \ {g}) \in Nat /\ Cardinality(T) \in Nat
      BY <1>2, <2>1, FS_CardinalityType
    <2>3. Cardinality(T \ {g}) = 0
      BY <1>1, <2>1, <2>2
    <2>4. T \ {g} = {}
      BY <2>1, <2>3, FS_EmptySet
    <2> QED
      BY <1>3, <2>4
  <1> QED
    BY <1>1, <1>3 DEF Alone

\* The record has passed what edit k was made on, or is what k made of it.
Settled(k) ==
    /\ k \in DOMAIN base
    /\ base[k] < doc.version \/ (base[k] = doc.version /\ doc.key = k)

SavedKeys == {k \in Key : Saved(k)}

\* What holds until two requests overlap: an edit that was saved is settled, so it
\* is never merged again, and the version counts the edits saved.
Serial ==
    /\ Alone
    /\ published \subseteq 1..doc.version
    /\ \A k \in DOMAIN base : base[k] = 1 \/ base[k] <= doc.version
    /\ \A k \in Key : Saved(k) => Settled(k)
    /\ \A h \in Handler : handler[h].pc = "audit" => audited[handler[h].key] = 0
    /\ \A k \in Key : audited[k] <= 1
    /\ \A h \in Handler : handler[h].pc = "merge" =>
          /\ handler[h].version = doc.version + 1
          /\ base[handler[h].key] = doc.version
          /\ doc.key # handler[h].key
    /\ IsFiniteSet(SavedKeys)
    /\ crashes = 0 => doc.version = Cardinality(SavedKeys)

\* A step that leaves the record and what was saved of it alone.
LEMMA QuietSerial ==
    ASSUME TypeOK, TypeOK', Serial, Alone', UNCHANGED <<doc, published, audited>>,
           base' = base, crashes' = crashes \/ crashes' = crashes + 1,
           \A h \in Handler : handler'[h].pc = "audit" => handler'[h] = handler[h],
           crashes' = 0 => \A k \in Key : Saved(k) => Saved(k)',
           \A h \in Handler : handler'[h].pc = "merge" =>
              \/ handler'[h] = handler[h]
              \/ /\ handler'[h].version = doc.version + 1
                 /\ base[handler'[h].key] = doc.version
                 /\ doc.key # handler'[h].key
    PROVE  Serial'
  <1>1. \A k \in Key : Saved(k)' => Saved(k)
    BY DEF Saved
  <1>2. SavedKeys' \subseteq SavedKeys
    BY <1>1 DEF SavedKeys
  <1>3. IsFiniteSet(SavedKeys')
    BY <1>2, FS_Subset DEF Serial
  <1>4. crashes' = 0 => SavedKeys' = SavedKeys /\ crashes = 0
    BY <1>1 DEF SavedKeys, TypeOK
  <1>5. \A k : Settled(k)' <=> Settled(k)
    BY DEF Settled
  <1>6. /\ published' \subseteq 1..doc'.version
        /\ \A k \in DOMAIN base' : base'[k] = 1 \/ base'[k] <= doc'.version
        /\ \A k \in Key : audited'[k] <= 1
    BY DEF Serial
  <1>7. crashes' = 0 => doc'.version = Cardinality(SavedKeys')
    BY <1>4 DEF Serial
  <1>8. \A h \in Handler : handler'[h].pc = "audit" => audited'[handler'[h].key] = 0
    BY DEF Serial
  <1>9. \A h \in Handler : handler'[h].pc = "merge" =>
          /\ handler'[h].version = doc'.version + 1
          /\ base'[handler'[h].key] = doc'.version
          /\ doc'.key # handler'[h].key
    BY DEF Serial
  <1>10. \A k \in Key : Saved(k)' => Settled(k)'
    BY <1>1, <1>5 DEF Serial
  <1> QED
    BY <1>3, <1>6, <1>7, <1>8, <1>9, <1>10 DEF Serial

\* A request that saves an edit of its own, one version on.
LEMMA WriteSerial ==
    ASSUME TypeOK, TypeOK', Serial, NEW h \in Handler, handler[h] # Idle,
           ~Saved(handler[h].key),
           doc' = [version |-> doc.version + 1, key |-> handler[h].key],
           base[handler[h].key] = doc.version + 1 \/ base[handler[h].key] <= doc.version,
           published' = published \cup {doc.version + 1},
           handler[h].key \in DOMAIN base,
           NEW answer,
           handler' = [handler EXCEPT
                ![h] = [pc |-> "audit", key |-> handler[h].key, answer |-> answer]],
           UNCHANGED <<base, audited, crashes>>
    PROVE  Serial'
  <1> DEFINE k == handler[h].key
  <1>1. \A g \in Handler : g # h => handler[g] = Idle /\ handler'[g] = Idle
    BY DEF Serial, Alone, TypeOK
  <1>2. handler'[h].pc = "audit" /\ handler'[h].key = k
    BY DEF TypeOK
  <1>3. k \in Key /\ doc.version \in Nat /\ \A j \in DOMAIN base : base[j] \in Nat
    BY DEF TypeOK
  <1>4. Alone'
    BY <1>1 DEF Alone
  <1>5. Idle.pc = "idle" /\ handler[h].pc # "audit"
    <2>1. Idle.pc = "idle"
      BY DEF Idle
    <2> QED
      BY <2>1, <1>3 DEF Saved
  <1>6. \A j \in Key : Saved(j)' <=> Saved(j) \/ j = k
    BY <1>1, <1>2, <1>5 DEF Saved
  <1>7. SavedKeys' = SavedKeys \cup {k} /\ k \notin SavedKeys
    BY <1>3, <1>6 DEF SavedKeys
  <1>8. IsFiniteSet(SavedKeys') /\ Cardinality(SavedKeys') = Cardinality(SavedKeys) + 1
    BY <1>7, FS_AddElement DEF Serial
  <1>9. crashes' = 0 => doc'.version = Cardinality(SavedKeys')
    BY <1>8 DEF Serial
  <1>10. \A j \in Key : Saved(j)' => Settled(j)'
    BY <1>3, <1>6 DEF Settled, Serial
  <1>11. published' \subseteq 1..doc'.version
    BY <1>3 DEF Serial
  <1>12. \A j \in DOMAIN base' : base'[j] = 1 \/ base'[j] <= doc'.version
    BY <1>3 DEF Serial
  <1>13. audited'[k] = 0 /\ \A j \in Key : audited'[j] <= 1
    BY <1>3 DEF Serial, Saved, TypeOK
  <1>14. \A g \in Handler : handler'[g].pc = "audit" => audited'[handler'[g].key] = 0
    BY <1>1, <1>2, <1>5, <1>13
  <1>15. \A g \in Handler : handler'[g].pc # "merge"
    BY <1>1, <1>2, <1>5
  <1> QED
    BY <1>4, <1>8, <1>9, <1>10, <1>11, <1>12, <1>13, <1>14, <1>15 DEF Serial

\* The write of an insertion or a merge, while no other request is in the server.
LEMMA SerialWrites ==
    ASSUME TypeOK, Serial, NEW h \in Handler, Merge(h) \/ Insert(h), doc' # doc
    PROVE  /\ handler[h] # Idle /\ handler[h].key \in DOMAIN base /\ ~Saved(handler[h].key)
           /\ doc.version = 0 \/ base[handler[h].key] = doc.version
           /\ base[handler[h].key] = doc.version + 1 \/ base[handler[h].key] <= doc.version
           /\ doc' = [version |-> doc.version + 1, key |-> handler[h].key]
           /\ published' = published \cup {doc.version + 1}
           /\ \E answer : handler' = [handler EXCEPT
                  ![h] = [pc |-> "audit", key |-> handler[h].key, answer |-> answer]]
           /\ UNCHANGED <<base, audited, crashes>>
  <1>1. handler[h] # Idle /\ handler[h].key \in DOMAIN base
    BY DEF Merge, Insert, TypeOK, Idle
  <1>2. /\ doc.version \in Nat /\ base[handler[h].key] \in Nat \ {0}
        /\ handler[h].key \in Key
    BY <1>1 DEF TypeOK
  <1>3. CASE Merge(h)
    <2>1. /\ handler[h].pc = "merge"
          /\ doc' = [version |-> handler[h].version, key |-> handler[h].key]
          /\ published' = published \cup {handler[h].version}
          /\ \E answer : handler' = [handler EXCEPT
                ![h] = [pc |-> "audit", key |-> handler[h].key, answer |-> answer]]
          /\ UNCHANGED <<base, audited, crashes>>
      BY <1>3 DEF Merge
    <2>2. /\ handler[h].version = doc.version + 1
          /\ base[handler[h].key] = doc.version
          /\ doc.key # handler[h].key
      BY <2>1 DEF Serial
    <2>3. ~Settled(handler[h].key)
      BY <1>2, <2>2 DEF Settled
    <2>4. ~Saved(handler[h].key)
      BY <1>2, <2>3 DEF Serial
    <2>5. /\ doc' = [version |-> doc.version + 1, key |-> handler[h].key]
          /\ published' = published \cup {doc.version + 1}
      BY <2>1, <2>2
    <2>6. base[handler[h].key] <= doc.version
      BY <1>2, <2>2
    <2> QED
      BY <1>1, <2>1, <2>2, <2>4, <2>5, <2>6, Zenon
  <1>4. CASE Insert(h)
    <2>1. /\ doc.version = 0
          /\ doc' = [version |-> 1, key |-> handler[h].key]
          /\ published' = published \cup {1}
          /\ \E answer : handler' = [handler EXCEPT
                ![h] = [pc |-> "audit", key |-> handler[h].key, answer |-> answer]]
          /\ UNCHANGED <<base, audited, crashes>>
      BY <1>4 DEF Insert
    <2>2. base[handler[h].key] = 1
      BY <1>1, <1>2, <2>1 DEF Serial
    <2>3. ~Settled(handler[h].key)
      BY <2>1, <2>2 DEF Settled
    <2>4. ~Saved(handler[h].key)
      BY <1>2, <2>3 DEF Serial
    <2>5. doc.version + 1 = 1
      BY <2>1
    <2>6. /\ doc' = [version |-> doc.version + 1, key |-> handler[h].key]
          /\ published' = published \cup {doc.version + 1}
      BY <2>1, <2>5
    <2>7. base[handler[h].key] = doc.version + 1
      BY <2>2, <2>5
    <2> QED
      BY <1>1, <2>1, <2>4, <2>6, <2>7, Zenon
  <1> QED
    BY <1>3, <1>4

LEMMA NextSerial == ASSUME TypeOK, TypeOK', Serial, Alone', [Next]_vars PROVE Serial'
  <1>1. ASSUME NEW h \in Handler, Merge(h) \/ Insert(h), doc' # doc PROVE Serial'
    <2>1. PICK answer : handler' = [handler EXCEPT
               ![h] = [pc |-> "audit", key |-> handler[h].key, answer |-> answer]]
      BY <1>1, SerialWrites
    <2> QED
      BY <1>1, <2>1, SerialWrites, WriteSerial
  <1>2. ASSUME NEW h \in Handler, AppendAudit(h) PROVE Serial'
    <2> DEFINE k == handler[h].key
    <2>1. /\ handler[h].pc = "audit" /\ k \in Key /\ handler[h] # Idle
          /\ audited' = [audited EXCEPT ![k] = @ + 1]
          /\ handler' = [handler EXCEPT ![h] = Idle]
          /\ UNCHANGED <<doc, base, published, crashes>>
      BY <1>2 DEF AppendAudit, TypeOK, Idle
    <2>2. audited[k] = 0 /\ audited'[k] = 1 /\ \A j \in Key : j # k => audited'[j] = audited[j]
      BY <2>1 DEF Serial, TypeOK
    <2>3. \A g \in Handler : handler'[g] = Idle
      BY <2>1 DEF Serial, Alone, TypeOK
    <2>4. Idle.pc = "idle"
      BY DEF Idle
    <2>5. \A j \in Key : Saved(j)' <=> Saved(j)
      <3> SUFFICES ASSUME NEW j \in Key PROVE Saved(j)' <=> Saved(j)
        OBVIOUS
      <3>1. CASE j = k
        BY <2>1, <2>2, <3>1 DEF Saved
      <3>2. CASE j # k
        <4>1. ASSUME NEW g \in Handler, handler[g].pc = "audit" PROVE g = h
          <5>1. handler[g] # Idle
            BY <2>4, <4>1
          <5> QED
            BY <2>1, <5>1 DEF Serial, Alone
        <4> QED
          BY <2>2, <2>3, <2>4, <3>2, <4>1 DEF Saved
      <3> QED
        BY <3>1, <3>2
    <2>6. SavedKeys' = SavedKeys
      BY <2>5 DEF SavedKeys
    <2>7. \A j \in Key : Saved(j)' => Settled(j)'
      BY <2>1, <2>5 DEF Serial, Settled
    <2>8. \A j \in Key : audited'[j] <= 1
      BY <2>2 DEF Serial
    <2>9. \A g \in Handler : handler'[g].pc \notin {"audit", "merge"}
      BY <2>3, <2>4
    <2> QED
      BY <2>1, <2>6, <2>7, <2>8, <2>9 DEF Serial
  <1>3. ASSUME NEW h \in Handler, NEW k \in Key, Deliver(h, k) PROVE Serial'
    <2>1. \A g \in Handler : g # h => handler'[g] = handler[g]
      BY <1>3 DEF Deliver, TypeOK
    <2>2. CASE Decision(k) = "duplicate"
      <3>1. handler'[h] = handler[h]
        BY <1>3, <2>2 DEF Deliver, TypeOK
      <3>2. \A j \in Key : Saved(j)' <=> Saved(j)
        BY <1>3, <2>1, <3>1 DEF Saved, Deliver
      <3> QED
        BY <1>3, <2>1, <3>1, <3>2, QuietSerial DEF Deliver
    <2>3. CASE Decision(k) # "duplicate"
      <3>1. handler'[h] = [pc |-> Decision(k), key |-> k, version |-> doc.version + 1]
        BY <1>3, <2>3 DEF Deliver, TypeOK
      <3>2. handler'[h].pc = Decision(k) /\ handler'[h].key = k
            /\ handler'[h].version = doc.version + 1
        BY <3>1
      <3>3. Decision(k) # "audit" /\ handler[h].pc # "audit"
        BY <1>3 DEF Decision, Deliver, Idle
      <3>4. Decision(k) = "merge" => base[k] = doc.version /\ doc.key # k
        BY <2>3 DEF Decision
      <3>5. \A j \in Key : Saved(j) => Saved(j)'
        BY <1>3, <2>1, <3>3 DEF Saved, Deliver
      <3>6. UNCHANGED <<doc, published, audited, base, crashes>>
        BY <1>3 DEF Deliver
      <3> QED
        BY <2>1, <3>2, <3>3, <3>4, <3>5, <3>6, QuietSerial
    <2> QED
      BY <2>2, <2>3
  <1>4. ASSUME NEW h \in Handler, Reject(h) \/ LogConflict(h) \/ Abort(h)
                                 \/ (Insert(h) /\ doc' = doc)
        PROVE Serial'
    <2>1. /\ handler' = [handler EXCEPT ![h] = Idle]
          /\ UNCHANGED <<doc, published, audited, base>>
          /\ crashes' = crashes \/ crashes' = crashes + 1
      <3>1. CASE Insert(h) /\ doc' = doc
        <4>1. doc.version # 0
          BY <3>1 DEF Insert
        <4> QED
          BY <3>1, <4>1 DEF Insert
      <3> QED
        BY <1>4, <3>1 DEF Reject, LogConflict, Abort
    <2>2. \A g \in Handler : handler'[g] = handler[g] \/ handler'[g] = Idle
      BY <2>1 DEF TypeOK
    <2>3. Idle.pc = "idle"
      BY DEF Idle
    <2>4. crashes' = 0 => crashes' = crashes
      BY <2>1 DEF TypeOK
    <2>5. crashes' = 0 => \A k \in Key : Saved(k) => Saved(k)'
      BY <2>4, SavedStands
    <2> QED
      BY <2>1, <2>2, <2>3, <2>5, QuietSerial
  <1>5. ASSUME NEW k \in Key, Compose(k) PROVE Serial'
    <2>1. PICK v \in {1} \cup published :
             base' = [i \in DOMAIN base \cup {k} |-> IF i = k THEN v ELSE base[i]]
      BY <1>5 DEF Compose
    <2>2. k \notin DOMAIN base /\ UNCHANGED <<doc, published, handler, audited, crashes>>
      BY <1>5 DEF Compose
    <2>3. DOMAIN base' = DOMAIN base \cup {k} /\ \A j \in DOMAIN base : base'[j] = base[j]
      BY <2>1, <2>2
    <2>4. base'[k] = v /\ (v = 1 \/ v <= doc.version)
      BY <2>1 DEF Serial, TypeOK
    <2>5. \A j \in Key : (Saved(j)' <=> Saved(j)) /\ (Settled(j) => Settled(j)')
      BY <2>2, <2>3 DEF Saved, Settled
    <2>6. SavedKeys' = SavedKeys
      BY <2>5 DEF SavedKeys
    <2>7. \A h \in Handler : handler[h].pc = "merge" => handler[h].key \in DOMAIN base
      BY DEF TypeOK, Idle
    <2> QED
      BY <2>2, <2>3, <2>4, <2>5, <2>6, <2>7 DEF Serial
  <1>6. CASE UNCHANGED vars
    <2>1. \A k \in Key : Saved(k)' <=> Saved(k)
      BY <1>6 DEF vars, Saved
    <2> QED
      BY <1>6, <2>1, QuietSerial DEF vars
  <1>7. ASSUME NEW h \in Handler, Merge(h) \/ Insert(h) PROVE Serial'
    <2>1. CASE doc' = doc /\ Insert(h)
      BY <1>4, <2>1
    <2>2. CASE doc' = doc /\ Merge(h)
      <3>1. handler[h].version = doc.version
        BY <2>2 DEF Merge
      <3> QED
        BY <2>2, <3>1 DEF Serial, Merge, TypeOK
    <2>3. CASE doc' # doc
      BY <1>1, <1>7, <2>3
    <2> QED
      BY <1>7, <2>1, <2>2, <2>3
  <1>8. CASE Next
    BY <1>2, <1>3, <1>4, <1>5, <1>7, <1>8 DEF Next
  <1> QED
    BY <1>6, <1>8

SerialInv == TypeOK /\ overlapped \in BOOLEAN /\ (~overlapped => Serial)

LEMMA InitSerialInv == MCInit => SerialInv
  <1> SUFFICES ASSUME MCInit PROVE SerialInv
    OBVIOUS
  <1>1. TypeOK
    BY InitTypeOK DEF MCInit
  <1>2. SavedKeys = {}
    BY DEF MCInit, Init, SavedKeys, Saved, Idle
  <1>3. IsFiniteSet(SavedKeys) /\ Cardinality(SavedKeys) = 0
    BY <1>2, FS_EmptySet
  <1>4. \A k \in Key : ~Saved(k)
    BY <1>2 DEF SavedKeys
  <1>5. handler = [h \in Handler |-> Idle] /\ Idle.pc = "idle" /\ base = <<>> /\ published = {}
        /\ audited = [k \in Key |-> 0] /\ doc.version = 0 /\ overlapped = FALSE
    BY DEF MCInit, Init, Idle
  <1>6. DOMAIN base = {}
    BY <1>5
  <1>7. \A h \in Handler : handler[h] = Idle /\ handler[h].pc = "idle"
    BY <1>5
  <1>8. Alone
    BY <1>7 DEF Alone
  <1>9. Serial
    BY <1>3, <1>4, <1>5, <1>6, <1>7, <1>8 DEF Serial
  <1> QED
    BY <1>1, <1>5, <1>9 DEF SerialInv

LEMMA NextSerialInv ==
    ASSUME IsFiniteSet(Handler), SerialInv, [MCNext]_<<vars, overlapped>>
    PROVE  SerialInv'
  <1>1. [Next]_vars /\ TypeOK'
    BY NextTypeOK DEF MCNext, Next, SerialInv
  <1>2. CASE UNCHANGED <<vars, overlapped>>
    <2>1. Alone' <=> Alone
      BY <1>2 DEF Alone, vars
    <2> QED
      BY <1>1, <1>2, <2>1, NextSerial DEF SerialInv, Serial
  <1>3. CASE Note
    <2>1. overlapped' \in BOOLEAN
      BY <1>3 DEF Note, SerialInv
    <2> QED
      BY <1>1, <1>3, <2>1, NoteAlone, NextSerial DEF SerialInv
  <1> QED
    BY <1>2, <1>3 DEF MCNext

\* Of one request at a time, sent again as often as the client likes and dying at any
\* await, an edit leaves one block, and without deaths the version counts the edits.
THEOREM EditsAlwaysCounted ==
  ASSUME IsFiniteSet(Handler) PROVE MCSpec => []EditsCounted
  <1>1. SerialInv /\ [MCNext]_<<vars, overlapped>> => SerialInv'
    BY NextSerialInv
  <1>2. SerialInv => EditsCounted
    <2> SUFFICES ASSUME SerialInv, ~overlapped PROVE AppliedOnce /\ VersionCountsEdits
      BY DEF EditsCounted
    <2>1. Serial
      BY DEF SerialInv
    <2>2. AppliedOnce
      BY <2>1 DEF Serial, AppliedOnce
    <2>3. ASSUME crashes = 0, \A h \in Handler : handler[h].pc # "audit"
          PROVE  doc.version = Cardinality({k \in Key : audited[k] > 0})
      <3>1. SavedKeys = {k \in Key : audited[k] > 0}
        BY <2>3 DEF SavedKeys, Saved
      <3> QED
        BY <2>1, <2>3, <3>1 DEF Serial
    <2> QED
      BY <2>2, <2>3 DEF VersionCountsEdits
  <1> QED
    BY <1>1, <1>2, InitSerialInv, PTL DEF MCSpec

\* Until two requests overlap the record is the register optimistic concurrency
\* control promises: every step is one of VersionedRecord, or leaves it alone.
THEOREM RegisterKeptSerially ==
  ASSUME IsFiniteSet(Handler) PROVE MCSpec => KeepsRegisterSerially
  <1>1. SerialInv /\ [MCNext]_<<vars, overlapped>> => SerialInv'
    BY NextSerialInv
  <1>2. SerialInv /\ [MCNext]_<<vars, overlapped>> =>
            [~overlapped' => Promise!Next \/ UNCHANGED <<base, doc>>]_<<vars, overlapped>>
    <2> SUFFICES ASSUME SerialInv, MCNext, ~overlapped',
                        ~UNCHANGED <<base, doc>>
                 PROVE  Promise!Next
      OBVIOUS
    <2>1. TypeOK /\ Serial
      BY NoteAlone DEF SerialInv, MCNext, Note
    <2>2. ASSUME NEW k \in Key, Compose(k) PROVE Promise!Next
      <3>1. Promise!Compose
        BY <2>2 DEF Compose, Promise!Compose
      <3> QED
        BY <3>1 DEF Promise!Next
    <2>3. ASSUME NEW h \in Handler, Merge(h) \/ Insert(h), doc' # doc PROVE Promise!Next
      <3> DEFINE k == handler[h].key
      <3>1. k \in DOMAIN base /\ (doc.version = 0 \/ base[k] = doc.version)
            /\ doc' = [version |-> doc.version + 1, key |-> k] /\ base' = base
        BY <2>1, <2>3, SerialWrites
      <3> HIDE DEF k
      <3>2. Promise!Accept(k)
        BY <3>1 DEF Promise!Accept
      <3> QED
        BY <3>1, <3>2 DEF Promise!Next
    <2>4. ASSUME NEW h \in Handler, NEW k \in Key,
                 Deliver(h, k) \/ Reject(h) \/ AppendAudit(h) \/ LogConflict(h) \/ Abort(h)
          PROVE  FALSE
      BY <2>4 DEF Deliver, Reject, AppendAudit, LogConflict, Abort
    <2>5. ASSUME NEW h \in Handler, Reject(h) \/ AppendAudit(h) \/ LogConflict(h) \/ Abort(h)
          PROVE  FALSE
      BY <2>5 DEF Reject, AppendAudit, LogConflict, Abort
    <2>6. ASSUME NEW h \in Handler, Merge(h) \/ Insert(h), doc' = doc PROVE FALSE
      BY <2>6 DEF Merge, Insert
    <2> QED
      BY <2>2, <2>3, <2>4, <2>5, <2>6 DEF MCNext
  <1>3. MCInit => Promise!Init
    BY DEF MCInit, Init, Promise!Init
  <1> QED
    BY <1>1, <1>2, <1>3, InitSerialInv, PTL DEF MCSpec, KeepsRegisterSerially
================================================================================
