-------------------------- MODULE RefreshTokensProofs --------------------------
(***************************************************************************)
(* Theorems about RefreshTokens for any number of requests and tokens.     *)
(*                                                                         *)
(* ReplacedIsRevoked is not inductive: a request that is about to issue a  *)
(* token must be known to have seen the old one revoked.  IssueSound says  *)
(* so, and holds because nothing takes a token out of "revoked".           *)
(***************************************************************************)
EXTENDS MCRefreshTokens, FiniteSetTheorems, TLAPS

IssueSound == \A h \in Handler : handler[h].pc = "issue" => handler[h].token \in revoked

IInv == TypeOK /\ IssueSound /\ ReplacedIsRevoked

\* What issuing a token does to the function of parents.
LEMMA IssuedGrows ==
  ASSUME NEW t, IssueFor(t), parent \in [Issued -> Token \cup {None}],
         t \in Token \cup {None}
  PROVE  /\ parent' \in [Issued' -> Token \cup {None}]
         /\ Issued \subseteq Issued'
         /\ Issued' \subseteq Issued \cup Token
         /\ \A u \in Issued' : parent'[u] = t \/ (u \in Issued /\ parent'[u] = parent[u])
  <1>1. PICK n \in Token \ Issued :
          parent' = [u \in Issued \cup {n} |-> IF u = n THEN t ELSE parent[u]]
    BY DEF IssueFor
  <1>2. Issued' = Issued \cup {n}
    BY <1>1 DEF Issued
  <1> QED
    BY <1>1, <1>2

LEMMA InitIInv == Init => IInv
  <1> SUFFICES ASSUME Init PROVE IInv
    OBVIOUS
  <1>1. parent = [u \in {} |-> None]
    BY DEF Init
  <1>2. Issued = {}
    BY <1>1 DEF Issued
  <1> QED
    BY <1>1, <1>2 DEF Init, IInv, TypeOK, IssueSound, ReplacedIsRevoked, IsHandler, Idle

\* Every step keeps the shape.
LEMMA NextTypeOK == TypeOK /\ [Next]_vars => TypeOK'
  <1> SUFFICES ASSUME TypeOK, [Next]_vars PROVE TypeOK'
    OBVIOUS
  <1> USE DEF TypeOK
  <1>1. ASSUME NEW h \in Handler, Login(h) PROVE TypeOK'
    BY <1>1, IssuedGrows DEF Login, IsHandler, Idle
  <1>2. ASSUME NEW h \in Handler, NEW t \in Token, Check(h, t) PROVE TypeOK'
    BY <1>2 DEF Check, Live, IsHandler, Idle, Issued
  <1>3. ASSUME NEW h \in Handler, NEW t \in Token, Logout(h, t) PROVE TypeOK'
    BY <1>3 DEF Logout, IsHandler, Idle, Issued
  <1>4. ASSUME NEW h \in Handler, Find(h) PROVE TypeOK'
    BY <1>4 DEF Find, Live, Continue, IsHandler, Idle, Issued
  <1>5. ASSUME NEW h \in Handler, Save(h) PROVE TypeOK'
    BY <1>5 DEF Save, Continue, IsHandler, Idle, Issued
  <1>6. ASSUME NEW h \in Handler, Issue(h) PROVE TypeOK'
    BY <1>6, IssuedGrows DEF Issue, IsHandler, Idle
  <1>7. ASSUME NEW h \in Handler, ReadAll(h) PROVE TypeOK'
    BY <1>7 DEF ReadAll, Live, IsHandler, Idle, Issued
  <1>8. ASSUME NEW h \in Handler, Sweep(h) PROVE TypeOK'
    BY <1>8 DEF Sweep, IsHandler, Idle, Issued
  <1>9. ASSUME NEW h \in Handler, EndSweep(h) PROVE TypeOK'
    BY <1>9 DEF EndSweep, IsHandler, Idle, Issued
  <1>10. ASSUME NEW h \in Handler, Abort(h) PROVE TypeOK'
    BY <1>10 DEF Abort, IsHandler, Idle, Issued
  <1>11. ASSUME NEW t \in Token, Expire(t) PROVE TypeOK'
    BY <1>11 DEF Expire, IsHandler, Issued
  <1>12. CASE UNCHANGED vars
    BY <1>12 DEF vars, IsHandler, Issued
  <1>13. CASE Next
    BY <1>13, <1>1, <1>2, <1>3, <1>4, <1>5, <1>6, <1>7, <1>8, <1>9, <1>10, <1>11
    DEF Next
  <1> QED
    BY <1>12, <1>13

\* Tokens keep their shape whatever requests interleave (auth_service.py:95-134).
THEOREM TypeCorrect == Spec => []TypeOK
  <1>1. Init => TypeOK
    BY InitIInv DEF IInv
  <1> QED
    BY <1>1, NextTypeOK, PTL DEF Spec

-----------------------------------------------------------------------------
(* The order of a rotation.                                                *)

\* Only an issued token is revoked and none is ever taken back, so what a request
\* that may issue has seen stays true.
LEMMA NextIssueSound == TypeOK /\ IssueSound /\ [Next]_vars => IssueSound'
  <1> SUFFICES ASSUME TypeOK, IssueSound, [Next]_vars PROVE IssueSound'
    OBVIOUS
  <1> USE DEF IssueSound
  <1>1. ASSUME NEW h \in Handler, Login(h) PROVE IssueSound'
    BY <1>1 DEF Login
  <1>2. ASSUME NEW h \in Handler, NEW t \in Token, Check(h, t) \/ Logout(h, t)
        PROVE  IssueSound'
    BY <1>2 DEF Check, Logout, TypeOK
  <1>3. ASSUME NEW h \in Handler, Find(h) PROVE IssueSound'
    BY <1>3 DEF Find, Live, Continue, Idle, TypeOK, IsHandler
  <1>4. ASSUME NEW h \in Handler, Save(h) PROVE IssueSound'
    BY <1>4 DEF Save, Continue, Idle, TypeOK
  <1>5. ASSUME NEW h \in Handler, Issue(h) PROVE IssueSound'
    BY <1>5 DEF Issue, Idle, TypeOK
  <1>6. ASSUME NEW h \in Handler, ReadAll(h) \/ EndSweep(h) \/ Abort(h)
        PROVE  IssueSound'
    BY <1>6 DEF ReadAll, EndSweep, Abort, Idle, TypeOK
  <1>7. ASSUME NEW h \in Handler, Sweep(h) PROVE IssueSound'
    BY <1>7 DEF Sweep, TypeOK
  <1>8. ASSUME NEW t \in Issued, Expire(t) PROVE IssueSound'
    BY <1>8 DEF Expire
  <1>9. CASE UNCHANGED vars
    BY <1>9 DEF vars
  <1>10. CASE Next
    BY <1>10, <1>1, <1>2, <1>3, <1>4, <1>5, <1>6, <1>7, <1>8 DEF Next
  <1> QED
    BY <1>9, <1>10

LEMMA RevokedGrows == [Next]_vars => revoked \subseteq revoked'
  BY DEF Next, vars, Login, Check, Logout, Find, Save, Issue, ReadAll, Sweep,
         EndSweep, Expire, Abort

\* A token gets a parent when it is issued, and that parent is revoked by then.
LEMMA NextReplaced == IInv /\ [Next]_vars => ReplacedIsRevoked'
  <1> SUFFICES ASSUME IInv, [Next]_vars PROVE ReplacedIsRevoked'
    OBVIOUS
  <1> USE DEF IInv
  <1>1. revoked \subseteq revoked'
    BY RevokedGrows
  <1>2. ASSUME NEW h \in Handler, Login(h) PROVE ReplacedIsRevoked'
    BY <1>1, <1>2, IssuedGrows DEF Login, ReplacedIsRevoked, TypeOK
  <1>3. ASSUME NEW h \in Handler, Issue(h) PROVE ReplacedIsRevoked'
    <2>1. handler[h].token \in Token \cup {None} /\ handler[h].token \in revoked
      BY <1>3 DEF Issue, TypeOK, IssueSound
    <2> QED
      BY <1>1, <1>3, <2>1, IssuedGrows DEF Issue, ReplacedIsRevoked, TypeOK
  <1>4. ASSUME UNCHANGED parent PROVE ReplacedIsRevoked'
    BY <1>1, <1>4 DEF ReplacedIsRevoked, Issued
  <1>5. CASE UNCHANGED vars
    BY <1>4, <1>5 DEF vars
  <1>6. CASE Next
    BY <1>6, <1>2, <1>3, <1>4
    DEF Next, Check, Logout, Find, Save, ReadAll, Sweep, EndSweep, Expire, Abort
  <1> QED
    BY <1>5, <1>6

\* A token that was exchanged is revoked for good, whatever requests interleave
\* and whichever die half way (refresh, lines 124-126).
THEOREM ReplacedAlwaysRevoked == Spec => []ReplacedIsRevoked
  <1>1. IInv /\ [Next]_vars => IInv'
    BY NextTypeOK, NextIssueSound, NextReplaced DEF IInv
  <1>2. IInv => ReplacedIsRevoked
    BY DEF IInv
  <1> QED
    BY <1>1, <1>2, InitIInv, PTL DEF Spec

-----------------------------------------------------------------------------
(* No two requests at once.                                                *)

Alone == \A g, h \in Handler : handler[g] # Idle /\ handler[h] # Idle => g = h

Exchanging(h) ==
    \/ handler[h].pc \in {"find", "save"} /\ handler[h].next = "issue"
    \/ handler[h].pc = "issue"

\* A token that is being exchanged has not been exchanged before, and no logout
\* has found it.
FirstExchange ==
    \A h \in Handler : Exchanging(h) =>
        /\ handler[h].token \notin swept
        /\ \A n \in Issued : parent[n] # handler[h].token

\* What a logout has done is revoked, and nothing came of what it will do.
SweepSound ==
    \A h \in Handler : handler[h].pc = "sweep" =>
        /\ handler[h].all \ handler[h].todo \subseteq revoked
        /\ \A n \in Issued : parent[n] \notin handler[h].all

SInv == Alone /\ FirstExchange /\ SweepSound /\ RotatedOnce /\ LogoutAllEnds

LEMMA InitSInv == Init => SInv
  <1> SUFFICES ASSUME Init PROVE SInv
    OBVIOUS
  <1>1. parent = [u \in {} |-> None]
    BY DEF Init
  <1> QED
    BY <1>1 DEF Init, SInv, Alone, FirstExchange, SweepSound, Exchanging,
                RotatedOnce, LogoutAllEnds, Issued, Idle

\* A step that issues nothing and ends no logout keeps what was reached.
LEMMA QuietSInv ==
  ASSUME SInv, Alone', UNCHANGED <<parent, swept>>, revoked \subseteq revoked',
         FirstExchange', SweepSound'
  PROVE  SInv'
  BY DEF SInv, RotatedOnce, LogoutAllEnds, Issued

LEMMA NextSInv ==
  ASSUME IInv, SInv, [Next]_vars, Alone'
  PROVE  SInv'
  <1> USE DEF FirstExchange, SweepSound, Exchanging
  <1>1. /\ parent \in [Issued -> Token \cup {None}] /\ DOMAIN handler = Handler
        /\ Issued \subseteq Token /\ \A h \in Handler : IsHandler(handler[h])
    BY DEF IInv, TypeOK
  <1>2. revoked \subseteq revoked'
    BY RevokedGrows
  <1>3. FirstExchange /\ SweepSound /\ RotatedOnce /\ LogoutAllEnds
    BY DEF SInv
  <1>4. ASSUME NEW h \in Handler, handler[h] # Idle, NEW g \in Handler, g # h
        PROVE  handler[g] = Idle
    BY <1>4 DEF SInv, Alone
  <1>5. ASSUME NEW h \in Handler, Login(h) PROVE SInv'
    <2>1. PICK n \in Token \ Issued :
            parent' = [u \in Issued \cup {n} |-> IF u = n THEN None ELSE parent[u]]
      BY <1>5 DEF Login, IssueFor
    <2>2. None \notin swept /\ \A g \in Handler : Exchanging(g) => handler[g].token # None
      BY <1>1, TokenAssumption DEF IInv, TypeOK, IsHandler, Idle
    <2>3. \A g \in Handler : handler[g].pc = "sweep" => None \notin handler[g].all
      BY <1>1, TokenAssumption DEF IsHandler, Idle
    <2>4. Issued' = Issued \cup {n} /\ UNCHANGED <<revoked, handler, swept>>
      BY <1>5, <2>1 DEF Issued, Login
    <2>5. FirstExchange' /\ SweepSound'
      BY <1>3, <2>1, <2>2, <2>3, <2>4
    <2>6. RotatedOnce' /\ LogoutAllEnds'
      BY <1>3, <2>1, <2>2, <2>4 DEF RotatedOnce, LogoutAllEnds
    <2> QED
      BY <2>5, <2>6 DEF SInv
  <1>6. ASSUME NEW h \in Handler, NEW t \in Token, Check(h, t) PROVE SInv'
    <2>1. t \notin swept /\ \A n \in Issued : parent[n] # t
      BY <1>3, <1>6, TokenAssumption
      DEF Check, Live, IInv, ReplacedIsRevoked, LogoutAllEnds
    <2>2. FirstExchange' /\ SweepSound'
      BY <1>1, <1>3, <1>6, <2>1 DEF Check, Issued
    <2> QED
      BY <1>2, <1>6, <2>2, QuietSInv DEF Check
  <1>7. ASSUME NEW h \in Handler, NEW t \in Token, Logout(h, t) PROVE SInv'
    <2>1. FirstExchange' /\ SweepSound'
      BY <1>1, <1>3, <1>7 DEF Logout, Issued
    <2> QED
      BY <1>2, <1>7, <2>1, QuietSInv DEF Logout
  <1>8. ASSUME NEW h \in Handler, Find(h) \/ Save(h) PROVE SInv'
    <2>1. FirstExchange' /\ SweepSound'
      BY <1>1, <1>2, <1>3, <1>8 DEF Find, Save, Continue, Idle, Issued
    <2> QED
      BY <1>2, <1>8, <2>1, QuietSInv DEF Find, Save
  <1>9. ASSUME NEW h \in Handler, Issue(h) PROVE SInv'
    <2>1. \A g \in Handler : handler'[g] = Idle
      BY <1>1, <1>4, <1>9 DEF Issue, Idle
    <2>2. PICK n \in Token \ Issued :
            parent' = [u \in Issued \cup {n} |->
                         IF u = n THEN handler[h].token ELSE parent[u]]
      BY <1>9 DEF Issue, IssueFor
    <2>3. handler[h].token \notin swept /\ \A u \in Issued : parent[u] # handler[h].token
      BY <1>3, <1>9 DEF Issue
    <2>4. Issued' = Issued \cup {n} /\ UNCHANGED <<revoked, swept>>
      BY <1>9, <2>2 DEF Issued, Issue
    <2>5. RotatedOnce' /\ LogoutAllEnds'
      BY <1>3, <2>2, <2>3, <2>4 DEF RotatedOnce, LogoutAllEnds
    <2> QED
      BY <2>1, <2>5 DEF Idle, SInv
  <1>10. ASSUME NEW h \in Handler, ReadAll(h) PROVE SInv'
    <2>1. \A n \in Issued : parent[n] \notin Live
      BY <1>1, TokenAssumption DEF IInv, ReplacedIsRevoked, Live
    <2>2. FirstExchange' /\ SweepSound'
      BY <1>1, <1>3, <1>10, <2>1 DEF ReadAll, Issued
    <2> QED
      BY <1>2, <1>10, <2>2, QuietSInv DEF ReadAll
  <1>11. ASSUME NEW h \in Handler, Sweep(h) PROVE SInv'
    <2>1. FirstExchange' /\ SweepSound'
      BY <1>1, <1>2, <1>3, <1>11 DEF Sweep, Issued
    <2> QED
      BY <1>2, <1>11, <2>1, QuietSInv DEF Sweep
  <1>12. ASSUME NEW h \in Handler, EndSweep(h) PROVE SInv'
    <2>1. \A g \in Handler : handler'[g] = Idle
      BY <1>1, <1>4, <1>12 DEF EndSweep, Idle
    <2>2. handler[h].all \subseteq revoked /\ \A n \in Issued : parent[n] \notin handler[h].all
      BY <1>3, <1>12 DEF EndSweep
    <2>3. RotatedOnce' /\ LogoutAllEnds'
      BY <1>3, <1>12, <2>2 DEF EndSweep, RotatedOnce, LogoutAllEnds, Issued
    <2> QED
      BY <2>1, <2>3 DEF Idle, SInv
  <1>13. ASSUME NEW h \in Handler, Abort(h) PROVE SInv'
    <2>1. FirstExchange' /\ SweepSound'
      BY <1>1, <1>3, <1>13 DEF Abort, Idle, Issued
    <2> QED
      BY <1>2, <1>13, <2>1, QuietSInv DEF Abort
  <1>14. ASSUME NEW t \in Issued, Expire(t) PROVE SInv'
    <2>1. FirstExchange' /\ SweepSound'
      BY <1>3, <1>14 DEF Expire, Issued
    <2> QED
      BY <1>2, <1>14, <2>1, QuietSInv DEF Expire
  <1>15. CASE UNCHANGED vars
    <2>1. FirstExchange' /\ SweepSound'
      BY <1>3, <1>15 DEF vars, Issued
    <2> QED
      BY <1>2, <1>15, <2>1, QuietSInv DEF vars
  <1>16. CASE Next
    BY <1>16, <1>5, <1>6, <1>7, <1>8, <1>9, <1>10, <1>11, <1>12, <1>13, <1>14
    DEF Next
  <1> QED
    BY <1>15, <1>16

LEMMA NextIInv == IInv /\ [Next]_vars => IInv'
  BY NextTypeOK, NextIssueSound, NextReplaced DEF IInv

\* The history says when requests never met.
LEMMA NoteAlone ==
  ASSUME IsFiniteSet(Handler), Note, overlapped \in BOOLEAN, ~overlapped'
  PROVE  ~overlapped /\ Alone'
  <1> DEFINE T == {h \in Handler : handler'[h] # Idle}
  <1>1. ~overlapped /\ ~(Cardinality(T) > 1)
    BY DEF Note
  <1>2. IsFiniteSet(T)
    BY FS_Subset
  <1>3. ASSUME NEW g \in T, NEW h \in T, g # h PROVE FALSE
    <2>1. IsFiniteSet(T \ {g}) /\ Cardinality(T \ {g}) = Cardinality(T) - 1
      BY <1>2, <1>3, FS_RemoveElement
    <2>2. Cardinality(T \ {g}) \in Nat /\ Cardinality(T) \in Nat
      BY <1>2, <2>1, FS_CardinalityType
    <2>3. Cardinality(T \ {g}) = 0
      BY <1>1, <2>1, <2>2
    <2>4. T \ {g} = {}
      BY <2>1, <2>3, FS_EmptySet
    <2> QED
      BY <1>3, <2>4
  <1> QED
    BY <1>1, <1>3 DEF Alone

Unmet == overlapped \in BOOLEAN /\ (~overlapped => SInv)

\* Until two requests overlap, a token is exchanged once and whoever logs out
\* everywhere ends every session the logout found (refresh and logout_all,
\* auth_service.py:107-134): the second tokens and the sessions that live on come
\* from overlapping requests alone.
THEOREM SessionsAlwaysEnd ==
  ASSUME IsFiniteSet(Handler)
  PROVE  MCSpec => []SessionsEnd
  <1>1. MCInit => IInv /\ Unmet
    BY InitIInv, InitSInv DEF MCInit, Unmet
  <1>2. MCNext => Next /\ Note
    BY DEF MCNext, Next
  <1>3. IInv /\ Unmet /\ [MCNext]_<<vars, overlapped>> => IInv' /\ Unmet'
    <2> SUFFICES ASSUME IInv, Unmet, [MCNext]_<<vars, overlapped>>
                 PROVE  IInv' /\ Unmet'
      OBVIOUS
    <2>1. IInv'
      BY <1>2, NextIInv
    <2>2. CASE MCNext
      <3>1. overlapped' \in BOOLEAN
        BY <1>2, <2>2 DEF Note, Unmet
      <3>2. ASSUME ~overlapped' PROVE SInv'
        <4>1. ~overlapped /\ Alone'
          BY <1>2, <2>2, <3>2, NoteAlone DEF Unmet
        <4> QED
          BY <1>2, <2>2, <4>1, NextSInv DEF Unmet
      <3> QED
        BY <2>1, <3>1, <3>2 DEF Unmet
    <2>3. CASE UNCHANGED <<vars, overlapped>>
      <3>1. Alone' <=> Alone
        BY <2>3 DEF vars, Alone
      <3>2. overlapped' = overlapped /\ UNCHANGED vars
        BY <2>3
      <3>3. SInv => SInv'
        BY <3>1, <3>2, NextSInv DEF SInv
      <3> QED
        BY <2>1, <3>2, <3>3 DEF Unmet
    <2> QED
      BY <2>2, <2>3
  <1>4. Unmet => SessionsEnd
    BY DEF Unmet, SInv, SessionsEnd
  <1> QED
    BY <1>1, <1>3, <1>4, PTL DEF MCSpec
==============================================================================
