-------------------------- MODULE ClientSessionProofs --------------------------
(***************************************************************************)
(* Theorems about ClientSession for any number of requests.                *)
(*                                                                         *)
(* The flag isRefreshing stands for one leader, and who waits, waits for    *)
(* that leader (OneLeader).  A request that waited for an exchange leaves   *)
(* it with the new token, so a 401 it gets then says that this token has    *)
(* expired (WaitedSound).                                                  *)
(***************************************************************************)
EXTENDS ClientSession, FiniteSetTheorems, TLAPS

Where == {"new", "sent", "queued", "leading", "done", "failed"}

\* What a request is, and what is known of its exchange, while n tokens are issued.
RequestOf(n) == [pc : Where, token : 0..n, retried : BOOLEAN]
FreshOf(n) == [token : 0..n, leader : BOOLEAN]

LEMMA InitTypeOK == Init => TypeOK
  <1> SUFFICES ASSUME Init PROVE TypeOK
    OBVIOUS
  <1>1. Unsent \in RequestOf(1) /\ Stale \in FreshOf(1)
    BY DEF Unsent, Stale, RequestOf, FreshOf, Where
  <1>2. req \in [Req -> RequestOf(1)] /\ fresh \in [Req -> FreshOf(1)]
    BY <1>1 DEF Init
  <1>3. issued = 1 /\ access = 1 /\ common = 0 /\ isRefreshing = FALSE /\ floor = 1
    BY DEF Init
  <1>4. /\ access \in 0..issued /\ common \in 0..issued /\ isRefreshing \in BOOLEAN
        /\ issued \in Nat /\ floor \in 1..(issued + 1)
    <2>1. isRefreshing \in BOOLEAN
      BY <1>3, Zenon
    <2>2. access = 1 /\ common = 0 /\ issued = 1 /\ floor = 1
      BY <1>3, Zenon
    <2> HIDE DEF Init
    <2>3. access \in 0..issued /\ common \in 0..issued /\ issued \in Nat
      BY <2>2
    <2>4. floor \in 1..(issued + 1)
      BY <2>2
    <2> QED
      BY <2>1, <2>3, <2>4, Zenon
  <1>5. req \in [Req -> RequestOf(issued)] /\ fresh \in [Req -> FreshOf(issued)]
    BY <1>2, <1>3
  <1> HIDE DEF Init
  <1> QED
    BY <1>4, <1>5 DEF TypeOK, RequestOf, FreshOf, Where

LEMMA GrownOK ==
    ASSUME NEW n \in Nat
    PROVE  RequestOf(n) \subseteq RequestOf(n + 1) /\ FreshOf(n) \subseteq FreshOf(n + 1)
  BY DEF RequestOf, FreshOf

\* What an exchange that succeeds does to each request.
LEMMA RefreshedEach ==
    ASSUME TypeOK, NEW r \in Req, Refreshed(r), NEW q \in Req
    PROVE  /\ req'[q] \in RequestOf(issued + 1)
           /\ req'[q].pc = "leading" => req[q].pc = "leading" /\ q # r
           /\ req'[q].pc # "queued"
           /\ req[q].pc = "queued" /\ q # r =>
                req'[q].pc = "sent" /\ req'[q].token = issued + 1
           /\ q # r /\ req[q].pc # "queued" => req'[q] = req[q]
           /\ q = r => req'[q].pc = "sent"
  <1>1. issued \in Nat /\ req[q] \in RequestOf(issued)
    BY DEF TypeOK, RequestOf, Where
  <1>2. PICK n \in Nat : n = issued + 1
    BY <1>1
  <1>3. req[q] \in RequestOf(n)
    BY <1>1, <1>2, GrownOK
  <1>4. n \in 0..n
    BY <1>2
  <1>5. PICK t \in 0..n : t = IF req[q].token = 0 THEN n ELSE req[q].token
    BY <1>3, <1>4 DEF RequestOf
  <1>6. CASE q = r
    <2>1. req'[q] = [req[q] EXCEPT !.pc = "sent", !.token = t]
      BY <1>2, <1>5, <1>6 DEF Refreshed
    <2> DEFINE p == [req[q] EXCEPT !.pc = "sent"]
    <2>2. p \in RequestOf(n) /\ p.pc = "sent"
      BY <1>3 DEF RequestOf, Where
    <2>3. req'[q] = [p EXCEPT !.token = t]
      BY <2>1
    <2> HIDE DEF p
    <2>4. /\ [p EXCEPT !.token = t] \in RequestOf(n)
          /\ [p EXCEPT !.token = t].pc = "sent"
          /\ [p EXCEPT !.token = t].token = t
      BY <1>4, <2>2 DEF RequestOf, Where
    <2>5. req'[q] \in RequestOf(n) /\ req'[q].pc = "sent" /\ req'[q].token = t
      BY <2>3, <2>4
    <2>6. req'[q] \in RequestOf(issued + 1)
      BY <1>2, <2>5
    <2>7. req'[q].pc = "sent" /\ req'[q].pc # "leading" /\ req'[q].pc # "queued"
      BY <2>5
    <2> QED
      BY <1>6, <2>6, <2>7, Zenon
  <1>7. CASE q # r /\ req[q].pc = "queued"
    <2>1. req'[q] = [req[q] EXCEPT !.pc = "sent", !.token = n]
      BY <1>2, <1>7 DEF Refreshed
    <2> DEFINE p == [req[q] EXCEPT !.pc = "sent"]
    <2>2. p \in RequestOf(n) /\ p.pc = "sent"
      BY <1>3 DEF RequestOf, Where
    <2>3. req'[q] = [p EXCEPT !.token = n]
      BY <2>1
    <2> HIDE DEF p
    <2>4. /\ [p EXCEPT !.token = n] \in RequestOf(n)
          /\ [p EXCEPT !.token = n].pc = "sent"
          /\ [p EXCEPT !.token = n].token = n
      BY <1>4, <2>2 DEF RequestOf, Where
    <2>5. req'[q] \in RequestOf(n) /\ req'[q].pc = "sent" /\ req'[q].token = n
      BY <2>3, <2>4
    <2> QED
      BY <1>2, <1>7, <2>5
  <1>8. CASE q # r /\ req[q].pc # "queued"
    <2>1. req'[q] = req[q]
      BY <1>8 DEF Refreshed
    <2> QED
      BY <1>2, <1>3, <1>8, <2>1
  <1> QED
    BY <1>6, <1>7, <1>8

LEMMA NextTypeOK == TypeOK /\ [Next]_vars => TypeOK'
  <1> SUFFICES ASSUME TypeOK, [Next]_vars PROVE TypeOK'
    OBVIOUS
  <1>0. /\ access \in 0..issued /\ common \in 0..issued /\ floor \in 1..(issued + 1)
        /\ isRefreshing \in BOOLEAN
        /\ issued \in Nat
        /\ req \in [Req -> RequestOf(issued)]
        /\ fresh \in [Req -> FreshOf(issued)]
    BY DEF TypeOK, RequestOf, FreshOf, Where
  <1>1. ASSUME NEW r \in Req, Send(r) PROVE TypeOK'
    BY <1>1 DEF Send, Stale, TypeOK
  <1>2. ASSUME NEW r \in Req, Answer(r) \/ Exhaust(r) \/ Wait(r) \/ Forgo(r) PROVE TypeOK'
    BY <1>2 DEF Answer, Exhaust, Wait, Forgo, TypeOK
  <1>3. ASSUME NEW r \in Req, Lead(r) PROVE TypeOK'
    BY <1>3 DEF Lead, TypeOK
  <1>4. ASSUME NEW r \in Req, Refreshed(r) PROVE TypeOK'
    <2>1. issued' = issued + 1 /\ issued \in Nat
      BY <1>0, <1>4 DEF Refreshed
    <2>2. req' \in [Req -> RequestOf(issued')]
      <3>1. \A q \in Req : req'[q] \in RequestOf(issued + 1)
        BY <1>4, RefreshedEach
      <3>2. req' = [q \in Req |-> req'[q]]
        BY <1>4 DEF Refreshed
      <3> QED
        BY <2>1, <3>1, <3>2
    <2>3. fresh' \in [Req -> FreshOf(issued')]
      <3>1. ASSUME NEW q \in Req PROVE fresh'[q] \in FreshOf(issued + 1)
        <4>1. fresh'[q] = fresh[q] \/ fresh'[q] = [token |-> issued + 1, leader |-> q = r]
          BY <1>4 DEF Refreshed, Noted
        <4>2. [token |-> issued + 1, leader |-> q = r] \in FreshOf(issued + 1)
          BY <2>1 DEF FreshOf
        <4> QED
          BY <1>0, <2>1, <4>1, <4>2, GrownOK
      <3>2. fresh' = [q \in Req |-> fresh'[q]]
        BY <1>4 DEF Refreshed, Noted
      <3> QED
        BY <2>1, <3>1, <3>2
    <2>4. /\ access' \in 0..issued' /\ common' \in 0..issued'
          /\ isRefreshing' \in BOOLEAN /\ issued' \in Nat /\ floor' \in 1..(issued' + 1)
      <3>1. /\ access' = issued + 1 /\ common' = issued + 1 /\ floor' = floor
        BY <1>4 DEF Refreshed
      <3>2. isRefreshing' \in BOOLEAN
        BY <1>4, Zenon DEF Refreshed
      <3>3. access' \in 0..issued' /\ common' \in 0..issued' /\ issued' \in Nat
        BY <2>1, <3>1
      <3>4. floor' \in 1..(issued' + 1)
        BY <1>0, <2>1, <3>1
      <3> QED
        BY <3>2, <3>3, <3>4, Zenon
    <2> QED
      BY <2>2, <2>3, <2>4 DEF TypeOK, RequestOf, FreshOf, Where
  <1>5. ASSUME NEW r \in Req, RefreshFailed(r) PROVE TypeOK'
    <2>1. req' \in [Req -> RequestOf(issued)]
      <3>1. ASSUME NEW q \in Req PROVE req'[q] \in RequestOf(issued)
        <4>1. req'[q] = req[q] \/ req'[q] = [req[q] EXCEPT !.pc = "failed"]
          BY <1>5 DEF RefreshFailed
        <4>2. req[q] \in RequestOf(issued)
          BY <1>0
        <4>3. [req[q] EXCEPT !.pc = "failed"] \in RequestOf(issued)
          BY <4>2 DEF RequestOf, Where
        <4> QED
          BY <4>1, <4>2, <4>3
      <3>2. req' = [q \in Req |-> req'[q]]
        BY <1>5 DEF RefreshFailed
      <3> QED
        BY <3>1, <3>2
    <2>2. /\ access' = 0 /\ isRefreshing' = FALSE
          /\ UNCHANGED <<common, issued, floor, fresh>>
      BY <1>5 DEF RefreshFailed
    <2>3. /\ access' \in 0..issued' /\ common' \in 0..issued' /\ isRefreshing' \in BOOLEAN
          /\ issued' \in Nat /\ floor' \in 1..(issued' + 1)
      <3>1. isRefreshing' \in BOOLEAN
        BY <2>2, Zenon
      <3>2. access' = 0 /\ common' = common /\ issued' = issued /\ floor' = floor
        BY <2>2, Zenon
      <3>3. /\ access' \in 0..issued' /\ common' \in 0..issued'
            /\ issued' \in Nat /\ floor' \in 1..(issued' + 1)
        BY <1>0, <3>2
      <3> QED
        BY <3>1, <3>3, Zenon
    <2>4. req' \in [Req -> RequestOf(issued')] /\ fresh' \in [Req -> FreshOf(issued')]
      BY <1>0, <2>1, <2>2
    <2> QED
      BY <2>3, <2>4 DEF TypeOK, RequestOf, FreshOf, Where
  <1>6. CASE Logout \/ Login \/ Expire
    BY <1>6 DEF Logout, Login, Expire, TypeOK
  <1>7. CASE UNCHANGED vars
    BY <1>7 DEF vars, TypeOK
  <1> QED
    BY <1>1, <1>2, <1>3, <1>4, <1>5, <1>6, <1>7 DEF Next, Receive, EndRefresh

\* The session and its requests keep their shape, for any number of requests.
THEOREM TypeCorrect == Spec => []TypeOK
  BY InitTypeOK, NextTypeOK, PTL DEF Spec

-----------------------------------------------------------------------------
(* One leader.                                                             *)

\* isRefreshing stands for one leader, and requests wait only for that one.
OneLeader ==
    /\ isRefreshing => \E r \in Req : At("leading") = {r}
    /\ ~isRefreshing => At("leading") = {} /\ At("queued") = {}

LEMMA OneLeaderNext == TypeOK /\ OneLeader /\ [Next]_vars => OneLeader'
  <1> SUFFICES ASSUME TypeOK, OneLeader, [Next]_vars PROVE OneLeader'
    OBVIOUS
  <1>0. req \in [Req -> RequestOf(issued)] /\ isRefreshing \in BOOLEAN
    BY DEF TypeOK, RequestOf, Where
  <1>1. ASSUME NEW r \in Req,
               Send(r) \/ Answer(r) \/ Exhaust(r) \/ Forgo(r)
        PROVE  OneLeader'
    <2>1. isRefreshing' = isRefreshing /\ At("leading")' = At("leading")
      BY <1>0, <1>1 DEF Send, Answer, Exhaust, Forgo, Unauthorised, At, RequestOf
    <2>2. At("queued")' \subseteq At("queued")
      BY <1>0, <1>1 DEF Send, Answer, Exhaust, Forgo, Unauthorised, At, RequestOf
    <2> QED
      BY <2>1, <2>2 DEF OneLeader
  <1>2. ASSUME NEW r \in Req, Wait(r) PROVE OneLeader'
    <2>1. isRefreshing /\ isRefreshing' /\ At("leading")' = At("leading")
      BY <1>0, <1>2 DEF Wait, Unauthorised, At, RequestOf
    <2> QED
      BY <2>1 DEF OneLeader
  <1>3. ASSUME NEW r \in Req, Lead(r) PROVE OneLeader'
    <2>1. isRefreshing' /\ At("leading") = {}
      BY <1>3 DEF Lead, OneLeader
    <2>2. \A q \in Req : q # r => req'[q] = req[q]
      BY <1>0, <1>3 DEF Lead
    <2>3. req'[r].pc = "leading"
      <3> DEFINE p == [req[r] EXCEPT !.pc = "leading"]
      <3>1. p \in RequestOf(issued) /\ p.pc = "leading"
        BY <1>0 DEF RequestOf, Where
      <3>2. req'[r] = [p EXCEPT !.retried = TRUE]
        BY <1>0, <1>3 DEF Lead
      <3> HIDE DEF p
      <3> QED
        BY <3>1, <3>2 DEF RequestOf
    <2>4. At("leading")' = {r}
      BY <2>1, <2>2, <2>3 DEF At
    <2> QED
      BY <2>1, <2>4 DEF OneLeader
  <1>4. ASSUME NEW r \in Req, Refreshed(r) PROVE OneLeader'
    <2>1. ~isRefreshing' /\ req[r].pc = "leading"
      BY <1>4 DEF Refreshed
    <2>2. At("leading") = {r}
      BY <2>1 DEF OneLeader, At
    <2>3. \A q \in Req : req'[q].pc # "leading" /\ req'[q].pc # "queued"
      BY <1>4, <2>2, RefreshedEach DEF At
    <2>4. At("leading")' = {} /\ At("queued")' = {}
      BY <2>3 DEF At
    <2> QED
      BY <2>1, <2>4 DEF OneLeader
  <1>5. ASSUME NEW r \in Req, RefreshFailed(r) PROVE OneLeader'
    <2>1. ~isRefreshing' /\ req[r].pc = "leading"
      BY <1>5 DEF RefreshFailed
    <2>2. At("leading") = {r}
      BY <2>1 DEF OneLeader, At
    <2>3. \A q \in Req : req'[q].pc # "leading" /\ req'[q].pc # "queued"
      BY <1>0, <1>5, <2>2 DEF RefreshFailed, At, RequestOf
    <2>4. At("leading")' = {} /\ At("queued")' = {}
      BY <2>3 DEF At
    <2> QED
      BY <2>1, <2>4 DEF OneLeader
  <1>6. CASE Logout \/ Login \/ Expire \/ UNCHANGED vars
    <2>1. isRefreshing' = isRefreshing /\ req' = req
      BY <1>6 DEF Logout, Login, Expire, vars
    <2> QED
      BY <2>1 DEF OneLeader, At
  <1> QED
    BY <1>1, <1>2, <1>3, <1>4, <1>5, <1>6 DEF Next, Receive, EndRefresh

LEMMA OneLeaderAlways == Spec => []OneLeader
  <1>1. Init => OneLeader
    BY DEF Init, OneLeader, At, Unsent
  <1> QED
    BY <1>1, OneLeaderNext, TypeCorrect, PTL DEF Spec

\* However many requests are answered 401 at once, one tab makes one exchange at a
\* time (client.ts:28-43): isRefreshing counts the leaders.
THEOREM OneExchangeAtATime == Spec => []SingleFlight
  <1>1. TypeOK /\ OneLeader => SingleFlight
    <2> SUFFICES ASSUME TypeOK, OneLeader PROVE SingleFlight
      OBVIOUS
    <2>1. CASE isRefreshing
      <3>1. PICK r \in Req : At("leading") = {r}
        BY <2>1 DEF OneLeader
      <3> QED
        BY <2>1, <3>1, FS_Singleton DEF SingleFlight
    <2>2. CASE ~isRefreshing
      BY <2>2, FS_EmptySet DEF OneLeader, SingleFlight
    <2> QED
      BY <2>1, <2>2
  <1> QED
    BY <1>1, TypeCorrect, OneLeaderAlways, PTL

-----------------------------------------------------------------------------
(* Those who waited.                                                       *)

\* What is so of a request that waited for an exchange which succeeded: it is under
\* way with the new token, was carried out, or that token has expired.
WaitedSound(r) ==
    fresh[r] # Stale /\ ~fresh[r].leader =>
        \/ fresh[r].token < floor
        \/ req[r].pc = "sent" /\ req[r].token = fresh[r].token /\ req[r].token # 0
        \/ req[r].pc = "done"

LEMMA WaitedSoundNext ==
    TypeOK /\ (\A r \in Req : WaitedSound(r)) /\ [Next]_vars
        => (\A r \in Req : WaitedSound(r))'
  <1> SUFFICES ASSUME TypeOK, \A q \in Req : WaitedSound(q), [Next]_vars,
                      NEW q \in Req
               PROVE  WaitedSound(q)'
    OBVIOUS
  <1>0. /\ issued \in Nat /\ floor \in 1..(issued + 1)
        /\ req \in [Req -> RequestOf(issued)]
        /\ fresh \in [Req -> FreshOf(issued)]
    BY DEF TypeOK, RequestOf, FreshOf, Where
  <1>1. ASSUME NEW r \in Req, Send(r) PROVE WaitedSound(q)'
    <2>1. CASE q = r
      BY <1>0, <1>1, <2>1 DEF Send, WaitedSound
    <2>2. CASE q # r
      BY <1>0, <1>1, <2>2 DEF Send, WaitedSound
    <2> QED
      BY <2>1, <2>2
  <1>2. ASSUME NEW r \in Req, Answer(r) PROVE WaitedSound(q)'
    BY <1>0, <1>2 DEF Answer, WaitedSound, RequestOf
  <1>3. ASSUME NEW r \in Req, Exhaust(r) \/ Wait(r) \/ Forgo(r) \/ Lead(r)
        PROVE  WaitedSound(q)'
    <2>1. fresh' = fresh /\ floor' = floor
      BY <1>3 DEF Exhaust, Wait, Forgo, Lead
    <2>2. CASE q = r
      <3>1. req[q].pc = "sent" /\ ~Accepts(req[q].token)
        BY <1>3, <2>2 DEF Exhaust, Wait, Forgo, Lead, Unauthorised
      <3>2. fresh[q] # Stale /\ ~fresh[q].leader => fresh[q].token < floor
        BY <1>0, <3>1 DEF WaitedSound, Accepts, RequestOf
      <3> QED
        BY <2>1, <3>2 DEF WaitedSound
    <2>3. CASE q # r
      <3>1. req'[q] = req[q]
        BY <1>0, <1>3, <2>3 DEF Exhaust, Wait, Forgo, Lead
      <3> QED
        BY <2>1, <3>1 DEF WaitedSound
    <2> QED
      BY <2>2, <2>3
  <1>4. ASSUME NEW r \in Req, Refreshed(r) PROVE WaitedSound(q)'
    <2>1. floor' = floor
      BY <1>4 DEF Refreshed
    <2>2. CASE q = r
      <3>1. req[q].pc = "leading"
        BY <1>4, <2>2 DEF Refreshed
      <3>2. CASE fresh[q] = Stale
        <4>1. fresh'[q].leader
          BY <1>4, <2>2, <3>2 DEF Refreshed, Noted
        <4> QED
          BY <4>1 DEF WaitedSound
      <3>3. CASE fresh[q] # Stale
        <4>1. fresh'[q] = fresh[q]
          BY <1>4, <3>3 DEF Refreshed, Noted
        <4> QED
          BY <2>1, <3>1, <3>3, <4>1 DEF WaitedSound
      <3> QED
        BY <3>2, <3>3
    <2>3. CASE q # r /\ req[q].pc = "queued"
      <3>1. req'[q].pc = "sent" /\ req'[q].token = issued + 1
        BY <1>4, <2>3, RefreshedEach
      <3>2. CASE fresh[q] = Stale
        <4>1. fresh'[q] = [token |-> issued + 1, leader |-> q = r]
          BY <1>4, <2>3, <3>2 DEF Refreshed, Noted
        <4>2. fresh'[q].token = issued + 1
          BY <4>1
        <4> QED
          BY <1>0, <3>1, <4>2 DEF WaitedSound
      <3>3. CASE fresh[q] # Stale
        <4>1. fresh'[q] = fresh[q]
          BY <1>4, <3>3 DEF Refreshed, Noted
        <4> QED
          BY <2>1, <2>3, <3>3, <4>1 DEF WaitedSound
      <3> QED
        BY <3>2, <3>3
    <2>4. CASE q # r /\ req[q].pc # "queued"
      <3>1. req'[q] = req[q]
        BY <1>4, <2>4, RefreshedEach
      <3>2. fresh'[q] = fresh[q]
        BY <1>4, <2>4 DEF Refreshed, Noted
      <3> QED
        BY <2>1, <3>1, <3>2 DEF WaitedSound
    <2> QED
      BY <2>2, <2>3, <2>4
  <1>5. ASSUME NEW r \in Req, RefreshFailed(r) PROVE WaitedSound(q)'
    <2>1. fresh' = fresh /\ floor' = floor
      BY <1>5 DEF RefreshFailed
    <2>2. req'[q] = req[q] \/ req[q].pc \in {"leading", "queued"}
      BY <1>0, <1>5 DEF RefreshFailed
    <2> QED
      BY <2>1, <2>2 DEF WaitedSound
  <1>6. CASE Logout \/ Login
    BY <1>6 DEF Logout, Login, WaitedSound
  <1>7. CASE Expire
    BY <1>0, <1>7 DEF Expire, WaitedSound, FreshOf
  <1>8. CASE UNCHANGED vars
    BY <1>8 DEF vars, WaitedSound
  <1> QED
    BY <1>1, <1>2, <1>3, <1>4, <1>5, <1>6, <1>7, <1>8 DEF Next, Receive, EndRefresh

\* A request that waited for an exchange which succeeded fails only if the new token
\* expired before it arrived (client.ts:46-60): no request is left behind with the
\* token it was refused with.
THEOREM WaitersAlwaysRecover == Spec => []WaitersRecover
  <1>1. Init => \A r \in Req : WaitedSound(r)
    BY DEF Init, WaitedSound
  <1>2. (\A r \in Req : WaitedSound(r)) => WaitersRecover
    BY DEF WaitedSound, WaitersRecover, Failed
  <1> QED
    BY <1>1, <1>2, WaitedSoundNext, TypeCorrect, PTL DEF Spec
================================================================================
