----------------------------- MODULE ClientSession -----------------------------
(***************************************************************************)
(* The session of one tab of the web client: the interceptors of           *)
(* frontend/src/lib/api/client.ts over the token store                     *)
(* frontend/src/lib/store/auth-store.ts.                                   *)
(*                                                                         *)
(* A request that is answered 401 exchanges the refresh token and is sent  *)
(* again; requests answered 401 meanwhile wait in failedQueue.  JavaScript *)
(* runs each handler up to its next await, so every action below is such a *)
(* stretch.  Access tokens are numbered in the order they are issued, 0 is *)
(* none; the server (TenantScopeMiddleware) accepts those not yet expired. *)
(* axios merges its default headers into a request before it runs the      *)
(* request interceptors, and a request's own headers win over both.        *)
(***************************************************************************)
EXTENDS Naturals, FiniteSets

CONSTANTS
    Req,          \* requests of the application; each is made again and again
    MaxIssued     \* bound: expiries, logouts and logins end with this token

VARIABLES
    access,       \* accessToken of the store, 0 when it and refreshToken are null
    isRefreshing,
    req,          \* each request: where it is, its token, _retry
    common,       \* the token in the default headers of axios, 0 when none
    issued,       \* how many access tokens have been issued
    floor,        \* the first access token that has not expired
    fresh         \* the first exchange that succeeded for each request since sent

vars == <<access, common, isRefreshing, req, issued, floor, fresh>>

At(pc) == {r \in Req : req[r].pc = pc}

Unsent == [pc |-> "new", token |-> 0, retried |-> FALSE]

\* No exchange yet.
Stale == [token |-> 0, leader |-> FALSE]

\* The tab has just been logged in by the login page.
Init ==
    /\ access = 1
    /\ isRefreshing = FALSE
    /\ req = [r \in Req |-> Unsent]
    /\ common = 0
    /\ issued = 1
    /\ floor = 1
    /\ fresh = [r \in Req |-> Stale]

-----------------------------------------------------------------------------
(* The request interceptor attaches the token of the store, unless the     *)
(* default headers have put one there.                                     *)
Send(r) ==
    /\ req[r].pc \in {"new", "done", "failed"}
    /\ req' = [req EXCEPT
         ![r] = [pc |-> "sent", token |-> IF common # 0 THEN common ELSE access,
                 retried |-> FALSE]]
    /\ fresh' = [fresh EXCEPT ![r] = Stale]
    /\ UNCHANGED <<access, common, isRefreshing, issued, floor>>

Accepts(token) == token # 0 /\ token >= floor

(* The server carries the request out.                                     *)
Answer(r) ==
    /\ req[r].pc = "sent"
    /\ Accepts(req[r].token)
    /\ req' = [req EXCEPT ![r].pc = "done"]
    /\ UNCHANGED <<access, common, isRefreshing, issued, floor, fresh>>

Unauthorised(r) == req[r].pc = "sent" /\ ~Accepts(req[r].token)

(* A 401 to a request that was sent again already is final.                *)
Exhaust(r) ==
    /\ Unauthorised(r)
    /\ req[r].retried
    /\ req' = [req EXCEPT ![r].pc = "failed"]
    /\ UNCHANGED <<access, common, isRefreshing, issued, floor, fresh>>

(* A 401 while the token is being exchanged: the request waits.            *)
Wait(r) ==
    /\ Unauthorised(r)
    /\ ~req[r].retried
    /\ isRefreshing
    /\ req' = [req EXCEPT ![r].pc = "queued"]
    /\ UNCHANGED <<access, common, isRefreshing, issued, floor, fresh>>

\* Mutant of Lead: isRefreshing is not looked at.
LeadAnyway(r) ==
    /\ Unauthorised(r)
    /\ ~req[r].retried
    /\ access # 0
    /\ isRefreshing' = TRUE
    /\ req' = [req EXCEPT ![r].pc = "leading", ![r].retried = TRUE]
    /\ UNCHANGED <<access, common, issued, floor, fresh>>

(* The first 401: POST /auth/refresh is sent.                              *)
Lead(r) ==
    /\ Unauthorised(r)
    /\ ~req[r].retried
    /\ ~isRefreshing
    /\ access # 0
    /\ isRefreshing' = TRUE
    /\ req' = [req EXCEPT ![r].pc = "leading", ![r].retried = TRUE]
    /\ UNCHANGED <<access, common, issued, floor, fresh>>

(* A 401 with no refresh token in the store: logged out.                   *)
Forgo(r) ==
    /\ Unauthorised(r)
    /\ ~req[r].retried
    /\ ~isRefreshing
    /\ access = 0
    /\ req' = [req EXCEPT ![r].pc = "failed"]
    /\ UNCHANGED <<access, common, isRefreshing, issued, floor, fresh>>

\* Request r has led an exchange that succeeded, those in the queue waited for it.
Noted(r) ==
    [q \in Req |->
        IF fresh[q] = Stale /\ (q = r \/ req[q].pc = "queued")
        THEN [token |-> issued + 1, leader |-> q = r] ELSE fresh[q]]

\* Mutant of Refreshed: the waiting requests are sent with the token they had.
RefreshedStale(r) ==
    /\ req[r].pc = "leading"
    /\ issued' = issued + 1
    /\ access' = issued + 1
    /\ common' = issued + 1
    /\ isRefreshing' = FALSE
    /\ req' = [q \in Req |->
         IF q = r \/ req[q].pc = "queued"
         THEN [req[q] EXCEPT !.pc = "sent"] ELSE req[q]]
    /\ fresh' = Noted(r)
    /\ UNCHANGED floor

(* The exchange succeeds: setAuth; the waiting requests are sent with the  *)
(* new token, which also goes to the default headers.  The leader is sent  *)
(* as it was: an Authorization header it has wins over the default one.    *)
Refreshed(r) ==
    /\ req[r].pc = "leading"
    /\ issued' = issued + 1
    /\ access' = issued + 1
    /\ common' = issued + 1
    /\ isRefreshing' = FALSE
    /\ req' = [q \in Req |->
         IF q = r
         THEN [req[q] EXCEPT !.pc = "sent",
                             !.token = IF @ = 0 THEN issued + 1 ELSE @]
         ELSE IF req[q].pc = "queued"
         THEN [req[q] EXCEPT !.pc = "sent", !.token = issued + 1]
         ELSE req[q]]
    /\ fresh' = Noted(r)
    /\ UNCHANGED floor

\* Mutant of RefreshFailed: processQueue is not called.
RefreshFailedAlone(r) ==
    /\ req[r].pc = "leading"
    /\ req' = [req EXCEPT ![r].pc = "failed"]
    /\ access' = 0
    /\ isRefreshing' = FALSE
    /\ UNCHANGED <<common, issued, floor, fresh>>

(* The exchange is refused or lost: the waiting requests fail, the tab is  *)
(* logged out.                                                             *)
RefreshFailed(r) ==
    /\ req[r].pc = "leading"
    /\ req' = [q \in Req |->
         IF q = r \/ req[q].pc = "queued"
         THEN [req[q] EXCEPT !.pc = "failed"] ELSE req[q]]
    /\ access' = 0
    /\ isRefreshing' = FALSE
    /\ UNCHANGED <<common, issued, floor, fresh>>

-----------------------------------------------------------------------------
(* The user logs out, at any moment, and in again.                         *)
Logout ==
    /\ issued < MaxIssued
    /\ access' = 0
    /\ UNCHANGED <<common, isRefreshing, req, issued, floor, fresh>>

Login ==
    /\ access = 0
    /\ issued < MaxIssued
    /\ issued' = issued + 1
    /\ access' = issued + 1
    /\ UNCHANGED <<common, isRefreshing, req, floor, fresh>>

(* The access tokens issued so far expire.                                 *)
Expire ==
    /\ floor <= issued
    /\ issued < MaxIssued
    /\ floor' = issued + 1
    /\ UNCHANGED <<access, common, isRefreshing, req, issued, fresh>>

Receive(r) ==
    \/ Answer(r)
    \/ Exhaust(r)
    \/ Wait(r)
    \/ Lead(r)
    \/ Forgo(r)

EndRefresh(r) == Refreshed(r) \/ RefreshFailed(r)

Next ==
    \/ \E r \in Req : Send(r) \/ Receive(r) \/ EndRefresh(r)
    \/ Logout
    \/ Login
    \/ Expire

Spec == Init /\ [][Next]_vars

\* Every request and every exchange is answered in the end, or its connection
\* breaks, which the client sees as a failed exchange.
FairSpec ==
    /\ Spec
    /\ \A r \in Req : WF_vars(Receive(r)) /\ WF_vars(EndRefresh(r))

-----------------------------------------------------------------------------
(* Properties.                                                             *)

\* The shape of the session and of the requests.
TypeOK ==
    /\ access \in 0..issued
    /\ common \in 0..issued
    /\ isRefreshing \in BOOLEAN
    /\ req \in [Req -> [pc : {"new", "sent", "queued", "leading", "done", "failed"},
                        token : 0..issued, retried : BOOLEAN]]
    /\ issued \in Nat
    /\ floor \in 1..(issued + 1)
    /\ fresh \in [Req -> [token : 0..issued, leader : BOOLEAN]]

\* One exchange at a time, and isRefreshing says so: the refresh token is never
\* used twice at once by one tab, which the server would honour twice
\* (RefreshTokens, RotatedOnce), and nothing waits for an exchange that has ended.
SingleFlight ==
    /\ Cardinality(At("leading")) = IF isRefreshing THEN 1 ELSE 0
    /\ At("queued") # {} => isRefreshing

\* Every request the application made is answered, by the server or with an
\* error: nothing stays in failedQueue (client.ts:30-39, 82, 85).
RequestsSettle ==
    \A r \in Req :
        req[r].pc \in {"sent", "queued", "leading"} ~> req[r].pc \in {"done", "failed"}

Failed(r) == fresh[r] # Stale /\ req[r].pc = "failed"

\* A request that waited for an exchange that succeeded is carried out, unless the
\* new token expires before it arrives (client.ts:51-54).
WaitersRecover ==
    \A r \in Req : Failed(r) /\ ~fresh[r].leader => fresh[r].token < floor
==============================================================================
