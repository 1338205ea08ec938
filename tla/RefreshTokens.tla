----------------------------- MODULE RefreshTokens -----------------------------
(***************************************************************************)
(* The refresh tokens of one user: AuthService of                          *)
(* app/services/auth_service.py over app/infrastructure/repositories/      *)
(* user_repository.py.                                                     *)
(*                                                                         *)
(* A refresh checks the token it is given, looks it up a second time to    *)
(* revoke it, and issues a new one, in separate awaited calls; logging out *)
(* everywhere reads the live tokens and saves them one by one.  The only   *)
(* field a save changes is "revoked", which nothing sets back.             *)
(***************************************************************************)
EXTENDS Naturals, FiniteSets

CONSTANTS
    Handler,    \* requests that may be processed at the same time
    Token,      \* refresh tokens: a bound on those ever issued
    None,       \* the parent of a token issued by a login
    MaxCrash    \* bound on requests that die half way

ASSUME TokenAssumption == None \notin Token

VARIABLES
    parent,     \* for each token issued, the one it replaced
    revoked,    \* tokens marked revoked
    expired,    \* tokens past expires_at
    handler,    \* each request's local state
    swept,      \* tokens some finished logout_all has found live
    crashes     \* how many requests died half way

vars == <<parent, revoked, expired, handler, swept, crashes>>

Idle == [pc |-> "idle"]

Issued == DOMAIN parent

Live == Issued \ revoked

Init ==
    /\ parent = <<>>
    /\ revoked = {}
    /\ expired = {}
    /\ handler = [h \in Handler |-> Idle]
    /\ swept = {}
    /\ crashes = 0

\* The bound on tokens leaves room for every exchange that has begun.
Room ==
    Cardinality(Issued) + Cardinality({h \in Handler : handler[h] # Idle})
        < Cardinality(Token)

IssueFor(t) ==
    \E n \in Token \ Issued :
        parent' = [u \in Issued \cup {n} |-> IF u = n THEN t ELSE parent[u]]

-----------------------------------------------------------------------------
(* login: _issue_refresh_token.                                            *)
Login(h) ==
    /\ handler[h] = Idle
    /\ Room
    /\ IssueFor(None)
    /\ UNCHANGED <<revoked, expired, handler, swept, crashes>>

(* refresh: the token must be known, not revoked and not expired, and its  *)
(* user active.                                                            *)
Check(h, t) ==
    /\ handler[h] = Idle
    /\ Room
    /\ t \in Live \ expired
    /\ handler' = [handler EXCEPT
         ![h] = [pc |-> "find", token |-> t, next |-> "issue"]]
    /\ UNCHANGED <<parent, revoked, expired, swept, crashes>>

(* logout goes straight to revoke_refresh_token, with a token known or not. *)
Logout(h, t) ==
    /\ handler[h] = Idle
    /\ handler' = [handler EXCEPT
         ![h] = [pc |-> "find", token |-> t, next |-> "idle"]]
    /\ UNCHANGED <<parent, revoked, expired, swept, crashes>>

Continue(r) ==
    IF r.next = "issue" THEN [pc |-> "issue", token |-> r.token] ELSE Idle

(* revoke_refresh_token: a token found unrevoked is saved next, another is *)
(* left alone.                                                             *)
Find(h) ==
    /\ handler[h].pc = "find"
    /\ handler' = [handler EXCEPT
         ![h] = IF @.token \in Live
                THEN [pc |-> "save", token |-> @.token, next |-> @.next]
                ELSE Continue(@)]
    /\ UNCHANGED <<parent, revoked, expired, swept, crashes>>

\* Mutant of Save: revoked is set on the copy, which is not saved.
SaveNothing(h) ==
    /\ handler[h].pc = "save"
    /\ handler' = [handler EXCEPT ![h] = Continue(@)]
    /\ UNCHANGED <<parent, revoked, expired, swept, crashes>>

Save(h) ==
    /\ handler[h].pc = "save"
    /\ revoked' = revoked \cup {handler[h].token}
    /\ handler' = [handler EXCEPT ![h] = Continue(@)]
    /\ UNCHANGED <<parent, expired, swept, crashes>>

(* The new token is issued.                                                *)
Issue(h) ==
    /\ handler[h].pc = "issue"
    /\ IssueFor(handler[h].token)
    /\ handler' = [handler EXCEPT ![h] = Idle]
    /\ UNCHANGED <<revoked, expired, swept, crashes>>

-----------------------------------------------------------------------------
(* logout_all: the unrevoked tokens are read ...                           *)
ReadAll(h) ==
    /\ handler[h] = Idle
    /\ handler' = [handler EXCEPT
         ![h] = [pc |-> "sweep", todo |-> Live, all |-> Live]]
    /\ UNCHANGED <<parent, revoked, expired, swept, crashes>>

\* Mutant of Sweep: only the first token is revoked.
SweepOne(h) ==
    /\ handler[h].pc = "sweep"
    /\ \E t \in handler[h].todo :
         /\ revoked' = revoked \cup {t}
         /\ handler' = [handler EXCEPT ![h].todo = {}]
    /\ UNCHANGED <<parent, expired, swept, crashes>>

(* ... and saved as revoked one after the other.                           *)
Sweep(h) ==
    /\ handler[h].pc = "sweep"
    /\ \E t \in handler[h].todo :
         /\ revoked' = revoked \cup {t}
         /\ handler' = [handler EXCEPT
              ![h] = [pc |-> "sweep", todo |-> @.todo \ {t}, all |-> @.all]]
    /\ UNCHANGED <<parent, expired, swept, crashes>>

EndSweep(h) ==
    /\ handler[h].pc = "sweep"
    /\ handler[h].todo = {}
    /\ swept' = swept \cup handler[h].all
    /\ handler' = [handler EXCEPT ![h] = Idle]
    /\ UNCHANGED <<parent, revoked, expired, crashes>>

-----------------------------------------------------------------------------
(* Seven days go by.                                                       *)
Expire(t) ==
    /\ t \in Issued \ expired
    /\ expired' = expired \cup {t}
    /\ UNCHANGED <<parent, revoked, handler, swept, crashes>>

(* The request dies between two awaits.                                    *)
Abort(h) ==
    /\ handler[h] # Idle
    /\ crashes < MaxCrash
    /\ crashes' = crashes + 1
    /\ handler' = [handler EXCEPT ![h] = Idle]
    /\ UNCHANGED <<parent, revoked, expired, swept>>

Next ==
    \/ \E h \in Handler :
         \/ Login(h)
         \/ \E t \in Token : Check(h, t) \/ Logout(h, t)
         \/ Find(h)
         \/ Save(h)
         \/ Issue(h)
         \/ ReadAll(h)
         \/ Sweep(h)
         \/ EndSweep(h)
         \/ Abort(h)
    \/ \E t \in Issued : Expire(t)

Spec == Init /\ [][Next]_vars

-----------------------------------------------------------------------------
(* Properties.                                                             *)

IsHandler(r) ==
    \/ r = Idle
    \/ r.pc = "find" /\ r.token \in Issued /\ r.next = "issue"
    \/ r.pc = "find" /\ r.token \in Token /\ r.next = "idle"
    \/ r.pc = "save" /\ r.token \in Issued /\ r.next \in {"issue", "idle"}
    \/ r.pc = "issue" /\ r.token \in Issued
    \/ r.pc = "sweep" /\ r.todo \subseteq r.all /\ r.all \subseteq Issued

\* The shape of the tokens and of the requests' local states.
TypeOK ==
    /\ parent \in [Issued -> Token \cup {None}]
    /\ Issued \subseteq Token
    /\ revoked \cup expired \cup swept \subseteq Issued
    /\ DOMAIN handler = Handler
    /\ \A h \in Handler : IsHandler(handler[h])
    /\ crashes \in Nat

\* A token that was replaced is dead, in every interleaving and whichever request
\* died: the old token is revoked before the new one exists (lines 124-126), so no
\* crash leaves two tokens where there was one.
ReplacedIsRevoked == \A n \in Issued : parent[n] # None => parent[n] \in revoked

\* With one request at a time a token is exchanged once
\* (auth_service.py:108, "Validate refresh token, rotate it").
RotatedOnce ==
    \A m, n \in Issued : parent[m] = parent[n] /\ parent[n] # None => m = n

\* With one request at a time logging out everywhere ends every session: a token
\* it found live is revoked and nothing was or will be exchanged for it
\* (user_repository.py:54-61; logouts that die half way do not count).
LogoutAllEnds ==
    /\ swept \subseteq revoked
    /\ \A n \in Issued : parent[n] \notin swept
==============================================================================
