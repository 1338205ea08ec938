--------------------------- MODULE MCRefreshTokens ---------------------------
(* A small instance of RefreshTokens for TLC.                              *)
EXTENDS RefreshTokens, TLC

\* History: two requests have been in the server at once.
VARIABLE overlapped

Symmetry == Permutations(Handler) \cup Permutations(Token)

Note == overlapped' = (overlapped
                         \/ Cardinality({h \in Handler : handler'[h] # Idle}) > 1)

\* Next, with the history kept.
MCNext ==
    \/ \E h \in Handler :
         \/ Login(h) /\ Note
         \/ \E t \in Token : Check(h, t) /\ Note
         \/ \E t \in Token : Logout(h, t) /\ Note
         \/ Find(h) /\ Note
         \/ Save(h) /\ Note
         \/ Issue(h) /\ Note
         \/ ReadAll(h) /\ Note
         \/ Sweep(h) /\ Note
         \/ EndSweep(h) /\ Note
         \/ Abort(h) /\ Note
    \/ \E t \in Issued : Expire(t) /\ Note

MCInit == Init /\ overlapped = FALSE

MCSpec == MCInit /\ [][MCNext]_<<vars, overlapped>>

\* As long as no two requests overlap a token is exchanged once
\* (auth_service.py:108, "Validate refresh token, rotate it"), and logging out
\* everywhere ends every session: a token it found live is revoked and nothing
\* was or will be exchanged for it (user_repository.py:54-61).
SessionsEnd == ~overlapped => RotatedOnce /\ LogoutAllEnds
=============================================================================
