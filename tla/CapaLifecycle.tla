---------------------------- MODULE CapaLifecycle ----------------------------
(* What the CAPA workflow promises of one violation: it climbs the states  *)
(* one at a time, a rectification carries evidence, a verification carries *)
(* an authorised verifier, evidence is only ever added, and it can be      *)
(* re-opened at any time.                                                  *)
CONSTANT CAPA_ALLOWED_TRANSITIONS     \* pairs of a state and the next one
VARIABLES state, evidenced, verified

Init == state = "ABSENT" /\ ~evidenced /\ ~verified

File ==
    /\ state = "ABSENT"
    /\ state' = "REPORTED"
    /\ evidenced' \in BOOLEAN
    /\ UNCHANGED verified

Advance ==
    /\ \E edge \in CAPA_ALLOWED_TRANSITIONS :
         edge[1] = state /\ state' = edge[2]
    /\ evidenced' = (evidenced \/ state' = "RECTIFICATION_SUBMITTED")
    /\ verified' = (verified \/ state' = "VERIFIED")

Reopen ==
    /\ state # "ABSENT"
    /\ state' = "REPORTED"
    /\ UNCHANGED <<evidenced, verified>>

Document ==
    /\ state # "ABSENT"
    /\ evidenced' = TRUE
    /\ UNCHANGED <<state, verified>>

Next == File \/ Advance \/ Reopen \/ Document

Spec == Init /\ [][Next]_<<state, evidenced, verified>>
==============================================================================
