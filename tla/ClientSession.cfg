\* Three requests, tokens that expire, logouts and logins.
SPECIFICATION FairSpec
CONSTANTS
    Req = {r1, r2, r3}
    MaxIssued = 3
INVARIANTS SingleFlight WaitersRecover
PROPERTIES RequestsSettle
