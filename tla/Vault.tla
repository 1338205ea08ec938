-------------------------------- MODULE Vault --------------------------------
(* The shift data logs (app/(dashboard)/data-logs/page.tsx): rows from the       *)
(* server, from the copies of IndexedDB, or samples, kept in the query cache per *)
(* mine; and the attempt to alter one.  The three kinds of logs are fetched,     *)
(* cached and shown alike, and one stands for them.                              *)
EXTENDS TenantStore

VARIABLES
    copies,      \* mines whose rows cached_data_logs holds
    logs,        \* the query cache: whose rows it holds for each mine
    fetching,    \* mines whose rows are being fetched
    attempt      \* the dialog of an attempt to alter a row

vaultVars == <<copies, logs, fetching, attempt>>

NoAttempt == [open |-> FALSE, busy |-> FALSE, result |-> "none"]

VaultTypeOK ==
    /\ {copies, fetching} \subseteq SUBSET Mine
    /\ logs \in [Mine -> Mine \cup {"none", "sample"}]
    /\ attempt \in [open : BOOLEAN, busy : BOOLEAN,
                    result : {"none", "incident", "error"}]

VaultInit ==
    /\ copies = {}
    /\ logs = [m \in Mine |-> "none"]
    /\ fetching = {}
    /\ attempt = NoAttempt

InVault == route = "data-logs"

\* The query of the picked mine fetches when the page shows it, every thirty
\* seconds and on Refresh.
Fetch ==
    /\ InVault /\ picked \notin fetching
    /\ fetching' = fetching \cup {picked}
    /\ UNCHANGED <<copies, logs, attempt>>

\* fetchAtmosphericLogs, fetchWorkerMusterLogs, fetchMineCastLogs: the server's
\* rows, copied to IndexedDB unless that fails.
Fetched(m) ==
    /\ m \in fetching
    /\ fetching' = fetching \ {m}
    /\ copies' \in {copies, copies \cup {m}}
    /\ logs' = [logs EXCEPT ![m] = m]
    /\ UNCHANGED attempt

\* Mutant of CopiesFor: any copy will do.
AnyCopy(m) == copies

\* getCachedDataLogs: the copy of the mine, or else the first there is of any.
CopiesFor(m) == IF m \in copies THEN {m} ELSE copies

\* Offline, or the server refuses or is away: a copy, or samples when there is none
\* or IndexedDB cannot be read.
FetchedLocally(m) ==
    /\ m \in fetching
    /\ fetching' = fetching \ {m}
    /\ \E rows \in CopiesFor(m) \cup {"sample"} : logs' = [logs EXCEPT ![m] = rows]
    /\ UNCHANGED <<copies, attempt>>

\* A table has a button on each row of the first tab; the other tabs only show.
AtmosphericTable == IF logs[picked] = "none" THEN {} ELSE {"edit"}

\* The dialog can be left while the attempt is under way.
AttemptDialog == {"close"} \cup IF attempt.busy THEN {} ELSE {"try"}

VaultOffers ==
    IF ~InVault THEN {} ELSE IF attempt.open THEN AttemptDialog ELSE AtmosphericTable

OpenAttempt ==
    /\ "edit" \in VaultOffers
    /\ attempt' = [attempt EXCEPT !.open = TRUE, !.result = "none"]
    /\ UNCHANGED <<copies, logs, fetching>>

CloseAttempt ==
    /\ "close" \in VaultOffers
    /\ attempt' = [attempt EXCEPT !.open = FALSE]
    /\ UNCHANGED <<copies, logs, fetching>>

\* handleTamperAttempt
TryToAlter ==
    /\ "try" \in VaultOffers
    /\ attempt' = [attempt EXCEPT !.busy = TRUE, !.result = "none"]
    /\ UNCHANGED <<copies, logs, fetching>>

\* attemptAtmosphericMutation: the server has no other answer than 403 with the
\* incident; anything else is an error.
AttemptAnswered ==
    /\ attempt.busy
    /\ \E result \in {"incident", "error"} :
            attempt' = [attempt EXCEPT !.busy = FALSE, !.result = result]
    /\ UNCHANGED <<copies, logs, fetching>>

VaultFollows ==
    /\ attempt' = IF route' = "data-logs" THEN attempt ELSE NoAttempt
    /\ UNCHANGED <<copies, logs, fetching>>

VaultStep ==
    \/ Fetch
    \/ \E m \in fetching : Fetched(m) \/ FetchedLocally(m)
    \/ OpenAttempt \/ CloseAttempt \/ TryToAlter \/ AttemptAnswered
=============================================================================
