------------------------------- MODULE Portal -------------------------------
(* What a worker reports and applies for, and what the manager does about it: *)
(* the worker's dashboard and the page /worker/issues (one report and one      *)
(* leave application), the store in IndexedDB they share (lib/api/worker.ts),  *)
(* its flush to the server (lib/sync/sync-manager.ts), and the manager's       *)
(* dashboard.                                                                  *)
(*                                                                             *)
(* The requests of worker.ts carry no token: it looks for one where nothing    *)
(* stores it, so the server refuses them all (tenant_scope.py) and only the    *)
(* flush, with the token of auth-store, reaches it.                            *)
EXTENDS TenantStore, FiniteSets, Functions

CONSTANTS
    MaxArrivals,    \* records of all items at the server
    MaxReports      \* how often the server can record the report

VARIABLES
    store,      \* worker_issues and worker_leaves in IndexedDB
    writing,    \* items a handler is about to store
    arrived,    \* how often the server has recorded each item
    unheard,    \* how often its answer to one was lost
    flush,      \* the stage of the flush, "idle" when isSyncing is false
    desk,       \* state of the worker's page, as new while none is open
    board       \* state of the manager's dashboard, likewise

ASSUME PortalAssumption == MaxArrivals \in Nat \ {0} /\ MaxReports \in Nat

portalVars == <<store, writing, arrived, unheard, flush, desk, board>>

Kinds == {"report", "leave"}
Held(k) == store[k] \in {"queued", "submitted"}

NewDesk == [dialog |-> "none", busy |-> {}, told |-> {},
            loading |-> {}, listed |-> {}, behind |-> {}]
NewBoard == [review |-> "none", waiting |-> FALSE, acked |-> FALSE,
             outcome |-> "none"]

PortalTypeOK ==
    /\ store \in [Kinds -> {"absent", "queued", "submitted", "lost"}]
    /\ writing \subseteq Kinds
    /\ {arrived, unheard} \subseteq [Kinds -> 0..MaxArrivals]
    /\ flush \in {"idle", "report", "leave"}
    /\ desk.dialog \in Kinds \cup {"none"}
    /\ {desk.busy, desk.told, desk.loading, desk.listed, desk.behind}
            \subseteq SUBSET Kinds
    /\ board \in [review : {"none", "APPROVED", "REJECTED"}, waiting : BOOLEAN,
                  acked : BOOLEAN, outcome : {"none", "refused"}]

PortalInit ==
    /\ store = [k \in Kinds |-> "absent"]
    /\ writing = {}
    /\ arrived = [k \in Kinds |-> 0]
    /\ unheard = [k \in Kinds |-> 0]
    /\ flush = "idle"
    /\ desk = NewDesk
    /\ board = NewBoard

-----------------------------------------------------------------------------
(* The worker's page.                                                        *)

OnIssues == route = "worker/issues"
DeskOpen == OnIssues \/ (route = "overview" /\ session.role \in Workers)
Lists == IF OnIssues THEN {"report"} ELSE Kinds

\* Both lists are loaded when the page opens and when its mine changes.
Opened == [NewDesk EXCEPT !.loading = IF route' = "overview" THEN Kinds ELSE {"report"}]
Reloaded == [desk EXCEPT !.loading = Lists]

\* A list has its button to load it, disabled while it loads, and one for the form.
ListOffers(k) ==
    {<<"open", k>>} \cup IF k \in desk.loading THEN {} ELSE {<<"sync", k>>}

\* A form can be left at any time and sent when it is not being sent.
FormOffers(k) ==
    IF desk.dialog # k THEN {}
    ELSE {<<"cancel", k>>} \cup IF k \in desk.busy THEN {} ELSE {<<"submit", k>>}

\* The two tabs of the dashboard, each a press away from the other, and its two
\* forms, which cover them.
HazardsTab == ListOffers("report")
LeavesTab == ListOffers("leave")
ReportForm == FormOffers("report")
LeaveForm == FormOffers("leave")

DashboardOffers ==
    IF desk.dialog = "none" THEN HazardsTab \cup LeavesTab
    ELSE ReportForm \cup LeaveForm

\* /worker/issues: one list and its form.
IssuesList == ListOffers("report")
IssuesForm == FormOffers("report")
IssuesOffers == IF desk.dialog = "none" THEN IssuesList ELSE IssuesForm

DeskOffers ==
    IF ~DeskOpen THEN {} ELSE IF OnIssues THEN IssuesOffers ELSE DashboardOffers

PressSync(k) ==
    /\ <<"sync", k>> \in DeskOffers
    /\ desk' = [desk EXCEPT !.loading = @ \cup {k}]
    /\ UNCHANGED <<store, writing, arrived, unheard, flush, board>>

PressOpen(k) ==
    /\ <<"open", k>> \in DeskOffers
    /\ desk' = [desk EXCEPT !.dialog = k]
    /\ UNCHANGED <<store, writing, arrived, unheard, flush, board>>

PressCancel(k) ==
    /\ <<"cancel", k>> \in DeskOffers
    /\ desk' = [desk EXCEPT !.dialog = "none"]
    /\ UNCHANGED <<store, writing, arrived, unheard, flush, board>>

\* handleSubmitIssue, handleSubmitLeave and handleSubmit of /worker/issues.
Submit(k) ==
    /\ <<"submit", k>> \in DeskOffers
    /\ store[k] = "absent" /\ k \notin writing
    /\ writing' = writing \cup {k}
    /\ desk' = [desk EXCEPT !.busy = @ \cup {k}, !.told = @ \ {k}]
    /\ UNCHANGED <<store, arrived, unheard, flush, board>>

\* What the page that sent k does of the outcome, if it is still mounted; a page
\* opened since has not loaded k.
Reported(k, ok) ==
    IF k \in desk.busy
      THEN [desk EXCEPT !.busy = @ \ {k},
                        !.told = IF ok THEN @ \cup {k} ELSE @,
                        !.listed = IF ok THEN @ \cup {k} ELSE @]
      ELSE [desk EXCEPT !.behind = IF DeskOpen THEN @ \cup {k} ELSE @]

\* reportWorkerIssue and submitWorkerLeave: whatever the server says, the item is
\* stored as unsynced.
Stored(k) ==
    /\ k \in writing
    /\ writing' = writing \ {k}
    /\ store' = [store EXCEPT ![k] = "queued"]
    /\ desk' = Reported(k, TRUE)
    /\ UNCHANGED <<arrived, unheard, flush, board>>

\* If the store refuses it the error is dropped, and a report goes to a key of
\* localStorage nobody reads.
StoreRefuses(k) ==
    /\ k \in writing
    /\ writing' = writing \ {k}
    /\ store' = [store EXCEPT ![k] = "lost"]
    /\ desk' = Reported(k, TRUE)
    /\ UNCHANGED <<arrived, unheard, flush, board>>

\* /worker/issues while the browser is offline stores by itself, and says so when
\* that fails.
StoreRefusesOffline ==
    /\ OnIssues /\ "report" \in writing \cap desk.busy
    /\ writing' = writing \ {"report"}
    /\ desk' = Reported("report", FALSE)
    /\ UNCHANGED <<store, arrived, unheard, flush, board>>

\* The timer of the message, two seconds later, closes the form, whoever opened it.
MessageGone(k) ==
    /\ k \in desk.told
    /\ desk' = [desk EXCEPT !.told = @ \ {k},
                            !.dialog = IF @ = k THEN "none" ELSE @]
    /\ UNCHANGED <<store, writing, arrived, unheard, flush, board>>

\* Mutant of ListLoaded: the store is asked for the rows of the active mine only.
ListLoadedOfMine(k, readable) ==
    /\ k \in desk.loading
    /\ desk' = [desk EXCEPT
         !.loading = @ \ {k},
         !.listed = IF readable /\ Held(k) /\ session.mine = picked THEN @ \cup {k}
                    ELSE @ \ {k},
         !.behind = IF readable THEN @ \ {k} ELSE @ \cup {k}]
    /\ UNCHANGED <<store, writing, arrived, unheard, flush, board>>

\* loadIssues and loadLeaves: the server refuses, and the list is all the store
\* holds, of any mine, or sample rows when that is nothing or cannot be read.
ListLoaded(k, readable) ==
    /\ k \in desk.loading
    /\ desk' = [desk EXCEPT
         !.loading = @ \ {k},
         !.listed = IF readable /\ Held(k) THEN @ \cup {k} ELSE @ \ {k},
         !.behind = IF readable THEN @ \ {k} ELSE @ \cup {k}]
    /\ UNCHANGED <<store, writing, arrived, unheard, flush, board>>

-----------------------------------------------------------------------------
(* The flush, of reports and then of leave applications.  Between, it posts    *)
(* the inspections of module OfflineQueue, which has its other interleavings.  *)

\* The six-second timer, the online event or a button of the status bar, which is
\* part of every page but the login.
FlushBegins ==
    /\ InConsole /\ flush = "idle"
    /\ \E k \in Kinds : store[k] = "queued"
    /\ flush' = "report"
    /\ UNCHANGED <<store, writing, arrived, unheard, desk, board>>

FlushNext == IF flush = "report" THEN "leave" ELSE "idle"

\* The server records the item anew each time it is sent: nothing in what is sent
\* tells it that it has it.  There is no token after the logout.  A report opens a
\* CAPA without an idempotency key, and the unique index of MongoDB admits one of
\* them, so MaxReports is 1, or 0 where there is one already; mongomock admits any
\* number (module OfflineQueue has what that means for the queue).
Recorded(k) ==
    /\ InConsole /\ SumFunction(arrived) < MaxArrivals
    /\ k = "report" => arrived[k] < MaxReports
    /\ arrived' = [arrived EXCEPT ![k] = @ + 1]

\* Mutant of FlushAccepted: a refused item is marked, too.
FlushAcceptedBlindly ==
    /\ flush \in Kinds /\ store[flush] = "queued"
    /\ store' = [store EXCEPT ![flush] = "submitted"]
    /\ Recorded(flush) \/ UNCHANGED arrived
    /\ flush' = FlushNext
    /\ UNCHANGED <<writing, unheard, desk, board>>

\* The answer arrives, and the item is marked.
FlushAccepted ==
    /\ flush \in Kinds /\ store[flush] = "queued"
    /\ Recorded(flush)
    /\ store' = [store EXCEPT ![flush] = "submitted"]
    /\ flush' = FlushNext
    /\ UNCHANGED <<writing, unheard, desk, board>>

\* The answer is lost, or the server refuses or is away: the item stays queued.
FlushDeferred ==
    /\ flush \in Kinds
    /\ \/ UNCHANGED <<arrived, unheard>>
       \/ /\ store[flush] = "queued"
          /\ Recorded(flush)
          /\ unheard' = [unheard EXCEPT ![flush] = @ + 1]
    /\ flush' = FlushNext
    /\ UNCHANGED <<store, writing, desk, board>>

-----------------------------------------------------------------------------
(* The manager's dashboard.                                                  *)

BoardOpen == route = "overview" /\ session.role \in Managers

\* The emergency cards and the hazard alerts offer to acknowledge what is not yet,
\* the rows of pending leaves to review them, the dialog to confirm or to leave it.
EmergencyCards == IF board.acked THEN {} ELSE {"acknowledge"}
HazardAlerts == IF board.acked THEN {} ELSE {"acknowledge"}
LeaveTable == {"APPROVED", "REJECTED"}
ReviewDialog == {"cancel"} \cup IF board.waiting THEN {} ELSE {"confirm"}

BoardOffers ==
    IF ~BoardOpen THEN {}
    ELSE IF board.review = "none" THEN EmergencyCards \cup HazardAlerts \cup LeaveTable
    ELSE ReviewDialog

\* handleAck is optimistic: what the server says of it is dropped.
Acknowledge ==
    /\ "acknowledge" \in BoardOffers
    /\ board' = [board EXCEPT !.acked = TRUE]
    /\ UNCHANGED <<store, writing, arrived, unheard, flush, desk>>

OpenReview(verdict) ==
    /\ verdict \in BoardOffers \cap LeaveTable
    /\ board' = [board EXCEPT !.review = verdict]
    /\ UNCHANGED <<store, writing, arrived, unheard, flush, desk>>

CancelReview ==
    /\ "cancel" \in BoardOffers
    /\ board' = [board EXCEPT !.review = "none"]
    /\ UNCHANGED <<store, writing, arrived, unheard, flush, desk>>

\* handleConfirmReview
ConfirmReview ==
    /\ "confirm" \in BoardOffers
    /\ board' = [board EXCEPT !.waiting = TRUE]
    /\ UNCHANGED <<store, writing, arrived, unheard, flush, desk>>

\* reviewWorkerLeave has no token either; the refusal leaves the dialog open.
ReviewRefused ==
    /\ board.waiting
    /\ board' = [board EXCEPT !.waiting = FALSE, !.outcome = "refused"]
    /\ UNCHANGED <<store, writing, arrived, unheard, flush, desk>>

-----------------------------------------------------------------------------
(* A step of the shell opens, closes or reloads the pages.  A dashboard whose  *)
(* summary is not cached for the mine picked and the role gives way to a        *)
(* skeleton and mounts again.                                                  *)

SummaryChanges == PickedChanges \/ session'.role # session.role

DeskFollows ==
    LET kept == IF MineChanges THEN Reloaded ELSE desk
    IN  desk' \in IF ~DeskOpen' THEN {NewDesk}
                  ELSE IF ~DeskOpen \/ route' # route THEN {Opened}
                  ELSE IF SummaryChanges /\ ~OnIssues THEN {kept, Opened}
                  ELSE {kept}

BoardFollows ==
    board' \in IF ~BoardOpen \/ ~BoardOpen' THEN {NewBoard}
               ELSE IF SummaryChanges THEN {board, NewBoard} ELSE {board}

PortalFollows ==
    /\ DeskFollows
    /\ BoardFollows
    /\ UNCHANGED <<store, writing, arrived, unheard, flush>>

PortalStep ==
    \/ \E k \in Kinds :
          \/ PressSync(k) \/ PressOpen(k) \/ PressCancel(k)
          \/ Submit(k) \/ Stored(k) \/ StoreRefuses(k) \/ MessageGone(k)
          \/ \E readable \in BOOLEAN : ListLoaded(k, readable)
    \/ StoreRefusesOffline
    \/ FlushBegins \/ FlushAccepted \/ FlushDeferred
    \/ Acknowledge \/ CancelReview \/ ConfirmReview \/ ReviewRefused
    \/ \E v \in LeaveTable : OpenReview(v)
=============================================================================
