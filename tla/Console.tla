------------------------------ MODULE Console ------------------------------
(* The console of one tab: its pages side by side, over the session, the route  *)
(* and the picked mine they share.  A handler of a page is a step of that page;  *)
(* a step of the shell is a step of them all.                                    *)
EXTENDS Portal, Registers, Vault, Inbox, TamperWatch

consoleVars ==
    <<shell, picked, portalVars, registerVars, vaultVars, inboxVars, watchVars>>

ConsoleTypeOK ==
    /\ ShellTypeOK
    /\ picked \in Mine
    /\ PortalTypeOK
    /\ RegisterTypeOK
    /\ VaultTypeOK
    /\ InboxTypeOK
    /\ WatchTypeOK

ConsoleInit ==
    /\ ShellInit
    /\ PickInit
    /\ PortalInit
    /\ RegisterInit
    /\ VaultInit
    /\ InboxInit
    /\ WatchInit

PortalTurn ==
    /\ PortalStep
    /\ UNCHANGED <<shell, picked, registerVars, vaultVars, inboxVars, watchVars>>

RegisterTurn ==
    /\ RegisterStep
    /\ UNCHANGED <<shell, picked, portalVars, vaultVars, inboxVars, watchVars>>

VaultTurn ==
    /\ VaultStep
    /\ UNCHANGED <<shell, picked, portalVars, registerVars, inboxVars, watchVars>>

InboxTurn ==
    /\ InboxStep
    /\ UNCHANGED <<shell, picked, portalVars, registerVars, vaultVars, watchVars>>

WatchTurn ==
    /\ UNCHANGED <<shell, picked, portalVars, registerVars, vaultVars, inboxVars>>
    /\ WatchStep

ShellMoves == ShellAlone \/ \E m \in Mine : Pick(m)

\* What moves the shell, and what the watch makes of it.
ShellAndWatch ==
    \/ ShellMoves /\ WatchFollows
    \/ Inspect /\ UNCHANGED picked

ShellTurn ==
    /\ ShellAndWatch
    /\ PortalFollows
    /\ RegisterFollows
    /\ VaultFollows
    /\ InboxFollows

ConsoleNext ==
    PortalTurn \/ RegisterTurn \/ VaultTurn \/ InboxTurn \/ WatchTurn \/ ShellTurn

ConsoleSpec == ConsoleInit /\ [][ConsoleNext]_consoleVars

-----------------------------------------------------------------------------
(* Properties.                                                               *)

\* The server has recorded a report or a leave application the store calls submitted
\* exactly once more than its answers were lost, and one still queued as often as
\* that, whoever was signed in, came and went during the flush (sync-manager.ts
\* 176-235, worker.py).
RecordedAsAnswered ==
    \A k \in Kinds :
        arrived[k] = unheard[k] + IF store[k] = "submitted" THEN 1 ELSE 0

\* What the store holds is on the list of the worker's page as soon as that is
\* loaded, through every change of mine, role and page, unless IndexedDB could not
\* be read or the item was still being stored for a page left since
\* (WorkerDashboard.tsx 154-181, 183-266; worker/issues/page.tsx 79-219).
ListKeepsStore ==
    DeskOpen =>
        \A k \in Lists \ (desk.loading \cup desk.behind) :
            Held(k) => k \in desk.listed

\* When nothing is under way, a register shows rows of the mine that is active, or
\* samples, unless that mine was chosen while requests for another were under way:
\* then late answers, and the loads after late writes, bring back the other mine
\* (attendance/page.tsx 59-77, 101-130; schedule-board.tsx 63-124).
RowsMatchMineSerially ==
    ~reg.crossed /\ reg.loads = {} =>
        \A p \in Parts : reg.shown[p].mine \in {session.mine, "sample", "none"}

\* The headcount of the attendance page counts the active rows of its list, unless
\* the register changed between the two answers, one of them is a sample, or the
\* mine has more records than a list returns (attendance/page.tsx 62-67,
\* attendance.py 127-160, attendance_repository.py 14-34).
CountAgreesSerially ==
    LET list == reg.shown["list"]
        head == reg.shown["head"]
    IN  route = "attendance" /\ ~reg.torn /\ list.mine = head.mine
            /\ list.mine \in Mine => 
          (Len(muster[list.mine]) <= ListLimit => list.active = head.active)

\* The logs of a mine are shown with the rows of another one only as long as no rows
\* of its own have been copied (logs.ts 191-276, offline-db.ts 284-303).
LogsOfOtherMine ==
    \A m \in Mine : logs[m] \in Mine \ {m} => m \notin copies

\* An acknowledgement of a notification is taken back only by a mark_as_read that
\* had read the notification before it was acknowledged (notification_service.py
\* 44-69).
AckTakenBackByStaleCopy ==
    [][note.acked /\ ~note'.acked =>
        \E h \in handling \ handling' : h.op = "read" /\ ~h.copy.acked]_consoleVars

\* The alert store agrees with the last answer about the mine that is open: a
\* broken chain is held as tampered whichever way the console got to that mine,
\* and what is held is that answer, or a simulated attack no answer has replaced
\* yet (useAuditVerify.ts 45-56, audit-alert-store.ts 39-52; mines, sessions and
\* roles change while polls are under way).
VerdictReachesStore ==
    InConsole /\ checked[session.mine] # None =>
        /\ checked[session.mine] = "broken" => Tampered
        /\ Tampered => \/ alert.datalog
                       \/ alert.mine = session.mine /\ checked[session.mine] = "broken"

\* Whatever sounds has something under way that will end it, an interval or the
\* timer of a stop (audio.ts 56-71, 78-99): only an oscillator that a second
\* play made the fields forget sounds on.
EverySoundHasAnEnd ==
    siren.osc => siren.ticking \/ siren.lostTick \/ siren.timers > 0
=============================================================================
