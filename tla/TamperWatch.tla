---------------------------- MODULE TamperWatch ----------------------------
(* The watch over the audit ledger in the console: the verification polled by *)
(* every tab (lib/api/useAuditVerify.ts), the alert store, the alarm of the   *)
(* auditor with its siren (components/alerts), and the page /audit-ledger with *)
(* its banner and its simulated attack.                                       *)
EXTENDS ConsoleShell, Siren, FiniteSets

CONSTANTS Exposed,         \* mines whose ledger is falsified
          MaxRequests      \* mines with a poll or an attack under way

VARIABLES
    broken,      \* mines whose chain the server finds broken
    checked,     \* the query cache: the last answer of each mine
    asking,      \* the poll under way for a mine, with the answer it will bring
    alert,       \* the tamper the alert store holds, if any
    open,        \* isModalOpen
    muted,       \* isMuted, of the alarm component
    attacks,     \* mines of the simulated attacks under way
    page         \* state of /audit-ledger, as new while it is not open

polling == <<broken, checked, asking>>
alarm == <<alert, open, muted>>
ledgerPage == <<attacks, page>>
watchVars == <<polling, alarm, ledgerPage, siren>>

None == "none"
Answers == {"intact", "broken", "unreachable"}
NoAlert == [mine |-> None, datalog |-> FALSE]
NewPage == [busy |-> FALSE, banner |-> "intact"]

WatchTypeOK ==
    /\ broken \subseteq Mine
    /\ checked \in [Mine -> Answers \cup {None}]
    /\ asking \in [Mine -> Answers \cup {None}]
    /\ alert \in [mine : Mine \cup {None}, datalog : BOOLEAN]
    /\ {open, muted} \subseteq BOOLEAN
    /\ attacks \subseteq Mine
    /\ page \in [busy : BOOLEAN, banner : {"intact", "warning"}]
    /\ siren \in SirenRecord

WatchInit ==
    /\ broken = {}
    /\ checked = [m \in Mine |-> None]
    /\ asking = [m \in Mine |-> None]
    /\ alert = NoAlert
    /\ open = FALSE /\ muted = FALSE
    /\ attacks = {}
    /\ page = NewPage
    /\ siren = NewSiren

---------------------------------------------------------------------------
(* The alarm.                                                             *)

\* isTampered; it is set together with tamperData.
Tampered == alert.mine # None

\* The component that holds the alarm is mounted for the auditor alone.
Mounted == InConsole /\ session.role = Minister

\* The alarm is on the screen: isDatalogTamper finds a keyword in what the page's
\* simulated attack stored, and none in any answer of the server.
AlarmShown == Mounted /\ open /\ Tampered /\ alert.datalog

\* What the siren's effect depends on, and when it plays.
EffectDeps == <<open, Tampered, alert.datalog, muted>>
Wanted == AlarmShown /\ ~muted

\* The siren after a step whose handler left it as s: the component unmounts,
\* mounts, or runs its effect again when what it depends on changed.  An effect that
\* ran before is cleaned up first, which stops the siren.
Redraw(s) ==
    siren' \in CASE Mounted /\ ~Mounted' -> {Stopped(s)}
                 [] ~Mounted /\ ~Mounted' -> {s}
                 [] ~Mounted /\ Mounted' -> IF Wanted' THEN Played(s) ELSE {Stopped(s)}
                 [] Mounted /\ Mounted' /\ EffectDeps = EffectDeps' -> {s}
                 [] OTHER -> IF Wanted' THEN Played(Stopped(s)) ELSE {Stopped(s)}

\* A mounted component begins unmuted.
KeepMuted == muted' = (muted /\ Mounted')

\* setTamperAlert: an invalid answer opens the alarm, a valid one ends it and
\* leaves isModalOpen.
Alarm(m, datalog) ==
    /\ alert' = [mine |-> m, datalog |-> datalog]
    /\ open' = TRUE

AllClear == alert' = NoAlert /\ UNCHANGED open

\* The effect of useAuditVerify, when the data of the query is another object.
Tell(m, answer) == IF answer = "broken" THEN Alarm(m, FALSE) ELSE AllClear

\* The query of another mine is shown: its cached answer is told, if there is one.
TellCached(m) ==
    IF checked[m] = None THEN UNCHANGED <<alert, open>> ELSE Tell(m, checked[m])

---------------------------------------------------------------------------
(* Polling.                                                               *)

\* fetchAuditVerification for the active mine, every fifteen seconds: the answer
\* of the server, or none it can be had from.
Poll(m) ==
    /\ InConsole
    /\ m = session.mine
    /\ Cardinality({n \in Mine : asking[n] # None} \cup attacks) < MaxRequests
    /\ asking[m] = None
    /\ \E a \in {"unreachable", IF m \in broken THEN "broken" ELSE "intact"} :
            asking' = [asking EXCEPT ![m] = a]
    /\ UNCHANGED <<broken, checked, alarm, ledgerPage, siren>>

\* The answer arrives.  It is told when the watch looks at that mine and the
\* answer differs from the cached one; the ledger's length is part of it, so
\* that answers of the server may differ and say the same.
Answered(m) ==
    /\ asking[m] # None
    /\ CanStop
    /\ checked' = [checked EXCEPT ![m] = asking[m]]
    /\ asking' = [asking EXCEPT ![m] = None]
    /\ IF InConsole /\ m = session.mine
         THEN \/ /\ asking[m] # "unreachable" \/ asking[m] # checked[m]
                 /\ Tell(m, asking[m])
              \/ asking[m] = checked[m] /\ UNCHANGED <<alert, open>>
         ELSE UNCHANGED <<alert, open>>
    /\ UNCHANGED <<broken, muted, ledgerPage>>
    /\ Redraw(siren)

\* A record is altered in the database, past the service.
Falsify(m) ==
    /\ m \in Exposed \ broken
    /\ broken' = broken \cup {m}
    /\ UNCHANGED <<checked, asking, alarm, ledgerPage, siren>>

---------------------------------------------------------------------------
(* The buttons of the alarm.                                              *)

\* handleClose
Dismiss ==
    /\ AlarmShown /\ CanStop
    /\ open' = FALSE
    /\ UNCHANGED <<polling, alert, muted, ledgerPage>>
    /\ Redraw(siren)

\* handleInspect closes the alarm and opens the ledger.
Inspect ==
    /\ AlarmShown /\ CanStop
    /\ open' = FALSE
    /\ route' = "audit-ledger"
    /\ UNCHANGED <<session, polling, alert, muted, ledgerPage>>
    /\ Redraw(siren)

\* handleFreezeAndDispatch closes the alarm; the flag it sets, isFrozen, is read by
\* nothing but the label of a button.
Freeze ==
    /\ AlarmShown /\ CanStop
    /\ open' = FALSE
    /\ UNCHANGED <<polling, alert, muted, ledgerPage>>
    /\ Redraw(siren)

\* handleToggleMute: a siren that is taken back plays first, then the effect runs.
ToggleMute ==
    /\ AlarmShown /\ CanStop
    /\ muted' = ~muted
    /\ UNCHANGED <<polling, alert, open, ledgerPage>>
    /\ \E s \in IF muted THEN Played(siren) ELSE {siren} : Redraw(s)

---------------------------------------------------------------------------
(* The page of the ledger.                                                *)

OnLedger == route = "audit-ledger"

\* handleSimulateTamper asks the server to falsify a block of the active mine.
Attack ==
    /\ OnLedger /\ ~page.busy
    /\ session.mine \notin attacks
    /\ Cardinality({n \in Mine : asking[n] # None} \cup attacks) < MaxRequests
    /\ attacks' = attacks \cup {session.mine}
    /\ page' = [page EXCEPT !.busy = TRUE]
    /\ UNCHANGED <<polling, alarm, siren>>

\* The attack is answered, or is not and simulateDatabaseTamper says it was: the
\* page tells the alert either way, and tells it when it is no longer open, too.
AttackAnswered(m) ==
    /\ m \in attacks
    /\ CanStop
    /\ attacks' = attacks \ {m}
    /\ page' = IF OnLedger THEN [page EXCEPT !.busy = FALSE] ELSE page
    /\ \/ m \in Exposed /\ broken' = broken \cup {m}
       \/ UNCHANGED broken
    /\ Alarm(m, TRUE)
    /\ UNCHANGED <<checked, asking, muted>>
    /\ Redraw(siren)

\* handleVerify of the banner, which reads `valid`: the answer of the server does
\* not have it (it has `is_valid`), and the one verifyAuditChain makes up when
\* there is none has.
Verify(reached) ==
    /\ OnLedger
    /\ page' = [page EXCEPT !.banner = IF reached THEN "warning" ELSE "intact"]
    /\ UNCHANGED <<polling, alarm, attacks, siren>>

---------------------------------------------------------------------------
(* A step of the shell: a page is left as new, the watch shows the query of *)
(* the mine that is active now, and the alarm comes, goes or stays.         *)

\* Mutant of WatchFollows: the effect runs when an answer arrives, not when the
\* query of another mine is shown.
WatchFollowsNoQuery ==
    /\ CanStop
    /\ page' = IF route' = route THEN page ELSE NewPage
    /\ UNCHANGED <<alert, open>>
    /\ KeepMuted
    /\ UNCHANGED <<polling, attacks>>
    /\ Redraw(siren)

WatchFollows ==
    /\ CanStop
    /\ page' = IF route' = route THEN page ELSE NewPage
    /\ IF InConsole' /\ (session'.mine # session.mine \/ ~InConsole)
         THEN TellCached(session'.mine)
         ELSE UNCHANGED <<alert, open>>
    /\ KeepMuted
    /\ UNCHANGED <<polling, attacks>>
    /\ Redraw(siren)

SirenTurn ==
    /\ SirenStep
    /\ UNCHANGED <<polling, alarm, ledgerPage>>

\* Every step of the watch but Inspect, which moves the shell.
WatchStep ==
    \/ \E m \in Mine : Poll(m) \/ Answered(m) \/ Falsify(m) \/ AttackAnswered(m)
    \/ Dismiss \/ Freeze \/ ToggleMute
    \/ Attack \/ \E reached \in BOOLEAN : Verify(reached)
    \/ SirenTurn
=============================================================================
