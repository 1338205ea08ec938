----------------------------- MODULE Registers -----------------------------
(* The pages that show what the server holds of the active mine: attendance,   *)
(* inspection schedules, permits with their alerts, CAPAs and inspections.     *)
(* Each loads when it opens, when the mine changes and after its own writes;   *)
(* no request is cancelled, whatever the page shows when its answer comes.     *)
(* Of the server the register of attendance is kept here; the others have      *)
(* modules of their own.                                                       *)
EXTENDS ConsoleShell, Sequences, FiniteSets, Functions

CONSTANTS ListLimit,     \* rows list_attendance returns (100)
          Staffed,       \* mines people check in at
          MaxRecords,    \* attendance records of all mines
          MaxUnderWay    \* requests of a page under way at once

VARIABLES
    muster,      \* the attendance records of each mine, oldest first: is it active?
    reg          \* state of the open page, as new while none is open

registerVars == <<muster, reg>>

ASSUME RegistersAssumption ==
    /\ ListLimit \in Nat \ {0}
    /\ {MaxRecords, MaxUnderWay} \subseteq Nat
    /\ Staffed \subseteq Mine

RegisterPages == {"attendance", "schedules", "compliance", "capa", "inspections"}
Parts == {"list", "head"}

\* What a part of the page shows: rows of a mine, with how many are active, or
\* the sample rows of the client.
Nothing == [mine |-> "none", active |-> 0]
Sample == [mine |-> "sample", active |-> 0]
Shown == [mine : Mine \cup {"none", "sample"}, active : 0..MaxRecords]
Pending == [mine |-> "pending", active |-> 0]

\* A load: the mine it was made for, the parts it waits for, what they brought,
\* and whether the register changed between them.
Loads == [mine : Mine, parts : SUBSET Parts, got : [Parts -> Shown \cup {Pending}],
          torn : BOOLEAN]
Ops == {"in", "out", "check", "update", "create", "ack", "download"}
Calls == [op : Ops, mine : Mine, row : Mine \cup {"none", "sample"}]

NewReg == [shown |-> [p \in Parts |-> Nothing], torn |-> FALSE, loading |-> FALSE,
           loads |-> {}, calls |-> {}, crossed |-> FALSE]

RegisterTypeOK ==
    /\ \A m \in Mine : muster[m] \in Seq(BOOLEAN) /\ Len(muster[m]) <= MaxRecords
    /\ DOMAIN muster = Mine
    /\ reg.shown \in [Parts -> Shown]
    /\ reg.loads \subseteq Loads
    /\ reg.calls \subseteq Calls
    /\ {reg.torn, reg.loading, reg.crossed} \subseteq BOOLEAN

RegisterInit ==
    /\ muster = [m \in Mine |-> <<>>]
    /\ reg = NewReg

-----------------------------------------------------------------------------
(* Loads.                                                                    *)

RegisterOpen == route \in RegisterPages

Load(m, parts) == [mine |-> m, parts |-> parts, got |-> [p \in Parts |-> Pending],
                   torn |-> FALSE]

\* loadData of the page p: attendance waits for the list and the headcount
\* together, the permits and their alerts come on their own.
LoadsOf(p, m) ==
    CASE p = "attendance" -> {Load(m, Parts)}
      [] p = "compliance" -> {Load(m, {q}) : q \in Parts}
      [] OTHER -> {Load(m, {"list"})}

\* The pages that have a loading flag show no row while it is set.
Flagged(p) == p \in {"attendance", "schedules"}

Loading(r, p, m) == [r EXCEPT !.loads = @ \cup LoadsOf(p, m), !.loading = Flagged(p)]

Actives(s) == Cardinality({i \in DOMAIN s : s[i]})

\* list_by_mine_site: the newest records, active or not.
Listed(m) ==
    [mine |-> m,
     active |-> Actives(SubSeq(muster[m],
                    IF Len(muster[m]) > ListLimit THEN Len(muster[m]) - ListLimit + 1 ELSE 1,
                    Len(muster[m])))]

\* Mutant of Headcount: every record is counted.
HeadcountOfAll(m) == [mine |-> m, active |-> Len(muster[m])]

\* get_active_headcount: every record that is active.
Headcount(m) == [mine |-> m, active |-> Actives(muster[m])]

\* What the server has for a part of the open page.
RowsOf(p, m) == IF route # "attendance" THEN [mine |-> m, active |-> 0]
                ELSE IF p = "list" THEN Listed(m) ELSE Headcount(m)

Complete(l) == \A p \in l.parts : l.got[p] # Pending

\* The answers are shown, though the page may show another mine by now.  The CAPA
\* board keeps the cards it was mounted with, which are none.
Delivered(r, l) ==
    [r EXCEPT !.shown = IF route = "capa" THEN @
                        ELSE [p \in Parts |-> IF p \in l.parts THEN l.got[p] ELSE @[p]],
              !.torn = l.torn,
              !.loading = FALSE]

\* The server answers one request of a load, or does not and the client takes its
\* sample rows; the last answer ends the load.
Served(l, p, reached) ==
    /\ RegisterOpen
    /\ l \in reg.loads /\ p \in l.parts /\ l.got[p] = Pending
    /\ LET now == [l EXCEPT !.got[p] = IF reached THEN RowsOf(p, l.mine) ELSE Sample]
           rest == [reg EXCEPT !.loads = @ \ {l}]
       IN  reg' = IF Complete(now) THEN Delivered(rest, now)
                  ELSE [rest EXCEPT !.loads = @ \cup {now}]
    /\ UNCHANGED muster

-----------------------------------------------------------------------------
(* What the pages offer.  A form is a press away and left with another, and    *)
(* whether it is open decides nothing else: the forms are offered with the rest. *)

HasOp(op) == \E c \in reg.calls : c.op = op
Idle(op) == IF HasOp(op) THEN {} ELSE {op}

\* Attendance: the export and its menu, the rows with their buttons to check out,
\* the form to check in, which has no flag that it is being sent.
ExportMenu == Idle("download")
MusterTable ==
    IF ~reg.loading /\ (reg.shown["list"] = Sample \/ reg.shown["list"].active > 0)
      THEN {"out"} ELSE {}
CheckInForm == {"in"}
AttendanceOffers == ExportMenu \cup MusterTable \cup CheckInForm

\* Schedules: the check for overdue ones, the cards with their next status, and
\* the form of a new one.
ScheduleBar == Idle("check")
ScheduleCards == IF ~reg.loading /\ reg.shown["list"] # Nothing THEN {"update"} ELSE {}
ScheduleForm == {"create"}
ScheduleOffers == ScheduleBar \cup ScheduleCards \cup ScheduleForm

\* Permits: the certificate, and the alerts to acknowledge.
PermitTable == Idle("download")
AlertList == IF reg.shown["head"] # Nothing THEN {"ack"} ELSE {}
ComplianceOffers == PermitTable \cup AlertList

\* The CAPA board offers the next state of its cards, of which there are none.
BoardColumns == IF reg.shown["list"] # Nothing THEN {"update"} ELSE {}

\* Inspections: the dossier of each row, with no flag.
InspectionRows == IF reg.shown["list"] # Nothing THEN {"download"} ELSE {}

RegisterOffers ==
    CASE route = "attendance" -> AttendanceOffers
      [] route = "schedules" -> ScheduleOffers
      [] route = "compliance" -> ComplianceOffers
      [] route = "capa" -> BoardColumns
      [] route = "inspections" -> InspectionRows
      [] OTHER -> {}

\* A bound on what is under way at once.
UnderWay(r) == Cardinality(r.loads) + Cardinality(r.calls)
Room == UnderWay(reg) < MaxUnderWay

\* A handler sends its request about a row; what it does afterwards knows the mine
\* of now.
Ask(op) ==
    /\ op \in RegisterOffers
    /\ Room
    /\ reg' = [reg EXCEPT !.calls =
         @ \cup {[op |-> op, mine |-> session.mine,
                 row |-> IF op = "out" THEN reg.shown["list"].mine ELSE "none"]}]
    /\ UNCHANGED muster

Records == SumFunction([m \in Mine |-> Len(muster[m])])

\* check_in and check_out of app/api/v1/attendance.py
CheckedIn(m) ==
    /\ m \in Staffed /\ Records < MaxRecords
    /\ muster' = [muster EXCEPT ![m] = Append(@, TRUE)]

CheckedOut(m) ==
    \E i \in DOMAIN muster[m] : muster' = [muster EXCEPT ![m][i] = FALSE]

\* A load that has one of its parts when the register changes mixes two of them.
Tear(r, m) ==
    [r EXCEPT !.loads =
        {IF l.mine = m /\ \E p, q \in l.parts : l.got[p] = Pending /\ l.got[q] # Pending
           THEN [l EXCEPT !.torn = TRUE] ELSE l : l \in @}]

\* The request succeeds: the page loads again, for the mine the handler knows.
\* An alert is marked in the page, a download leaves it alone.
AskDone(c) ==
    /\ c \in reg.calls
    /\ CASE c.op = "in" -> CheckedIn(c.mine)
         [] c.op = "out" -> c.row \in Mine /\ CheckedOut(c.row)
         [] OTHER -> UNCHANGED muster
    /\ LET torn == CASE c.op = "in" -> Tear(reg, c.mine)
                     [] c.op = "out" -> Tear(reg, c.row)
                     [] OTHER -> reg
           answered == [torn EXCEPT !.calls = @ \ {c}]
       IN  reg' = IF c.op \in {"ack", "download"} THEN answered
                  ELSE Loading(answered, route, c.mine)

\* It fails: that is logged, and only the check for overdue ones loads again.
AskFailed(c) ==
    /\ c \in reg.calls
    /\ LET answered == [reg EXCEPT !.calls = @ \ {c}]
       IN  reg' = IF c.op = "check" THEN Loading(answered, route, c.mine) ELSE answered
    /\ UNCHANGED muster

\* The register changes by another client, or by a request of a page left since;
\* only the page of attendance sees it.
ChangedElsewhere(m) ==
    /\ route = "attendance"
    /\ CheckedIn(m) \/ CheckedOut(m)
    /\ reg' = Tear(reg, m)

-----------------------------------------------------------------------------
(* A step of the shell: the effect of the page loads when it opens and when the *)
(* mine changes.                                                                *)

\* Mutant of RegisterFollows: the effect does not depend on the mine.
RegisterFollowsPageOnly ==
    /\ reg' = IF route' \notin RegisterPages THEN NewReg
              ELSE IF route' # route THEN Loading(NewReg, route', session'.mine)
              ELSE reg
    /\ UNCHANGED muster

RegisterFollows ==
    /\ \/ /\ route' \notin RegisterPages
          /\ reg' = NewReg
       \/ /\ route' \in RegisterPages /\ route' # route
          /\ reg' = Loading(NewReg, route', session'.mine)
       \/ /\ route' \in RegisterPages /\ route' = route /\ session'.mine = session.mine
          /\ reg' = reg
       \/ /\ route' \in RegisterPages /\ route' = route /\ session'.mine # session.mine
          /\ reg' = Loading([reg EXCEPT !.crossed = reg.loads # {} \/ reg.calls # {}],
                            route, session'.mine)
    /\ session'.mine = session.mine \/ UnderWay(reg') <= MaxUnderWay
    /\ UNCHANGED muster

RegisterStep ==
    \/ \E l \in reg.loads, p \in Parts, reached \in BOOLEAN : Served(l, p, reached)
    \/ \E op \in Ops : Ask(op)
    \/ \E c \in reg.calls : AskDone(c) \/ AskFailed(c)
    \/ \E m \in Mine : ChangedElsewhere(m)
=============================================================================
