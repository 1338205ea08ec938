---------------------------- MODULE ConsoleShell ----------------------------
(* What every page of the console shares: who is signed in and for which mine  *)
(* (auth-store), and the page that is open.  Nothing of it outlives the tab.   *)
EXTENDS Naturals, FiniteSets

CONSTANTS Mine, Home, Kasipet, RgOcp,   \* mines; those the code names
          Role,                         \* the roles people sign in with
          Pages                         \* the pages of the instance

VARIABLES session, route

ASSUME ShellAssumption ==
    /\ IsFiniteSet(Mine)
    /\ {Home, Kasipet, RgOcp} \subseteq Mine
    /\ {"overview", "login"} \subseteq Pages
    /\ {"none", "sample"} \cap Mine = {}

shell == <<session, route>>

Minister == "MINISTRY_AUDITOR"

\* Roles the pages treat alike.
Managers == {"COLLIERY_MANAGER", "AREA_ADMIN"}
Inspectors == {"DGMS_INSPECTOR", "REGULATORY_OFFICER"}
Workers == {"FIELD_WORKER", "MINING_SIRDAR"}

\* The roles of the role menu, and those offered to conduct an inspection.
MenuRoles ==
    {Minister, "DGMS_INSPECTOR", "COLLIERY_MANAGER", "CONTRACTOR_ADMIN", "FIELD_WORKER"}
Surveyors == Managers \cup Inspectors \cup {Minister}

\* The mine of a demo account, and of a role chosen in the role menu.
MineOf(r) == CASE r = "FIELD_WORKER" -> Kasipet
               [] r = "CONTRACTOR_ADMIN" -> RgOcp
               [] OTHER -> Home

\* The links of the sidebar; a link to /overview stands above them for every role.
LinksOf(r) ==
    CASE r = "CONTRACTOR_ADMIN" ->
            {"overview", "contractor/production", "contractor/risk-score",
             "contractor/mines", "notifications"}
      [] r \in Inspectors ->
            {"overview", "inspections", "inspections/new", "schedules", "capa", "map"}
      [] r \in Managers ->
            {"overview", "attendance", "analytics", "data-logs", "capa", "map"}
      [] r = Minister ->
            {"overview", "audit-ledger", "analytics", "compliance", "map"}
      [] OTHER -> {"overview", "worker/issues", "attendance", "map"}

\* The links of the dashboard a role sees at /overview.
DashboardLinks(r) ==
    CASE r \in Managers -> {"data-logs", "compliance", "attendance", "inspections"}
      [] r = "DGMS_INSPECTOR" -> {"audit-ledger", "schedules"}
      [] r \in {Minister, "REGULATORY_OFFICER"} -> {"audit-ledger", "analytics"}
      [] r = "CONTRACTOR_ADMIN" -> {"attendance", "map"}
      [] OTHER -> {}

\* The links of a page itself.
LinksOn(p, r) ==
    CASE p = "overview" ->
            {"capa"} \cup DashboardLinks(r)
                     \cup IF r \in Surveyors THEN {"inspections/new"} ELSE {}
      [] p = "data-logs" -> {"audit-ledger"}
      [] p = "inspections" /\ r \in Surveyors -> {"inspections/new"}
      [] p = "inspections/new" /\ r \in Surveyors -> {"inspections"}
      [] OTHER -> {}

\* The stores as a tab creates them: the auditor, signed in by simulation.
ShellInit ==
    /\ session = [role |-> Minister, mine |-> Home]
    /\ route = "overview"

InConsole == route # "login"

ShellTypeOK ==
    /\ session \in [role : Role \cup {Minister}, mine : Mine]
    /\ route \in Pages

\* handleLogin: the server accepts an account, or it refuses or is away and the
\* account is one of the demo accounts.  An account of no demo entry opens the
\* default mine.
Login(r) ==
    /\ route = "login"
    /\ \E m \in {MineOf(r), Home} :
            session' = [role |-> r, mine |-> m]
    /\ route' = "overview"

\* logout leaves the auditor's role and the mine behind.
Logout ==
    /\ InConsole
    /\ session' = [session EXCEPT !.role = Minister]
    /\ route' = "login"

\* switchRole, from the role menu of the demo mode.
SwitchRole(r) ==
    /\ InConsole
    /\ r \in MenuRoles
    /\ session' = [session EXCEPT !.role = r, !.mine = MineOf(r)]
    /\ UNCHANGED route

\* MineSelector.handleSelect
SelectMine(m) ==
    /\ InConsole
    /\ session' = [session EXCEPT !.mine = m]
    /\ UNCHANGED route

\* TenantSelector: the list has two mines and its button is the auditor's.
ScopeTenant(m) ==
    /\ InConsole
    /\ session.role = Minister
    /\ m \in {Home, RgOcp}
    /\ session' = [session EXCEPT !.mine = m]
    /\ UNCHANGED route

\* A link of the sidebar or of the page is followed.
OpenPage(p) ==
    /\ InConsole
    /\ p \in (LinksOf(session.role) \cup LinksOn(route, session.role)) \cap Pages
    /\ p # route
    /\ route' = p
    /\ UNCHANGED session
=============================================================================
