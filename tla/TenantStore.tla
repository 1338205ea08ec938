----------------------------- MODULE TenantStore -----------------------------
(* The second store of the active mine (lib/store/tenant-store.ts): the mine    *)
(* picked on the list of the top bar.  The dashboards and the data logs show    *)
(* that mine, every other page the mine of auth-store, and of what changes the   *)
(* latter only the list changes both.                                           *)
EXTENDS ConsoleShell

VARIABLE picked

PickInit == picked = Home

PickedChanges == picked' # picked
MineChanges == session'.mine # session.mine

\* selectMine, which the list calls before it tells auth-store.
Pick(m) == SelectMine(m) /\ picked' = m

\* Every other step of the shell.
ShellAlone ==
    /\ \/ \E r \in Role : Login(r) \/ SwitchRole(r)
       \/ Logout
       \/ \E m \in Mine : ScopeTenant(m)
       \/ \E p \in Pages : OpenPage(p)
    /\ UNCHANGED picked
=============================================================================
