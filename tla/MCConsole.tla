------------------------------ MODULE MCConsole ------------------------------
(* A small instance of Console for TLC.  The parts share the session, the route  *)
(* and the picked mine, which only the shell changes, and nothing else, and what  *)
(* a page shows is gone when it is left: a behaviour lets one part work, on one    *)
(* page besides the overview and with the roles that see it differently, and the  *)
(* other parts stay as they are; the picked mine changes for the parts that read  *)
(* it.                                                                             *)
EXTENDS Console

VARIABLE working

Works ==
    {[part |-> "portal", page |-> "worker/issues", roles |-> {"FIELD_WORKER"}],
     [part |-> "portal", page |-> "overview", roles |-> {"COLLIERY_MANAGER"}],
     [part |-> "vault", page |-> "data-logs", roles |-> {"COLLIERY_MANAGER"}],
     [part |-> "watch", page |-> "audit-ledger", roles |-> {"FIELD_WORKER"}],
     [part |-> "inbox", page |-> "overview", roles |-> {}]}
    \cup {[part |-> "registers", page |-> w[1], roles |-> w[2]] :
            w \in {<<"attendance", {"FIELD_WORKER"}>>, <<"capa", {"COLLIERY_MANAGER"}>>,
                   <<"schedules", {"DGMS_INSPECTOR"}>>, <<"compliance", {}>>,
                   <<"inspections", {"DGMS_INSPECTOR"}>>}}

Init == ConsoleInit /\ working \in Works

\* The part that works follows the shell.
Follows(part, followed, vars) ==
    IF working.part = part THEN followed ELSE UNCHANGED vars

Next ==
    /\ \/ working.part = "portal" /\ PortalTurn
       \/ working.part = "registers" /\ RegisterTurn
       \/ working.part = "vault" /\ VaultTurn
       \/ working.part = "inbox" /\ InboxTurn
       \/ working.part = "watch" /\ WatchTurn
       \/ /\ \/ ShellMoves /\ Follows("watch", WatchFollows, watchVars)
             \/ working.part = "watch" /\ Inspect /\ UNCHANGED picked
          /\ route' \in {"overview", "login", working.page}
          /\ session'.role \in working.roles \cup {Minister}
          /\ UNCHANGED picked \/ working.part \in {"portal", "vault"}
          /\ Follows("portal", PortalFollows, portalVars)
          /\ Follows("registers", RegisterFollows, registerVars)
          /\ Follows("vault", VaultFollows, vaultVars)
          /\ Follows("inbox", InboxFollows, inboxVars)
    /\ UNCHANGED working

Spec == Init /\ [][Next]_<<consoleVars, working>>
=============================================================================
