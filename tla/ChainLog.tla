------------------------------- MODULE ChainLog -------------------------------
(***************************************************************************)
(* What the audit ledger promises its readers: for every mine site one     *)
(* history that grows at its end, a record at a time, and never otherwise. *)
(***************************************************************************)
EXTENDS Sequences

CONSTANTS Mine, Payload

VARIABLE log

Init == log = [m \in Mine |-> <<>>]

Record(m, d) == log' = [log EXCEPT ![m] = Append(@, d)]

Next == \E m \in Mine, d \in Payload : Record(m, d)

Spec == Init /\ [][Next]_log
===============================================================================
