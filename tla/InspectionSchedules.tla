-------------------------- MODULE InspectionSchedules --------------------------
(***************************************************************************)
(* Scheduled statutory inspections and their escalation when overdue:      *)
(* app/services/schedule_service.py, the handlers of                       *)
(* app/api/v1/schedules.py and the notifications both insert.              *)
(*                                                                         *)
(* Every handler reads whole documents and saves them whole, in separate   *)
(* awaited calls.  The overdue check reads all late schedules once and     *)
(* then works through that list; nothing in the code runs it by itself, so *)
(* it is a request like the others.                                        *)
(***************************************************************************)
EXTENDS Naturals, FiniteSets, Functions

CONSTANTS
    Handler,      \* requests that may be processed at the same time
    Schedule,     \* schedules
    Asked,        \* statuses clients ask for
    MaxLapses,    \* bound: no check begins after so many lapses and crashes
    MaxCrash      \* bound on requests that die half way

Status == {"ASSIGNED", "IN_PROGRESS", "COMPLETED", "OVERDUE"}

ASSUME ScheduleAssumption == Asked \subseteq Status

VARIABLES
    sched,      \* each schedule's document, or Absent
    late,       \* schedules whose due date has passed
    handler,    \* each request's local state
    informed,   \* schedules whose inspector was notified
    lapses,     \* how often a check has made each schedule OVERDUE
    escalated,  \* how many escalation notices each schedule has had
    crashes     \* how many requests died half way

vars == <<sched, late, handler, informed, lapses, escalated, crashes>>

Absent == [status |-> "ABSENT", inspection |-> FALSE, stamped |-> FALSE]

Idle == [pc |-> "idle"]

Init ==
    /\ sched = [s \in Schedule |-> Absent]
    /\ late = {}
    /\ handler = [h \in Handler |-> Idle]
    /\ informed = {}
    /\ lapses = [s \in Schedule |-> 0]
    /\ escalated = [s \in Schedule |-> 0]
    /\ crashes = 0

-----------------------------------------------------------------------------
(* create_schedule: the schedule, then the notice to the inspector.        *)
Insert(h, s) ==
    /\ handler[h] = Idle
    /\ sched[s] = Absent
    /\ sched' = [sched EXCEPT
         ![s] = [status |-> "ASSIGNED", inspection |-> FALSE, stamped |-> FALSE]]
    /\ handler' = [handler EXCEPT ![h] = [pc |-> "inform", sched |-> s]]
    /\ UNCHANGED <<late, informed, lapses, escalated, crashes>>

Inform(h) ==
    /\ handler[h].pc = "inform"
    /\ informed' = informed \cup {handler[h].sched}
    /\ handler' = [handler EXCEPT ![h] = Idle]
    /\ UNCHANGED <<sched, late, lapses, escalated, crashes>>

(* A day goes by: today is past the due date of s.                         *)
DueDatePasses(s) ==
    /\ sched[s] # Absent
    /\ s \notin late
    /\ late' = late \cup {s}
    /\ UNCHANGED <<sched, handler, informed, lapses, escalated, crashes>>

-----------------------------------------------------------------------------
\* Mutant of Patched: the inspection is assigned although none is named.
PatchedBare(doc, status, named) ==
    [status |-> status, inspection |-> named, stamped |-> doc.stamped]

\* The copy update_schedule_status saves: the status asked for, and the
\* inspection when one is named.
Patched(doc, status, named) ==
    [status |-> status, inspection |-> doc.inspection \/ named,
     stamped |-> doc.stamped]

\* The copy mark_completed saves.
Completed == [status |-> "COMPLETED", inspection |-> TRUE, stamped |-> TRUE]

(* update_schedule_status: read; a completion that names its inspection    *)
(* goes to mark_completed, which reads again.                              *)
ReadToPatch(h, s, status, named) ==
    /\ handler[h] = Idle
    /\ sched[s] # Absent
    /\ handler' = [handler EXCEPT
         ![h] = IF status = "COMPLETED" /\ named
                THEN [pc |-> "complete", sched |-> s]
                ELSE [pc |-> "patch", sched |-> s,
                      doc |-> Patched(sched[s], status, named)]]
    /\ UNCHANGED <<sched, late, informed, lapses, escalated, crashes>>

ReadToComplete(h) ==
    /\ handler[h].pc = "complete"
    /\ handler' = [handler EXCEPT
         ![h] = [pc |-> "patch", sched |-> @.sched, doc |-> Completed]]
    /\ UNCHANGED <<sched, late, informed, lapses, escalated, crashes>>

(* The whole document is saved, whatever it has become.                    *)
SavePatch(h) ==
    /\ handler[h].pc = "patch"
    /\ sched' = [sched EXCEPT ![handler[h].sched] = handler[h].doc]
    /\ handler' = [handler EXCEPT ![h] = Idle]
    /\ UNCHANGED <<late, informed, lapses, escalated, crashes>>

-----------------------------------------------------------------------------
(* evaluate_overdue_schedules.                                             *)

\* Mutant of Uncompleted: the query leaves the status out.
LateOnes == late

Uncompleted == {s \in late : sched[s].status # "COMPLETED"}

\* Mutant of ReadLate: the loop does not skip the items already OVERDUE.
ReadLateAll(h) ==
    /\ handler[h] = Idle
    /\ SumFunction(lapses) + crashes < MaxLapses
    /\ handler' = [handler EXCEPT
         ![h] = [pc |-> "sweep",
                 docs |-> [s \in Uncompleted |-> sched[s]]]]
    /\ UNCHANGED <<sched, late, informed, lapses, escalated, crashes>>

(* get_overdue_schedules; the items already OVERDUE are skipped in the loop. *)
ReadLate(h) ==
    /\ handler[h] = Idle
    /\ SumFunction(lapses) + crashes < MaxLapses
    /\ handler' = [handler EXCEPT
         ![h] = [pc |-> "sweep",
                 docs |-> [s \in {u \in Uncompleted :
                                    sched[u].status # "OVERDUE"} |-> sched[s]]]]
    /\ UNCHANGED <<sched, late, informed, lapses, escalated, crashes>>

Without(docs, s) == [u \in DOMAIN docs \ {s} |-> docs[u]]

\* Mutant of MarkOverdue: the notice is left out.
MarkSilently(h) ==
    /\ handler[h].pc = "sweep"
    /\ \E s \in DOMAIN handler[h].docs :
         /\ sched' = [sched EXCEPT
              ![s] = [handler[h].docs[s] EXCEPT !.status = "OVERDUE"]]
         /\ lapses' = [lapses EXCEPT
              ![s] = IF sched[s].status = "OVERDUE" THEN @ ELSE @ + 1]
         /\ handler' = [handler EXCEPT
              ![h] = [pc |-> "sweep", docs |-> Without(@.docs, s)]]
    /\ UNCHANGED <<late, informed, escalated, crashes>>

(* The next item of the list is saved as OVERDUE, as it was when read ...  *)
MarkOverdue(h) ==
    /\ handler[h].pc = "sweep"
    /\ \E s \in DOMAIN handler[h].docs :
         /\ sched' = [sched EXCEPT
              ![s] = [handler[h].docs[s] EXCEPT !.status = "OVERDUE"]]
         /\ lapses' = [lapses EXCEPT
              ![s] = IF sched[s].status = "OVERDUE" THEN @ ELSE @ + 1]
         /\ handler' = [handler EXCEPT
              ![h] = [pc |-> "escalate", sched |-> s,
                      docs |-> Without(@.docs, s)]]
    /\ UNCHANGED <<late, informed, escalated, crashes>>

(* ... and then the colliery manager and the ministry are notified.        *)
Escalate(h) ==
    /\ handler[h].pc = "escalate"
    /\ escalated' = [escalated EXCEPT ![handler[h].sched] = @ + 1]
    /\ handler' = [handler EXCEPT
         ![h] = [pc |-> "sweep", docs |-> @.docs]]
    /\ UNCHANGED <<sched, late, informed, lapses, crashes>>

EndSweep(h) ==
    /\ handler[h].pc = "sweep"
    /\ DOMAIN handler[h].docs = {}
    /\ handler' = [handler EXCEPT ![h] = Idle]
    /\ UNCHANGED <<sched, late, informed, lapses, escalated, crashes>>

(* The request dies between two awaits.                                    *)
Abort(h) ==
    /\ handler[h] # Idle
    /\ crashes < MaxCrash
    /\ crashes' = crashes + 1
    /\ handler' = [handler EXCEPT ![h] = Idle]
    /\ UNCHANGED <<sched, late, informed, lapses, escalated>>

Next ==
    \/ \E s \in Schedule : DueDatePasses(s)
    \/ \E h \in Handler :
         \/ \E s \in Schedule : Insert(h, s)
         \/ Inform(h)
         \/ \E s \in Schedule, status \in Asked, named \in BOOLEAN :
              ReadToPatch(h, s, status, named)
         \/ ReadToComplete(h)
         \/ SavePatch(h)
         \/ ReadLate(h)
         \/ MarkOverdue(h)
         \/ Escalate(h)
         \/ EndSweep(h)
         \/ Abort(h)

Spec == Init /\ [][Next]_vars

-----------------------------------------------------------------------------
(* Properties.                                                             *)

Doc == [status : Status, inspection : BOOLEAN, stamped : BOOLEAN]

IsHandler(r) ==
    \/ r = Idle
    \/ r.pc \in {"inform", "complete"} /\ r.sched \in Schedule
    \/ r.pc = "patch" /\ r.sched \in Schedule /\ r.doc \in Doc
    \/ /\ r.pc = "sweep" \/ (r.pc = "escalate" /\ r.sched \in Schedule)
       /\ DOMAIN r.docs \subseteq Schedule
       /\ r.docs \in [DOMAIN r.docs -> Doc]

\* The shape of the documents and of the requests' local states: no request works
\* on a schedule that does not exist.
TypeOK ==
    /\ sched \in [Schedule -> Doc \cup {Absent}]
    /\ \A h \in Handler : IsHandler(handler[h])
    /\ late \cup informed \subseteq Schedule
    /\ \A s \in late \cup informed : sched[s] # Absent
    /\ lapses \in [Schedule -> Nat]
    /\ escalated \in [Schedule -> Nat]
    /\ crashes \in Nat

Escalating(s) ==
    Cardinality({h \in Handler : handler[h].pc = "escalate" /\ handler[h].sched = s})

\* While no request has died, every time a schedule has become OVERDUE a notice
\* has gone out or is about to: what the board labels "Level 1 Ministry Escalated"
\* was escalated (evaluate_overdue_schedules, lines 94-117), with checks and
\* patches of stale copies interleaved at will.
EveryLapseEscalated ==
    crashes = 0 => \A s \in Schedule : lapses[s] <= escalated[s] + Escalating(s)

\* With one request at a time a lapse is escalated once, however often the check
\* is run (line 95).
OneNoticePerLapse ==
    crashes = 0 => \A s \in Schedule : escalated[s] + Escalating(s) = lapses[s]

\* A schedule with a completion time names the inspection that completed it, in
\* every order of patches, completions and checks: whole-document saves lose
\* updates but never mix two (mark_completed, 82-86; update_schedule_status, 114-120).
StampNeedsInspection ==
    \A s \in Schedule : sched[s].stamped => sched[s].inspection
==============================================================================
