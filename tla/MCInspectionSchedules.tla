------------------------ MODULE MCInspectionSchedules ------------------------
(* A small instance of InspectionSchedules for TLC.                        *)
EXTENDS InspectionSchedules, TLC

\* History: two requests have been in the server at once.
VARIABLE overlapped

Symmetry == Permutations(Handler) \cup Permutations(Schedule)

Note == overlapped' = (overlapped
                         \/ Cardinality({h \in Handler : handler'[h] # Idle}) > 1)

\* Bound: after an overlap and a crash the only patches are completions.
Room(status) == overlapped /\ crashes > 0 => status = "COMPLETED"

\* Next, with the history kept.
MCNext ==
    \/ \E s \in Schedule : DueDatePasses(s) /\ Note
    \/ \E h \in Handler :
         \/ \E s \in Schedule : Insert(h, s) /\ Note
         \/ Inform(h) /\ Note
         \/ \E s \in Schedule, status \in Asked, named \in BOOLEAN :
              Room(status) /\ ReadToPatch(h, s, status, named) /\ Note
         \/ ReadToComplete(h) /\ Note
         \/ SavePatch(h) /\ Note
         \/ ReadLate(h) /\ Note
         \/ MarkOverdue(h) /\ Note
         \/ Escalate(h) /\ Note
         \/ EndSweep(h) /\ Note
         \/ Abort(h) /\ Note

MCInit == Init /\ overlapped = FALSE

MCSpec == MCInit /\ [][MCNext]_<<vars, overlapped>>

\* As long as no two requests overlap a lapse is escalated once, however often the
\* check is run (schedule_service.py:95).
EscalatedOnce == ~overlapped => OneNoticePerLapse

\* As long as no two requests overlap, the check never takes a completed inspection
\* for an overdue one (schedule_service.py:89, "Find past-due uncompleted
\* inspections, mark OVERDUE"), and no patch loses the inspection a schedule names
\* (update_schedule_status, lines 114-118).
CompletionStandsSerially ==
    [][~overlapped' =>
         \A s \in Schedule :
           /\ sched[s].status = "COMPLETED" => sched'[s].status # "OVERDUE"
           /\ sched[s].inspection => sched'[s].inspection]_<<vars, overlapped>>
=============================================================================
