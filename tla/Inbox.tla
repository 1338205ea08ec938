-------------------------------- MODULE Inbox --------------------------------
(* The notification centre, a dialog of the top bar (notification-center-modal)  *)
(* over one notification, and the handlers of the server that mark it, each of   *)
(* which saves the whole document it read (notification_service.py).             *)
EXTENDS ConsoleShell

VARIABLES
    note,        \* the notification in the database
    handling,    \* the handlers at work, of this console and of another client
    inbox        \* state of the dialog, which outlives its being closed

inboxVars == <<note, handling, inbox>>

Note == [read : BOOLEAN, acked : BOOLEAN]
Unmarked == [read |-> FALSE, acked |-> FALSE]
NewInbox == [open |-> FALSE, loading |-> TRUE, shown |-> Unmarked,
             chosen |-> FALSE, busy |-> FALSE, closing |-> FALSE]
Handler == [op : {"read", "ack"}, here : BOOLEAN, copy : Note]

InboxTypeOK ==
    /\ note \in Note
    /\ handling \subseteq Handler
    /\ inbox \in [open : BOOLEAN, loading : BOOLEAN, shown : Note,
                  chosen : BOOLEAN, busy : BOOLEAN, closing : BOOLEAN]

InboxInit ==
    /\ note = Unmarked
    /\ handling = {}
    /\ inbox = NewInbox

\* The row of the notification offers what is not done yet as far as the dialog
\* knows, and the form of an acknowledgement is disabled while it is being sent.
NoteRow ==
    (IF inbox.shown.acked THEN {} ELSE {"choose"})
        \cup IF inbox.shown.read THEN {} ELSE {"read"}
AckForm == {"leave"} \cup IF inbox.busy THEN {} ELSE {"ack"}

InboxOffers ==
    IF ~InConsole THEN {}
    ELSE IF ~inbox.open THEN {"open"}
    ELSE {"close"} \cup (IF inbox.loading THEN {} ELSE NoteRow)
                   \cup IF inbox.chosen THEN AckForm ELSE {}

OpenInbox ==
    /\ "open" \in InboxOffers
    /\ inbox' = [inbox EXCEPT !.open = TRUE, !.loading = TRUE]
    /\ UNCHANGED <<note, handling>>

\* The cross, the backdrop and Escape; what is typed and chosen stays.
CloseInbox ==
    /\ "close" \in InboxOffers
    /\ inbox' = [inbox EXCEPT !.open = FALSE]
    /\ UNCHANGED <<note, handling>>

ChooseNote ==
    /\ \/ "choose" \in InboxOffers /\ inbox' = [inbox EXCEPT !.chosen = TRUE]
       \/ "leave" \in InboxOffers /\ inbox' = [inbox EXCEPT !.chosen = FALSE]
    /\ UNCHANGED <<note, handling>>

\* loadData, or the samples of the client; handleMarkRead closes the dialog then.
InboxLoaded ==
    /\ inbox.loading
    /\ \E rows \in {note, Unmarked} :
            inbox' = [inbox EXCEPT !.loading = FALSE, !.shown = rows,
                                   !.open = @ /\ ~inbox.closing, !.closing = FALSE]
    /\ UNCHANGED <<note, handling>>

\* acknowledge_notification and mark_as_read begin: each reads the document.
\* One of each client at a time; a second of this console is as another client's.
Begin(op, here) ==
    /\ \A h \in handling : h.here # here
    /\ handling' = handling \cup {[op |-> op, here |-> here, copy |-> note]}
    /\ UNCHANGED note

\* handleAcknowledge and handleMarkRead
PressAck ==
    /\ "ack" \in InboxOffers
    /\ inbox' = [inbox EXCEPT !.busy = TRUE]
    /\ Begin("ack", TRUE)

PressRead ==
    /\ "read" \in InboxOffers
    /\ UNCHANGED inbox
    /\ Begin("read", TRUE)

\* The dialog of another client.
MarkedElsewhere(op) ==
    /\ UNCHANGED inbox
    /\ Begin(op, FALSE)

\* Mutant of Marked: marking it read begins an acknowledgement anew.
MarkedAnew(h) ==
    [read |-> TRUE, acked |-> h.op = "ack"]

\* What a handler makes of its copy.
Marked(h) ==
    [read |-> TRUE, acked |-> h.copy.acked \/ h.op = "ack"]

\* The handler saves, and the dialog that asked loads again.
Saved(h) ==
    /\ h \in handling
    /\ note' = Marked(h)
    /\ handling' = handling \ {h}
    /\ inbox' = IF ~h.here THEN inbox
                ELSE IF h.op = "ack"
                  THEN [inbox EXCEPT !.busy = FALSE, !.chosen = FALSE, !.loading = TRUE]
                  ELSE [inbox EXCEPT !.closing = TRUE, !.loading = TRUE]

\* The request fails before it saves; that is logged.
SaveFails(h) ==
    /\ h \in handling
    /\ handling' = handling \ {h}
    /\ inbox' = IF h.here THEN [inbox EXCEPT !.busy = FALSE] ELSE inbox
    /\ UNCHANGED note

\* The top bar goes with the console, and no longer hears of its requests.
InboxFollows ==
    /\ inbox' = IF route' = "login" THEN NewInbox
                ELSE IF inbox.open /\ session'.mine # session.mine
                  THEN [inbox EXCEPT !.loading = TRUE]
                  ELSE inbox
    /\ handling' = IF route' = "login" THEN {[h EXCEPT !.here = FALSE] : h \in handling}
                   ELSE handling
    /\ UNCHANGED note

InboxStep ==
    \/ OpenInbox \/ CloseInbox \/ ChooseNote \/ InboxLoaded
    \/ PressAck \/ PressRead
    \/ \E op \in {"read", "ack"} : MarkedElsewhere(op)
    \/ \E h \in handling : Saved(h) \/ SaveFails(h)
=============================================================================
