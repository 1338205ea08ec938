---------------------------- MODULE ConsoleProofs ----------------------------
(* Proofs about Console, for any number of mines, roles and pages and any bound. *)
(* Each property is about a part of the console and is disturbed by the steps of  *)
(* that part and of the shell; the other parts leave its variables alone.        *)
EXTENDS Console, SequenceTheorems, FiniteSetTheorems, WellFoundedInduction, TLAPS

-----------------------------------------------------------------------------
(* Sums.                                                                     *)

\* Induction over the numbers, of a set of them.
LEMMA AllNumbers ==
    ASSUME NEW G, 0 \in G, \A n \in Nat : n \in G => n + 1 \in G
    PROVE  Nat \subseteq G
  <1> DEFINE Bad == Nat \ G
  <1> SUFFICES ASSUME Bad # {} PROVE FALSE
    OBVIOUS
  <1>1. PICK n \in Bad : \A k \in Bad : <<k, n>> \notin OpToRel(<, Nat)
    BY NatLessThanWellFounded, WFMin
  <1> DEFINE k == n - 1
  <1>2. k \in Nat /\ k < n /\ k + 1 = n
    <2>1. n \in Nat /\ n # 0
      OBVIOUS
    <2> QED
      BY <2>1
  <1>3. k \in Bad
    <2> HIDE DEF k
    <2> QED
      BY <1>2
  <1>4. <<k, n>> \in OpToRel(<, Nat)
    BY <1>2 DEF OpToRel
  <1> QED
    BY <1>1, <1>3, <1>4

\* A step of the recursion that SumFunction is, and the function it defines.
SumStep(f, s, g) ==
    IF s = {} THEN 0 ELSE LET x == CHOOSE x \in s : TRUE IN f[x] + g[s \ {x}]

IsSum(f, g) == g = [s \in SUBSET DOMAIN f |-> SumStep(f, s, g)]

LEMMA SumChosen ==
    ASSUME NEW f PROVE SumFunction(f) = (CHOOSE g : IsSum(f, g))[DOMAIN f]
  BY DEF SumFunction, SumFunctionOnSet, FoldFunctionOnSet, MapThenFoldSet, IsSum, SumStep

\* One element less.
LEMMA Smaller ==
    ASSUME NEW s, IsFiniteSet(s), s # {}, NEW x, x = CHOOSE y \in s : TRUE
    PROVE  /\ x \in s /\ Cardinality(s) \in Nat \ {0}
           /\ Cardinality(s \ {x}) = Cardinality(s) - 1
  <1>1. x \in s
    OBVIOUS
  <1>2. Cardinality(s) \in Nat \ {0}
    BY FS_CardinalityType, FS_EmptySet
  <1> QED
    BY <1>1, <1>2, FS_RemoveElement

LEMMA SumExists ==
    ASSUME NEW f, IsFiniteSet(DOMAIN f)
    PROVE  \E g : IsSum(f, g)
  <1> DEFINE D == DOMAIN f
             Size(s) == Cardinality(s)
             G == {n \in Nat : \E g : \A s \in SUBSET D : Size(s) <= n => g[s] = SumStep(f, s, g)}
  <1>1. \A s \in SUBSET D : IsFiniteSet(s) /\ Size(s) \in Nat /\ (Size(s) = 0 <=> s = {})
    BY FS_Subset, FS_CardinalityType, FS_EmptySet
  <1>2. 0 \in G
    <2> DEFINE g == [s \in SUBSET D |-> 0]
    <2>1. \A s \in SUBSET D : Size(s) <= 0 => g[s] = SumStep(f, s, g)
      BY <1>1 DEF SumStep
    <2> QED
      BY <2>1
  <1>3. ASSUME NEW n \in Nat, n \in G PROVE n + 1 \in G
    <2>1. PICK g : \A s \in SUBSET D : Size(s) <= n => g[s] = SumStep(f, s, g)
      BY <1>3
    <2> DEFINE h == [s \in SUBSET D |-> IF Size(s) <= n THEN g[s] ELSE SumStep(f, s, g)]
    <2>2. ASSUME NEW s \in SUBSET D, Size(s) <= n + 1 PROVE h[s] = SumStep(f, s, h)
      <3>1. CASE s = {}
        BY <1>1, <2>1, <3>1 DEF SumStep
      <3>2. CASE s # {}
        <4> DEFINE x == CHOOSE x \in s : TRUE
        <4>1. s \ {x} \in SUBSET D /\ Size(s \ {x}) <= n
          BY <1>1, <2>2, <3>2, Smaller
        <4>2. h[s \ {x}] = g[s \ {x}]
          BY <4>1
        <4>3. h[s] = SumStep(f, s, g)
          BY <2>1
        <4> QED
          BY <3>2, <4>2, <4>3 DEF SumStep
      <3> QED
        BY <3>1, <3>2
    <2> HIDE DEF h
    <2> QED
      BY <2>2
  <1>4. Size(D) \in G
    <2> HIDE DEF G
    <2>1. Nat \subseteq G
      BY <1>2, <1>3, AllNumbers
    <2> QED
      BY <1>1, <2>1
  <1>5. PICK g : \A s \in SUBSET D : Size(s) <= Size(D) => g[s] = SumStep(f, s, g)
    BY <1>4
  <1>6. \A s \in SUBSET D : g[s] = SumStep(f, s, g)
    BY <1>5, FS_Subset
  <1> DEFINE h == [s \in SUBSET D |-> g[s]]
  <1>7. ASSUME NEW s \in SUBSET D PROVE SumStep(f, s, h) = SumStep(f, s, g)
    BY DEF SumStep
  <1>8. h = [s \in SUBSET D |-> SumStep(f, s, h)]
    BY <1>6, <1>7
  <1> QED
    BY <1>8 DEF IsSum

\* Of numbers, a sum is a number and not less than any of them.
LEMMA SumBounds ==
    ASSUME NEW f, IsFiniteSet(DOMAIN f), \A x \in DOMAIN f : f[x] \in Nat
    PROVE  SumFunction(f) \in Nat /\ \A x \in DOMAIN f : f[x] <= SumFunction(f)
  <1> DEFINE D == DOMAIN f
             Size(s) == Cardinality(s)
  <1>1. PICK g : IsSum(f, g) /\ SumFunction(f) = g[D]
    BY SumExists, SumChosen
  <1>2. \A s \in SUBSET D : g[s] = SumStep(f, s, g)
    BY <1>1 DEF IsSum
  <1>3. \A s \in SUBSET D : IsFiniteSet(s) /\ Size(s) \in Nat /\ (Size(s) = 0 <=> s = {})
    BY FS_Subset, FS_CardinalityType, FS_EmptySet
  <1> DEFINE Bounds(s) == g[s] \in Nat /\ \A x \in s : f[x] <= g[s]
             G == {n \in Nat : \A s \in SUBSET D : Size(s) = n => Bounds(s)}
  <1>4. 0 \in G
    BY <1>2, <1>3 DEF SumStep
  <1>5. ASSUME NEW n \in Nat, n \in G PROVE n + 1 \in G
    <2>1. ASSUME NEW s \in SUBSET D, Size(s) = n + 1 PROVE Bounds(s)
      <3> DEFINE x == CHOOSE x \in s : TRUE
                 r == s \ {x}
      <3>1. s # {}
        BY <1>3, <2>1
      <3>2. x \in s /\ r \in SUBSET D /\ Size(r) = n
        <4>1. IsFiniteSet(s)
          BY <1>3
        <4>2. x \in s /\ Size(r) = Size(s) - 1
          BY <3>1, <4>1, Smaller
        <4> QED
          BY <2>1, <4>2
      <3>3. g[s] = f[x] + g[r]
        BY <1>2, <3>1 DEF SumStep
      <3> HIDE DEF x
      <3>4. g[r] \in Nat /\ \A y \in r : f[y] <= g[r]
        <4> HIDE DEF r
        <4> QED
          BY <1>5, <3>2
      <3>5. f[x] \in Nat /\ \A y \in s : f[y] \in Nat
        BY <3>2
      <3>6. \A y \in s : y = x \/ y \in r
        OBVIOUS
      <3> QED
        BY <3>3, <3>4, <3>5, <3>6
    <2> QED
      BY <2>1
  <1>6. D \in SUBSET D /\ Size(D) \in G
    <2> HIDE DEF G
    <2>1. Nat \subseteq G
      BY <1>4, <1>5, AllNumbers
    <2> QED
      BY <1>3, <2>1
  <1> QED
    BY <1>1, <1>6

-----------------------------------------------------------------------------
(* Reports and leave applications.                                           *)

\* What RecordedAsAnswered needs: an item a handler is about to store is not in the
\* store yet, so storing it never takes back that it was submitted.
DeliveryInv ==
    /\ store \in [Kinds -> {"absent", "queued", "submitted", "lost"}]
    /\ writing \subseteq Kinds
    /\ arrived \in [Kinds -> Nat]
    /\ unheard \in [Kinds -> Nat]
    /\ \A k \in writing : store[k] = "absent"
    /\ RecordedAsAnswered

LEMMA PortalDelivers == DeliveryInv /\ PortalStep => DeliveryInv'
  <1> SUFFICES ASSUME DeliveryInv, PortalStep PROVE DeliveryInv'
    OBVIOUS
  <1> USE DEF DeliveryInv, RecordedAsAnswered
  <1>1. ASSUME UNCHANGED <<store, writing, arrived, unheard>> PROVE DeliveryInv'
    BY <1>1
  <1>2. ASSUME NEW k \in Kinds, Submit(k) PROVE DeliveryInv'
    BY <1>2 DEF Submit
  <1>3. ASSUME NEW k \in Kinds, Stored(k) \/ StoreRefuses(k) PROVE DeliveryInv'
    BY <1>3 DEF Stored, StoreRefuses
  <1>4. CASE StoreRefusesOffline
    BY <1>4 DEF StoreRefusesOffline
  <1>5. CASE FlushAccepted
    BY <1>5 DEF FlushAccepted, Recorded
  <1>6. CASE FlushDeferred
    <2>1. CASE UNCHANGED <<arrived, unheard>>
      BY <1>6, <2>1 DEF FlushDeferred
    <2>2. CASE Recorded(flush) /\ unheard' = [unheard EXCEPT ![flush] = @ + 1]
      BY <1>6, <2>2 DEF FlushDeferred, Recorded
    <2> QED
      BY <1>6, <2>1, <2>2 DEF FlushDeferred
  <1> QED
    BY <1>1, <1>2, <1>3, <1>4, <1>5, <1>6
    DEF PortalStep, PressSync, PressOpen, PressCancel, MessageGone, ListLoaded,
        FlushBegins, Acknowledge, CancelReview, ConfirmReview, ReviewRefused, OpenReview

LEMMA DeliveryInvariance == ConsoleSpec => []DeliveryInv
  <1>1. ConsoleInit => DeliveryInv
    BY DEF ConsoleInit, PortalInit, DeliveryInv, RecordedAsAnswered
  <1>2. DeliveryInv /\ [ConsoleNext]_consoleVars => DeliveryInv'
    <2> SUFFICES ASSUME DeliveryInv, [ConsoleNext]_consoleVars PROVE DeliveryInv'
      OBVIOUS
    <2>1. CASE PortalTurn
      BY <2>1, PortalDelivers DEF PortalTurn
    <2>2. CASE UNCHANGED <<store, writing, arrived, unheard>>
      BY <2>2 DEF DeliveryInv, RecordedAsAnswered
    <2> QED
      BY <2>1, <2>2
      DEF ConsoleNext, RegisterTurn, VaultTurn, InboxTurn, WatchTurn, ShellTurn,
          PortalFollows, portalVars, consoleVars
  <1> QED
    BY <1>1, <1>2, PTL DEF ConsoleSpec

\* The server has recorded what is submitted once more than its answers were lost,
\* through any sessions, in every order of forms, flushes and answers.
THEOREM RecordedAlwaysAsAnswered == ConsoleSpec => []RecordedAsAnswered
  <1>1. DeliveryInv => RecordedAsAnswered
    BY DEF DeliveryInv
  <1> QED
    BY <1>1, DeliveryInvariance, PTL

-----------------------------------------------------------------------------
(* The shift data logs.                                                      *)

LogsInv ==
    /\ logs \in [Mine -> Mine \cup {"none", "sample"}]
    /\ fetching \subseteq Mine
    /\ copies \subseteq Mine
    /\ picked \in Mine
    /\ LogsOfOtherMine

LEMMA VaultKeepsLogs ==
    ASSUME LogsInv, VaultStep, picked' = picked PROVE LogsInv'
  <1> USE ShellAssumption DEF LogsInv, LogsOfOtherMine
  <1>1. CASE Fetch
    BY <1>1 DEF Fetch
  <1>2. ASSUME NEW m \in fetching, Fetched(m) PROVE LogsInv'
    BY <1>2 DEF Fetched
  <1>3. ASSUME NEW m \in fetching, FetchedLocally(m) PROVE LogsInv'
    <2>1. PICK rows \in CopiesFor(m) \cup {"sample"} : logs' = [logs EXCEPT ![m] = rows]
      BY <1>3 DEF FetchedLocally
    <2>2. rows \in Mine \cup {"sample"} /\ (m \in copies => rows \in {m, "sample"})
      BY <2>1 DEF CopiesFor
    <2> QED
      BY <1>3, <2>1, <2>2 DEF FetchedLocally
  <1>4. ASSUME UNCHANGED <<copies, logs, fetching>> PROVE LogsInv'
    BY <1>4
  <1> QED
    BY <1>1, <1>2, <1>3, <1>4
    DEF VaultStep, OpenAttempt, CloseAttempt, TryToAlter, AttemptAnswered

LEMMA LogsInvariance == ConsoleSpec => []LogsInv
  <1>1. ConsoleInit => LogsInv
    BY ShellAssumption
    DEF ConsoleInit, VaultInit, PickInit, LogsInv, LogsOfOtherMine
  <1>2. LogsInv /\ [ConsoleNext]_consoleVars => LogsInv'
    <2> SUFFICES ASSUME LogsInv, [ConsoleNext]_consoleVars PROVE LogsInv'
      OBVIOUS
    <2>1. CASE VaultTurn
      BY <2>1, VaultKeepsLogs DEF VaultTurn
    <2>2. CASE UNCHANGED <<copies, logs, fetching>> /\ picked' \in Mine
      BY <2>2 DEF LogsInv, LogsOfOtherMine
    <2>3. CASE ShellTurn
      BY <2>2, <2>3
      DEF ShellTurn, ShellAndWatch, ShellMoves, ShellAlone, Pick, VaultFollows, LogsInv
    <2> QED
      BY <2>1, <2>2, <2>3
      DEF ConsoleNext, PortalTurn, RegisterTurn, InboxTurn, WatchTurn, LogsInv,
          vaultVars, consoleVars
  <1> QED
    BY <1>1, <1>2, PTL DEF ConsoleSpec

\* Rows of another mine are shown only while a mine has no copy of its own.
THEOREM LogsAlwaysOwn == ConsoleSpec => []LogsOfOtherMine
  <1>1. LogsInv => LogsOfOtherMine
    BY DEF LogsInv
  <1> QED
    BY <1>1, LogsInvariance, PTL

-----------------------------------------------------------------------------
(* The lists of the worker's page.                                           *)

Desk == [dialog : Kinds \cup {"none"}, busy : SUBSET Kinds, told : SUBSET Kinds,
         loading : SUBSET Kinds, listed : SUBSET Kinds, behind : SUBSET Kinds]

\* What ListKeepsStore needs: an item a handler is about to store is not there yet,
\* so that only storing it adds to what the lists are to show.
ListInv ==
    /\ desk \in Desk
    /\ store \in [Kinds -> {"absent", "queued", "submitted", "lost"}]
    /\ writing \subseteq Kinds
    /\ \A k \in writing : store[k] = "absent"
    /\ ListKeepsStore

LEMMA PortalKeepsLists ==
    ASSUME ListInv, PortalStep, UNCHANGED <<session, route>> PROVE ListInv'
  <1> USE DEF ListInv, Desk, ListKeepsStore, Held
  <1>1. Lists' = Lists /\ DeskOpen' = DeskOpen
    BY DEF Lists, DeskOpen, OnIssues
  <1>2. Lists \subseteq Kinds
    BY DEF Lists, Kinds
  <1>3. ASSUME UNCHANGED <<store, writing, desk>> PROVE ListInv'
    BY <1>1, <1>3
  <1>4. ASSUME NEW k \in Kinds, PressSync(k) PROVE ListInv'
    BY <1>1, <1>4 DEF PressSync
  <1>5. ASSUME NEW k \in Kinds, PressOpen(k) \/ PressCancel(k) \/ MessageGone(k)
        PROVE  ListInv'
    <2>1. \E d \in Kinds \cup {"none"}, t \in SUBSET Kinds :
             desk' = [desk EXCEPT !.told = t, !.dialog = d]
      <3>1. CASE PressOpen(k)
        BY <3>1 DEF PressOpen
      <3>2. CASE PressCancel(k)
        BY <3>2 DEF PressCancel
      <3>3. CASE MessageGone(k)
        BY <3>3 DEF MessageGone
      <3> QED
        BY <1>5, <3>1, <3>2, <3>3
    <2>2. /\ desk'.loading = desk.loading
          /\ desk'.listed = desk.listed
          /\ desk'.behind = desk.behind
          /\ UNCHANGED <<store, writing>>
      BY <1>5 DEF PressOpen, PressCancel, MessageGone
    <2> QED
      BY <1>1, <2>1, <2>2
  <1>6. ASSUME NEW k \in Kinds, Submit(k) PROVE ListInv'
    BY <1>1, <1>6 DEF Submit
  <1>7. ASSUME NEW k \in Kinds, Stored(k) PROVE ListInv'
    <2>1. desk' \in Desk
      BY <1>7 DEF Stored, Reported
    <2>2. DeskOpen => k \in desk'.listed \cup desk'.behind
      BY <1>7 DEF Stored, Reported
    <2>3. /\ desk'.loading = desk.loading
          /\ desk.listed \subseteq desk'.listed
          /\ desk.behind \subseteq desk'.behind
      BY <1>7 DEF Stored, Reported
    <2>4. /\ writing' = writing \ {k}
          /\ store' = [store EXCEPT ![k] = "queued"]
      BY <1>7 DEF Stored
    <2> QED
      BY <1>1, <1>2, <2>1, <2>2, <2>3, <2>4
  <1>8. ASSUME NEW k \in Kinds, StoreRefuses(k) PROVE ListInv'
    <2>1. desk' \in Desk
      BY <1>8 DEF StoreRefuses, Reported
    <2>2. /\ desk'.loading = desk.loading
          /\ desk.listed \subseteq desk'.listed
          /\ desk.behind \subseteq desk'.behind
      BY <1>8 DEF StoreRefuses, Reported
    <2>3. /\ writing' = writing \ {k}
          /\ store' = [store EXCEPT ![k] = "lost"]
      BY <1>8 DEF StoreRefuses
    <2> QED
      BY <1>1, <1>2, <2>1, <2>2, <2>3
  <1>9. CASE StoreRefusesOffline
    BY <1>1, <1>9 DEF StoreRefusesOffline, Reported
  <1>10. ASSUME NEW k \in Kinds, NEW readable \in BOOLEAN, ListLoaded(k, readable)
         PROVE  ListInv'
    <2>1. desk' \in Desk /\ UNCHANGED <<store, writing>>
      <3> DEFINE l == IF readable /\ Held(k) THEN desk.listed \cup {k}
                      ELSE desk.listed \ {k}
                 b == IF readable THEN desk.behind \ {k} ELSE desk.behind \cup {k}
      <3>1. /\ desk' = [desk EXCEPT !.loading = @ \ {k}, !.listed = l, !.behind = b]
            /\ UNCHANGED <<store, writing>>
        BY <1>10 DEF ListLoaded
      <3>2. l \in SUBSET Kinds /\ b \in SUBSET Kinds
        OBVIOUS
      <3> HIDE DEF l, b
      <3> QED
        BY <3>1, <3>2
    <2>2. \A j \in Kinds \ {k} :
             /\ j \in desk'.loading <=> j \in desk.loading
             /\ j \in desk'.listed <=> j \in desk.listed
             /\ j \in desk'.behind <=> j \in desk.behind
      BY <1>10 DEF ListLoaded
    <2>3. k \in desk'.behind \/ (Held(k) => k \in desk'.listed)
      BY <1>10 DEF ListLoaded
    <2>4. ASSUME DeskOpen, NEW j \in Lists \ (desk'.loading \cup desk'.behind), Held(j)
          PROVE  j \in desk'.listed
      <3>1. CASE j = k
        BY <2>3, <2>4, <3>1
      <3>2. CASE j # k
        BY <1>2, <2>2, <2>4, <3>2
      <3> QED
        BY <3>1, <3>2
    <2> QED
      BY <1>1, <2>1, <2>4
  <1>11. CASE FlushAccepted
    BY <1>1, <1>11 DEF FlushAccepted
  <1> QED
    BY <1>3, <1>4, <1>5, <1>6, <1>7, <1>8, <1>9, <1>10, <1>11
    DEF PortalStep, FlushBegins, FlushDeferred, Acknowledge, CancelReview,
        ConfirmReview, ReviewRefused, OpenReview

LEMMA ShellKeepsLists == ASSUME ListInv, DeskFollows, UNCHANGED <<store, writing>>
                         PROVE  ListInv'
  <1> USE DEF ListInv, Desk, ListKeepsStore, Held
  <1>1. /\ NewDesk \in Desk /\ Opened \in Desk /\ Reloaded \in Desk
    BY DEF NewDesk, Opened, Reloaded, Lists, Kinds
  <1>2. CASE ~DeskOpen' /\ desk' = NewDesk
    BY <1>1, <1>2
  <1>3. CASE DeskOpen' /\ desk' = Opened
    <2>1. Lists' = IF route' = "overview" THEN Kinds ELSE {"report"}
      BY <1>3 DEF Lists, DeskOpen, OnIssues
    <2>2. desk'.loading = Lists'
      BY <1>3, <2>1 DEF Opened, NewDesk
    <2> QED
      BY <1>1, <1>3, <2>2
  <1>4. CASE DeskOpen /\ DeskOpen' /\ route' = route /\ desk' \in {desk, Reloaded}
    <2>1. Lists' = Lists
      BY <1>4 DEF Lists, OnIssues
    <2>2. CASE desk' = desk
      BY <1>4, <2>1, <2>2
    <2>3. CASE desk' = Reloaded
      BY <1>1, <1>4, <2>1, <2>3 DEF Reloaded
    <2> QED
      BY <1>4, <2>2, <2>3
  <1> QED
    BY <1>2, <1>3, <1>4 DEF DeskFollows

LEMMA ListInvariance == ConsoleSpec => []ListInv
  <1>1. ConsoleInit => ListInv
    <2>1. Lists \subseteq Kinds
      BY DEF Lists, Kinds
    <2> QED
      BY <2>1 DEF ConsoleInit, PortalInit, NewDesk, ListInv, Desk, ListKeepsStore, Held
  <1>2. ListInv /\ [ConsoleNext]_consoleVars => ListInv'
    <2> SUFFICES ASSUME ListInv, [ConsoleNext]_consoleVars PROVE ListInv'
      OBVIOUS
    <2>1. CASE PortalTurn
      BY <2>1, PortalKeepsLists DEF PortalTurn, shell
    <2>2. CASE ShellTurn
      BY <2>2, ShellKeepsLists DEF ShellTurn, PortalFollows
    <2>3. CASE UNCHANGED <<session, route, store, writing, desk>>
      BY <2>3 DEF ListInv, ListKeepsStore, Held, Lists, DeskOpen, OnIssues
    <2> QED
      BY <2>1, <2>2, <2>3
      DEF ConsoleNext, RegisterTurn, VaultTurn, InboxTurn, WatchTurn, portalVars,
          shell, consoleVars
  <1> QED
    BY <1>1, <1>2, PTL DEF ConsoleSpec

\* Through every change of mine, role and page a loaded list shows what is stored.
THEOREM ListAlwaysKeepsStore == ConsoleSpec => []ListKeepsStore
  <1>1. ListInv => ListKeepsStore
    BY DEF ListInv
  <1> QED
    BY <1>1, ListInvariance, PTL

-----------------------------------------------------------------------------
(* The notification centre.                                                  *)

\* The handlers at work keep their shape.
HandlersOK == handling \subseteq Handler /\ note \in Note

LEMMA InboxKeepsHandlers == ASSUME HandlersOK, InboxStep PROVE HandlersOK'
  <1> USE DEF HandlersOK, Handler, Note
  <1>1. ASSUME NEW h \in handling, Saved(h) PROVE HandlersOK'
    BY <1>1 DEF Saved, Marked
  <1>2. ASSUME NEW h \in handling, SaveFails(h) PROVE HandlersOK'
    BY <1>2 DEF SaveFails
  <1>3. ASSUME NEW op \in {"read", "ack"}, NEW here \in BOOLEAN, Begin(op, here)
        PROVE  HandlersOK'
    BY <1>3 DEF Begin
  <1>4. ASSUME UNCHANGED <<note, handling>> PROVE HandlersOK'
    BY <1>4
  <1> QED
    BY <1>1, <1>2, <1>3, <1>4
    DEF InboxStep, OpenInbox, CloseInbox, ChooseNote, InboxLoaded, PressAck, PressRead,
        MarkedElsewhere

LEMMA HandlersInvariance == ConsoleSpec => []HandlersOK
  <1>1. ConsoleInit => HandlersOK
    BY DEF ConsoleInit, InboxInit, HandlersOK, Note, Unmarked
  <1>2. HandlersOK /\ [ConsoleNext]_consoleVars => HandlersOK'
    <2> SUFFICES ASSUME HandlersOK, [ConsoleNext]_consoleVars PROVE HandlersOK'
      OBVIOUS
    <2>1. CASE InboxTurn
      BY <2>1, InboxKeepsHandlers DEF InboxTurn
    <2>2. CASE ShellTurn
      BY <2>2 DEF ShellTurn, InboxFollows, HandlersOK, Handler
    <2>3. CASE UNCHANGED <<note, handling>>
      BY <2>3 DEF HandlersOK
    <2> QED
      BY <2>1, <2>2, <2>3
      DEF ConsoleNext, PortalTurn, RegisterTurn, VaultTurn, WatchTurn, inboxVars,
          consoleVars
  <1> QED
    BY <1>1, <1>2, PTL DEF ConsoleSpec

\* Nothing but a mark_as_read with a copy from before takes an acknowledgement back.
THEOREM AckAlwaysStands == ConsoleSpec => AckTakenBackByStaleCopy
  <1> DEFINE Kept == note.acked /\ ~note'.acked =>
                       \E h \in handling \ handling' : h.op = "read" /\ ~h.copy.acked
  <1>1. HandlersOK /\ [ConsoleNext]_consoleVars => [Kept]_consoleVars
    <2> SUFFICES ASSUME HandlersOK, ConsoleNext, note.acked, ~note'.acked
                 PROVE  \E h \in handling \ handling' : h.op = "read" /\ ~h.copy.acked
      OBVIOUS
    <2>1. InboxTurn
      BY DEF ConsoleNext, PortalTurn, RegisterTurn, VaultTurn, WatchTurn, ShellTurn,
             InboxFollows, inboxVars
    <2>2. PICK h \in handling : Saved(h)
      BY <2>1
      DEF InboxTurn, InboxStep, OpenInbox, CloseInbox, ChooseNote, InboxLoaded,
          PressAck, PressRead, MarkedElsewhere, Begin, SaveFails
    <2> QED
      BY <2>2 DEF Saved, Marked, HandlersOK, Handler, Note
  <1> QED
    BY <1>1, HandlersInvariance, PTL DEF ConsoleSpec, AckTakenBackByStaleCopy

-----------------------------------------------------------------------------
(* The siren.                                                                *)

\* The sound of a synthesizer, if there is one, is going to be ended.
Ends(s) ==
    /\ s \in SirenRecord
    /\ s.osc => s.ticking \/ s.lostTick \/ s.timers > 0

LEMMA StoppedEnds ==
    ASSUME NEW s, Ends(s), s.timers < MaxTimers PROVE Ends(Stopped(s))
  <1> DEFINE n == s.timers + 1
  <1>1. n \in 0..MaxTimers /\ n > 0
    BY MaxTimersAssumption DEF Ends, SirenRecord
  <1>2. Stopped(s) = [s EXCEPT !.ticking = FALSE, !.timers = n]
    BY DEF Stopped
  <1> HIDE DEF n
  <1>3. Stopped(s) \in SirenRecord /\ Stopped(s).timers = n
    BY <1>1, <1>2 DEF Ends, SirenRecord
  <1> QED
    BY <1>1, <1>3 DEF Ends

LEMMA StartedEnds == ASSUME NEW s, Ends(s) PROVE /\ Ends(Started(s)) /\ Started(s).ticking
                                                     /\ Started(s).timers = s.timers
  <1> DEFINE lo == s.lostOsc \/ s.osc
             lt == s.lostTick \/ s.ticking
  <1>1. lo \in BOOLEAN /\ lt \in BOOLEAN
    BY Zenon
  <1>2. Started(s) = [s EXCEPT !.ctx = "running", !.osc = TRUE, !.lostOsc = lo,
                               !.playing = TRUE, !.ticking = TRUE, !.lostTick = lt]
    BY DEF Started
  <1> HIDE DEF lo, lt
  <1>3. /\ Started(s) \in SirenRecord /\ Started(s).ticking
        /\ Started(s).timers = s.timers
    BY <1>1, <1>2 DEF Ends, SirenRecord
  <1> QED
    BY <1>3 DEF Ends

LEMMA PlayedEnds ==
    ASSUME NEW s, Ends(s), NEW r \in Played(s) PROVE Ends(r) /\ r.timers = s.timers
  <1> DEFINE n == IF s.waiting < 2 THEN s.waiting + 1 ELSE s.waiting
             wait == [s EXCEPT !.ctx = "suspended", !.waiting = n]
  <1>1. n \in 0..2
    BY DEF Ends, SirenRecord
  <1>2. r = s \/ r = wait \/ r = Started(s)
    BY DEF Played
  <1> HIDE DEF n
  <1>3. /\ wait \in SirenRecord /\ wait.osc = s.osc /\ wait.ticking = s.ticking
        /\ wait.lostTick = s.lostTick /\ wait.timers = s.timers
    BY <1>1 DEF Ends, SirenRecord
  <1> HIDE DEF wait
  <1>4. Ends(wait)
    BY <1>3 DEF Ends
  <1> QED
    BY <1>2, <1>3, <1>4, StartedEnds

LEMMA RedrawEnds ==
    ASSUME NEW s, Ends(s), s.timers < MaxTimers, Redraw(s) PROVE Ends(siren')
  BY StoppedEnds, PlayedEnds DEF Redraw

LEMMA SirenStepEnds == ASSUME Ends(siren), SirenStep PROVE Ends(siren')
  <1>1. CASE Resumed
    <2> DEFINE s == Started(siren)
               lo == s.lostOsc \/ siren.waiting > 1
               lt == s.lostTick \/ siren.waiting > 1
    <2>1. s \in SirenRecord /\ s.ticking
      BY StartedEnds DEF Ends
    <2>2. lo \in BOOLEAN /\ lt \in BOOLEAN
      BY Zenon
    <2>3. siren' = [s EXCEPT !.waiting = 0, !.lostOsc = lo, !.lostTick = lt]
      BY <1>1 DEF Resumed
    <2>4. 0 \in 0..2
      OBVIOUS
    <2> HIDE DEF s, lo, lt
    <2>5. siren' \in SirenRecord /\ siren'.ticking
      BY <2>1, <2>2, <2>3, <2>4 DEF SirenRecord
    <2> QED
      BY <2>5 DEF Ends
  <1>2. CASE ResumeRefused
    <2>1. 0 \in 0..2
      OBVIOUS
    <2>2. /\ siren' \in SirenRecord /\ siren'.osc = siren.osc
          /\ siren'.ticking = siren.ticking /\ siren'.lostTick = siren.lostTick
          /\ siren'.timers = siren.timers
      BY <1>2, <2>1 DEF ResumeRefused, Ends, SirenRecord
    <2> QED
      BY <2>2 DEF Ends
  <1>3. CASE StopTimer
    <2>1. siren.timers - 1 \in 0..MaxTimers
      BY <1>3, MaxTimersAssumption DEF StopTimer, Ends, SirenRecord
    <2>2. siren' \in SirenRecord /\ ~siren'.osc
      BY <1>3, <2>1 DEF StopTimer, Ends, SirenRecord
    <2> QED
      BY <2>2 DEF Ends
  <1>4. CASE Tick
    BY <1>4, StoppedEnds DEF Tick, CanStop
  <1> QED
    BY <1>1, <1>2, <1>3, <1>4 DEF SirenStep

LEMMA EndsInvariance == ConsoleSpec => []Ends(siren)
  <1>1. ConsoleInit => Ends(siren)
    BY MaxTimersAssumption DEF ConsoleInit, WatchInit, NewSiren, Ends, SirenRecord
  <1>2. Ends(siren) /\ [ConsoleNext]_consoleVars => Ends(siren')
    <2> SUFFICES ASSUME Ends(siren), [ConsoleNext]_consoleVars PROVE Ends(siren')
      OBVIOUS
    <2>1. CASE UNCHANGED siren
      BY <2>1
    <2>2. CASE CanStop /\ (Redraw(siren) \/ \E s \in Played(siren) : Redraw(s))
      BY <2>2, RedrawEnds, PlayedEnds DEF CanStop
    <2>3. CASE SirenStep
      BY <2>3, SirenStepEnds
    <2>4. CASE WatchTurn
      BY <2>1, <2>2, <2>3, <2>4
      DEF WatchTurn, WatchStep, Poll, Answered, Falsify, AttackAnswered, Dismiss, Freeze,
          ToggleMute, Attack, Verify, SirenTurn
    <2>5. CASE ShellTurn
      BY <2>2, <2>5 DEF ShellTurn, ShellAndWatch, WatchFollows, Inspect
    <2> QED
      BY <2>1, <2>4, <2>5
      DEF ConsoleNext, PortalTurn, RegisterTurn, VaultTurn, InboxTurn, watchVars,
          consoleVars
  <1>3. (Ends(siren))' <=> Ends(siren')
    BY DEF Ends
  <1> QED
    BY <1>1, <1>2, <1>3, PTL DEF ConsoleSpec

\* Through every alarm, muting, change of role and timer a sound has its end coming.
THEOREM EverySoundEnds == ConsoleSpec => []EverySoundHasAnEnd
  <1>1. Ends(siren) => EverySoundHasAnEnd
    BY DEF Ends, EverySoundHasAnEnd
  <1> QED
    BY <1>1, EndsInvariance, PTL

-----------------------------------------------------------------------------
(* The verdict on the ledger.                                                *)

SessionOK == session \in [role : Role \cup {Minister}, mine : Mine]

\* What VerdictReachesStore needs: the stores keep their shape.
VerdictInv ==
    /\ SessionOK
    /\ checked \in [Mine -> Answers \cup {None}]
    /\ asking \in [Mine -> Answers \cup {None}]
    /\ attacks \subseteq Mine
    /\ VerdictReachesStore

LEMMA ShellKeepsSession == ASSUME SessionOK, ShellAndWatch PROVE SessionOK'
  <1> USE ShellAssumption DEF SessionOK
  <1>1. ASSUME NEW m \in Mine, session' = [session EXCEPT !.mine = m] PROVE SessionOK'
    BY <1>1
  <1>2. ASSUME NEW r \in Role, Login(r) \/ SwitchRole(r) PROVE SessionOK'
    <2>1. MineOf(r) \in Mine /\ Home \in Mine
      BY DEF MineOf
    <2>2. \E m \in Mine : \/ session' = [role |-> r, mine |-> m]
                          \/ session' = [session EXCEPT !.role = r, !.mine = m]
      BY <1>2, <2>1 DEF Login, SwitchRole
    <2>3. PICK m \in Mine : \/ session' = [role |-> r, mine |-> m]
                            \/ session' = [session EXCEPT !.role = r, !.mine = m]
      BY <2>2
    <2>4. CASE session' = [role |-> r, mine |-> m]
      BY <2>4
    <2>5. CASE session' = [session EXCEPT !.role = r, !.mine = m]
      BY <2>5
    <2> QED
      BY <2>3, <2>4, <2>5
  <1>3. CASE Logout
    BY <1>3 DEF Logout
  <1>4. CASE UNCHANGED session
    BY <1>4
  <1> QED
    BY <1>1, <1>2, <1>3, <1>4
    DEF ShellAndWatch, ShellMoves, ShellAlone, Pick, SelectMine, ScopeTenant, OpenPage,
        Inspect

\* Telling the store the last answer about the mine that is open makes it right.
LEMMA TellKeeps ==
    ASSUME SessionOK', checked' \in [Mine -> Answers \cup {None}],
           Tell(session'.mine, checked'[session'.mine])
    PROVE  VerdictReachesStore'
  BY ShellAssumption
  DEF Tell, Alarm, AllClear, NoAlert, VerdictReachesStore, Tampered, None, SessionOK

LEMMA AnsweredKeeps ==
    ASSUME VerdictInv, NEW m \in Mine, Answered(m), UNCHANGED shell PROVE VerdictInv'
  <1>1. /\ checked' = [checked EXCEPT ![m] = asking[m]]
        /\ asking' = [asking EXCEPT ![m] = None]
        /\ UNCHANGED <<session, route, attacks>>
    BY DEF Answered, ledgerPage, shell
  <1>2. /\ checked' \in [Mine -> Answers \cup {None}]
        /\ asking' \in [Mine -> Answers \cup {None}]
        /\ SessionOK' /\ attacks' \subseteq Mine
    BY <1>1 DEF VerdictInv, SessionOK
  <1>3. CASE InConsole /\ m = session.mine /\ Tell(m, asking[m])
    <2>1. session'.mine = m /\ checked'[m] = asking[m]
      BY <1>1, <1>3 DEF VerdictInv
    <2> QED
      BY <1>2, <1>3, <2>1, TellKeeps DEF VerdictInv
  <1>4. CASE UNCHANGED <<alert, open>> /\ (~InConsole \/ m # session.mine
                                             \/ asking[m] = checked[m])
    <2>1. ~InConsole \/ checked'[session.mine] = checked[session.mine]
      BY <1>1, <1>4 DEF VerdictInv, SessionOK
    <2> QED
      BY <1>1, <1>2, <1>4, <2>1
      DEF VerdictInv, VerdictReachesStore, InConsole, Tampered
  <1> QED
    BY <1>3, <1>4 DEF Answered

LEMMA WatchKeepsVerdict ==
    ASSUME VerdictInv, WatchStep, UNCHANGED shell PROVE VerdictInv'
  <1>1. ASSUME UNCHANGED <<checked, alert, attacks>>,
               asking' \in [Mine -> Answers \cup {None}] \/ asking' = asking
        PROVE  VerdictInv'
    BY <1>1
    DEF VerdictInv, VerdictReachesStore, SessionOK, InConsole, Tampered, shell
  <1>2. ASSUME NEW m \in Mine, Poll(m) PROVE VerdictInv'
    <2>1. asking' \in [Mine -> Answers \cup {None}]
      BY <1>2 DEF Poll, VerdictInv, Answers
    <2> QED
      BY <1>1, <1>2, <2>1 DEF Poll, alarm, ledgerPage
  <1>3. ASSUME NEW m \in Mine, AttackAnswered(m) PROVE VerdictInv'
    <2>1. /\ attacks' \subseteq Mine /\ alert'.datalog
          /\ UNCHANGED <<session, route, checked, asking>>
      BY <1>3 DEF AttackAnswered, Alarm, VerdictInv, shell
    <2>2. alert'.mine # None
      BY <1>3, ShellAssumption DEF AttackAnswered, Alarm, None
    <2> QED
      BY <2>1, <2>2
      DEF VerdictInv, VerdictReachesStore, SessionOK, InConsole, Tampered
  <1>4. CASE Attack
    BY <1>4
    DEF Attack, VerdictInv, VerdictReachesStore, SessionOK, InConsole, Tampered, polling,
        alarm, shell
  <1>5. ASSUME NEW m \in Mine, Falsify(m) PROVE VerdictInv'
    BY <1>1, <1>5 DEF Falsify, alarm, ledgerPage
  <1>6. CASE Dismiss \/ Freeze \/ ToggleMute
    BY <1>1, <1>6 DEF Dismiss, Freeze, ToggleMute, polling, ledgerPage
  <1>7. CASE SirenTurn \/ \E reached \in BOOLEAN : Verify(reached)
    BY <1>1, <1>7 DEF SirenTurn, Verify, polling, alarm, ledgerPage
  <1> QED
    BY <1>2, <1>3, <1>4, <1>5, <1>6, <1>7, AnsweredKeeps DEF WatchStep

LEMMA ShellKeepsVerdict == ASSUME VerdictInv, ShellAndWatch PROVE VerdictInv'
  <1>1. SessionOK'
    BY ShellKeepsSession DEF VerdictInv
  <1>2. CASE Inspect
    <2>1. UNCHANGED <<session, checked, asking, attacks, alert>> /\ InConsole
      BY <1>2 DEF Inspect, polling, ledgerPage, AlarmShown, Mounted
    <2> QED
      BY <1>1, <2>1 DEF VerdictInv, VerdictReachesStore, InConsole, Tampered
  <1>3. CASE WatchFollows
    <2>1. UNCHANGED <<checked, asking, attacks>>
      BY <1>3 DEF WatchFollows, polling
    <2>2. CASE checked[session'.mine] = None
      BY <1>1, <2>1, <2>2 DEF VerdictInv, VerdictReachesStore
    <2>3. CASE Tell(session'.mine, checked[session'.mine])
      BY <1>1, <2>1, <2>3, TellKeeps DEF VerdictInv
    <2>4. CASE InConsole' /\ (session'.mine # session.mine \/ ~InConsole)
      BY <1>3, <2>2, <2>3, <2>4 DEF WatchFollows, TellCached
    <2>5. CASE ~InConsole' \/ (session'.mine = session.mine /\ InConsole)
      <3>1. alert' = alert
        BY <1>3, <2>5 DEF WatchFollows
      <3> QED
        BY <1>1, <2>1, <2>5, <3>1 DEF VerdictInv, VerdictReachesStore, Tampered
    <2> QED
      BY <2>4, <2>5
  <1> QED
    BY <1>2, <1>3 DEF ShellAndWatch

LEMMA VerdictInvariance == ConsoleSpec => []VerdictInv
  <1>1. ConsoleInit => VerdictInv
    BY ShellAssumption
    DEF ConsoleInit, ShellInit, WatchInit, VerdictInv, SessionOK, VerdictReachesStore,
        Answers, None, Minister
  <1>2. VerdictInv /\ [ConsoleNext]_consoleVars => VerdictInv'
    <2> SUFFICES ASSUME VerdictInv, [ConsoleNext]_consoleVars PROVE VerdictInv'
      OBVIOUS
    <2>1. CASE WatchTurn
      BY <2>1, WatchKeepsVerdict DEF WatchTurn
    <2>2. CASE ShellTurn
      BY <2>2, ShellKeepsVerdict DEF ShellTurn
    <2>3. CASE UNCHANGED <<session, route, checked, asking, attacks, alert>>
      BY <2>3 DEF VerdictInv, VerdictReachesStore, SessionOK, InConsole, Tampered
    <2> QED
      BY <2>1, <2>2, <2>3
      DEF ConsoleNext, PortalTurn, RegisterTurn, VaultTurn, InboxTurn, shell, watchVars,
          polling, alarm, ledgerPage, consoleVars
  <1> QED
    BY <1>1, <1>2, PTL DEF ConsoleSpec

\* Through every change of mine, role and session, late answers and simulated attacks
\* the store holds the last verdict on the mine that is open.
THEOREM VerdictAlwaysReachesStore == ConsoleSpec => []VerdictReachesStore
  <1>1. VerdictInv => VerdictReachesStore
    BY DEF VerdictInv
  <1> QED
    BY <1>1, VerdictInvariance, PTL

-----------------------------------------------------------------------------
(* The registers.                                                            *)

\* The state of a page, field by field, after one or two of them change.
Page(sh, to, lo, ls, ca, cr) ==
    [shown |-> sh, torn |-> to, loading |-> lo, loads |-> ls, calls |-> ca, crossed |-> cr]

IsPage(r) == r = Page(r.shown, r.torn, r.loading, r.loads, r.calls, r.crossed)

LEMMA PageFields ==
    ASSUME NEW sh, NEW to, NEW lo, NEW ls, NEW ca, NEW cr
    PROVE  LET r == Page(sh, to, lo, ls, ca, cr)
           IN  /\ r.shown = sh /\ r.torn = to /\ r.loading = lo /\ r.loads = ls
               /\ r.calls = ca /\ r.crossed = cr /\ IsPage(r)
  BY DEF Page, IsPage

LEMMA PageUpdates ==
    ASSUME NEW r, IsPage(r), NEW x
    PROVE  /\ [r EXCEPT !.loads = x]
                  = Page(r.shown, r.torn, r.loading, x, r.calls, r.crossed)
           /\ [r EXCEPT !.calls = x]
                  = Page(r.shown, r.torn, r.loading, r.loads, x, r.crossed)
           /\ [r EXCEPT !.crossed = x]
                  = Page(r.shown, r.torn, r.loading, r.loads, r.calls, x)
  <1>1. [r EXCEPT !.loads = x] = Page(r.shown, r.torn, r.loading, x, r.calls, r.crossed)
    BY DEF Page, IsPage
  <1>2. [r EXCEPT !.calls = x] = Page(r.shown, r.torn, r.loading, r.loads, x, r.crossed)
    BY DEF Page, IsPage
  <1>3. [r EXCEPT !.crossed = x] = Page(r.shown, r.torn, r.loading, r.loads, r.calls, x)
    BY DEF Page, IsPage
  <1> QED
    BY <1>1, <1>2, <1>3

LEMMA PageLoads ==
    ASSUME NEW r, IsPage(r), NEW x, NEW y
    PROVE  [r EXCEPT !.loads = x, !.loading = y]
                = Page(r.shown, r.torn, y, x, r.calls, r.crossed)
  <1> DEFINE q == [r EXCEPT !.loads = x]
  <1>1. q = Page(r.shown, r.torn, r.loading, x, r.calls, r.crossed)
    BY DEF Page, IsPage
  <1>2. [r EXCEPT !.loads = x, !.loading = y] = [q EXCEPT !.loading = y]
    OBVIOUS
  <1> HIDE DEF q
  <1>3. [q EXCEPT !.loading = y] = Page(r.shown, r.torn, y, x, r.calls, r.crossed)
    BY <1>1 DEF Page
  <1> QED
    BY <1>2, <1>3

LEMMA PageShows ==
    ASSUME NEW r, IsPage(r), NEW x, NEW y, NEW z
    PROVE  [r EXCEPT !.shown = x, !.torn = y, !.loading = z]
                = Page(x, y, z, r.loads, r.calls, r.crossed)
  <1> DEFINE q == [r EXCEPT !.shown = x]
             s == [q EXCEPT !.torn = y]
  <1>1. q = Page(x, r.torn, r.loading, r.loads, r.calls, r.crossed)
    BY DEF Page, IsPage
  <1>2. [r EXCEPT !.shown = x, !.torn = y, !.loading = z] = [s EXCEPT !.loading = z]
    OBVIOUS
  <1> HIDE DEF q
  <1>3. s = Page(x, y, r.loading, r.loads, r.calls, r.crossed)
    BY <1>1 DEF Page
  <1> HIDE DEF s
  <1>4. [s EXCEPT !.loading = z] = Page(x, y, z, r.loads, r.calls, r.crossed)
    BY <1>3 DEF Page
  <1> QED
    BY <1>2, <1>4

\* The parts a page loads.
PartsOf(p) == IF p \in {"attendance", "compliance"} THEN Parts ELSE {"list"}

\* A load of a page brings rows of its mine, or samples.
LoadOK(l, p) ==
    /\ l = [mine |-> l.mine, parts |-> l.parts, got |-> l.got, torn |-> l.torn]
    /\ l.mine \in Mine
    /\ l.parts \subseteq PartsOf(p)
    /\ l.got = [q \in Parts |-> l.got[q]]
    /\ \A q \in l.parts : l.got[q] = Pending \/ l.got[q].mine \in {l.mine, "sample"}

\* What RowsMatchMineSerially needs of the page p while a mine is active: unless that
\* mine was chosen while requests were under way, all that is under way is for it,
\* and a part with rows of another mine is about to be replaced.
RegFields(shown, loads, calls, crossed, p, mine) ==
    /\ shown = [q \in Parts |-> shown[q]]
    /\ \A l \in loads : LoadOK(l, p)
    /\ \A c \in calls : c.mine \in Mine
    /\ \A q \in Parts : shown[q].mine # "none" => q \in PartsOf(p) /\ p # "capa"
    /\ ~crossed =>
          /\ \A l \in loads : l.mine = mine
          /\ \A c \in calls : c.mine = mine
          /\ \A q \in Parts :
                \/ shown[q].mine \in {mine, "sample", "none"}
                \/ \E l \in loads : q \in l.parts

RegOK(r, p, mine) ==
    IsPage(r) /\ RegFields(r.shown, r.loads, r.calls, r.crossed, p, mine)

LEMMA PageOK ==
    ASSUME NEW r, NEW sh, NEW to, NEW lo, NEW ls, NEW ca, NEW cr, NEW p, NEW mine,
           r = Page(sh, to, lo, ls, ca, cr), RegFields(sh, ls, ca, cr, p, mine)
    PROVE  RegOK(r, p, mine)
  BY PageFields DEF RegOK

LEMMA LoadsOfOK ==
    ASSUME NEW p, NEW m \in Mine
    PROVE  /\ \A l \in LoadsOf(p, m) : LoadOK(l, p) /\ l.mine = m
           /\ \A q \in PartsOf(p) : \E l \in LoadsOf(p, m) : q \in l.parts
  <1>1. ASSUME NEW parts
        PROVE  /\ Load(m, parts).mine = m /\ Load(m, parts).parts = parts
               /\ parts \subseteq PartsOf(p) => LoadOK(Load(m, parts), p)
    <2> DEFINE none == [q \in Parts |-> Pending]
    <2>1. none = [q \in Parts |-> none[q]] /\ \A q \in Parts : none[q] = Pending
      OBVIOUS
    <2>2. Load(m, parts) = [mine |-> m, parts |-> parts, got |-> none, torn |-> FALSE]
      BY DEF Load
    <2> HIDE DEF none
    <2>3. parts \subseteq PartsOf(p) => parts \subseteq Parts
      BY DEF PartsOf, Parts
    <2> QED
      BY <2>1, <2>2, <2>3 DEF LoadOK
  <1>2. CASE p = "attendance"
    BY <1>1, <1>2 DEF LoadsOf, PartsOf
  <1>3. CASE p = "compliance"
    <2>1. LoadsOf(p, m) = {Load(m, {q}) : q \in Parts} /\ PartsOf(p) = Parts
      BY <1>3 DEF LoadsOf, PartsOf
    <2>2. ASSUME NEW l \in LoadsOf(p, m) PROVE LoadOK(l, p) /\ l.mine = m
      <3>1. PICK q \in Parts : l = Load(m, {q})
        BY <2>1
      <3> QED
        BY <1>1, <2>1, <3>1
    <2>3. ASSUME NEW q \in Parts PROVE \E l \in LoadsOf(p, m) : q \in l.parts
      <3>1. Load(m, {q}) \in LoadsOf(p, m)
        BY <2>1
      <3>2. Load(m, {q}).parts = {q}
        BY <1>1
      <3> QED
        BY <3>1, <3>2
    <2> QED
      BY <2>1, <2>2, <2>3
  <1>4. CASE p \notin {"attendance", "compliance"}
    BY <1>1, <1>4 DEF LoadsOf, PartsOf
  <1> QED
    BY <1>2, <1>3, <1>4

LEMMA NewRegOK ==
    ASSUME NEW p, NEW mine PROVE RegOK(NewReg, p, mine)
  <1> DEFINE none == [q \in Parts |-> Nothing]
  <1>1. none = [q \in Parts |-> none[q]] /\ \A q \in Parts : none[q].mine = "none"
    BY DEF Nothing
  <1>2. NewReg = Page(none, FALSE, FALSE, {}, {}, FALSE)
    BY DEF NewReg, Page
  <1> HIDE DEF none
  <1>3. RegFields(none, {}, {}, FALSE, p, mine)
    BY <1>1 DEF RegFields
  <1> QED
    BY <1>2, <1>3, PageOK

LEMMA LoadingOK ==
    ASSUME NEW r, NEW p, NEW mine, NEW m \in Mine, RegOK(r, p, mine),
           ~r.crossed => m = mine
    PROVE  RegOK(Loading(r, p, m), p, mine)
  <1>1. Loading(r, p, m) = Page(r.shown, r.torn, Flagged(p), r.loads \cup LoadsOf(p, m),
                                r.calls, r.crossed)
    <2> DEFINE x == r.loads \cup LoadsOf(p, m)
               y == Flagged(p)
    <2>1. Loading(r, p, m) = [r EXCEPT !.loads = x, !.loading = y]
      BY DEF Loading
    <2> HIDE DEF x, y
    <2>2. [r EXCEPT !.loads = x, !.loading = y]
              = Page(r.shown, r.torn, y, x, r.calls, r.crossed)
      <3>1. IsPage(r)
        BY DEF RegOK
      <3> QED
        BY <3>1, PageLoads
    <2> QED
      BY <2>1, <2>2 DEF x, y
  <1>2. \A l \in LoadsOf(p, m) : LoadOK(l, p) /\ l.mine = m
    BY LoadsOfOK
  <1>3. RegFields(r.shown, r.loads \cup LoadsOf(p, m), r.calls, r.crossed, p, mine)
    BY <1>2 DEF RegOK, RegFields
  <1> QED
    BY <1>1, <1>3, PageOK

\* A load, torn or not, is the same to the rest of this.
LEMMA TearOK ==
    ASSUME NEW r, NEW p, NEW mine, NEW m, RegOK(r, p, mine)
    PROVE  RegOK(Tear(r, m), p, mine) /\ Tear(r, m).crossed = r.crossed
                                      /\ Tear(r, m).calls = r.calls
  <1> DEFINE Mixed(l) == /\ l.mine = m
                         /\ \E u, v \in l.parts : l.got[u] = Pending /\ l.got[v] # Pending
             T(l) == IF Mixed(l) THEN [l EXCEPT !.torn = TRUE] ELSE l
             Ls == {T(l) : l \in r.loads}
  <1>1. Tear(r, m) = [r EXCEPT !.loads = Ls]
    BY DEF Tear
  <1>2. \A l \in r.loads : /\ T(l).mine = l.mine /\ T(l).parts = l.parts
                           /\ LoadOK(T(l), p)
    <2> SUFFICES ASSUME NEW l \in r.loads
                 PROVE  T(l).mine = l.mine /\ T(l).parts = l.parts /\ LoadOK(T(l), p)
      OBVIOUS
    <2>1. LoadOK(l, p)
      BY DEF RegOK, RegFields
    <2> HIDE DEF Mixed
    <2>2. CASE ~Mixed(l)
      BY <2>1, <2>2
    <2>3. CASE Mixed(l)
      <3>1. T(l) = [mine |-> l.mine, parts |-> l.parts, got |-> l.got, torn |-> TRUE]
        BY <2>1, <2>3 DEF LoadOK
      <3> QED
        BY <2>1, <3>1 DEF LoadOK
    <2> QED
      BY <2>2, <2>3
  <1> HIDE DEF T
  <1>3. \A q : (\E l \in r.loads : q \in l.parts) => \E l \in Ls : q \in l.parts
    BY <1>2
  <1>4. \A l \in Ls : LoadOK(l, p) /\ (~r.crossed => l.mine = mine)
    BY <1>2 DEF RegOK, RegFields
  <1> HIDE DEF Ls
  <1>5. Tear(r, m) = Page(r.shown, r.torn, r.loading, Ls, r.calls, r.crossed)
    BY <1>1, PageUpdates DEF RegOK
  <1>6. RegFields(r.shown, Ls, r.calls, r.crossed, p, mine)
    BY <1>3, <1>4 DEF RegOK, RegFields
  <1> QED
    BY <1>5, <1>6, PageOK, PageFields

RegInv == SessionOK /\ RegOK(reg, route, session.mine)

LEMMA ServedKeeps ==
    ASSUME RegInv, NEW l \in reg.loads, NEW q \in Parts, NEW reached, Served(l, q, reached)
    PROVE  RegOK(reg', route, session.mine)
  <1> DEFINE v == IF reached THEN RowsOf(q, l.mine) ELSE Sample
             now == [l EXCEPT !.got[q] = v]
             got == [l.got EXCEPT ![q] = v]
             less == reg.loads \ {l}
             rest == [reg EXCEPT !.loads = less]
  <1>1. IsPage(reg) /\ RegFields(reg.shown, reg.loads, reg.calls, reg.crossed, route,
                                 session.mine)
    BY DEF RegInv, RegOK
  <1>2. LoadOK(l, route)
    BY <1>1 DEF RegFields
  <1>3. v.mine \in {l.mine, "sample"}
    BY DEF RowsOf, Listed, Headcount, Sample
  <1>4. /\ q \in l.parts
        /\ reg' = IF Complete(now) THEN Delivered(rest, now)
                  ELSE [rest EXCEPT !.loads = @ \cup {now}]
    BY DEF Served
  <1>5. now = [mine |-> l.mine, parts |-> l.parts, got |-> got, torn |-> l.torn]
    BY <1>2 DEF LoadOK
  <1> HIDE DEF v
  <1>6. /\ got = [u \in Parts |-> got[u]] /\ got[q] = v
        /\ \A u \in Parts \ {q} : got[u] = l.got[u]
    BY <1>2 DEF LoadOK
  <1>7. /\ l.parts \subseteq Parts
        /\ \A u \in l.parts : got[u] = Pending \/ got[u].mine \in {l.mine, "sample"}
    BY <1>2, <1>3, <1>6 DEF LoadOK, PartsOf, Parts
  <1> HIDE DEF got
  <1>8. now.mine = l.mine /\ now.parts = l.parts /\ now.got = got /\ now.torn = l.torn
    BY <1>5
  <1>9. LoadOK(now, route)
    BY <1>2, <1>5, <1>6, <1>7 DEF LoadOK
  <1> HIDE DEF now
  <1>10. rest = Page(reg.shown, reg.torn, reg.loading, less, reg.calls, reg.crossed)
    <2> HIDE DEF less
    <2> QED
      BY <1>1, PageUpdates
  <1> HIDE DEF rest
  <1>11. /\ IsPage(rest) /\ rest.shown = reg.shown /\ rest.loads = less
         /\ rest.calls = reg.calls /\ rest.crossed = reg.crossed
    BY <1>10, PageFields
  <1>12. CASE Complete(now)
    <2> DEFINE shown == IF route = "capa" THEN rest.shown
                        ELSE [u \in Parts |-> IF u \in now.parts THEN now.got[u]
                                              ELSE rest.shown[u]]
    <2>1. reg' = [rest EXCEPT !.shown = shown, !.torn = now.torn, !.loading = FALSE]
      BY <1>4, <1>12 DEF Delivered
    <2>2. shown = [u \in Parts |-> shown[u]]
      BY <1>1, <1>11 DEF RegFields
    <2>3. \A u \in Parts : IF route # "capa" /\ u \in l.parts THEN shown[u] = got[u]
                           ELSE shown[u] = reg.shown[u]
      BY <1>8, <1>11
    <2> DEFINE torn == now.torn
    <2> HIDE DEF shown, torn
    <2>4. reg' = Page(shown, torn, FALSE, less, reg.calls, reg.crossed)
      <3>1. [rest EXCEPT !.shown = shown, !.torn = torn, !.loading = FALSE]
                = Page(shown, torn, FALSE, rest.loads, rest.calls, rest.crossed)
        <4> HIDE DEF less
        <4>1. IsPage(rest)
          BY <1>11
        <4> QED
          BY <4>1, PageShows
      <3> QED
        BY <2>1, <3>1, <1>11 DEF torn
    <2>5. \A u \in l.parts : got[u].mine \in {l.mine, "sample"}
      BY <1>7, <1>8, <1>12 DEF Complete
    <2>6. l.parts \subseteq PartsOf(route)
      BY <1>2 DEF LoadOK
    <2>7. \A u \in Parts : reg.shown[u].mine # "none" => u \in PartsOf(route) /\ route # "capa"
      BY <1>1 DEF RegFields
    <2>8. \A u \in Parts : shown[u].mine # "none" => u \in PartsOf(route) /\ route # "capa"
      BY <2>3, <2>6, <2>7
    <2>9. ASSUME ~reg.crossed, NEW u \in Parts
          PROVE  \/ shown[u].mine \in {session.mine, "sample", "none"}
                 \/ \E o \in less : u \in o.parts
      <3>1. l.mine = session.mine
        BY <1>1, <2>9 DEF RegFields
      <3>2. CASE route # "capa" /\ u \in l.parts
        BY <2>3, <2>5, <3>1, <3>2
      <3>3. CASE route = "capa"
        BY <2>3, <2>7, <3>3
      <3>4. CASE route # "capa" /\ u \notin l.parts
        <4>1. shown[u] = reg.shown[u]
          BY <2>3, <3>4
        <4>2. \/ reg.shown[u].mine \in {session.mine, "sample", "none"}
              \/ \E o \in reg.loads : u \in o.parts
          BY <1>1, <2>9 DEF RegFields
        <4> QED
          BY <4>1, <4>2, <3>4
      <3> QED
        BY <3>2, <3>3, <3>4
    <2>10. RegFields(shown, less, reg.calls, reg.crossed, route, session.mine)
      BY <1>1, <2>2, <2>8, <2>9 DEF RegFields
    <2> QED
      BY <2>4, <2>10, PageOK
  <1>13. CASE ~Complete(now)
    <2> DEFINE more == less \cup {now}
    <2>1. reg' = [rest EXCEPT !.loads = more]
      BY <1>4, <1>11, <1>13
    <2>2. /\ \A o \in more : LoadOK(o, route) /\ (~reg.crossed => o.mine = session.mine)
          /\ \A u : (\E o \in reg.loads : u \in o.parts) => \E o \in more : u \in o.parts
      BY <1>1, <1>8, <1>9 DEF RegFields
    <2> HIDE DEF more
    <2>3. reg' = Page(reg.shown, rest.torn, rest.loading, more, reg.calls, reg.crossed)
      <3> HIDE DEF less
      <3>1. IsPage(rest)
        BY <1>11
      <3>2. [rest EXCEPT !.loads = more]
                = Page(rest.shown, rest.torn, rest.loading, more, rest.calls, rest.crossed)
        BY <3>1, PageUpdates
      <3>3. rest.shown = reg.shown /\ rest.calls = reg.calls /\ rest.crossed = reg.crossed
        BY <1>11
      <3> QED
        BY <2>1, <3>2, <3>3
    <2>4. RegFields(reg.shown, more, reg.calls, reg.crossed, route, session.mine)
      BY <1>1, <2>2 DEF RegFields
    <2> QED
      BY <2>3, <2>4, PageOK
  <1> QED
    BY <1>12, <1>13

\* A request that is sent or answered.
LEMMA CallsOK ==
    ASSUME NEW r, NEW p, NEW mine, RegOK(r, p, mine), NEW calls,
           \A c \in calls : c \in r.calls \/ (c.mine = mine /\ mine \in Mine)
    PROVE  RegOK([r EXCEPT !.calls = calls], p, mine)
  <1>1. [r EXCEPT !.calls = calls]
            = Page(r.shown, r.torn, r.loading, r.loads, calls, r.crossed)
    BY PageUpdates DEF RegOK
  <1>2. RegFields(r.shown, r.loads, calls, r.crossed, p, mine)
    BY DEF RegOK, RegFields
  <1> QED
    BY <1>1, <1>2, PageOK

LEMMA AskKeeps ==
    ASSUME RegInv, NEW op, Ask(op) PROVE RegOK(reg', route, session.mine)
  <1> DEFINE c == [op |-> op, mine |-> session.mine,
                   row |-> IF op = "out" THEN reg.shown["list"].mine ELSE "none"]
             calls == reg.calls \cup {c}
  <1>1. reg' = [reg EXCEPT !.calls = calls]
    BY DEF Ask
  <1>2. c.mine = session.mine /\ session.mine \in Mine
    BY DEF RegInv, SessionOK
  <1> HIDE DEF c
  <1>3. \A d \in calls : d \in reg.calls \/ (d.mine = session.mine /\ session.mine \in Mine)
    BY <1>2
  <1> HIDE DEF calls
  <1> QED
    BY <1>1, <1>3, CallsOK DEF RegInv

LEMMA AnswerKeeps ==
    ASSUME RegInv, NEW c \in reg.calls, AskDone(c) \/ AskFailed(c)
    PROVE  RegOK(reg', route, session.mine)
  <1>1. c.mine \in Mine /\ (~reg.crossed => c.mine = session.mine)
    BY DEF RegInv, RegOK, RegFields
  <1>2. PICK r : /\ RegOK(r, route, session.mine) /\ r.crossed = reg.crossed
                 /\ r.calls = reg.calls
                 /\ LET answered == [r EXCEPT !.calls = r.calls \ {c}]
                    IN  reg' = answered \/ reg' = Loading(answered, route, c.mine)
    <2>1. CASE AskFailed(c)
      BY <2>1 DEF AskFailed, RegInv
    <2>2. CASE AskDone(c)
      <3> DEFINE r == CASE c.op = "in" -> Tear(reg, c.mine)
                        [] c.op = "out" -> Tear(reg, c.row)
                        [] OTHER -> reg
      <3>1. /\ RegOK(r, route, session.mine) /\ r.crossed = reg.crossed
            /\ r.calls = reg.calls
        BY TearOK DEF RegInv
      <3>2. LET answered == [r EXCEPT !.calls = r.calls \ {c}]
            IN  reg' = answered \/ reg' = Loading(answered, route, c.mine)
        BY <2>2 DEF AskDone
      <3> QED
        BY <3>1, <3>2
    <2> QED
      BY <2>1, <2>2
  <1> DEFINE less == r.calls \ {c}
             answered == [r EXCEPT !.calls = less]
  <1>3. reg' = answered \/ reg' = Loading(answered, route, c.mine)
    BY <1>2
  <1>4. \A d \in less : d \in r.calls
    OBVIOUS
  <1> HIDE DEF less
  <1>5. RegOK(answered, route, session.mine)
    BY <1>2, <1>4, CallsOK
  <1>6. answered = Page(r.shown, r.torn, r.loading, r.loads, less, r.crossed)
    BY <1>2, PageUpdates DEF RegOK
  <1> HIDE DEF answered
  <1>7. answered.crossed = reg.crossed
    BY <1>2, <1>6, PageFields
  <1>8. RegOK(Loading(answered, route, c.mine), route, session.mine)
    BY <1>1, <1>5, <1>7, LoadingOK
  <1> QED
    BY <1>3, <1>5, <1>8

\* A step of the shell leaves the page as new, or keeps what it shows under way to
\* be replaced.
LEMMA FollowKeeps ==
    ASSUME RegInv, SessionOK', RegisterFollows PROVE RegOK(reg', route', session'.mine)
  <1>1. session'.mine \in Mine
    BY DEF SessionOK
  <1>2. CASE route' \notin RegisterPages
    <2>1. reg' = NewReg
      BY <1>2 DEF RegisterFollows
    <2> QED
      BY <2>1, NewRegOK
  <1>3. CASE route' \in RegisterPages /\ route' # route
    <2>1. reg' = Loading(NewReg, route', session'.mine)
      BY <1>3 DEF RegisterFollows
    <2>2. RegOK(NewReg, route', session'.mine)
      BY NewRegOK
    <2> QED
      BY <1>1, <2>1, <2>2, LoadingOK
  <1>4. CASE route' \in RegisterPages /\ route' = route /\ session'.mine = session.mine
    BY <1>4 DEF RegisterFollows, RegInv
  <1>5. CASE route' \in RegisterPages /\ route' = route /\ session'.mine # session.mine
    <2> DEFINE crossed == reg.loads # {} \/ reg.calls # {}
               r == [reg EXCEPT !.crossed = crossed]
               x == reg.loads \cup LoadsOf(route, session'.mine)
               y == Flagged(route)
    <2>1. reg' = Loading(r, route, session'.mine)
      BY <1>5 DEF RegisterFollows
    <2>2. IsPage(reg) /\ RegFields(reg.shown, reg.loads, reg.calls, reg.crossed, route,
                                   session.mine)
      BY DEF RegInv, RegOK
    <2>3. r = Page(reg.shown, reg.torn, reg.loading, reg.loads, reg.calls, crossed)
      <3> HIDE DEF crossed
      <3> QED
        BY <2>2, PageUpdates
    <2> HIDE DEF r
    <2>4. /\ IsPage(r) /\ r.shown = reg.shown /\ r.torn = reg.torn /\ r.loads = reg.loads
          /\ r.calls = reg.calls /\ r.crossed = crossed
      BY <2>3, PageFields
    <2>5. reg' = [r EXCEPT !.loads = x, !.loading = y]
      BY <2>1, <2>4 DEF Loading
    <2>6. /\ \A l \in LoadsOf(route, session'.mine) : LoadOK(l, route) /\ l.mine = session'.mine
          /\ \A q \in PartsOf(route) : \E l \in LoadsOf(route, session'.mine) : q \in l.parts
      BY <1>1, LoadsOfOK
    <2>7. RegFields(reg.shown, x, reg.calls, crossed, route, session'.mine)
      BY <2>2, <2>6 DEF RegFields
    <2> HIDE DEF x, y, crossed
    <2>8. reg' = Page(reg.shown, reg.torn, y, x, reg.calls, crossed)
      <3>1. IsPage(r)
        BY <2>4
      <3>2. [r EXCEPT !.loads = x, !.loading = y]
                = Page(r.shown, r.torn, y, x, r.calls, r.crossed)
        BY <3>1, PageLoads
      <3> QED
        BY <2>4, <2>5, <3>2
    <2> QED
      BY <1>5, <2>7, <2>8, PageOK
  <1> QED
    BY <1>2, <1>3, <1>4, <1>5

LEMMA InitRegInv == ConsoleInit => RegInv
  BY ShellAssumption, NewRegOK
  DEF ConsoleInit, ShellInit, RegisterInit, RegInv, SessionOK, Minister

LEMMA RegInvStep ==
    ASSUME RegInv, [ConsoleNext]_consoleVars PROVE RegInv'
  <1>1. CASE RegisterTurn
    <2>1. UNCHANGED <<session, route>> /\ RegisterStep
      BY <1>1 DEF RegisterTurn, shell
    <2>2. CASE \E l \in reg.loads, q \in Parts, reached \in BOOLEAN : Served(l, q, reached)
      BY <2>1, <2>2, ServedKeeps DEF RegInv, SessionOK
    <2>3. CASE \E op \in Ops : Ask(op)
      BY <2>1, <2>3, AskKeeps DEF RegInv, SessionOK
    <2>4. CASE \E c \in reg.calls : AskDone(c) \/ AskFailed(c)
      BY <2>1, <2>4, AnswerKeeps DEF RegInv, SessionOK
    <2>5. CASE \E m \in Mine : ChangedElsewhere(m)
      BY <2>1, <2>5, TearOK DEF RegInv, SessionOK, ChangedElsewhere
    <2> QED
      BY <2>1, <2>2, <2>3, <2>4, <2>5 DEF RegisterStep
  <1>2. CASE ShellTurn
    <2>1. SessionOK'
      BY <1>2, ShellKeepsSession DEF RegInv, ShellTurn
    <2> QED
      BY <1>2, <2>1, FollowKeeps DEF ShellTurn, RegInv
  <1>3. CASE UNCHANGED <<session, route, reg>>
    BY <1>3 DEF RegInv, SessionOK
  <1> QED
    BY <1>1, <1>2, <1>3
    DEF ConsoleNext, PortalTurn, VaultTurn, InboxTurn, WatchTurn, shell, registerVars,
        consoleVars

LEMMA RegInvariance == ConsoleSpec => []RegInv
  BY InitRegInv, RegInvStep, PTL DEF ConsoleSpec

\* Whatever mine, role and page are chosen while loads and writes are under way, a
\* register that waits for nothing shows its mine, unless the mine was chosen then.
THEOREM RowsAlwaysMatchSerially == ConsoleSpec => []RowsMatchMineSerially
  <1>1. RegInv => RowsMatchMineSerially
    BY DEF RegInv, RegOK, RegFields, RowsMatchMineSerially
  <1> QED
    BY <1>1, RegInvariance, PTL

-----------------------------------------------------------------------------
(* The headcount of the attendance page.  What is said of a load is said of a    *)
(* register mu, the one before a step or the one after it.                       *)

IsMuster(mu) == DOMAIN mu = Mine /\ \A m \in Mine : mu[m] \in Seq(BOOLEAN)

\* Records are added to the register of m and changed in it, never removed.
Grows(mu, nu, m) ==
    \A n \in Mine : Len(mu[n]) <= Len(nu[n]) /\ (n # m => nu[n] = mu[n])

Count(mu, m) == [mine |-> m, active |-> Actives(mu[m])]

\* A load that is not torn has brought samples or counts of the register as it is.
LoadAgrees(l, mu) ==
    /\ l.parts = Parts
    /\ \E u \in Parts : l.got[u] = Pending
    /\ ~l.torn /\ Len(mu[l.mine]) <= ListLimit =>
          \A u \in Parts : l.got[u] \in {Pending, Sample, Count(mu, l.mine)}

ShownAgrees(shown, torn, mu) ==
    LET list == shown["list"]
        head == shown["head"]
    IN  ~torn /\ list.mine = head.mine /\ list.mine \in Mine
            /\ Len(mu[list.mine]) <= ListLimit => list.active = head.active

CountFields(shown, torn, loads, mu) ==
    /\ \A l \in loads : LoadAgrees(l, mu)
    /\ ShownAgrees(shown, torn, mu)

CountOK(r, mu) == CountFields(r.shown, r.torn, r.loads, mu)

CountInv == IsMuster(muster) /\ (route = "attendance" => CountOK(reg, muster))

LEMMA CountOfPage ==
    ASSUME NEW r, NEW sh, NEW to, NEW lo, NEW ls, NEW ca, NEW cr, NEW mu,
           r = Page(sh, to, lo, ls, ca, cr), CountFields(sh, to, ls, mu)
    PROVE  CountOK(r, mu)
  BY PageFields DEF CountOK

\* A list with all the records there are has as many active rows as the headcount.
LEMMA RowsOfCount ==
    ASSUME NEW q, NEW m \in Mine, IsMuster(muster), route = "attendance",
           Len(muster[m]) <= ListLimit
    PROVE  RowsOf(q, m) = Count(muster, m)
  <1> DEFINE s == muster[m]
  <1>1. s \in Seq(BOOLEAN)
    BY DEF IsMuster
  <1>2. ListLimit \in Nat /\ Len(s) \in Nat
    BY <1>1, RegistersAssumption
  <1>3. SubSeq(s, 1, Len(s)) = s
    <2> HIDE DEF s
    <2> QED
      BY <1>1
  <1>4. Listed(m) = [mine |-> m, active |-> Actives(SubSeq(s, 1, Len(s)))]
    BY <1>2 DEF Listed
  <1> QED
    BY <1>3, <1>4 DEF RowsOf, Headcount, Count

\* A check-in or check-out leaves the other mines' registers alone.
LEMMA MusterGrows ==
    ASSUME IsMuster(muster), NEW m, CheckedIn(m) \/ (m \in Mine /\ CheckedOut(m))
    PROVE  IsMuster(muster') /\ Grows(muster, muster', m)
  <1>1. \A n \in Mine : muster[n] \in Seq(BOOLEAN) /\ Len(muster[n]) \in Nat
    BY DEF IsMuster
  <1>2. ASSUME NEW s, m \in Mine, muster' = [muster EXCEPT ![m] = s],
               s \in Seq(BOOLEAN), Len(muster[m]) <= Len(s)
        PROVE  IsMuster(muster') /\ Grows(muster, muster', m)
    <2>1. DOMAIN muster' = Mine
      BY <1>2 DEF IsMuster
    <2>2. muster'[m] = s /\ \A n \in Mine : n # m => muster'[n] = muster[n]
      BY <1>2 DEF IsMuster
    <2>3. \A n \in Mine : muster'[n] \in Seq(BOOLEAN)
      BY <1>1, <1>2, <2>2
    <2>4. \A n \in Mine : Len(muster[n]) <= Len(muster'[n])
      BY <1>1, <1>2, <2>2
    <2> QED
      BY <2>1, <2>2, <2>3, <2>4 DEF IsMuster, Grows
  <1>3. CASE CheckedIn(m)
    <2> DEFINE s == Append(muster[m], TRUE)
    <2>1. m \in Mine /\ muster' = [muster EXCEPT ![m] = s]
      BY <1>3, RegistersAssumption DEF CheckedIn
    <2>2. s \in Seq(BOOLEAN) /\ Len(s) = Len(muster[m]) + 1
      BY <1>1, <2>1, AppendProperties
    <2> HIDE DEF s
    <2>3. Len(muster[m]) <= Len(s)
      BY <1>1, <2>1, <2>2
    <2> QED
      BY <1>2, <2>1, <2>2, <2>3
  <1>4. CASE m \in Mine /\ CheckedOut(m)
    <2>1. PICK i \in DOMAIN muster[m] : muster' = [muster EXCEPT ![m][i] = FALSE]
      BY <1>4 DEF CheckedOut
    <2> DEFINE s == [muster[m] EXCEPT ![i] = FALSE]
    <2>2. muster' = [muster EXCEPT ![m] = s]
      BY <2>1
    <2>3. s \in Seq(BOOLEAN) /\ Len(s) = Len(muster[m])
      BY <1>1, <1>4, <2>1, ExceptSeq
    <2> HIDE DEF s
    <2>4. Len(muster[m]) <= Len(s)
      BY <1>1, <1>4, <2>3
    <2> QED
      BY <1>2, <1>4, <2>2, <2>3, <2>4
  <1> QED
    BY <1>3, <1>4

\* A load with one of its parts is torn by a change of its register, one that waits
\* for both is not and need not be.
LEMMA TearCounts ==
    ASSUME NEW r, NEW p, NEW mine, NEW m, NEW mu, NEW nu, RegOK(r, p, mine),
           CountOK(r, mu), IsMuster(mu), IsMuster(nu), Grows(mu, nu, m)
    PROVE  CountOK(Tear(r, m), nu)
  <1> DEFINE Mixed(l) == /\ l.mine = m
                         /\ \E u, v \in l.parts : l.got[u] = Pending /\ l.got[v] # Pending
             T(l) == IF Mixed(l) THEN [l EXCEPT !.torn = TRUE] ELSE l
             Ls == {T(l) : l \in r.loads}
  <1>1. Tear(r, m) = [r EXCEPT !.loads = Ls]
    BY DEF Tear
  <1>2. \A n \in Mine : Len(mu[n]) \in Nat /\ Len(nu[n]) \in Nat
    BY DEF IsMuster
  <1>3. ListLimit \in Nat
    BY RegistersAssumption
  <1>4. ASSUME NEW l \in r.loads PROVE LoadAgrees(T(l), nu)
    <2>1. LoadOK(l, p) /\ LoadAgrees(l, mu)
      BY DEF RegOK, RegFields, CountOK, CountFields
    <2>2. CASE Mixed(l)
      <3>1. T(l) = [mine |-> l.mine, parts |-> l.parts, got |-> l.got, torn |-> TRUE]
        BY <2>1, <2>2 DEF LoadOK
      <3> QED
        BY <2>1, <3>1 DEF LoadAgrees
    <2>3. CASE ~Mixed(l) /\ l.mine = m
      <3>1. \A u \in Parts : l.got[u] = Pending
        BY <2>1, <2>3 DEF LoadAgrees
      <3> QED
        BY <2>1, <2>3, <3>1 DEF LoadAgrees
    <2>4. CASE ~Mixed(l) /\ l.mine # m
      <3>1. nu[l.mine] = mu[l.mine]
        BY <2>1, <2>4 DEF LoadOK, Grows
      <3> HIDE DEF Mixed
      <3>2. T(l) = l
        BY <2>4
      <3> QED
        BY <2>1, <3>1, <3>2 DEF LoadAgrees, Count
    <2> QED
      BY <2>2, <2>3, <2>4
  <1>5. ShownAgrees(r.shown, r.torn, nu)
    BY <1>2, <1>3 DEF CountOK, CountFields, ShownAgrees, Grows
  <1> HIDE DEF T
  <1>6. CountFields(r.shown, r.torn, Ls, nu)
    BY <1>4, <1>5 DEF CountFields
  <1> HIDE DEF Ls
  <1>7. Tear(r, m) = Page(r.shown, r.torn, r.loading, Ls, r.calls, r.crossed)
    BY <1>1, PageUpdates DEF RegOK
  <1> QED
    BY <1>6, <1>7, CountOfPage

LEMMA LoadingCounts ==
    ASSUME NEW r, NEW m, NEW mu, IsPage(r), CountOK(r, mu)
    PROVE  CountOK(Loading(r, "attendance", m), mu)
  <1> DEFINE x == r.loads \cup LoadsOf("attendance", m)
             y == Flagged("attendance")
  <1>1. LoadsOf("attendance", m) = {Load(m, Parts)}
    BY DEF LoadsOf
  <1>2. LoadAgrees(Load(m, Parts), mu)
    BY DEF Load, LoadAgrees, Parts
  <1>3. CountFields(r.shown, r.torn, x, mu)
    BY <1>1, <1>2 DEF CountOK, CountFields
  <1>4. Loading(r, "attendance", m) = [r EXCEPT !.loads = x, !.loading = y]
    BY DEF Loading
  <1> HIDE DEF x, y
  <1>5. Loading(r, "attendance", m) = Page(r.shown, r.torn, y, x, r.calls, r.crossed)
    BY <1>4, PageLoads
  <1> QED
    BY <1>3, <1>5, CountOfPage

LEMMA CallsCount ==
    ASSUME NEW r, NEW mu, NEW calls, IsPage(r), CountOK(r, mu)
    PROVE  IsPage([r EXCEPT !.calls = calls]) /\ CountOK([r EXCEPT !.calls = calls], mu)
  <1>1. [r EXCEPT !.calls = calls]
            = Page(r.shown, r.torn, r.loading, r.loads, calls, r.crossed)
    BY PageUpdates
  <1> QED
    BY <1>1, CountOfPage, PageFields DEF CountOK

LEMMA NewRegCounts == ASSUME NEW mu PROVE IsPage(NewReg) /\ CountOK(NewReg, mu)
  <1> DEFINE none == [q \in Parts |-> Nothing]
  <1>1. NewReg = Page(none, FALSE, FALSE, {}, {}, FALSE)
    BY DEF NewReg, Page
  <1>2. none["list"] = Nothing /\ none["head"] = Nothing
    BY DEF Parts
  <1> HIDE DEF none
  <1>3. CountFields(none, FALSE, {}, mu)
    BY <1>2 DEF CountFields, ShownAgrees
  <1> QED
    BY <1>1, <1>3, CountOfPage, PageFields

\* An answer is one of the register as it is, or a sample.
LEMMA ServedCounts ==
    ASSUME RegInv, CountInv, route = "attendance", NEW l \in reg.loads, NEW q \in Parts,
           NEW reached, Served(l, q, reached)
    PROVE  CountOK(reg', muster)
  <1> DEFINE v == IF reached THEN RowsOf(q, l.mine) ELSE Sample
             now == [l EXCEPT !.got[q] = v]
             got == [l.got EXCEPT ![q] = v]
             less == reg.loads \ {l}
             rest == [reg EXCEPT !.loads = less]
  <1>1. IsPage(reg) /\ LoadOK(l, route) /\ LoadAgrees(l, muster) /\ CountOK(reg, muster)
    BY DEF RegInv, RegOK, RegFields, CountInv, CountOK, CountFields
  <1>2. /\ l.mine \in Mine /\ v.mine \in {l.mine, "sample"}
        /\ Len(muster[l.mine]) <= ListLimit => v \in {Sample, Count(muster, l.mine)}
    <2>1. l.mine \in Mine
      BY <1>1 DEF LoadOK
    <2> QED
      BY <2>1, RowsOfCount DEF CountInv, RowsOf, Listed, Headcount, Sample
  <1>3. reg' = IF Complete(now) THEN Delivered(rest, now)
               ELSE [rest EXCEPT !.loads = @ \cup {now}]
    BY DEF Served
  <1>4. now = [mine |-> l.mine, parts |-> l.parts, got |-> got, torn |-> l.torn]
    BY <1>1 DEF LoadOK
  <1> HIDE DEF v
  <1>5. got[q] = v /\ \A u \in Parts \ {q} : got[u] = l.got[u]
    BY <1>1 DEF LoadOK
  <1>6. \A u \in Parts : got[u] = Pending \/ got[u].mine \in {l.mine, "sample"}
    BY <1>1, <1>2, <1>5 DEF LoadOK, LoadAgrees
  <1>7. ~l.torn /\ Len(muster[l.mine]) <= ListLimit =>
            \A u \in Parts : got[u] \in {Pending, Sample, Count(muster, l.mine)}
    BY <1>1, <1>2, <1>5 DEF LoadAgrees
  <1> HIDE DEF got
  <1>8. now.mine = l.mine /\ now.parts = Parts /\ now.got = got /\ now.torn = l.torn
    BY <1>1, <1>4 DEF LoadAgrees
  <1> HIDE DEF now
  <1>9. rest = Page(reg.shown, reg.torn, reg.loading, less, reg.calls, reg.crossed)
    <2> HIDE DEF less
    <2> QED
      BY <1>1, PageUpdates
  <1> HIDE DEF rest
  <1>10. /\ IsPage(rest) /\ rest.shown = reg.shown /\ rest.torn = reg.torn
         /\ rest.loads = less /\ rest.calls = reg.calls /\ rest.crossed = reg.crossed
    BY <1>9, PageFields
  <1>11. CASE Complete(now)
    <2> DEFINE shown == [u \in Parts |-> IF u \in now.parts THEN now.got[u]
                                         ELSE rest.shown[u]]
               torn == now.torn
    <2>1. reg' = [rest EXCEPT !.shown = shown, !.torn = torn, !.loading = FALSE]
      BY <1>3, <1>11 DEF Delivered
    <2>2. \A u \in Parts : shown[u] = got[u] /\ got[u] # Pending
      BY <1>8, <1>11 DEF Complete
    <2>3. {"list", "head"} \subseteq Parts
      BY DEF Parts
    <2>4. ShownAgrees(shown, torn, muster)
      <3> SUFFICES ASSUME ~l.torn, shown["list"].mine = shown["head"].mine,
                          shown["list"].mine \in Mine,
                          Len(muster[shown["list"].mine]) <= ListLimit
                   PROVE  shown["list"].active = shown["head"].active
        BY <1>8 DEF ShownAgrees
      <3> HIDE DEF shown
      <3>1. "sample" \notin Mine
        BY ShellAssumption
      <3>2. shown["list"].mine = l.mine /\ shown["head"].mine = l.mine
        BY <1>6, <2>2, <2>3, <3>1
      <3>3. /\ shown["list"] \in {Sample, Count(muster, l.mine)}
            /\ shown["head"] \in {Sample, Count(muster, l.mine)}
        BY <1>7, <2>2, <2>3, <3>2
      <3>4. Sample.mine = "sample"
        BY DEF Sample
      <3> QED
        BY <1>2, <3>1, <3>2, <3>3, <3>4
    <2> HIDE DEF shown, torn
    <2>5. reg' = Page(shown, torn, FALSE, less, reg.calls, reg.crossed)
      <3>1. [rest EXCEPT !.shown = shown, !.torn = torn, !.loading = FALSE]
                = Page(shown, torn, FALSE, rest.loads, rest.calls, rest.crossed)
        <4> HIDE DEF less
        <4>1. IsPage(rest)
          BY <1>10
        <4> QED
          BY <4>1, PageShows
      <3> QED
        BY <1>10, <2>1, <3>1
    <2>6. CountFields(shown, torn, less, muster)
      BY <1>1, <2>4 DEF CountOK, CountFields
    <2> QED
      BY <2>5, <2>6, CountOfPage
  <1>12. CASE ~Complete(now)
    <2> DEFINE more == less \cup {now}
    <2>1. reg' = [rest EXCEPT !.loads = more]
      BY <1>3, <1>10, <1>12
    <2>2. LoadAgrees(now, muster)
      BY <1>7, <1>8, <1>12 DEF LoadAgrees, Complete
    <2>3. CountFields(reg.shown, reg.torn, more, muster)
      BY <1>1, <2>2 DEF CountOK, CountFields
    <2> HIDE DEF more
    <2>4. reg' = Page(reg.shown, reg.torn, rest.loading, more, reg.calls, reg.crossed)
      <3> HIDE DEF less
      <3>1. [rest EXCEPT !.loads = more]
                = Page(rest.shown, rest.torn, rest.loading, more, rest.calls, rest.crossed)
        BY <1>10, PageUpdates
      <3> QED
        BY <1>10, <2>1, <3>1
    <2> QED
      BY <2>3, <2>4, CountOfPage
  <1> QED
    BY <1>11, <1>12

LEMMA AnswerCounts ==
    ASSUME RegInv, CountInv, NEW c \in reg.calls, AskDone(c) \/ AskFailed(c)
    PROVE  /\ IsMuster(muster')
           /\ route = "attendance" => CountOK(reg', muster')
  <1>1. PICK r : /\ route = "attendance" => IsPage(r) /\ CountOK(r, muster')
                 /\ IsMuster(muster')
                 /\ LET answered == [r EXCEPT !.calls = r.calls \ {c}]
                    IN  reg' = answered \/ reg' = Loading(answered, route, c.mine)
    <2>1. CASE AskFailed(c)
      BY <2>1 DEF AskFailed, RegInv, RegOK, CountInv
    <2>2. CASE AskDone(c)
      <3> DEFINE r == CASE c.op = "in" -> Tear(reg, c.mine)
                        [] c.op = "out" -> Tear(reg, c.row)
                        [] OTHER -> reg
      <3>1. ASSUME NEW m, CheckedIn(m) \/ (m \in Mine /\ CheckedOut(m))
            PROVE  /\ IsMuster(muster') /\ IsPage(Tear(reg, m))
                   /\ route = "attendance" => CountOK(Tear(reg, m), muster')
        BY <3>1, MusterGrows, TearCounts, TearOK DEF RegInv, CountInv, RegOK
      <3>2. CASE c.op = "in"
        BY <2>2, <3>1, <3>2 DEF AskDone
      <3>3. CASE c.op = "out"
        BY <2>2, <3>1, <3>3 DEF AskDone
      <3>4. CASE c.op \notin {"in", "out"}
        BY <2>2, <3>4 DEF AskDone, RegInv, RegOK, CountInv
      <3> QED
        BY <3>2, <3>3, <3>4
    <2> QED
      BY <2>1, <2>2
  <1> SUFFICES ASSUME route = "attendance" PROVE CountOK(reg', muster')
    BY <1>1
  <1> DEFINE less == r.calls \ {c}
             answered == [r EXCEPT !.calls = less]
  <1>2. reg' = answered \/ reg' = Loading(answered, "attendance", c.mine)
    BY <1>1
  <1> HIDE DEF less
  <1>3. IsPage(answered) /\ CountOK(answered, muster')
    BY <1>1, CallsCount
  <1> HIDE DEF answered
  <1> QED
    BY <1>2, <1>3, LoadingCounts

LEMMA FollowCounts ==
    ASSUME RegInv, CountInv, RegisterFollows, route' = "attendance"
    PROVE  CountOK(reg', muster)
  <1>1. IsPage(reg) /\ route' \in RegisterPages
    BY DEF RegInv, RegOK, RegisterPages
  <1>2. CASE route # "attendance"
    <2>1. reg' = Loading(NewReg, "attendance", session'.mine)
      BY <1>1, <1>2 DEF RegisterFollows
    <2> QED
      BY <2>1, NewRegCounts, LoadingCounts
  <1>3. CASE route = "attendance" /\ session'.mine = session.mine
    BY <1>1, <1>3 DEF RegisterFollows, CountInv
  <1>4. CASE route = "attendance" /\ session'.mine # session.mine
    <2> DEFINE crossed == reg.loads # {} \/ reg.calls # {}
               r == [reg EXCEPT !.crossed = crossed]
    <2>1. reg' = Loading(r, "attendance", session'.mine)
      BY <1>1, <1>4 DEF RegisterFollows
    <2> HIDE DEF crossed
    <2>2. r = Page(reg.shown, reg.torn, reg.loading, reg.loads, reg.calls, crossed)
      BY <1>1, PageUpdates
    <2> HIDE DEF r
    <2>3. IsPage(r) /\ CountOK(r, muster)
      BY <1>4, <2>2, PageFields DEF CountInv, CountOK
    <2> QED
      BY <2>1, <2>3, LoadingCounts
  <1> QED
    BY <1>2, <1>3, <1>4

LEMMA CountInvStep ==
    ASSUME RegInv, CountInv, [ConsoleNext]_consoleVars PROVE CountInv'
  <1>1. CASE RegisterTurn
    <2>1. UNCHANGED route /\ RegisterStep
      BY <1>1 DEF RegisterTurn, shell
    <2>2. ASSUME NEW l \in reg.loads, NEW q \in Parts, NEW reached \in BOOLEAN,
                 Served(l, q, reached)
          PROVE  CountInv'
      <3>1. route = "attendance" => CountOK(reg', muster)
        BY <2>2, ServedCounts
      <3>2. muster' = muster
        BY <2>2 DEF Served
      <3> QED
        BY <2>1, <3>1, <3>2 DEF CountInv
    <2>3. CASE \E op \in Ops : Ask(op)
      <3>1. PICK calls : reg' = [reg EXCEPT !.calls = calls]
        BY <2>3 DEF Ask
      <3>2. muster' = muster /\ IsPage(reg)
        BY <2>3 DEF Ask, RegInv, RegOK
      <3>3. CountOK(reg, muster) => CountOK(reg', muster)
        BY <3>1, <3>2, CallsCount
      <3> QED
        BY <2>1, <3>2, <3>3 DEF CountInv
    <2>4. CASE \E c \in reg.calls : AskDone(c) \/ AskFailed(c)
      BY <2>1, <2>4, AnswerCounts DEF CountInv
    <2>5. ASSUME NEW m \in Mine, ChangedElsewhere(m) PROVE CountInv'
      <3>1. IsMuster(muster') /\ Grows(muster, muster', m)
        BY <2>5, MusterGrows DEF CountInv, ChangedElsewhere
      <3>2. CountOK(Tear(reg, m), muster') /\ reg' = Tear(reg, m)
        BY <2>5, <3>1, TearCounts DEF CountInv, RegInv, ChangedElsewhere
      <3> QED
        BY <3>1, <3>2 DEF CountInv
    <2> QED
      BY <2>1, <2>2, <2>3, <2>4, <2>5 DEF RegisterStep
  <1>2. CASE ShellTurn
    <2>1. RegisterFollows /\ muster' = muster
      BY <1>2 DEF ShellTurn, RegisterFollows
    <2> QED
      BY <2>1, FollowCounts DEF CountInv
  <1>3. CASE UNCHANGED <<route, reg, muster>>
    BY <1>3 DEF CountInv
  <1> QED
    BY <1>1, <1>2, <1>3
    DEF ConsoleNext, PortalTurn, VaultTurn, InboxTurn, WatchTurn, shell, registerVars,
        consoleVars

LEMMA CountInvariance == ConsoleSpec => []CountInv
  <1>1. ConsoleInit => CountInv
    <2> SUFFICES ASSUME ConsoleInit PROVE CountInv
      OBVIOUS
    <2>1. IsMuster(muster)
      BY DEF ConsoleInit, RegisterInit, IsMuster
    <2>2. reg = NewReg
      BY DEF ConsoleInit, RegisterInit
    <2> QED
      BY <2>1, <2>2, NewRegCounts DEF CountInv
  <1> QED
    BY <1>1, RegInvariance, CountInvStep, PTL DEF ConsoleSpec

\* For any number of mines and records, and whatever register changes, mines and
\* pages come between the answers, the headcount counts the rows that are listed
\* (attendance/page.tsx 62-67, attendance.py 127-160).
THEOREM CountAlwaysAgrees == ConsoleSpec => []CountAgreesSerially
  <1>1. CountInv => CountAgreesSerially
    BY DEF CountInv, CountOK, CountFields, ShownAgrees, CountAgreesSerially
  <1> QED
    BY <1>1, CountInvariance, PTL

-----------------------------------------------------------------------------
(* Types.  What the invariants above leave open of ConsoleTypeOK, part by part. *)

\* The portal: the server records each item within the bound of the model.
Board == [review : {"none", "APPROVED", "REJECTED"}, waiting : BOOLEAN,
          acked : BOOLEAN, outcome : {"none", "refused"}]

PortalTypes ==
    /\ arrived \in [Kinds -> 0..MaxArrivals]
    /\ flush \in {"idle", "report", "leave"}
    /\ board \in Board

LEMMA RecordedTypes ==
    ASSUME arrived \in [Kinds -> 0..MaxArrivals], NEW k \in Kinds, Recorded(k)
    PROVE  arrived' \in [Kinds -> 0..MaxArrivals]
  <1> DEFINE n == arrived[k]
  <1>1. MaxArrivals \in Nat /\ n \in Nat
    BY PortalAssumption
  <1>2. IsFiniteSet(Kinds)
    <2>1. IsFiniteSet({"report"}) /\ Kinds = {"report"} \cup {"leave"}
      BY FS_Singleton DEF Kinds
    <2> QED
      BY <2>1, FS_AddElement
  <1>3. DOMAIN arrived = Kinds /\ \A j \in Kinds : arrived[j] \in Nat
    BY <1>1
  <1>4. SumFunction(arrived) \in Nat /\ n <= SumFunction(arrived)
    <2> HIDE DEF n
    <2> QED
      BY <1>2, <1>3, SumBounds DEF n
  <1>5. SumFunction(arrived) < MaxArrivals /\ arrived' = [arrived EXCEPT ![k] = n + 1]
    BY DEF Recorded
  <1>6. n + 1 \in 0..MaxArrivals
    BY <1>1, <1>4, <1>5
  <1> QED
    BY <1>5, <1>6

LEMMA PortalKeepsTypes == ASSUME PortalTypes, PortalStep PROVE PortalTypes'
  <1> USE DEF PortalTypes
  <1>1. CASE FlushAccepted
    BY <1>1, RecordedTypes DEF FlushAccepted, FlushNext, Kinds
  <1>2. CASE FlushDeferred
    <2>1. flush \in Kinds
      BY <1>2 DEF FlushDeferred
    <2>2. arrived' \in [Kinds -> 0..MaxArrivals]
      BY <1>2, <2>1, RecordedTypes DEF FlushDeferred
    <2> QED
      BY <1>2, <2>2 DEF FlushDeferred, FlushNext
  <1>3. CASE FlushBegins
    BY <1>3 DEF FlushBegins
  <1>4. CASE UNCHANGED <<arrived, flush>> /\ board' \in Board
    BY <1>4
  <1>5. CASE Acknowledge \/ CancelReview \/ ConfirmReview \/ ReviewRefused
    BY <1>4, <1>5 DEF Acknowledge, CancelReview, ConfirmReview, ReviewRefused, Board
  <1>6. CASE \E v \in LeaveTable : OpenReview(v)
    BY <1>4, <1>6 DEF OpenReview, LeaveTable, Board
  <1> QED
    BY <1>1, <1>2, <1>3, <1>4, <1>5, <1>6
    DEF PortalStep, PressSync, PressOpen, PressCancel, Submit, Stored, StoreRefuses,
        MessageGone, ListLoaded, StoreRefusesOffline

LEMMA PortalTyped == ConsoleSpec => []PortalTypes
  <1>1. ConsoleInit => PortalTypes
    BY PortalAssumption DEF ConsoleInit, PortalInit, PortalTypes, Board, NewBoard
  <1>2. PortalTypes /\ [ConsoleNext]_consoleVars => PortalTypes'
    <2> SUFFICES ASSUME PortalTypes, [ConsoleNext]_consoleVars PROVE PortalTypes'
      OBVIOUS
    <2>1. CASE PortalTurn
      BY <2>1, PortalKeepsTypes DEF PortalTurn
    <2>2. CASE ShellTurn
      <3>1. board' \in {board, NewBoard} /\ UNCHANGED <<arrived, flush>>
        BY <2>2 DEF ShellTurn, PortalFollows, BoardFollows
      <3>2. NewBoard \in Board
        BY DEF NewBoard, Board
      <3> QED
        BY <3>1, <3>2 DEF PortalTypes
    <2>3. CASE UNCHANGED <<arrived, flush, board>>
      BY <2>3 DEF PortalTypes
    <2> QED
      BY <2>1, <2>2, <2>3
      DEF ConsoleNext, RegisterTurn, VaultTurn, InboxTurn, WatchTurn, portalVars,
          consoleVars
  <1> QED
    BY <1>1, <1>2, PTL DEF ConsoleSpec

\* What was recorded bounds what was lost of it.
LEMMA PortalTypesImply ==
    ASSUME PortalTypes, DeliveryInv, ListInv PROVE PortalTypeOK
  <1>1. \A k \in Kinds : unheard[k] \in 0..MaxArrivals
    BY PortalAssumption DEF PortalTypes, DeliveryInv, RecordedAsAnswered
  <1>2. unheard \in [Kinds -> 0..MaxArrivals]
    BY <1>1 DEF DeliveryInv
  <1> QED
    BY <1>2 DEF PortalTypes, DeliveryInv, ListInv, Desk, PortalTypeOK, Board

\* The vault and the notification centre.
VaultTypes ==
    attempt \in [open : BOOLEAN, busy : BOOLEAN, result : {"none", "incident", "error"}]

LEMMA VaultTyped == ConsoleSpec => []VaultTypes
  <1>1. ConsoleInit => VaultTypes
    BY DEF ConsoleInit, VaultInit, NoAttempt, VaultTypes
  <1>2. VaultTypes /\ [ConsoleNext]_consoleVars => VaultTypes'
    <2> SUFFICES ASSUME VaultTypes, [ConsoleNext]_consoleVars PROVE VaultTypes'
      OBVIOUS
    <2>1. CASE VaultTurn
      BY <2>1
      DEF VaultTurn, VaultStep, Fetch, Fetched, FetchedLocally, OpenAttempt,
          CloseAttempt, TryToAlter, AttemptAnswered, VaultTypes
    <2>2. CASE ShellTurn
      BY <2>2 DEF ShellTurn, VaultFollows, NoAttempt, VaultTypes
    <2>3. CASE UNCHANGED attempt
      BY <2>3 DEF VaultTypes
    <2> QED
      BY <2>1, <2>2, <2>3
      DEF ConsoleNext, PortalTurn, RegisterTurn, InboxTurn, WatchTurn, vaultVars,
          consoleVars
  <1> QED
    BY <1>1, <1>2, PTL DEF ConsoleSpec

Dialog == [open : BOOLEAN, loading : BOOLEAN, shown : Note,
           chosen : BOOLEAN, busy : BOOLEAN, closing : BOOLEAN]

InboxTypes == inbox \in Dialog

LEMMA InboxKeepsTypes == ASSUME InboxTypes, HandlersOK, InboxStep PROVE InboxTypes'
  <1> USE DEF InboxTypes, Dialog
  <1>1. CASE InboxLoaded
    <2> DEFINE stays == inbox.open /\ ~inbox.closing
    <2>1. PICK rows \in {note, Unmarked} :
             inbox' = [inbox EXCEPT !.loading = FALSE, !.shown = rows, !.open = stays,
                                    !.closing = FALSE]
      BY <1>1 DEF InboxLoaded
    <2>2. stays \in BOOLEAN
      BY Zenon
    <2>3. Unmarked \in Note
      BY DEF Note, Unmarked
    <2>4. rows \in Note
      BY <2>3 DEF HandlersOK
    <2> HIDE DEF stays
    <2> QED
      BY <2>1, <2>2, <2>4
  <1>2. CASE \E h \in handling : Saved(h) \/ SaveFails(h)
    BY <1>2 DEF Saved, SaveFails
  <1>3. CASE \/ OpenInbox \/ CloseInbox \/ ChooseNote \/ PressAck \/ PressRead
             \/ \E op \in {"read", "ack"} : MarkedElsewhere(op)
    BY <1>3 DEF OpenInbox, CloseInbox, ChooseNote, PressAck, PressRead, MarkedElsewhere
  <1> QED
    BY <1>1, <1>2, <1>3 DEF InboxStep

LEMMA InboxTyped == ConsoleSpec => []InboxTypes
  <1>1. ConsoleInit => InboxTypes
    BY DEF ConsoleInit, InboxInit, InboxTypes, Dialog, NewInbox, Note, Unmarked
  <1>2. InboxTypes /\ HandlersOK /\ [ConsoleNext]_consoleVars => InboxTypes'
    <2> SUFFICES ASSUME InboxTypes, HandlersOK, [ConsoleNext]_consoleVars
                 PROVE  InboxTypes'
      OBVIOUS
    <2>1. CASE InboxTurn
      BY <2>1, InboxKeepsTypes DEF InboxTurn
    <2>2. CASE ShellTurn
      BY <2>2 DEF ShellTurn, InboxFollows, InboxTypes, Dialog, NewInbox, Note, Unmarked
    <2>3. CASE UNCHANGED inbox
      BY <2>3 DEF InboxTypes
    <2> QED
      BY <2>1, <2>2, <2>3
      DEF ConsoleNext, PortalTurn, RegisterTurn, VaultTurn, WatchTurn, inboxVars,
          consoleVars
  <1> QED
    BY <1>1, <1>2, HandlersInvariance, PTL DEF ConsoleSpec

\* The watch.  The page of the ledger, which the alarm leads to, is one of the instance:
\* only an attack simulated on it has an alarm.
WatchTypes ==
    /\ broken \subseteq Mine
    /\ alert \in [mine : Mine \cup {None}, datalog : BOOLEAN]
    /\ {open, muted} \subseteq BOOLEAN
    /\ page \in [busy : BOOLEAN, banner : {"intact", "warning"}]
    /\ route \in Pages
    /\ picked \in Mine
    /\ attacks # {} \/ alert.datalog => "audit-ledger" \in Pages

\* What the alert store is told of a mine.
LEMMA ToldTypes ==
    ASSUME NEW m \in Mine, NEW a, Tell(m, a)
    PROVE  /\ alert' \in [mine : Mine \cup {None}, datalog : BOOLEAN] /\ ~alert'.datalog
           /\ open' \in {TRUE, open}
  <1>1. CASE Alarm(m, FALSE)
    BY <1>1 DEF Alarm
  <1>2. CASE AllClear
    BY <1>2 DEF AllClear, NoAlert
  <1> QED
    BY <1>1, <1>2 DEF Tell

LEMMA WatchKeepsTypes ==
    ASSUME WatchTypes, VerdictInv, WatchStep, UNCHANGED <<shell, picked>>
    PROVE  WatchTypes'
  <1> USE DEF WatchTypes, shell
  <1>1. ASSUME NEW m \in Mine, Poll(m) \/ Falsify(m) PROVE WatchTypes'
    BY <1>1 DEF Poll, Falsify, alarm, ledgerPage
  <1>2. ASSUME NEW m \in Mine, Answered(m) PROVE WatchTypes'
    <2>1. UNCHANGED <<broken, muted, attacks, page>>
      BY <1>2 DEF Answered, ledgerPage
    <2>2. UNCHANGED <<alert, open>> \/ Tell(m, asking[m])
      BY <1>2 DEF Answered
    <2> QED
      BY <2>1, <2>2, ToldTypes
  <1>3. ASSUME NEW m \in Mine, AttackAnswered(m) PROVE WatchTypes'
    BY <1>3 DEF AttackAnswered, Alarm
  <1>4. CASE Dismiss \/ Freeze
    BY <1>4 DEF Dismiss, Freeze, polling, ledgerPage
  <1>5. CASE ToggleMute
    <2>1. muted' \in BOOLEAN
      BY <1>5, Zenon DEF ToggleMute
    <2> QED
      BY <1>5, <2>1 DEF ToggleMute, polling, ledgerPage
  <1>6. CASE Attack
    BY <1>6 DEF Attack, OnLedger, polling, alarm
  <1>7. CASE \E reached \in BOOLEAN : Verify(reached)
    BY <1>7 DEF Verify, polling, alarm
  <1>8. CASE SirenTurn
    BY <1>8 DEF SirenTurn, polling, alarm, ledgerPage
  <1> QED
    BY <1>1, <1>2, <1>3, <1>4, <1>5, <1>6, <1>7, <1>8 DEF WatchStep

LEMMA ShellKeepsTypes ==
    ASSUME WatchTypes, VerdictInv, SessionOK', ShellAndWatch PROVE WatchTypes'
  <1> USE DEF WatchTypes
  <1>1. CASE Inspect /\ UNCHANGED picked
    BY <1>1 DEF Inspect, AlarmShown, polling, ledgerPage
  <1>2. CASE ShellMoves /\ WatchFollows
    <2>1. route' \in Pages /\ picked' \in Mine
      BY <1>2, ShellAssumption
      DEF ShellMoves, ShellAlone, Pick, SelectMine, Login, Logout, SwitchRole,
          ScopeTenant, OpenPage
    <2>2. session'.mine \in Mine
      BY DEF SessionOK
    <2>3. UNCHANGED <<alert, open>> \/ Tell(session'.mine, checked[session'.mine])
      BY <1>2 DEF WatchFollows, TellCached
    <2>4. muted' \in BOOLEAN
      BY <1>2, Zenon DEF WatchFollows, KeepMuted
    <2>5. page' \in {page, NewPage} /\ UNCHANGED <<broken, attacks>>
      BY <1>2 DEF WatchFollows, polling
    <2>6. NewPage \in [busy : BOOLEAN, banner : {"intact", "warning"}]
      BY DEF NewPage
    <2> QED
      BY <2>1, <2>2, <2>3, <2>4, <2>5, <2>6, ToldTypes
  <1> QED
    BY <1>1, <1>2 DEF ShellAndWatch

LEMMA WatchTyped == ConsoleSpec => []WatchTypes
  <1>1. ConsoleInit => WatchTypes
    <2> SUFFICES ASSUME ConsoleInit PROVE WatchTypes
      OBVIOUS
    <2>1. /\ broken = {} /\ attacks = {} /\ open = FALSE /\ muted = FALSE
          /\ route = "overview" /\ picked = Home
      BY DEF ConsoleInit, ShellInit, PickInit, WatchInit
    <2>2. alert = [mine |-> None, datalog |-> FALSE]
      BY DEF ConsoleInit, WatchInit, NoAlert
    <2>3. page = [busy |-> FALSE, banner |-> "intact"]
      BY DEF ConsoleInit, WatchInit, NewPage
    <2> QED
      BY <2>1, <2>2, <2>3, ShellAssumption DEF WatchTypes
  <1>2. WatchTypes /\ VerdictInv /\ VerdictInv' /\ [ConsoleNext]_consoleVars => WatchTypes'
    <2> SUFFICES ASSUME WatchTypes, VerdictInv, VerdictInv', [ConsoleNext]_consoleVars
                 PROVE  WatchTypes'
      OBVIOUS
    <2>1. CASE WatchTurn
      BY <2>1, WatchKeepsTypes DEF WatchTurn
    <2>2. CASE ShellTurn
      BY <2>2, ShellKeepsTypes DEF ShellTurn, VerdictInv
    <2>3. CASE UNCHANGED <<broken, alert, open, muted, page, route, picked, attacks>>
      BY <2>3 DEF WatchTypes
    <2> QED
      BY <2>1, <2>2, <2>3
      DEF ConsoleNext, PortalTurn, RegisterTurn, VaultTurn, InboxTurn, shell, watchVars,
          polling, alarm, ledgerPage, consoleVars
  <1> QED
    BY <1>1, <1>2, VerdictInvariance, PTL DEF ConsoleSpec

\* The registers.
Reg == [shown : [Parts -> Shown], torn : BOOLEAN, loading : BOOLEAN,
        loads : SUBSET Loads, calls : SUBSET Calls, crossed : BOOLEAN]

Within(mu) == \A m \in Mine : Len(mu[m]) <= MaxRecords

RegTypes == reg \in Reg /\ Within(muster)

LEMMA RegUpdates ==
    ASSUME NEW r \in Reg
    PROVE  /\ \A x \in SUBSET Loads : [r EXCEPT !.loads = x] \in Reg
           /\ \A x \in SUBSET Calls : [r EXCEPT !.calls = x] \in Reg
           /\ \A x \in BOOLEAN : [r EXCEPT !.crossed = x] \in Reg
           /\ \A x \in [Parts -> Shown], y \in BOOLEAN :
                  [r EXCEPT !.shown = x, !.torn = y, !.loading = FALSE] \in Reg
  BY DEF Reg

\* A register has at most as many active records as records.
LEMMA ActivesWithin ==
    ASSUME NEW s \in Seq(BOOLEAN), NEW n \in Nat, Len(s) <= n PROVE Actives(s) \in 0..n
  <1> DEFINE A == {i \in DOMAIN s : s[i]}
  <1>1. DOMAIN s = 1..Len(s) /\ Len(s) \in Nat
    OBVIOUS
  <1>2. IsFiniteSet(1..Len(s)) /\ Cardinality(1..Len(s)) = Len(s)
    <2> DEFINE k == Len(s)
    <2>1. k \in Int /\ 1 \in Int /\ (IF 1 > k THEN 0 ELSE k - 1 + 1) = k
      BY <1>1
    <2> HIDE DEF k
    <2>2. IsFiniteSet(1..k) /\ Cardinality(1..k) = k
      BY <2>1, FS_Interval
    <2> QED
      BY <2>2 DEF k
  <1>3. A \subseteq 1..Len(s)
    BY <1>1
  <1> HIDE DEF A
  <1>4. Cardinality(A) \in Nat /\ Cardinality(A) <= Len(s)
    BY <1>2, <1>3, FS_Subset, FS_CardinalityType
  <1> QED
    BY <1>1, <1>4 DEF Actives, A

LEMMA RowsShown ==
    ASSUME NEW q, NEW m \in Mine, IsMuster(muster), Within(muster)
    PROVE  RowsOf(q, m) \in Shown
  <1> DEFINE s == muster[m]
             a == IF Len(s) > ListLimit THEN Len(s) - ListLimit + 1 ELSE 1
             t == SubSeq(s, a, Len(s))
  <1>1. s \in Seq(BOOLEAN) /\ Len(s) \in Nat /\ Len(s) <= MaxRecords /\ MaxRecords \in Nat
    BY RegistersAssumption DEF IsMuster, Within
  <1>2. a \in 1..(Len(s) + 1) /\ ListLimit \in Nat
    BY <1>1, RegistersAssumption
  <1>3. Actives(s) \in 0..MaxRecords
    BY <1>1, ActivesWithin
  <1>4. t \in Seq(BOOLEAN) /\ Len(t) <= MaxRecords
    <2> HIDE DEF s, a
    <2>1. t \in Seq(BOOLEAN) /\ Len(t) = Len(s) - a + 1
      BY <1>1, <1>2, SubSeqProperties
    <2> QED
      BY <1>1, <1>2, <2>1
  <1>5. Actives(t) \in 0..MaxRecords
    <2> HIDE DEF t
    <2> QED
      BY <1>1, <1>4, ActivesWithin
  <1>6. RowsOf(q, m) \in {[mine |-> m, active |-> 0], [mine |-> m, active |-> Actives(t)],
                          [mine |-> m, active |-> Actives(s)]}
    BY DEF RowsOf, Listed, Headcount
  <1> HIDE DEF s, t
  <1> QED
    BY <1>1, <1>3, <1>5, <1>6 DEF Shown

LEMMA LoadTyped ==
    ASSUME NEW m \in Mine, NEW parts \in SUBSET Parts PROVE Load(m, parts) \in Loads
  <1> DEFINE none == [q \in Parts |-> Pending]
  <1>1. none \in [Parts -> Shown \cup {Pending}]
    OBVIOUS
  <1> HIDE DEF none
  <1> QED
    BY <1>1 DEF Load, Loads, none

LEMMA LoadingTyped ==
    ASSUME NEW r \in Reg, NEW p, NEW m \in Mine PROVE Loading(r, p, m) \in Reg
  <1> DEFINE x == r.loads \cup LoadsOf(p, m)
             y == Flagged(p)
  <1>1. LoadsOf(p, m) \subseteq Loads
    BY LoadTyped DEF LoadsOf, Parts
  <1>2. x \in SUBSET Loads
    BY <1>1 DEF Reg
  <1>3. y \in BOOLEAN
    BY DEF Flagged
  <1>4. Loading(r, p, m) = [r EXCEPT !.loads = x, !.loading = y]
    BY DEF Loading
  <1> HIDE DEF x, y
  <1>5. [r EXCEPT !.loads = x, !.loading = y] \in Reg
    BY <1>2, <1>3 DEF Reg
  <1> QED
    BY <1>4, <1>5

LEMMA NewRegTyped == NewReg \in Reg
  <1> DEFINE none == [q \in Parts |-> Nothing]
  <1>1. none \in [Parts -> Shown]
    BY RegistersAssumption DEF Nothing, Shown
  <1> HIDE DEF none
  <1> QED
    BY <1>1 DEF NewReg, Reg, none

LEMMA TearTyped == ASSUME NEW r \in Reg, NEW m PROVE Tear(r, m) \in Reg
  <1> DEFINE Mixed(l) == /\ l.mine = m
                         /\ \E p, q \in l.parts : l.got[p] = Pending /\ l.got[q] # Pending
             T(l) == IF Mixed(l) THEN [l EXCEPT !.torn = TRUE] ELSE l
             Ls == {T(l) : l \in r.loads}
  <1>1. Tear(r, m) = [r EXCEPT !.loads = Ls]
    BY DEF Tear
  <1>2. ASSUME NEW l \in r.loads PROVE T(l) \in Loads
    <2>1. l \in Loads
      BY DEF Reg
    <2>2. [l EXCEPT !.torn = TRUE] \in Loads
      BY <2>1 DEF Loads
    <2> QED
      BY <2>1, <2>2
  <1> HIDE DEF T
  <1>3. Ls \in SUBSET Loads
    BY <1>2
  <1> HIDE DEF Ls
  <1> QED
    BY <1>1, <1>3, RegUpdates

\* One answer more.
LEMMA ServedTyped ==
    ASSUME RegTypes, IsMuster(muster), NEW l \in reg.loads, NEW q \in Parts,
           NEW reached, Served(l, q, reached)
    PROVE  reg' \in Reg
  <1> DEFINE v == IF reached THEN RowsOf(q, l.mine) ELSE Sample
             got == [l.got EXCEPT ![q] = v]
             now == [l EXCEPT !.got[q] = v]
             less == reg.loads \ {l}
             rest == [reg EXCEPT !.loads = less]
  <1>1. reg \in Reg /\ l \in Loads /\ less \in SUBSET Loads
    BY DEF RegTypes, Reg
  <1>2. v \in Shown
    <2>1. Sample \in Shown
      BY RegistersAssumption DEF Sample, Shown
    <2>2. l.mine \in Mine
      BY <1>1 DEF Loads
    <2> QED
      BY <2>1, <2>2, RowsShown DEF RegTypes
  <1>3. reg' = IF Complete(now) THEN Delivered(rest, now)
               ELSE [rest EXCEPT !.loads = @ \cup {now}]
    BY DEF Served
  <1> HIDE DEF v
  <1>4. now \in Loads
    <2>1. got \in [Parts -> Shown \cup {Pending}]
      BY <1>1, <1>2 DEF Loads
    <2>2. now = [l EXCEPT !.got = got]
      OBVIOUS
    <2> HIDE DEF got, now
    <2> QED
      BY <1>1, <2>1, <2>2 DEF Loads
  <1> HIDE DEF now, less
  <1>5. rest \in Reg
    BY <1>1 DEF Reg
  <1> HIDE DEF rest
  <1>6. CASE Complete(now)
    <2> DEFINE shown == IF route = "capa" THEN rest.shown
                        ELSE [u \in Parts |-> IF u \in now.parts THEN now.got[u]
                                              ELSE rest.shown[u]]
               torn == now.torn
    <2>1. reg' = [rest EXCEPT !.shown = shown, !.torn = torn, !.loading = FALSE]
      BY <1>3, <1>6 DEF Delivered
    <2>2. shown \in [Parts -> Shown]
      <3>1. rest.shown \in [Parts -> Shown]
        BY <1>5 DEF Reg
      <3>2. \A u \in now.parts : now.got[u] \in Shown
        BY <1>4, <1>6 DEF Complete, Loads
      <3> QED
        BY <3>1, <3>2
    <2>3. torn \in BOOLEAN
      BY <1>4 DEF Loads
    <2> HIDE DEF shown, torn
    <2> QED
      BY <1>5, <2>1, <2>2, <2>3 DEF Reg
  <1>7. CASE ~Complete(now)
    <2> DEFINE more == rest.loads \cup {now}
    <2>1. reg' = [rest EXCEPT !.loads = more]
      BY <1>3, <1>7
    <2>2. more \in SUBSET Loads
      BY <1>4, <1>5 DEF Reg
    <2> HIDE DEF more
    <2> QED
      BY <1>5, <2>1, <2>2 DEF Reg
  <1> QED
    BY <1>6, <1>7

LEMMA AskTyped ==
    ASSUME RegTypes, SessionOK, NEW op \in Ops, Ask(op) PROVE reg' \in Reg
  <1> DEFINE row == IF op = "out" THEN reg.shown["list"].mine ELSE "none"
             c == [op |-> op, mine |-> session.mine, row |-> row]
             calls == reg.calls \cup {c}
  <1>1. reg' = [reg EXCEPT !.calls = calls]
    BY DEF Ask
  <1>2. row \in Mine \cup {"none", "sample"}
    BY DEF RegTypes, Reg, Shown, Parts
  <1> HIDE DEF row
  <1>3. c \in Calls
    BY <1>2 DEF Calls, SessionOK
  <1> HIDE DEF c
  <1>4. calls \in SUBSET Calls
    BY <1>3 DEF RegTypes, Reg
  <1> HIDE DEF calls
  <1> QED
    BY <1>1, <1>4 DEF RegTypes, Reg

\* The bound on the records of all mines bounds those of each.
LEMMA MusterWithin ==
    ASSUME IsMuster(muster), Within(muster), NEW m,
           CheckedIn(m) \/ (m \in Mine /\ CheckedOut(m))
    PROVE  Within(muster')
  <1> DEFINE size == [n \in Mine |-> Len(muster[n])]
  <1>1. /\ \A n \in Mine : muster[n] \in Seq(BOOLEAN) /\ Len(muster[n]) \in Nat
        /\ MaxRecords \in Nat
    BY RegistersAssumption DEF IsMuster
  <1>2. CASE CheckedIn(m)
    <2> DEFINE s == Append(muster[m], TRUE)
    <2>1. m \in Mine /\ muster' = [muster EXCEPT ![m] = s] /\ SumFunction(size) < MaxRecords
      BY <1>2, RegistersAssumption DEF CheckedIn, Records
    <2>2. SumFunction(size) \in Nat /\ size[m] <= SumFunction(size)
      <3>1. DOMAIN size = Mine /\ IsFiniteSet(Mine) /\ \A n \in Mine : size[n] \in Nat
        BY <1>1, ShellAssumption
      <3> HIDE DEF size
      <3> QED
        BY <2>1, <3>1, SumBounds
    <2>3. size[m] = Len(muster[m]) /\ Len(s) = Len(muster[m]) + 1
      BY <1>1, <2>1, AppendProperties
    <2> HIDE DEF s, size
    <2>4. Len(s) <= MaxRecords
      BY <1>1, <2>1, <2>2, <2>3
    <2> QED
      BY <2>1, <2>4 DEF IsMuster, Within
  <1>3. CASE m \in Mine /\ CheckedOut(m)
    <2>1. PICK i \in DOMAIN muster[m] : muster' = [muster EXCEPT ![m][i] = FALSE]
      BY <1>3 DEF CheckedOut
    <2> DEFINE s == [muster[m] EXCEPT ![i] = FALSE]
    <2>2. muster' = [muster EXCEPT ![m] = s]
      BY <2>1
    <2>3. Len(s) = Len(muster[m])
      BY <1>1, <1>3, <2>1, ExceptSeq
    <2> HIDE DEF s
    <2> QED
      BY <1>3, <2>2, <2>3 DEF IsMuster, Within
  <1> QED
    BY <1>2, <1>3

LEMMA AnswerTyped ==
    ASSUME RegTypes, IsMuster(muster), NEW c \in reg.calls, AskDone(c) \/ AskFailed(c)
    PROVE  RegTypes'
  <1>1. reg \in Reg /\ c \in Calls /\ c.mine \in Mine
    BY DEF RegTypes, Reg, Calls
  <1>2. PICK r \in Reg : LET answered == [r EXCEPT !.calls = r.calls \ {c}]
                         IN  reg' = answered \/ reg' = Loading(answered, route, c.mine)
    <2>1. CASE AskFailed(c)
      BY <1>1, <2>1 DEF AskFailed
    <2>2. CASE AskDone(c)
      <3> DEFINE r == CASE c.op = "in" -> Tear(reg, c.mine)
                        [] c.op = "out" -> Tear(reg, c.row)
                        [] OTHER -> reg
      <3>1. r \in Reg
        BY <1>1, TearTyped
      <3>2. LET answered == [r EXCEPT !.calls = r.calls \ {c}]
            IN  reg' = answered \/ reg' = Loading(answered, route, c.mine)
        BY <2>2 DEF AskDone
      <3> QED
        BY <3>1, <3>2
    <2> QED
      BY <2>1, <2>2
  <1> DEFINE less == r.calls \ {c}
             answered == [r EXCEPT !.calls = less]
  <1>3. reg' = answered \/ reg' = Loading(answered, route, c.mine)
    BY <1>2
  <1>4. less \in SUBSET Calls
    BY DEF Reg
  <1> HIDE DEF less
  <1>5. answered \in Reg
    BY <1>4 DEF Reg
  <1> HIDE DEF answered
  <1>6. reg' \in Reg
    BY <1>1, <1>3, <1>5, LoadingTyped
  <1>7. Within(muster')
    <2>1. \/ muster' = muster
          \/ CheckedIn(c.mine)
          \/ c.row \in Mine /\ CheckedOut(c.row)
      BY DEF AskDone, AskFailed
    <2> QED
      BY <2>1, MusterWithin DEF RegTypes
  <1> QED
    BY <1>6, <1>7 DEF RegTypes

LEMMA FollowTyped ==
    ASSUME RegTypes, SessionOK', RegisterFollows PROVE reg' \in Reg
  <1> DEFINE crossed == reg.loads # {} \/ reg.calls # {}
             r == [reg EXCEPT !.crossed = crossed]
  <1>1. crossed \in BOOLEAN
    BY Zenon
  <1>2. \/ reg' = NewReg \/ reg' = reg
        \/ reg' = Loading(NewReg, route', session'.mine)
        \/ reg' = Loading(r, route, session'.mine)
    BY DEF RegisterFollows
  <1> HIDE DEF crossed
  <1>3. r \in Reg
    BY <1>1 DEF RegTypes, Reg
  <1> HIDE DEF r
  <1> QED
    BY <1>2, <1>3, NewRegTyped, LoadingTyped DEF RegTypes, SessionOK

LEMMA RegTyped == ConsoleSpec => []RegTypes
  <1>1. ConsoleInit => RegTypes
    BY NewRegTyped, RegistersAssumption, EmptySeq
    DEF ConsoleInit, RegisterInit, RegTypes, Within
  <1>2. RegTypes /\ RegInv /\ RegInv' /\ CountInv /\ [ConsoleNext]_consoleVars
            => RegTypes'
    <2> SUFFICES ASSUME RegTypes, RegInv, RegInv', CountInv, [ConsoleNext]_consoleVars
                 PROVE  RegTypes'
      OBVIOUS
    <2>1. SessionOK /\ SessionOK' /\ IsMuster(muster)
      BY DEF RegInv, CountInv
    <2>2. CASE RegisterTurn
      <3>1. ASSUME NEW l \in reg.loads, NEW q \in Parts, NEW reached \in BOOLEAN,
                   Served(l, q, reached)
            PROVE  RegTypes'
        <4>1. reg' \in Reg
          BY <2>1, <3>1, ServedTyped
        <4>2. muster' = muster
          BY <3>1 DEF Served
        <4> QED
          BY <4>1, <4>2 DEF RegTypes
      <3>2. CASE \E op \in Ops : Ask(op)
        BY <2>1, <3>2, AskTyped DEF RegTypes, Ask
      <3>3. CASE \E c \in reg.calls : AskDone(c) \/ AskFailed(c)
        BY <2>1, <3>3, AnswerTyped
      <3>4. CASE \E m \in Mine : ChangedElsewhere(m)
        BY <2>1, <3>4, TearTyped, MusterWithin DEF RegTypes, ChangedElsewhere
      <3> QED
        BY <2>2, <3>1, <3>2, <3>3, <3>4 DEF RegisterTurn, RegisterStep
    <2>3. CASE ShellTurn
      <3>1. RegisterFollows /\ muster' = muster
        BY <2>3 DEF ShellTurn, RegisterFollows
      <3> QED
        BY <2>1, <3>1, FollowTyped DEF RegTypes
    <2>4. CASE UNCHANGED <<reg, muster>>
      BY <2>4 DEF RegTypes
    <2> QED
      BY <2>2, <2>3, <2>4
      DEF ConsoleNext, PortalTurn, VaultTurn, InboxTurn, WatchTurn, registerVars,
          consoleVars
  <1> QED
    BY <1>1, <1>2, RegInvariance, CountInvariance, PTL DEF ConsoleSpec

\* Every part of the console keeps its shape and the bounds of the instance, whatever
\* the other parts do: the requests under way, the lists and the registers hold only
\* rows of mines there are, and no path leads to a page that is not of the instance.
THEOREM TypeCorrectness == ConsoleSpec => []ConsoleTypeOK
  <1> DEFINE Known == /\ PortalTypes /\ DeliveryInv /\ ListInv
                      /\ VaultTypes /\ LogsInv
                      /\ InboxTypes /\ HandlersOK
                      /\ WatchTypes /\ VerdictInv /\ Ends(siren)
                      /\ RegTypes /\ CountInv
  <1>1. Known => ConsoleTypeOK
    <2> SUFFICES ASSUME Known PROVE ConsoleTypeOK
      OBVIOUS
    <2>1. ShellTypeOK /\ picked \in Mine
      BY DEF VerdictInv, SessionOK, WatchTypes, ShellTypeOK
    <2>2. PortalTypeOK
      BY PortalTypesImply
    <2>3. RegisterTypeOK
      BY DEF RegTypes, Reg, Within, CountInv, IsMuster, RegisterTypeOK
    <2>4. VaultTypeOK
      BY DEF VaultTypes, LogsInv, VaultTypeOK
    <2>5. InboxTypeOK
      BY DEF InboxTypes, Dialog, HandlersOK, InboxTypeOK
    <2>6. WatchTypeOK
      BY DEF WatchTypes, VerdictInv, Ends, WatchTypeOK
    <2> QED
      BY <2>1, <2>2, <2>3, <2>4, <2>5, <2>6 DEF ConsoleTypeOK
  <1> QED
    BY <1>1, PortalTyped, DeliveryInvariance, ListInvariance, VaultTyped, LogsInvariance,
       InboxTyped, HandlersInvariance, WatchTyped, VerdictInvariance, EndsInvariance,
       RegTyped, CountInvariance, PTL
=============================================================================
