----------------------------- MODULE HistoryPanel -----------------------------
(***************************************************************************)
(* The calculation history in the browser (app/static/history.js): a list  *)
(* filled page by page, and four kinds of calls its buttons start.  The    *)
(* answers come in any order, also after the visitor has logged out, after *)
(* a deletion, or after a preview that was saved has started the list      *)
(* afresh.                                                                 *)
(*                                                                         *)
(* The handlers are operators on the panel's variables, kept in a record,  *)
(* since they call each other.  A row stands for its place in the order of *)
(* created_at and id, newest highest, and rows are saved in that order.    *)
(* Left out: what is rendered of a row, focus, and the gap between closing *)
(* a dialog and its close event.                                           *)
(***************************************************************************)
EXTENDS Naturals, Sequences, SequencesExt

CONSTANTS
    MaxRow,    \* bound: rows ever saved
    PageSize,  \* the limit of a page, 50
    Call       \* calls of the buttons in flight at a time

ASSUME PanelAssumption == MaxRow \in Nat /\ PageSize \in Nat \ {0}

Row == 1..MaxRow

VARIABLES
    session, \* whether /me was answered to this page
    panel,   \* the variables of createHistoryPanel
    calls,   \* api calls of the buttons
    stored,  \* the visitor's rows in the database
    newest,  \* the row saved last, 0 when there was none
    gone,    \* rows whose deletion was answered to this page
    saved,   \* rows stored whose preview was answered to this page
    begun    \* newest when a first page was last read

vars == <<session, panel, calls, stored, newest, gone, saved, begun>>

Idle == [stage |-> "idle"]
\* current: historyGeneration is still what it was when the page was asked for.
Asked(cursor) == [stage |-> "asked", cursor |-> cursor, current |-> TRUE]

Load ==
    {Idle} \cup [stage: {"asked"}, cursor: Row \cup {0}, current: BOOLEAN]
      \cup [stage: {"read"}, cursor: Row \cup {0}, current: BOOLEAN, items: Seq(Row),
            next: Row \cup {0}]

Panel ==
    [authenticated: BOOLEAN, listOpen: BOOLEAN, detailOpen: BOOLEAN,
     restoreListAfterDetail: BOOLEAN, refreshPending: BOOLEAN,
     refreshAfterSavedPreview: BOOLEAN, loadedOnce: BOOLEAN, loadFailed: BOOLEAN,
     nextCursor: Row \cup {0}, activeDetail: Row \cup {0}, rows: Seq(Row), loading: Load]

Kind == {"detail", "draft", "deleteOne", "deleteAll"}
Working == [stage: {"asked", "done"}, kind: Kind, rows: SUBSET Row]

TypeOK ==
    /\ session \in {"asked", "answered"}
    /\ panel \in Panel
    /\ panel.refreshPending => panel.loading # Idle
    /\ calls \in [Call -> {Idle} \cup Working]
    /\ newest \in Row \cup {0} /\ begun \in 0..newest
    /\ stored \subseteq 1..newest /\ saved \subseteq stored /\ gone \subseteq 1..newest

\* The panel before anybody is known.
FirstPanel ==
    [authenticated |-> FALSE, listOpen |-> FALSE, detailOpen |-> FALSE,
     restoreListAfterDetail |-> FALSE, refreshPending |-> FALSE,
     refreshAfterSavedPreview |-> FALSE, loadedOnce |-> FALSE, loadFailed |-> FALSE,
     nextCursor |-> 0, activeDetail |-> 0, rows |-> <<>>, loading |-> Idle]

Init ==
    /\ session = "asked"
    /\ panel = FirstPanel
    /\ calls = [c \in Call |-> Idle]
    /\ newest \in Row \cup {0}
    /\ stored = 1..newest
    /\ gone = {} /\ saved = {} /\ begun = 0

-----------------------------------------------------------------------------
(* The handlers, from the panel before to the panel after *)

LoadNext(p) ==
    IF ~p.authenticated \/ p.loading # Idle \/ (p.loadedOnce /\ p.nextCursor = 0)
    THEN p
    ELSE [p EXCEPT !.loading = Asked(p.nextCursor)]

\* historyGeneration += 1
Outdated(load) == IF load = Idle THEN Idle ELSE [load EXCEPT !.current = FALSE]

Refresh_keepGeneration(p) ==
    LET fresh == [p EXCEPT !.activeDetail = 0, !.loadedOnce = FALSE, !.nextCursor = 0,
                           !.rows = <<>>, !.loadFailed = FALSE]
    IN IF ~p.authenticated THEN p
       ELSE IF p.loading # Idle THEN [fresh EXCEPT !.refreshPending = TRUE]
       ELSE LoadNext(fresh)
Refresh_notPending(p) ==
    LET fresh == [p EXCEPT !.activeDetail = 0, !.loadedOnce = FALSE, !.nextCursor = 0,
                           !.rows = <<>>, !.loadFailed = FALSE, !.loading = Outdated(@)]
    IN IF ~p.authenticated THEN p ELSE LoadNext(fresh)
\* The list starts afresh: now, or when the page on its way has come.
Refresh(p) ==
    LET fresh == [p EXCEPT !.activeDetail = 0, !.loadedOnce = FALSE, !.nextCursor = 0,
                           !.rows = <<>>, !.loadFailed = FALSE, !.loading = Outdated(@)]
    IN IF ~p.authenticated THEN p
       ELSE IF p.loading # Idle THEN [fresh EXCEPT !.refreshPending = TRUE]
       ELSE LoadNext(fresh)

RefreshForSavedPreview(p) ==
    IF p.authenticated THEN Refresh(p) ELSE [p EXCEPT !.refreshAfterSavedPreview = TRUE]

\* The page has come or failed, and the finally block.
Loaded(p) ==
    LET free == [p EXCEPT !.loading = Idle]
    IN IF p.refreshPending /\ p.authenticated
       THEN LoadNext([free EXCEPT !.refreshPending = FALSE])
       ELSE free

\* closeDetail with its close event: the list comes back, unless its caller
\* has cleared restoreListAfterDetail.
CloseDetail(p) ==
    IF ~p.detailOpen THEN p
    ELSE [p EXCEPT !.detailOpen = FALSE, !.restoreListAfterDetail = FALSE,
                   !.listOpen = @ \/ (p.restoreListAfterDetail /\ p.authenticated)]
LeaveDetail(p) == CloseDetail([p EXCEPT !.restoreListAfterDetail = FALSE])

LoggedIn(p) ==
    LET in == [p EXCEPT !.authenticated = TRUE]
    IN IF p.refreshAfterSavedPreview
       THEN Refresh([in EXCEPT !.refreshAfterSavedPreview = FALSE])
       ELSE in

LoggedOut(p) ==
    [LeaveDetail(p) EXCEPT !.authenticated = FALSE,
        !.loading = Outdated(@), !.refreshPending = FALSE, !.refreshAfterSavedPreview = FALSE,
        !.listOpen = FALSE, !.activeDetail = 0, !.loadedOnce = FALSE, !.nextCursor = 0,
        !.rows = <<>>, !.loadFailed = FALSE]

-----------------------------------------------------------------------------
(* The list *)

Unchanged == UNCHANGED <<session, stored, newest, gone, saved, begun>>

\* The newest of these rows, newest first, as many as a page has room for.
IsPageOf(items, rows) ==
    /\ Range(items) \subseteq rows
    /\ \A i, j \in DOMAIN items : i < j => items[i] > items[j]
    /\ \A x \in rows \ Range(items) : Len(items) = PageSize /\ x < Last(items)

\* GET /me/history reads the rows below the cursor.
ReadPage ==
    LET below == {x \in stored : panel.loading.cursor = 0 \/ x < panel.loading.cursor}
    IN /\ panel.loading.stage = "asked"
       /\ \E items \in SeqOf(below, PageSize) :
            /\ IsPageOf(items, below)
            /\ panel' = [panel EXCEPT !.loading =
                 [stage |-> "read", cursor |-> @.cursor, current |-> @.current, items |-> items,
                  next |-> IF Range(items) = below THEN 0 ELSE Last(items)]]
       /\ begun' = IF panel.loading.cursor = 0 THEN newest ELSE begun
       /\ UNCHANGED <<session, calls, stored, newest, gone, saved>>

ShowPage_anyGeneration ==
    LET load == panel.loading
        shown == [panel EXCEPT !.rows = @ \o load.items, !.nextCursor = load.next,
                               !.loadedOnce = TRUE, !.loadFailed = FALSE]
    IN /\ load.stage = "read"
       /\ panel.authenticated
       /\ panel' = Loaded(shown)
       /\ UNCHANGED calls /\ Unchanged
ShowPage ==
    LET load == panel.loading
        shown == [panel EXCEPT !.rows = @ \o load.items, !.nextCursor = load.next,
                               !.loadedOnce = TRUE, !.loadFailed = FALSE]
    IN /\ load.stage = "read"
       /\ panel.authenticated /\ load.current
       /\ panel' = Loaded(shown)
       /\ UNCHANGED calls /\ Unchanged

\* The answer belongs to an older generation, or to a visitor who logged out.
DropPage ==
    /\ panel.loading # Idle
    /\ ~panel.authenticated \/ ~panel.loading.current
    /\ panel.loading.stage = "read"
    /\ panel' = Loaded(panel)
    /\ UNCHANGED calls /\ Unchanged

FailPage ==
    /\ panel.loading # Idle
    /\ panel' = Loaded(IF panel.authenticated /\ panel.loading.current
                       THEN [panel EXCEPT !.loadFailed = TRUE] ELSE panel)
    /\ UNCHANGED calls /\ Unchanged

ShowList ==
    /\ panel.authenticated /\ ~panel.listOpen /\ ~panel.detailOpen
    /\ panel' = Refresh([panel EXCEPT !.listOpen = TRUE])
    /\ UNCHANGED calls /\ Unchanged

CloseList ==
    /\ panel.listOpen
    /\ panel' = [panel EXCEPT !.listOpen = FALSE]
    /\ UNCHANGED calls /\ Unchanged

\* The button is hidden while there is no next page, and after a failure.
LoadMore ==
    /\ panel.listOpen /\ ~panel.detailOpen
    /\ panel.nextCursor # 0 /\ ~panel.loadFailed
    /\ panel' = LoadNext(panel)
    /\ panel' # panel
    /\ UNCHANGED calls /\ Unchanged

-----------------------------------------------------------------------------
(* The buttons *)

Start(c, k, rows) ==
    /\ calls[c] = Idle
    /\ calls' = [calls EXCEPT ![c] = [stage |-> "asked", kind |-> k, rows |-> rows]]
    /\ UNCHANGED panel /\ Unchanged

\* A row's buttons, and those of the detail, which act on activeDetail.
ClickRow(c) ==
    \/ /\ panel.listOpen /\ ~panel.detailOpen
       /\ \E x \in Range(panel.rows), k \in Kind \ {"deleteAll"} : Start(c, k, {x})
    \/ /\ panel.detailOpen /\ panel.activeDetail # 0
       /\ \E k \in {"draft", "deleteOne"} : Start(c, k, {panel.activeDetail})

ClickDeleteAll(c) ==
    /\ panel.listOpen /\ ~panel.detailOpen
    /\ Start(c, "deleteAll", {})

CloseDetailClicked ==
    /\ panel.detailOpen
    /\ panel' = CloseDetail(panel)
    /\ UNCHANGED calls /\ Unchanged

IsAsked(c, kinds) == calls[c].stage = "asked" /\ calls[c].kind \in kinds
IsDone(c, kinds) == calls[c].stage = "done" /\ calls[c].kind \in kinds

Drop(rows) == stored' = stored \ rows /\ saved' = saved \ rows

\* The server finds the row, or deletes it.
Serve(c) ==
    \/ /\ IsAsked(c, {"detail", "draft"})
       /\ calls[c].rows \subseteq stored
       /\ calls' = [calls EXCEPT ![c].stage = "done"]
       /\ UNCHANGED panel /\ Unchanged
    \/ /\ IsAsked(c, {"deleteOne"})
       /\ calls[c].rows \subseteq stored
       /\ Drop(calls[c].rows)
       /\ calls' = [calls EXCEPT ![c].stage = "done"]
       /\ UNCHANGED <<session, panel, newest, gone, begun>>
    \/ /\ IsAsked(c, {"deleteAll"})
       /\ Drop(stored)
       /\ calls' = [calls EXCEPT ![c].stage = "done", ![c].rows = stored]
       /\ UNCHANGED <<session, panel, newest, gone, begun>>

Ends(c) == calls' = [calls EXCEPT ![c] = Idle]

OpenDetail_anyone(c) ==
    /\ IsDone(c, {"detail"})
    /\ Ends(c)
    /\ panel' = [panel EXCEPT !.activeDetail = CHOOSE x \in calls[c].rows : TRUE,
                              !.restoreListAfterDetail = TRUE,
                              !.listOpen = FALSE, !.detailOpen = TRUE]
    /\ Unchanged
OpenDetail(c) ==
    /\ IsDone(c, {"detail"})
    /\ Ends(c)
    /\ panel' = IF ~panel.authenticated THEN panel
                ELSE [panel EXCEPT !.activeDetail = CHOOSE x \in calls[c].rows : TRUE,
                                   !.restoreListAfterDetail = TRUE,
                                   !.listOpen = FALSE, !.detailOpen = TRUE]
    /\ Unchanged

\* The form takes the draft (TripPage), and the dialogs are closed.
ApplyDraft(c) ==
    /\ IsDone(c, {"draft"})
    /\ Ends(c)
    /\ panel' = IF ~panel.authenticated THEN panel
                ELSE [LeaveDetail(panel) EXCEPT !.listOpen = FALSE]
    /\ Unchanged

Deleted(c) ==
    /\ IsDone(c, {"deleteOne", "deleteAll"})
    /\ Ends(c)
    /\ gone' = gone \cup calls[c].rows
    /\ panel' = Refresh(LeaveDetail(panel))
    /\ UNCHANGED <<session, stored, newest, saved, begun>>

\* No answer, an error, or a row that is not there: a message only.
CallFails(c) ==
    /\ calls[c] # Idle
    /\ Ends(c)
    /\ UNCHANGED panel /\ Unchanged

-----------------------------------------------------------------------------
(* The rest of the page and of the world *)

\* A preview is saved, by this page or on another device.
Save ==
    /\ newest < MaxRow
    /\ newest' = newest + 1
    /\ stored' = stored \cup {newest'}
    /\ UNCHANGED <<session, panel, calls, gone, saved, begun>>

\* calculate of app.js has the answer to a preview without HISTORY_NOT_SAVED:
\* one that was saved, or one the server found no session for.
PreviewAnswered ==
    /\ \/ \E x \in stored \ saved : saved' = saved \cup {x}
       \/ UNCHANGED saved
    /\ panel' = RefreshForSavedPreview(panel)
    /\ UNCHANGED <<session, calls, stored, newest, gone, begun>>

\* Expiry, or a deletion on another device.
Vanish(x) ==
    /\ x \in stored
    /\ Drop({x})
    /\ UNCHANGED <<session, panel, calls, newest, gone, begun>>

\* auth.js asks /me once; after that there is only logging out, since logging
\* in leaves the page.
SessionAnswered ==
    /\ session = "asked"
    /\ session' = "answered"
    /\ panel' \in {LoggedIn(panel), LoggedOut(panel)}
    /\ UNCHANGED <<calls, stored, newest, gone, saved, begun>>

LogOut ==
    /\ panel.authenticated
    /\ panel' = LoggedOut(panel)
    /\ UNCHANGED calls /\ Unchanged

Next ==
    \/ ReadPage \/ ShowPage \/ DropPage \/ FailPage
    \/ ShowList \/ CloseList \/ LoadMore \/ CloseDetailClicked
    \/ \E c \in Call :
         \/ ClickRow(c) \/ ClickDeleteAll(c) \/ Serve(c)
         \/ OpenDetail(c) \/ ApplyDraft(c) \/ Deleted(c) \/ CallFails(c)
    \/ Save
    \/ \E x \in Row : Vanish(x)
    \/ PreviewAnswered
    \/ SessionAnswered \/ LogOut

Spec == Init /\ [][Next]_vars

IsCurrent == panel.loading # Idle /\ panel.loading.current

\* A request is answered or fails in the end, and the visitor does not for ever
\* start the list afresh before its first page has come.
Answered ==
    /\ WF_vars(ReadPage \/ FailPage) /\ WF_vars(ShowPage \/ DropPage \/ FailPage)
    /\ SF_vars(IsCurrent /\ (ReadPage \/ FailPage))
    /\ SF_vars(IsCurrent /\ (ShowPage \/ FailPage))

FairSpec == Spec /\ Answered

-----------------------------------------------------------------------------
(* Properties *)

\* Pages fit together: rows are shown newest first, none twice, and no row that
\* was there when the list was begun, and still is, is left out above the first
\* page, between two pages or after the last one, although rows are saved and
\* deleted meanwhile and the list may have been begun afresh with a page on its
\* way.
PagesFitTogether ==
    /\ \A i, j \in DOMAIN panel.rows : i < j => panel.rows[i] > panel.rows[j]
    /\ panel.loadedOnce =>
         stored \cap (panel.nextCursor .. begun) \subseteq Range(panel.rows)

\* A row whose deletion was answered does not come back to the list with a page
\* that was read before.
DeletedRowsStayAway == gone \cap Range(panel.rows) = {}

\* Without a session the page shows nothing private, whatever answers were on
\* their way when the visitor logged out, and opens no dialog.
LoggedOutShowsNothing ==
    ~panel.authenticated =>
        /\ panel.rows = <<>> /\ panel.activeDetail = 0
        /\ ~panel.listOpen /\ ~panel.detailOpen

\* The list shows x, or has it on a page that can still be loaded, or says that
\* it could not be loaded; or x is not to be shown any more.
Settled(x) ==
    \/ ~panel.authenticated \/ x \notin stored \/ panel.loadFailed
    \/ x \in Range(panel.rows)
    \/ panel.loadedOnce /\ x < panel.nextCursor

\* A calculation this page was told is saved comes into the list by itself, also
\* if it was saved before /me was answered or while a page was on its way.
SavedTripsAreListed ==
    \A x \in Row : x \in saved /\ panel.authenticated ~> Settled(x)
=============================================================================
