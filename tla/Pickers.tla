-------------------------------- MODULE Pickers --------------------------------
(***************************************************************************)
(* The two pickers of the form: a combobox (app/static/combobox.js) with   *)
(* the hooks of institution-picker.js (filters, pages of a snapshot) or of *)
(* destination-picker.js (debounced search, map clicks).  Each picker is a *)
(* combobox of its own, so a behaviour is that of one of them.             *)
(*                                                                         *)
(* Searches, pages and look-ups of a map click are answered late, in any   *)
(* order, and also after they were aborted, while the visitor types, moves *)
(* with the arrow keys, presses Enter before there is anything to choose,  *)
(* and changes filters, and while the server starts with a new snapshot.   *)
(*                                                                         *)
(* The handlers are operators on the picker's variables, kept in a record. *)
(* A site stands for its name too; a text too short to be searched is      *)
(* Blank.  Left out: the map's markers, the facets, the status line, what  *)
(* is rendered of an option.                                               *)
(***************************************************************************)
EXTENDS Integers, Sequences, FiniteSets, SequencesExt

CONSTANTS
    Site, Word, Blank,  \* what the input may hold
    None,
    Filter,             \* settings of the filters
    MaxVersion,         \* bound: snapshots the server starts with, one after another
    Found(_, _, _),     \* what a search for a text, with a filter, finds in a snapshot
    PageSize,           \* the limit of a page, 20
    MaxCalls            \* bound: calls on their way; beyond it, aborted ones are not answered

Text == {Blank} \cup Word \cup Site
Version == 1..MaxVersion

\* A snapshot lists no site twice, so that no search finds one twice.
ASSUME PickerAssumption ==
    /\ MaxVersion \in Nat \ {0} /\ PageSize \in Nat \ {0} /\ MaxCalls \in Nat
    /\ Blank \notin Site /\ None \notin Text
    /\ \A t \in Text, f \in Filter, v \in Version :
         /\ Found(t, f, v) \in Seq(Site)
         /\ \A i, j \in DOMAIN Found(t, f, v) : Found(t, f, v)[i] = Found(t, f, v)[j] => i = j

VARIABLES
    picker,  \* the variables of the picker and of its combobox
    version  \* the snapshot the server has

vars == <<picker, version>>

\* An option, with what it was found for (the snapshot is 0 for a map click).
Option == [site: Site, text: Text, filter: Filter, version: Version \cup {0}]
OptionsOf(sites, t, f, v) ==
    [i \in DOMAIN sites |-> [site |-> sites[i], text |-> t, filter |-> f, version |-> v]]

\* current: the request id is still the one the call was made with.  since is
\* the snapshot of the time it was made.
Call == [kind: {"search", "page", "reverse"}, text: Text, filter: Filter, since: Version,
         offset: Nat, snapshot: Version \cup {0}, current: BOOLEAN]

\* pageState; next is 0 when there is no further page.
NoPage == [snapshot |-> 0, next |-> 0]

Picker ==
    [kind: {"institution", "destination"}, typed: Text, filter: Filter,
     items: Seq(Option), open: BOOLEAN, activeIndex: Nat,
     pendingMove: {-1, 0, 1}, pendingEnter: BOOLEAN,
     renderedQuery: Text \cup {None}, waitForFreshOptions: BOOLEAN, retryVisible: BOOLEAN,
     selectedItem: Site \cup {None}, debounced: BOOLEAN,
     pageState: [snapshot: Version \cup {0}, next: Nat], paginationLoading: BOOLEAN,
     calls: SUBSET Call]

TypeOK ==
    /\ version \in Version
    /\ picker \in Picker
    /\ picker.activeIndex <= Len(picker.items)

Init ==
    /\ version = 1
    /\ \E kind \in {"institution", "destination"}, f \in Filter :
         picker = [kind |-> kind, typed |-> Blank, filter |-> f, items |-> <<>>, open |-> FALSE,
                   activeIndex |-> 0, pendingMove |-> 0, pendingEnter |-> FALSE,
                   renderedQuery |-> None, waitForFreshOptions |-> FALSE,
                   retryVisible |-> FALSE, selectedItem |-> None, debounced |-> FALSE,
                   pageState |-> NoPage, paginationLoading |-> FALSE, calls |-> {}]

-----------------------------------------------------------------------------
(* The combobox: from the picker before to the picker after *)

\* minLength
TooShort(p) == p.kind = "destination" /\ p.typed = Blank

\* Request ids move on, and the calls made with older ones are aborted.
Outdate(p, kind) ==
    [p EXCEPT !.calls = {IF c.kind = kind THEN [c EXCEPT !.current = FALSE] ELSE c : c \in @}]

Ask(p, kind, offset) ==
    LET new == [kind |-> kind, text |-> p.typed, filter |-> p.filter, since |-> version,
                offset |-> offset, snapshot |-> p.pageState.snapshot, current |-> TRUE]
        kept == IF Cardinality(p.calls) < MaxCalls THEN p.calls ELSE {c \in p.calls : c.current}
    IN [p EXCEPT !.calls = kept \cup {new}]

CancelPending(p) == [Outdate(p, "search") EXCEPT !.debounced = FALSE]

CloseList(p) == [p EXCEPT !.activeIndex = 0, !.open = FALSE]
ClearList(p) == [CloseList(p) EXCEPT !.items = <<>>]

ForgetKeys(p) == [p EXCEPT !.pendingEnter = FALSE, !.pendingMove = 0, !.waitForFreshOptions = FALSE]

\* cancelPagination and no pageState
ResetBaseSearchState_keepPage(p) == [p EXCEPT !.pageState = NoPage, !.paginationLoading = FALSE]
ResetBaseSearchState_keepLoading(p) == [Outdate(p, "page") EXCEPT !.pageState = NoPage]
ResetBaseSearchState(p) ==
    [Outdate(p, "page") EXCEPT !.pageState = NoPage, !.paginationLoading = FALSE]

\* The hooks onInput and onSelect, which both begin alike.
CancelOthers(p) ==
    IF p.kind = "institution" THEN ResetBaseSearchState(p) ELSE Outdate(p, "reverse")

Choose(p, site) ==
    LET q == ClearList(CancelPending(ForgetKeys(p)))
    IN [CancelOthers(q) EXCEPT !.selectedItem = site, !.retryVisible = FALSE, !.typed = site]

PerformSearch(p) ==
    IF p.kind = "institution" THEN Ask(ResetBaseSearchState(p), "search", 0)
    ELSE Ask(p, "search", 0)

BeginSearch(p, defer) ==
    LET q == [CancelPending(p) EXCEPT !.retryVisible = FALSE]
    IN IF TooShort(q) THEN ClearList([q EXCEPT !.waitForFreshOptions = FALSE])
       ELSE IF defer /\ q.kind = "destination" THEN [q EXCEPT !.debounced = TRUE]
       ELSE PerformSearch(q)

\* The arrows go round the options; from none, up leads to the last but one.
Moved(p, move) ==
    LET n == Len(p.items)
    IN [p EXCEPT !.open = TRUE, !.activeIndex = ((@ - 1 + move + n) % n) + 1]

MoveActive(p, move) ==
    IF p.items # <<>> THEN Moved(p, move)
    ELSE IF p.waitForFreshOptions THEN p
    ELSE BeginSearch([p EXCEPT !.pendingMove = move], FALSE)

\* The keys pressed while there was nothing to choose are made up for; without
\* a result they stay.
ShowResults(p, options) ==
    LET q == [p EXCEPT !.waitForFreshOptions = FALSE, !.renderedQuery = p.typed,
                       !.items = options, !.activeIndex = 0, !.retryVisible = FALSE]
        moved == [Moved(q, p.pendingMove) EXCEPT !.pendingMove = 0]
    IN IF options = <<>> THEN ClearList(q)
       ELSE IF p.pendingMove = 0 THEN [q EXCEPT !.open = TRUE]
       ELSE IF p.pendingEnter THEN Choose(moved, moved.items[moved.activeIndex].site)
       ELSE moved

Clear(p, text) ==
    LET q == ClearList(CancelPending(ForgetKeys(p)))
    IN [q EXCEPT !.renderedQuery = None, !.selectedItem = None, !.typed = text,
                 !.retryVisible = FALSE]

-----------------------------------------------------------------------------
(* The visitor *)

Becomes(p) == picker' = p /\ UNCHANGED version

HandleInput_keepSelection(t) ==
    LET stale == picker.items # <<>> /\ picker.renderedQuery # t
        q == [ClearList(ForgetKeys(picker)) EXCEPT !.typed = t,
                 !.renderedQuery = None, !.waitForFreshOptions = stale]
    IN Becomes(BeginSearch(CancelOthers(q), TRUE))
\* Another text, or the same with a blank more or less.
HandleInput(t) ==
    LET stale == picker.items # <<>> /\ picker.renderedQuery # t
        q == [ClearList(ForgetKeys(picker)) EXCEPT !.typed = t, !.selectedItem = None,
                 !.renderedQuery = None, !.waitForFreshOptions = stale]
    IN Becomes(BeginSearch(CancelOthers(q), TRUE))

DebounceEnds ==
    /\ picker.debounced
    /\ Becomes(PerformSearch([picker EXCEPT !.debounced = FALSE]))

Focused(p) == IF TooShort(p) \/ p.open THEN p ELSE BeginSearch(p, FALSE)

HandleFocus ==
    /\ ~TooShort(picker) /\ ~picker.open
    /\ Becomes(Focused(picker))

PressArrow(move) == Becomes(MoveActive(picker, move))

PressEnter ==
    \/ /\ picker.activeIndex > 0
       /\ Becomes(Choose(picker, picker.items[picker.activeIndex].site))
    \/ /\ picker.activeIndex = 0 /\ picker.pendingMove # 0
       /\ Becomes([picker EXCEPT !.pendingEnter = TRUE])

PressEscape == Becomes(CloseList(CancelPending(ForgetKeys(picker))))

ClickOption(i) ==
    /\ picker.open /\ i \in DOMAIN picker.items
    /\ Becomes(Choose(picker, picker.items[i].site))

Retry ==
    /\ picker.retryVisible
    /\ Becomes(BeginSearch(picker, FALSE))

HandleFilterChange(f) ==
    /\ picker.kind = "institution" /\ f # picker.filter
    /\ LET q == ResetBaseSearchState([picker EXCEPT !.filter = f])
       IN Becomes(BeginSearch(Clear(q, q.typed), FALSE))

LoadMore ==
    /\ ~picker.paginationLoading /\ picker.pageState.next # 0
    /\ Becomes(Ask([picker EXCEPT !.paginationLoading = TRUE], "page", picker.pageState.next))

\* reverseDestination, up to its request
ClickMap ==
    /\ picker.kind = "destination"
    /\ Becomes(Ask(Clear(Outdate(picker, "reverse"), Blank), "reverse", 0))

-----------------------------------------------------------------------------
(* The rest of the page: settings and drafts that arrive *)

SelectResolved(site) ==
    /\ picker.kind = "institution"
    /\ Becomes(Choose(picker, site))

ClearPicker == Becomes(Clear(CancelOthers(picker), Blank))

SetQueryAndSearch(t) ==
    /\ picker.kind = "destination"
    /\ Becomes(BeginSearch(Clear(Outdate(picker, "reverse"), t), FALSE))

-----------------------------------------------------------------------------
(* Answers *)

Without(c) == [picker EXCEPT !.calls = @ \ {c}]

\* The sites of a page, and the offset of the next one.
PageOf(found, offset) ==
    LET end == IF offset + PageSize < Len(found) THEN offset + PageSize ELSE Len(found)
    IN [sites |-> SubSeq(found, offset + 1, end), next |-> IF end < Len(found) THEN end ELSE 0]

SearchAnswered(c) ==
    /\ c.kind = "search" /\ c.current
    /\ \E v \in c.since .. version :
         LET page == PageOf(Found(c.text, c.filter, v), 0)
             first == [Without(c) EXCEPT !.pageState = [snapshot |-> v, next |-> page.next]]
         IN IF picker.kind = "institution"
            THEN Becomes(ShowResults(first, OptionsOf(page.sites, c.text, c.filter, v)))
            ELSE Becomes(ShowResults(Without(c),
                                     OptionsOf(Found(c.text, c.filter, v), c.text, c.filter, v)))

SearchFails(c) ==
    /\ c.kind = "search" /\ c.current
    /\ Becomes([ClearList(Without(c)) EXCEPT !.waitForFreshOptions = FALSE, !.retryVisible = TRUE])

\* The sites that are not listed already; all of them, if none is.
Unlisted(sites, listed) ==
    IF Range(sites) \cap listed = {} THEN sites
    ELSE SelectSeq(sites, LAMBDA s : s \notin listed)

\* A page of another snapshot starts the search again; a site that is listed
\* already is left out.
PageAnswered(c) ==
    /\ c.kind = "page" /\ c.current
    /\ \E v \in c.since .. version :
         LET page == PageOf(Found(c.text, c.filter, v), c.offset)
             listed == {o.site : o \in Range(picker.items)}
             more == Unlisted(page.sites, listed)
             free == [Without(c) EXCEPT !.paginationLoading = FALSE]
         IN IF v # c.snapshot THEN Becomes(BeginSearch(free, FALSE))
            ELSE Becomes([free EXCEPT !.pageState.next = page.next, !.open = TRUE,
                                      !.items = @ \o OptionsOf(more, c.text, c.filter, v)])

PageFails(c) ==
    /\ c.kind = "page" /\ c.current
    /\ Becomes([Without(c) EXCEPT !.paginationLoading = FALSE])

\* input.focus() is an event only if the input is not focused yet.
ReverseAnswered(c) ==
    /\ c.kind = "reverse" /\ c.current
    /\ \/ \E s \in Site :
            LET shown == ShowResults([Without(c) EXCEPT !.typed = s],
                                     OptionsOf(<<s>>, s, c.filter, 0))
            IN Becomes(shown) \/ Becomes(Focused(shown))
       \/ Becomes(Without(c))

\* An aborted call is answered, or not: the handler returns.
Ignored(c) ==
    /\ ~c.current
    /\ Becomes(Without(c))

\* The server is started again with a newer snapshot.
NewSnapshot ==
    /\ version < MaxVersion
    /\ version' = version + 1
    /\ UNCHANGED picker

Next ==
    \/ \E t \in Text : HandleInput(t) \/ SetQueryAndSearch(t)
    \/ DebounceEnds \/ HandleFocus
    \/ \E move \in {-1, 1} : PressArrow(move)
    \/ PressEnter \/ PressEscape \/ Retry
    \/ \E i \in DOMAIN picker.items : ClickOption(i)
    \/ \E f \in Filter : HandleFilterChange(f)
    \/ LoadMore \/ ClickMap \/ ClearPicker \/ NewSnapshot
    \/ \E s \in Site : SelectResolved(s)
    \/ \E c \in picker.calls :
         \/ SearchAnswered(c) \/ SearchFails(c)
         \/ PageAnswered(c) \/ PageFails(c)
         \/ ReverseAnswered(c) \/ Ignored(c)

Spec == Init /\ [][Next]_vars

-----------------------------------------------------------------------------
(* Properties *)

IsAsking(kind) == \E c \in picker.calls : c.kind = kind /\ c.current

\* The list answers the form: its options were found for the text now in the
\* input and the filter now set, in one snapshot, and are the first of what was
\* found, without a gap or a double between pages.  This is what the request
\* ids and the restart on another snapshotId are for.
OptionsAnswerTheForm ==
    \A o \in Range(picker.items) :
        /\ o.text = picker.typed
        /\ o.version # 0 =>
             LET found == Found(o.text, picker.filter, o.version)
             IN picker.items = OptionsOf(SubSeq(found, 1, Len(picker.items)),
                                         o.text, picker.filter, o.version)
        /\ picker.pageState.next # 0 =>
             /\ picker.pageState.next = Len(picker.items)
             /\ picker.pageState.snapshot = o.version

\* The form never calculates with a place whose name the input does not show:
\* whoever types, clicks the map or loads a draft drops the selection.
SelectionIsNamed ==
    picker.selectedItem # None => picker.typed = picker.selectedItem

\* Neither the button for more nor the arrow keys stay dead: they wait only for
\* a call that can still be answered to them.
NothingWaitsForEver ==
    /\ picker.paginationLoading => IsAsking("page")
    /\ picker.waitForFreshOptions => picker.debounced \/ IsAsking("search")

\* docs/superpowers/plans/2026-08-17-map-first-search-login-history.md:775: a
\* map click "presents an explicit confirmable candidate; it never silently
\* authorizes calculation".  So the answer to a map click selects nothing.
MapClicksOnlyPropose ==
    [][IsAsking("reverse") => picker'.selectedItem = None]_vars
=============================================================================
