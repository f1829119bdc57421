------------------------------- MODULE TripPage -------------------------------
(***************************************************************************)
(* The page around the calculation (app/static/app.js with trip-form.js,   *)
(* schedule.js, settings.js and auth.js): the form, the button, the result *)
(* on screen, the visitor's saved settings, and the history panel.  The    *)
(* answers to previews, to the settings and to the drafts of the history   *)
(* come in any order, while the visitor goes on filling in the form.       *)
(*                                                                         *)
(* As in HistoryPanel the handlers are operators on a record.  A group of  *)
(* inputs is reduced to where its values come from: the page's own         *)
(* defaults, the visitor, a draft, or one of the saved settings.  A        *)
(* picker is reduced to its selection (see Pickers), previewRevision to a  *)
(* flag of each preview: whether the number is still the one it began      *)
(* with.  Left out: the map, the texts, and the sorting of a result.       *)
(***************************************************************************)
EXTENDS HistoryPanel

CONSTANTS
    Site,       \* institutions to start from
    Place,      \* destinations
    None,
    Settings,   \* settings a visitor may have saved
    Fits(_),    \* whether settings hold what the inputs of the form accept
    DefaultOrigin(_), \* the origin that settings name, or None
    Preview,    \* previews in flight at a time
    MaxEdits    \* bound: what the visitor does with the form

ASSUME PageAssumption ==
    /\ None \notin Site \cup Place \cup Settings
    /\ \A s \in Settings : Fits(s) \in BOOLEAN /\ DefaultOrigin(s) \in Site \cup {None}
    /\ {"public", "typed", "draft"} \cap Settings = {}
    /\ MaxEdits \in Nat

VARIABLES
    page,     \* the form, the button, the result, the calls for them
    kept,     \* the settings in the database
    edits     \* what the visitor has done with the form

pageVars == <<page, kept, edits>>

\* Where values come from.
Source == {"public", "typed", "draft"} \cup Settings

NoOrigin == [site |-> None, from |-> "typed"]
Questions == [origin: Site, destination: Place, schedule: Source, car: Source]

Origin == [site: Site \cup {None}, from: Source]
Schedule == [from: Source, start: BOOLEAN, length: BOOLEAN]
Car == [from: Source, fits: BOOLEAN]
Asking == [asks: Questions, current: BOOLEAN]
Loading ==
    {Idle, [stage |-> "asked"]}
      \cup [stage: {"read"}, settings: Settings, origin: Site \cup {None}]
Saving ==
    {Idle, [stage |-> "loading"]} \cup [stage: {"asked", "stored"}, settings: Settings]

Page ==
    [origin: Origin, destination: Place \cup {None}, schedule: Schedule, car: Car,
     allowanceFits: BOOLEAN, sort: Source, enabled: BOOLEAN, busy: BOOLEAN, unheard: BOOLEAN,
     results: Questions \cup {None}, applied: BOOLEAN, dialog: Settings \cup {None},
     previews: [Preview -> {Idle} \cup Asking], settingsLoad: Loading, settingsSave: Saving]

PageTypeOK == page \in Page /\ kept \in Settings /\ edits \in 0..MaxEdits

\* initialize of app.js: nothing selected, the default schedule, nobody known.
FirstPage ==
    [origin |-> NoOrigin, destination |-> None,
     schedule |-> [from |-> "public", start |-> TRUE, length |-> TRUE],
     car |-> [from |-> "public", fits |-> TRUE], allowanceFits |-> TRUE,
     sort |-> "public", enabled |-> FALSE, busy |-> FALSE, unheard |-> FALSE,
     results |-> None, applied |-> FALSE, dialog |-> None,
     previews |-> [q \in Preview |-> Idle],
     settingsLoad |-> Idle, settingsSave |-> Idle]

PageInit ==
    /\ page = FirstPage
    /\ kept \in Settings
    /\ edits = 0

-----------------------------------------------------------------------------
(* The handlers, from the page before to the page after *)

\* valid of trip-form.js, with that of schedule.js and the form's checkValidity.
Valid(p) ==
    /\ p.origin.site # None /\ p.destination # None
    /\ p.schedule.start /\ p.schedule.length
    /\ p.car.fits /\ p.allowanceFits

\* unheard: an input was changed since that has no listener.
UpdateCalculateAvailability(p) == [p EXCEPT !.enabled = Valid(p), !.unheard = FALSE]

InvalidatePreview_sameRevision(p) == [p EXCEPT !.results = None, !.busy = FALSE]
InvalidatePreview(p) ==
    [p EXCEPT !.results = None, !.busy = FALSE,
              !.previews = [q \in Preview |->
                  IF @[q] = Idle THEN Idle ELSE [@[q] EXCEPT !.current = FALSE]]]

\* onSelectionChange of both pickers.
SelectionChanged(p) == UpdateCalculateAvailability(InvalidatePreview(p))

Choose(p, site, from) ==
    SelectionChanged([p EXCEPT !.origin = [site |-> site, from |-> from]])
Clear(p) == SelectionChanged([p EXCEPT !.origin = NoOrigin])

\* applySettings of trip-form.js.  The start stays, and the end follows it.
FillIn(p, s, fits, origin) ==
    LET filled == UpdateCalculateAvailability(
            [p EXCEPT !.car = [from |-> s, fits |-> fits],
                      !.schedule = [from |-> s, start |-> @.start, length |-> TRUE]])
    IN IF origin = None THEN filled ELSE Choose(filled, origin, s)

\* apply of settings.js and onSettingsApplied.
Apply(p, s, origin) ==
    LET filled == FillIn([p EXCEPT !.dialog = s, !.applied = TRUE], s, Fits(s), origin)
    IN UpdateCalculateAvailability(InvalidatePreview([filled EXCEPT !.sort = s]))

ResetAnonymousPublicSettings(p) ==
    LET filled == FillIn(Clear(p), "public", TRUE, None)
    IN UpdateCalculateAvailability(InvalidatePreview(
           [filled EXCEPT !.sort = "public", !.applied = FALSE]))

\* load of settings.js aborts the call before it.
LoadSettings(p) == [p EXCEPT !.settingsLoad = [stage |-> "asked"]]

\* The load has ended, and with it the save that waits for it.
SettingsLoadEnds(p) ==
    [p EXCEPT !.settingsLoad = Idle,
              !.settingsSave = IF @.stage = "loading" THEN Idle ELSE @]

\* applyAuthenticatedSettings: somebody is logged in, or nobody.
SessionBegins(p) == LoadSettings(p)
SessionEnds(p) ==
    LET left == [SettingsLoadEnds(p) EXCEPT !.dialog = None]
    IN IF p.applied THEN ResetAnonymousPublicSettings(left) ELSE left

\* applyRecalculationDraft and onDraftApplied.
TakeDraft(p, origin) ==
    LET cleared == SelectionChanged([Clear(p) EXCEPT !.destination = None])
        dated == UpdateCalculateAvailability(
            [cleared EXCEPT !.schedule = [from |-> "draft", start |-> TRUE, length |-> TRUE]])
        chosen == IF origin = None THEN dated ELSE Choose(dated, origin, "draft")
    IN UpdateCalculateAvailability(InvalidatePreview(chosen))

-----------------------------------------------------------------------------
(* The visitor *)

\* The dialogs of the history are modal.
Edits(p) ==
    /\ edits < MaxEdits
    /\ ~panel.listOpen /\ ~panel.detailOpen
    /\ edits' = edits + 1
    /\ page' = p
    /\ UNCHANGED <<vars, kept>>

\* An institution or a place is selected, or the selection given up by typing,
\* by a filter or by a click on the map.
ChangeSelection ==
    \/ \E site \in Site : Edits(Choose(page, site, "typed"))
    \/ Edits(Clear(page))
    \/ \E place \in Place \cup {None} :
         Edits(SelectionChanged([page EXCEPT !.destination = place]))

\* Start, end, duration and pattern; the schedule tells the form each time.
ChangeSchedule ==
    \E start, length \in BOOLEAN :
       Edits(UpdateCalculateAvailability(
           [page EXCEPT !.schedule = [from |-> "typed", start |-> start, length |-> length]]))

\* Vehicle, fuel, efficiency, parking and the previous allowance: nobody listens.
ChangeNumbers ==
    \/ \E fits \in BOOLEAN :
         Edits([page EXCEPT !.car = [from |-> "typed", fits |-> fits], !.unheard = TRUE])
    \/ Edits([page EXCEPT !.allowanceFits = ~@, !.unheard = TRUE])

SortResults == Edits([page EXCEPT !.sort = "typed"])

\* requestIsCurrent.
RequestIsCurrent(q) ==
    LET call == page.previews[q]
    IN /\ call.current
       /\ call.asks.origin = page.origin.site /\ call.asks.destination = page.destination

\* The button, or Enter, which does nothing while the button is disabled.
Calculate(q) ==
    LET asks == [origin |-> page.origin.site, destination |-> page.destination,
                 schedule |-> page.schedule.from, car |-> page.car.from]
    IN /\ page.enabled
       /\ page.previews[q] = Idle
       /\ Edits(IF ~Valid(page) THEN UpdateCalculateAvailability(page)
                ELSE [page EXCEPT !.enabled = FALSE, !.busy = TRUE,
                                  !.previews[q] = [asks |-> asks, current |-> TRUE]])

-----------------------------------------------------------------------------
(* The answers *)

Over(q) == [page EXCEPT !.previews[q] = Idle]

\* The finally block of a calculation that is still current.
Ready(p) == [UpdateCalculateAvailability(p) EXCEPT !.busy = FALSE]

\* With HISTORY_NOT_SAVED the history is left alone.
PreviewArrives(q) ==
    /\ page.previews[q] # Idle /\ RequestIsCurrent(q)
    /\ page' = Ready([Over(q) EXCEPT !.results = page.previews[q].asks])
    /\ PreviewAnswered \/ UNCHANGED vars
    /\ UNCHANGED <<kept, edits>>

PreviewFails_keepsButton(q) ==
    /\ page.previews[q] # Idle /\ RequestIsCurrent(q)
    /\ page' = Over(q)
    /\ UNCHANGED <<vars, kept, edits>>
PreviewFails(q) ==
    /\ page.previews[q] # Idle /\ RequestIsCurrent(q)
    /\ page' = Ready(Over(q))
    /\ UNCHANGED <<vars, kept, edits>>

\* Whatever the answer is, it is for a form that is no more.
PreviewIsStale(q) ==
    /\ page.previews[q] # Idle /\ ~RequestIsCurrent(q)
    /\ page' = Over(q)
    /\ UNCHANGED <<vars, kept, edits>>

\* GET /me/settings; the origin is found only while the snapshot has it.
ReadSettings ==
    /\ page.settingsLoad.stage = "asked"
    /\ \E origin \in {None, DefaultOrigin(kept)} :
         page' = [page EXCEPT !.settingsLoad =
                    [stage |-> "read", settings |-> kept, origin |-> origin]]
    /\ UNCHANGED <<vars, kept, edits>>

\* An answer that comes too late was aborted: load is the last call there was.
SettingsArrive ==
    LET load == page.settingsLoad
    IN /\ load.stage = "read" /\ panel.authenticated
       /\ page' = Apply(SettingsLoadEnds(page), load.settings, load.origin)
       /\ UNCHANGED <<vars, kept, edits>>

SettingsFail ==
    /\ page.settingsLoad # Idle
    /\ page' = SettingsLoadEnds(page)
    /\ UNCHANGED <<vars, kept, edits>>

\* The dialog is submitted; its button is off until the save has ended.
SaveSettings(s) ==
    /\ panel.authenticated
    /\ page.settingsSave = Idle
    /\ Edits([page EXCEPT !.settingsSave = [stage |-> "asked", settings |-> s]])

\* PUT /me/settings.
StoreSettings ==
    /\ page.settingsSave.stage = "asked"
    /\ kept' = page.settingsSave.settings
    /\ page' = [page EXCEPT !.settingsSave.stage = "stored"]
    /\ UNCHANGED <<vars, edits>>

SettingsSaved_anyone ==
    LET s == page.settingsSave.settings
    IN /\ page.settingsSave.stage = "stored"
       /\ page' = LoadSettings(Apply([page EXCEPT !.settingsSave = [stage |-> "loading"]],
                                     s, DefaultOrigin(s)))
       /\ UNCHANGED <<vars, kept, edits>>
\* The answer to the save, which was refused if its origin is not in the
\* snapshot, is applied at once, and then the settings are loaded again.
SettingsSaved ==
    LET s == page.settingsSave.settings
    IN /\ page.settingsSave.stage = "stored"
       /\ page' = IF ~panel.authenticated THEN [page EXCEPT !.settingsSave = Idle]
                  ELSE LoadSettings(Apply([page EXCEPT !.settingsSave = [stage |-> "loading"]],
                                          s, DefaultOrigin(s)))
       /\ UNCHANGED <<vars, kept, edits>>

SettingsNotSaved ==
    /\ page.settingsSave.stage \in {"asked", "stored"}
    /\ page' = [page EXCEPT !.settingsSave = Idle]
    /\ UNCHANGED <<vars, kept, edits>>

-----------------------------------------------------------------------------
(* With the history panel and the session *)

PageSessionAnswered ==
    /\ SessionAnswered
    /\ page' = IF panel'.authenticated THEN SessionBegins(page) ELSE SessionEnds(page)
    /\ UNCHANGED <<kept, edits>>

PageLogOut ==
    /\ LogOut
    /\ page' = SessionEnds(page)
    /\ UNCHANGED <<kept, edits>>

\* The origin of the draft may have left the snapshot.
PageApplyDraft(c) ==
    /\ ApplyDraft(c)
    /\ page' \in IF panel.authenticated
                 THEN {TakeDraft(page, origin) : origin \in Site \cup {None}}
                 ELSE {page}
    /\ UNCHANGED <<kept, edits>>

FormNext ==
    \/ ChangeSelection \/ ChangeSchedule \/ ChangeNumbers \/ SortResults
    \/ \E q \in Preview :
         \/ Calculate(q) \/ PreviewArrives(q) \/ PreviewFails(q) \/ PreviewIsStale(q)
    \/ ReadSettings \/ SettingsArrive \/ SettingsFail
    \/ \E s \in Settings : SaveSettings(s)
    \/ StoreSettings \/ SettingsSaved \/ SettingsNotSaved
    \/ PageSessionAnswered \/ PageLogOut
    \/ \E c \in Call : PageApplyDraft(c)

\* The list and its pages, which do not touch the form.
ListNext ==
    /\ \/ ReadPage \/ ShowPage \/ DropPage \/ FailPage
       \/ ShowList \/ CloseList \/ LoadMore \/ CloseDetailClicked
       \/ \E c \in Call :
            \/ ClickRow(c) \/ ClickDeleteAll(c) \/ Serve(c)
            \/ OpenDetail(c) \/ Deleted(c) \/ CallFails(c)
       \/ Save
       \/ \E x \in Row : Vanish(x)
    /\ UNCHANGED pageVars

PageSpec == Init /\ PageInit /\ [][FormNext \/ ListNext]_<<vars, pageVars>>

-----------------------------------------------------------------------------
(* Properties *)

\* The result on screen belongs to the form on screen: to its origin and
\* destination, and, but for what the visitor typed since, to its schedule and
\* its assumptions; settings, drafts and the end of a session leave no result
\* behind that was worked out without them, on screen or on its way.
ResultsFitTheForm ==
    page.results # None =>
        /\ page.results.origin = page.origin.site
        /\ page.results.destination = page.destination
        /\ page.schedule.from \in {page.results.schedule, "typed"}
        /\ page.car.from \in {page.results.car, "typed"}

\* Nothing of the visitor's settings stays in the form, in the dialog or in a
\* result when the session has ended, whichever of them were applied by then and
\* whatever is on its way ("logout clears saved settings before returning to
\* anonymous calculation", e2e/auth-history-settings.spec.ts:142).
SettingsLeaveWithTheSession ==
    ~panel.authenticated =>
        /\ {page.origin.from, page.schedule.from, page.car.from, page.sort}
             \cap Settings = {}
        /\ page.dialog = None
        /\ page.results # None => {page.results.schedule, page.results.car} \cap Settings = {}

\* The button is off for a form that could be calculated only while the answer
\* to a calculation of it is to come, and says so only then: every way to
\* abandon a calculation gives it back.  The exception are inputs nobody listens
\* to, changed since it was set.
ButtonFollowsTheForm ==
    LET underWay == \E q \in Preview : page.previews[q] # Idle /\ RequestIsCurrent(q)
    IN /\ page.busy => underWay
       /\ ~page.enabled /\ Valid(page) => underWay \/ page.unheard
=============================================================================
