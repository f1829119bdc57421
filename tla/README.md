# Formal models of the travel map

This directory holds TLA+ models of the Seoul education travel map
(`src/apps/travel-map`): the service that finds routes for a business trip
between institutions and works out the allowance, the accounts and the history
behind it, the page in the browser, and the pipeline that builds and publishes
the snapshot of institutions. TLC checks the models on small instances, and TLAPS
proves theorems about each part of the system for every value of the constants:
the accounts, the login, the key cache, the promotion, the pickers, the page with
its history panel, the trip preview with its limiter, cache and rules, and the
snapshots of institutions.

`PROJECT.json` maps every definition that stands for code to its lines, and lists
the hazards of the code, the runs, the theorems, and one mutant of the code per
checked property, which the property must catch.

    tlc -workers 2 -config accounts.cfg MCAccountApi.tla
    tlapm AccountProofs.tla

## 1. The system

Paths are relative to `src/apps/travel-map`.

| Component | State it keeps | Operations | What makes it correct |
|---|---|---|---|
| **User database** `app/storage/{users,history,user_settings,retention,database}.py` | SQLite tables: users, sessions, attempts, history (encrypted), settings | one transaction per call, each on a connection of its own in a worker thread | no row without its account; nothing expired is served or stays; nothing live is lost |
| **Account handlers** `app/api/{me,trips,auth}.py` | locals across awaits: the principal | list, detail and deletion of history, settings, log-out, delete-my-data, saving a preview | a visitor acts on the own account and no other; an answer tells what happened |
| **Kakao login** `app/api/auth.py`, `app/auth/` | attempt rows, the attempt cookie, callbacks between their steps | start, callback (spend, exchange, verify, issue) | one attempt is at most one login, of who approved it, in the browser that began it |
| **JWKS cache** `app/auth/oauth.py` | keys and their expiry, shared by all logins | look up, refresh, fail | only withdrawn keys are refused, and those leave the cache |
| **Snapshot build and promotion** `app/institutions/sync.py`, `scripts/{sync,review,approve}-institution*.py` | candidate and final directories, manifests, signed transactions, key, `current.json`, lock | build, review, promote, resume | what `current.json` names is approved; a killed promotion can be completed; no version overwrites one it was not compared with |
| **Snapshot loader, institution store** `app/institutions/{snapshot,store,facets}.py` | the snapshot, immutable in memory | verify at start; search, page, facets | whatever is approved can be served; pages list every match once |
| **Sources, normalisation** `app/institutions/sources/`, `sync.py` | the pages read so far | read page by page, classify, reconcile counts, merge, preserve what is missing | a source that changes while it is read is noticed; no institution is lost without a mark |
| **Trip preview** `app/services/trip_preview.py`, `app/cache.py` | route cache by mode and leg, with a time to live | classify, collect routes, rank, price | a cached collection belongs to the leg; outages do not last longer than the cache says |
| **Orchestrator, ranking** `app/routing/` | semaphore | fallback chain of providers with time-outs; matching of geometries; ranking | bounded calls; a geometry is only taken over if the assignment is unique |
| **Provider clients** `app/providers/`, `app/api/places.py` | an HTTP client, last status | retry on 429/5xx/time-out, parse | a bounded number of tries |
| **Rate limiter** `app/rate_limit.py` | fixed windows per client, capped in number | allow or refuse | no client exceeds its limit; the cap frees itself |
| **Policy engine** `app/policy/` | none | coverage, rules, allowance | a decision on a lower bound is the one every longer trip would lead to |
| **Life cycle** `app/main.py`, `dependencies.py` | the supervised clean-up task | start, hourly clean-up, stop | the clean-up survives storage failures |
| **Browser page** `app/static/{app,trip-form,schedule,route-results,settings,auth,api}.js` | the form, revisions of it and of the settings | calculate, load, save and apply settings, take drafts | a result on screen belongs to the form on screen; settings leave with the session |
| **Browser pickers** `app/static/{combobox,institution-picker,destination-picker}.js` | request ids, options, pending keys, selection | type, move, choose, filter, page, click the map | options and selection belong to the text and filters on screen |
| **Browser history panel** `app/static/history.js` | generation, page, cursor, dialogs | load, refresh, open, delete, apply | pages fit together; nothing private without a session; saved trips appear |
| **Release pipeline** `scripts/release-gate.sh`, `deploy/nas/*.sh` | image tags, pushed tags, env files on the NAS | gate, publish, clean up, deploy, roll back | only what it pushed is cleaned up; a failed deployment leaves a running version |
| **Geodata, source preparation** `scripts/*.py` | files | one-shot generation | offline tools |

How they interact. The browser calls the API; the answers cross each other. A
handler resolves the session cookie in one database call and acts on
`principal.user_id` in a later one; for a preview, the orchestrator and the
providers run in between, for seconds. The clean-up runs next to the handlers on
the same file. Previews share one event loop, with a limiter, a cache, a semaphore
and one list of fuel prices between them. The login calls Kakao and the JWKS cache between two database
calls. Builders and promotions share the snapshot directories; a promotion holds a
lock, a builder does not. The server loads the snapshot that `current.json` names
when it starts, so that a restart changes what the pickers page through; a build reads the published
snapshot to mark what its sources no longer have.

What is hard here is therefore: state read before an await and used after it; ids
that are given again; rows with an expiry read by a clock from before a wait;
calls that fail after their commit; processes killed between two file operations;
answers that arrive late, out of order, or after they were aborted.
`PROJECT.json` lists these under `hazards`, at their lines, with the properties
that would notice.

## 2. The modules

| Module | Stands for | Extends or instantiates |
|---|---|---|
| `UserDatabase` | the tables and, one operator each, the transactions on them | |
| `AccountApi` | the handlers for a logged-in visitor, and a clean-up at any time | `UserDatabase` |
| `Retention` | the one clean-up task: its runs, its sleeps, its failures and its supervisor | `AccountApi` |
| `OneTimeLogin` | abstract: the life of an attempt, which callback holds it, and the session it led to | |
| `LoginFlow` | start and callback with cookies, Kakao, restarts | `UserDatabase`; refines `OneTimeLogin` |
| `JwksCache` | the key cache under concurrent refreshes and key rotation | |
| `PublishedPointer` | abstract: a compare-and-swap register of versions | |
| `SnapshotPromotion` | builders, promotions, the files they leave | refines `PublishedPointer` |
| `HistoryPanel` | `history.js` with the session, the server's rows and the previews around it | |
| `TripPage` | `app.js` and its form, button, result, settings and drafts | `HistoryPanel` |
| `Pickers` | `combobox.js` with the hooks of either picker | |
| `TravelPolicy` | the travel rules, as functions | |
| `RateLimiter`, `TtlLruCache` | the limiter's buckets and the route cache, as functions | |
| `RoutePlanning` | near-duplicates, ranking, matching of geometries, as functions | |
| `ProviderDocuments` | what each provider makes of a document | `RoutePlanning` |
| `TripPreview` | requests, legs, chains of providers, semaphore, cache, fuel prices | the four above |
| `InstitutionSources` | reading pages, counts, coordinates | |
| `InstitutionSnapshots` | what a snapshot holds, and its three judges: build, promotion, loader | `InstitutionSources` |
| `InstitutionSearch` | filters, ranks, pages, facets | `InstitutionSnapshots` |
| `InstitutionSync` | syncs, promotion, restart, visitors | `InstitutionSearch` |
| `AccountProofs`, `LoginProofs`, `JwksProofs`, `PromotionProofs`, `PickerProofs` | theorems | the module they are about |
| `PageProofs` | theorems about the panel, the page, and the page as a panel | `TripPage` |
| `PreviewProofs` | theorems about the service, its limiter, cache and rules | `TripPreview` |
| `InstitutionProofs` | theorems about builds, promotions and what is served | `InstitutionSync` |
| `MC*` | TLC instances: symmetry sets, bounded inputs | |

How the state corresponds to the code:

* **`UserDatabase`**: `users`, `sessions`, `attempts`, `history`, `settings` are
  sets of rows with the columns the program decides by. A token stands for its
  digest, a subject for its HMAC. The transactions are atomic because each takes
  `BEGIN IMMEDIATE`. `NextRowId` is SQLite's choice of an id for `INTEGER PRIMARY
  KEY` without `AUTOINCREMENT`: one more than the largest in the table.
* **`AccountApi`**: `reqs[r]` is a handler between its two database calls, with the
  principal it resolved. A clock read before a wait is any time since the session
  was resolved. `issued` and `orphaned` are history variables, read by no guard.
* **`Retention`**: `cleaner` is the task, which runs with the clock it has read,
  sleeps for an hour, or has raised a storage error, before its commit or after it
  (`RunRaises`), until the supervisor of `main.py` has slept and starts it again.
  `failures` counts the errors. Its other steps are those of `AccountApi`.
* **`LoginFlow`**: `handlers[r]` is a callback between spending the attempt,
  exchanging the code and issuing the session. `cookie` is the jar of a browser,
  shared by its tabs. Kakao approves any attempt that was started, sends the
  redirect as often as the tab is reloaded, and exchanges a code once; it is
  modelled from how the code calls it.
* **`SnapshotPromotion`**: each action is one step between two file operations
  that a kill can separate. `final[s]` is the manifest in the final directory
  (absent, unapproved, or the time of its approval), `txn[s]` the signed
  transaction, `current` the pointer, `approvers[r]` and `builders[b]` the locals
  of a running command. `Leave` is an end or a kill at any point, and frees the
  lock.
* **`HistoryPanel`**, **`Pickers`**: the variables of the closure are one record,
  since the handlers call each other; each handler is an operator from the record
  before to the record after, and an action is one event or one answer up to the
  next await. Generations and request ids are kept as a flag of the call: whether
  the number is still the one the call was made with.
* **`TripPage`**: `page` is the form and its calls. A group of inputs is reduced to
  where its values come from (the page's defaults, the visitor, a draft, certain
  settings) and to whether the browser takes them for valid; a picker to its
  selection. Actions of the history panel and of the page that are one handler in
  the code (`PageLogOut`, `PageApplyDraft`, `PreviewArrives`) are one step.
* **`TripPreview`**: the event loop runs a task until it waits, so an action is what
  a task does between two awaits. `server.task[t]` is the task of a request, a leg
  and a mode; `server` also has the permits of the semaphore, the cache in the order
  of use, and the fuel prices with the holder of their lock and those who wait for
  it. A route is the numbers the code compares, with a geometry in two of them. A
  `scene`, fixed per behaviour, says what is asked and what providers may answer;
  `faults` bounds the failures in transport.
* **`InstitutionSync`**: rows of a source are numbers whose attributes a scene gives,
  and sources change between two requests for their pages. `sync` is the run under
  way, `candidate`, `published` and `served` are snapshots as records and sites.
  Promotion is one step here, since `SnapshotPromotion` has its parts.

## 3. The runs

| Run | Instance | What it shows |
|---|---|---|
| `accounts` | 2 visitors, 3 logins, 2 handlers in flight, one history id, a clock of 0..1 with everything expiring after 1; 664,561 states | `RowsHaveAccounts`, `SessionsKeepTheirSubject`, `PrincipalStaysValid` in every state; `LiveRowsLeaveForACause`, `SavesLandInOwnAccount`, `SettingsLandInOwnAccount`, `AnswersMatchEffects` for every step |
| `accounts_retention` | 1 handler, 2 logins, clock 0..2, the clean-up task with 1 storage error at any of its runs, restarts, with fairness; 297,703 states | `ExpiredRowsAreRemoved`, `IdleAccountsAreRemoved`, which the supervisor's catching the error and the task's reading the clock anew are needed for |
| `accounts_id_reuse` | 2 logins, 2 handlers | **violation**: deleting one visitor's data can delete another's account (see below) |
| `login` | 3 attempts under a cap of 2, 2 browsers, 2 callbacks, 2 approvals; 87,762 states | `LoginsAreApproved`, `AttemptsStayBounded`, and `ImplementsOneTimeLogin`, the refinement: an attempt is spent by one callback at most, and that callback hands out at most one session |
| `jwks` | 3 keys, 2 logins, a time to live of 2 ticks, with fairness; 139,725 states | `OnlyWithdrawnKeysAreRefused`, `WithdrawnKeysAgeOut` |
| `promotion` | 3 snapshots, 2 builders, 2 stewards, 2 approval times; 118,577 states | `OnlyApprovedIsReliedOn`, `TransactionsDoNotRunAhead`, `ApprovalIsGivenOnce`, and `ImplementsPublishedPointer`, the refinement |
| `promotion_retry` | 2 snapshots, 2 builders, 1 steward, with fairness; 9,012 states | `InterruptedPromotionsComplete` |
| `history` | scenes of the list: 3 rows, pages of 1, 1 button's call next to the page on its way; scenes of the form: 2 calculations, loading and saving of 2 settings, a draft, 3 edits; with fairness; 271,590 states | `PagesFitTogether`, `DeletedRowsStayAway`, `LoggedOutShowsNothing`, `SavedTripsAreListed` of the list; `ResultsFitTheForm`, `SettingsLeaveWithTheSession`, `ButtonFollowsTheForm` of the page |
| `pickers` | 3 places, 1 word, 2 filters, 2 snapshots, pages of 1, 3 calls; 416,152 states | `OptionsAnswerTheForm`, `SelectionIsNamed`, `NothingWaitsForEver` |
| `map_click` | the same | **violation**: keys pressed early select the place of a map click (see below) |
| `preview` | up to 3 requests in seven groups of scenes, 1 permit, 2 attempts, 2 admissions per window, with fairness; 72,956 states | `AnswersFitTheQuestion`, `EmptyModesSayWhy`, `GeometryIsTheOnlyMatch`, `OnlyNearDuplicatesAreHidden`, `LowerBoundsStand`, `AdmissionsAreLimited`, and `PreviewsEnd` |
| `institutions` | 16 scenes of up to 5 schools, 4 kindergartens and a list of agencies, one with an office nobody knows yet, pages of 2, up to 3 syncs one on another; 17,203 states | `CleanCandidatesAreServable`, `ReviewedCountsHold`, `PagesListEveryMatchOnce`; `InstitutionsNeverVanish` for every step |

The type invariants (`TypeOK`, `PageTypeOK`) say what the variables hold. They are
theorems, so the runs spend their time on the others.

**Why the bounds are enough.** Two visitors and two handlers are what a race on
the account of one visitor by another needs; three logins let an id be freed,
given away and logged into again. The clock needs one tick to expire a row, and a
second for a clean-up that was late. Three attempts go one over the cap, and two
browsers separate whose cookie it is. Three keys allow two rotations with an
older answer overtaking a newer one. Three snapshots are a published one, one
built on it, and one that comes in between. In the panels, pages of one row let
every page boundary be crossed with two or three rows, and a list of three rows
has a first, a middle and a last page; in the pickers the second snapshot puts a
site in front, so that mixing two snapshots shows as a gap or a double. In the
form, a calculation, an edit and a second calculation are the shortest way to two
answers that may cross; the settings are one pair of which one does not fit the
form. In `preview`, three requests go one over the limit of a client, two share a
cached leg across its time to live, and one permit makes every other call wait;
three public and three Kakao routes have no, one or several perfect matchings; the
distances are those on, before and after each limit of the rules, which MC takes from
`policy/rules.py` as they are. In `institutions`, pages of two rows make a row that comes
or goes shift another over a page boundary, and three syncs let an institution
vanish, stay away and come back; the percentages of the code are taken so that one
institution of a few is on either side of them, and `MaxDropped` is 1 where it has 50.

**Bounds** are the sets in the `.cfg` files and `MaxClock` (the clock stops),
`MaxApprovals` (approvals by Kakao), `MaxFailures` (storage errors of the clean-up), `MaxRow` (rows ever saved), `MaxVersion`
(snapshots), `MaxCalls` (calls of a picker on their way; beyond it, aborted ones
are not answered), `MaxEdits` (what the visitor does with the form), and in the
scenes `faults`, `changes`, `horizon` and `rounds` (failures, changes of a source,
the end of time, syncs). The theorems hold for every value of them.

**Deadlock** is checked where the system has no end. It really stops in the two
promotion runs, when every id is used up or a key file was left half written, and
in `history`, `preview` and `institutions`, when a scene is played to its end.

**Fairness.**
* `Retention`: a run comes to an end, an exception is caught where it was raised, and
  the sleeps of an hour end (`WF` of `RunEnds`, `Supervise`, `RunAgain`). Storage errors
  and restarts interfere; errors are finitely many (`MaxFailures`), since a file that
  fails for ever cannot be cleaned. A run uses the clock it read, and time may pass
  before its commit. An `OSError` outside the two exceptions that are caught
  ends the task; that is left out, and listed with the hazard.
* `JwksCache`: time passes, and Kakao's answer to a refresh arrives or fails
  within the time-out of the HTTP client.
* `SnapshotPromotion`: a command ends (`WF` of leaving), and the stewards run an
  interrupted command again until it gets through once (`SF` of beginning and of
  the steps). Without it, a promotion that is killed for ever never completes.
* `HistoryPanel`: a call is answered or fails, and the visitor does not for ever
  start the list again before its first page has come.
* `TripPreview`: the event loop goes on while a task can, and each call ends within
  its time-out. Nothing is assumed about which task is next.

**What the code does and the documents do not say**

* *An account of somebody else can be deleted* (`accounts_id_reuse`). `DELETE
  /me/data` resolves the session in one call and deletes `users WHERE id = ?` in
  another. If a second request of the same visitor deletes the account in between,
  and a new visitor logs in for the first time, the new account may get the freed
  id, and is deleted. `AUTOINCREMENT`, or deleting by session in one transaction,
  would prevent it. The same reuse lets a preview or settings be filed under
  the new account; `SavesLandInOwnAccount` and `SettingsLandInOwnAccount` name that
  exception (`orphaned`).
* *A map click can select a place at once* (`map_click`). The plan of 2026-08-17
  says that it "presents an explicit confirmable candidate". An arrow key and Enter
  pressed in the emptied box while the address is looked up are remembered and made
  up for when the candidate comes.
* *The button can stay off for a valid form.* The settings dialog accepts any
  parking cost (`index.html:337`), the form only multiples of 100 (`:155`). Settings
  with 150 turn the button off, and correcting the number does not turn it on again,
  because nobody listens to the number inputs; an edit of the schedule does.
  `ButtonFollowsTheForm` names the exception (`unheard`).
* *A school that vanishes before it was classified* is marked as missing, which the
  promotion refuses for unclassified schools (`sync.py:3659`): no later candidate can
  be promoted until it is dealt with by hand. `CleanCandidatesAreServable` names it.
* *An office with a new name is promoted and then stops the service.* The build takes
  the name of an education office from the source as it is, the review, the promotion and the
  verification by the loader do not look at it, but the store works out the facets when
  it is loaded, and those know a fixed list of names (`facets.py:86`, `store.py:106`):
  the next start of the server fails. `AcceptedIsServable` names the exception; it came
  to light when the theorem would not be proved without it.
* Not promised anywhere, but visible in the models: an edit of the schedule gives the
  button back during a calculation, so that two are under way and the older answer may
  come last (`ResultsFitTheForm` excludes what the visitor typed); an arrow up from no option
  leads to the last but one (`Moved`); a detail that is opened late may be of a row
  that was deleted meanwhile, and a refresh with the detail open leaves its buttons
  without effect (`OpenDetail`, `Refresh`); a builder killed between creating and
  filling the key file stops all later ones (`key = "short"`).

## 4. The proofs

| Module | Theorems | Property of a run |
|---|---|---|
| `AccountProofs` | `TypeCorrect`, `ReferentialIntegrity`, `SessionIsolation`, `PrincipalValidity`, `SavesAreFiledRight`, `SettingsAreFiledRight`, `LossesAreAskedFor`, `AnswersTellEffects`, `SupervisionAddsNothing` | `RowsHaveAccounts`, `SessionsKeepTheirSubject`, `PrincipalStaysValid`, `SavesLandInOwnAccount`, `SettingsLandInOwnAccount`, `LiveRowsLeaveForACause`, `AnswersMatchEffects` |
| `LoginProofs` | `TypeCorrect`, `LoginIntegrity`, `AttemptCap`, `OneTime` | `LoginsAreApproved`, `AttemptsStayBounded`, `ImplementsOneTimeLogin` |
| `JwksProofs` | `TypeCorrect`, `RefusalsAreJust` | `OnlyWithdrawnKeysAreRefused` |
| `PromotionProofs` | `TypeCorrect`, `PointerIntegrity`, `PhasesAreTrue`, `ApprovedOnce`, `PointerIsARegister` | `OnlyApprovedIsReliedOn`, `TransactionsDoNotRunAhead`, `ApprovalIsGivenOnce`, `ImplementsPublishedPointer` |
| `PickerProofs` | `PickersTypeCorrect`, `ListsAnswerTheForm`, `SelectionsAreNamed`, `NothingIsLeftWaiting` | `OptionsAnswerTheForm`, `SelectionIsNamed`, `NothingWaitsForEver` |
| `PageProofs` | `PanelTypeCorrect`, `PagesAlwaysFit`, `DeletedRowsAreGone`, `NothingIsShownToNobody`, and of the page `PageTypeCorrect`, `PageImplementsPanel`, `ResultsAreForThisForm`, `NothingOfTheSettingsStays`, `ButtonIsOffForACause` | `PagesFitTogether`, `DeletedRowsStayAway`, `LoggedOutShowsNothing`, `ResultsFitTheForm`, `SettingsLeaveWithTheSession`, `ButtonFollowsTheForm` |
| `PreviewProofs` | `ServiceInvariant`, `PermitsAreKept`, `VisitorsAreLimited`, `AnswersAreToTheQuestion`, `NoRoutesHaveAReason`, `HiddenRoutesAreNearDuplicates`, `MatchingsAreFound`, `RoutesAreDrawnAlongTheOnlyMatch`, `DecisionsStand`, and of the rules `LowerBoundsStandTheorem`, `DailyCeilingHolds`, `LongerNeverPaysLess` | `AdmissionsAreLimited`, `AnswersFitTheQuestion`, `EmptyModesSayWhy`, `OnlyNearDuplicatesAreHidden`, `GeometryIsTheOnlyMatch`, `LowerBoundsStand` |
| `InstitutionProofs` | `SnapshotInvariant`, `NothingVanishes`, `AcceptedCanBeServed`, `VisitInvariant`, `PagesAreComplete`, `ReviewedCountsAreThere`, `CleanCanBeServed` | `InstitutionsNeverVanish`, `PagesListEveryMatchOnce`, `ReviewedCountsHold`, `CleanCandidatesAreServable` (one half of which is `AcceptedCanBeServed`) |

All hold for any sets of visitors, tokens, requests, keys, snapshots, builders,
stewards, rows, places and scenes, and any times to live; the assumptions are those
named in the modules: which sets are natural numbers, that the value for "none" is no
member of a set (`LoginAssumption`, `NoneAssumption`, `PickerAssumption`,
`SourceAssumption`, ...), that a snapshot lists no site twice (`PickerAssumption`),
in the `SceneAssumption` of the preview that a scene asks for legs it describes, of
providers its modes have (`ProvidersOf`), and that a route which keeps to the schema has
a natural distance and duration (the parsers refuse every other one: `_integer` in
`kakao_mobility.py`), that `MaxRoutes` is 1 to 100 (`seoul_transit.py:80`); in that of
the institutions that a source lists rows it has, that an id says which source it is of,
as its prefix does in the code (`sync.py:78`), that reviewed lists are
finite and name no unclassified schools (`sync.py:83`), that a profile counts no kind
zero times (`school_count_profile.py:134`) and at most `MaxDropped` schools of a kind that is not
listed (the pinned profile has one, the recheck lets 50 pass: `sync.py:3222`), and that visitors ask for pages of at least
one line; and that ranks are numbers (`RanksAssumption`).

* **Accounts.** None of the properties is inductive. The invariant adds that
  users are keyed by id and by subject (`UsersAreKeyed`), that a session row was
  issued as a cookie (`TokensAreIssued`), and that rows have accounts. Keys are
  what makes the reuse of an id harmless for sessions: a session goes with its
  account, in the same cascade, so that no row is left to lead to the next holder.
  A handler's principal is different: nothing keeps it in step, and the invariant
  holds only until the account is deleted, which is where the violation above
  comes from. A process with its supervised task takes only steps of `AccountApi`
  (`SupervisionAddsNothing`): the clock of a run is never ahead, and a run that raises
  after its commit is a clean-up all the same.
* **Login.** The phase of an attempt is a function of its row, of the callbacks
  and of the logins; who holds it is the set of callbacks past the spending
  (`Holders`), and what was granted for it the set of sessions handed out (`Granted`).
  The invariant says that at most one of the phases fits (`OnePhase`), that a callback
  past the spending holds an approved attempt whose row is spent
  (`HandlersAreApproved`), and hence that nobody else holds it (`OneHolder`). From it
  every step maps to a step of `OneTimeLogin`, or changes neither phases, holders nor
  sessions: a second callback on a spent attempt would be no step of it. The cap holds because counting and inserting are
  one transaction, although the time it counts by is old.
* **JWKS.** An answer of Kakao on its way holds every key that has not been
  withdrawn since it was asked for (`AnswersAreRecent`), and a second look is only
  made into such an answer.
* **Promotion.** At most one steward is past the lock (`OneAtATime`); what it holds
  in its locals is what is on disk (`Holding`); files and transaction agree in each
  phase (`Files`); and a published version that is no longer current was followed
  by an approved one built on it (`Followed`), which is what refutes a promotion
  that would publish over a version its candidate was not compared with.
* **Pickers.** A call whose request id still counts was made for the text and the
  filters on screen, and the page it asks for is the one after the options shown; so
  what it brings continues the list. Keys are pending only while such a call, or the
  timer before it, is there to make up for them.
* **History panel.** A page whose generation still counts continues the list on
  screen, up to rows deleted since; when the list was outdated before it came, it was
  also started afresh. A deleted row is neither on screen nor in an answer that counts.
* **Page.** Every step of the page is a step of the panel or leaves the panel alone
  (`PageImplementsPanel`), so that the panel's theorems hold for the page. Of its own,
  a calculation whose revision still counts was asked with the form on screen, and
  a value of settings is in the form only in the session those were loaded in.
* **Preview.** The bucket of the current window counts exactly the admitted of that
  window. Permits and their holders add up; the queue of the semaphore holds the tasks
  that wait, but while a permit changes hands one is on neither side. What the cache
  holds stands under the key of its own mode and leg, so a task that looks up, waits
  and stores cannot give a leg another one's routes, however long it waited. What is
  heard, found and cached are routes of the mode with ids of their own, and every
  collection was built from routes that were found or has a warning; joining the modes
  and dropping near-duplicates leaves at least one route where there was one, so that a
  mode without routes has its warning still (`EmptyModesSayWhy`), and a route that is
  hidden is close to one that is shown (`OnlyNearDuplicatesAreHidden`). Sorting is
  given by places (`Place`), which `PlacesAreTaken` proves to be a bijection of any
  finite set in a strict order; the folds are unfolded by the least number at which
  they could fail (`LeastNatural`).
* **Matching.** `MatchingsAreFound` says that the augmenting search of
  `_find_perfect_geometry_matching` is right for any candidates. A recursive function is
  only chosen in TLA+, so the first step is that there is one to choose: a nested search
  has seen one candidate more, and a recursion that goes to smaller measures has a fixed
  point (`RecursionIsDefined`). Induction over what is not yet seen then gives what a
  search does (`SearchesAreRight`): if it succeeds, the owners outside what was seen are
  those from before and the one it was for, each with a candidate of its own; if it
  fails, no owner changed and whoever owns a candidate it saw may have none that it did
  not see, so that those owners and the one it was for are too many for their candidates
  and no perfect matching exists (`TooManyForThem`, by the pigeonhole principle). A
  matching is the only one if none is left when any of its pairs is forbidden
  (`NoOtherMatching`), which is what the code asks; `GeometryIsTheOnlyMatch` follows with
  the invariant that whatever was found, or cached, was supplemented in that way.
* **Rules.** The rules are functions, and the theorems are about every rule set the
  constructor accepts and every input: a decision on a one-way distance splits on
  where that distance lies between the inclusive and the exclusive limit, and each
  side is closed under longer trips. In the service (`DecisionsStand`) the invariant adds
  that every distance that is heard, found or cached is a natural number
  (`DistancesAreHeard`), and that an answered request is for a day with a rule
  (`AnswersHaveRules`); that the rule in force exists is the least-number principle
  (`LeastNatural`), which is proved from the pigeonhole principle, since the induction
  theorems of the library cannot be instantiated.
* **Institutions.** A candidate is built on the snapshot that is published while it is
  built, and only one promotion can use it; what the build marks as missing keeps its
  id and its fields, so that nothing leaves the published snapshot unmarked. For the
  other theorem: all that the loader checks beyond the promotion (when records were
  last seen, rows of each source, no unclassified counts elsewhere) is what the
  build leaves true, but for the names of offices. Records are told apart by their ids
  and finite in number (`Keyed`), from the rows of the sources on through the
  coordinates to the snapshot, so that rank, name and id order the matches strictly and
  each has a place of its own. Numbers of snapshots rise from candidate to published to
  served, so that a page with the number of what is served was cut from it
  (`VisitInv`); and a page begins where the one before it ended (`Continue`). The
  lines of all pages are then the places of all matches: an induction over the steps of
  the visit, not over lists.
* **Counts.** `ReviewedCountsHold` compares institutions with a profile, and the sync
  compared rows with it: the two agree because no row was counted twice. The build
  asks that there be as many different records as rows, kind by kind the places of the
  rows and the institutions made of them correspond one to one (`BijectionCounts`), and a
  sum of counts is the number of what they count (`TotalIsCount`), so that no sum over a
  set is unfolded by induction.
* **The judges.** That a clean candidate is accepted is proved check by check
  (`SourcesAreRechecked` to `QualityIsRechecked`). What is current passes as the build
  counted it; what was kept from before and marked as missing needs an invariant of its
  own: that every site belongs to an institution, and a school of a register has no
  site but the main one (`RootedInv`). That the number of schools is not that of the
  sample NEIS answers with when it knows no key holds while they are read (`TotalInv`). That the candidate
  remains acceptable until it is promoted (`CleanInv`) is the invariant itself, since
  what it is compared with, the published snapshot, changes with the promotion alone.

Only model-checked is liveness (`ExpiredRowsAreRemoved`, `IdleAccountsAreRemoved`,
`InterruptedPromotionsComplete`, `SavedTripsAreListed`, `PreviewsEnd` and
`WithdrawnKeysAgeOut`), which this prover does not do under fairness.

That no expired row is served is no property of its own: the clean-up and the SELECT are
one transaction (`history.py:140`), so that the answer is by definition what the clean-up
left (`RowsFor`).

## 5. What is not modelled

* The release pipeline (`scripts/release-gate.sh`, `deploy/nas/*.sh`): drivers
  around docker, git and ssh whose difficulty is in what those tools do; only their
  order could be modelled, and one command runs at a time.
* Settings of the process, contracts, cipher, geodata, one-shot tools: sequential,
  over data that stands for itself in the models; their tests reach them well.
* Of the sources: how fields, spreadsheets and texts are parsed. Of a snapshot:
  digests (in `SnapshotPromotion` one verdict), dates, possible matches, the packet
  for the review and its diff. Of the providers: the address search of
  `kakao_local.py` but for its verdict, and size limits other than the number of routes.
* HTTP, cryptography, SQLite, file systems, Kakao: external, by what the code
  relies on. A rename is atomic, a commit is durable, a signature is not forged.
* Of modelled components: rendering, focus, log lines, the content of previews and
  snapshots, the status codes that change nothing (403, 422, 429); the facets of
  the filters; `destroy()` in the browser.

## 6. Plan

Done: models and runs of all parts above; theorems for every part. Left:

1. **A server that starts at any step of a promotion**: the loader of
   `InstitutionSnapshots` behind the steps of `SnapshotPromotion`.
2. **The facets of the filters** in `Pickers`, whose answers are only guarded by a
   request id.
