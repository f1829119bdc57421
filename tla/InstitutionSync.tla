-------------------------- MODULE InstitutionSync --------------------------
(***************************************************************************)
(* From the sources to the search: syncs (scripts/sync-institutions.py)    *)
(* read sources that change while they are read, build a candidate from    *)
(* them and from the published snapshot, a steward promotes it             *)
(* (approve-institution-snapshot.py), the web service is started again     *)
(* with it, and visitors page through what it serves.                      *)
(*                                                                         *)
(* The steps a promotion may stop between are those of SnapshotPromotion;  *)
(* here it is one step.  Each behaviour plays one scene, which says what   *)
(* the sources hold and what may happen; budgets bound the changes of the  *)
(* sources, the failing requests and the syncs.                            *)
(***************************************************************************)
EXTENDS InstitutionSearch

CONSTANTS Scenes

SchoolRows(s) == {id \in DOMAIN s.rows : s.rows[id].kind # None}
KindergartenRows(s) == {id \in DOMAIN s.rows : s.rows[id].kind = None}
IsReviewed(s, list) ==
    /\ IsFiniteSet(DOMAIN list) /\ DOMAIN list \subseteq Int \ DOMAIN s.rows
    /\ \A id \in DOMAIN list :
         /\ list[id].name \in Int /\ list[id].kind # Unclassified
         /\ IsFiniteSet(DOMAIN list[id].branches) /\ DOMAIN list[id].branches \subseteq Int

\* A scene's sources list rows it has, and an id says which source it is of (as
\* its prefix does in the code); names and ids are in an order, reviewed lists
\* are finite, and visitors ask for queries there are.
ASSUME SceneAssumption ==
    \A s \in Scenes :
        /\ DOMAIN s.rows \subseteq Int /\ \A id \in DOMAIN s.rows : s.rows[id].name \in Int
        /\ s.neis \in Seq(SchoolRows(s)) /\ s.schools \subseteq SchoolRows(s)
        /\ s.kindergartens \in Seq(Seq(KindergartenRows(s)))
        /\ s.others \subseteq KindergartenRows(s)
        /\ \A kind \in DOMAIN s.profile.NEIS :
             /\ s.profile.NEIS[kind] \in Nat \ {0}
             /\ kind \in Nonselectable => s.profile.NEIS[kind] <= MaxDropped
        /\ Len(s.lists) \in Nat \ {0}
        /\ \A i \in 1..Len(s.lists) : IsReviewed(s, s.lists[i])
        /\ \A ask \in s.asks :
             ask.limit \in Nat \ {0} /\ ask.query \in {Blank} \cup DOMAIN Ranks

VARIABLES
    scene,
    neis,           \* ids in the order NEIS lists them
    kindergartens,  \* ids by district, in the order they are listed
    list,           \* which reviewed list the release in use has
    budget,         \* changes and faults left
    sync,           \* the sync under way
    round,          \* snapshots named so far
    candidate,
    published,      \* the current snapshot
    served,         \* the snapshot the web service was started with
    visit           \* the pages a visitor has of one search

sources == <<neis, kindergartens, list>>
vars == <<scene, sources, budget, sync, round, candidate, published, served, visit>>

NoSync == [stage |-> "idle"]

Init ==
    /\ scene \in Scenes
    /\ neis = scene.neis
    /\ kindergartens = scene.kindergartens
    /\ list = 1
    /\ budget = [changes |-> scene.changes, faults |-> scene.faults]
    /\ sync = NoSync
    /\ round = 0
    /\ candidate = None /\ published = None /\ served = None /\ visit = None

Kinds == [id \in DOMAIN scene.rows |-> scene.rows[id].kind]
InUse == ToSet(neis) \cup UNION {ToSet(kindergartens[d]) : d \in DOMAIN kindergartens}

-----------------------------------------------------------------------------
(* The sources *)

Change ==
    /\ budget.changes > 0
    /\ budget' = [budget EXCEPT !.changes = @ - 1]
    /\ UNCHANGED <<scene, sync, round, candidate, published, served, visit>>

CloseSchool ==
    /\ Change
    /\ \E i \in DOMAIN neis : neis[i] \in scene.leaving /\ neis' = RemoveAt(neis, i)
    /\ UNCHANGED <<kindergartens, list>>
\* A school opens, or is listed again, anywhere in the list.
OpenSchool ==
    /\ Change
    /\ \E id \in scene.schools \ InUse, i \in 1..(Len(neis) + 1) : neis' = InsertAt(neis, i, id)
    /\ UNCHANGED <<kindergartens, list>>
CloseKindergarten ==
    /\ Change
    /\ \E d \in DOMAIN kindergartens : \E i \in DOMAIN kindergartens[d] :
         /\ kindergartens[d][i] \in scene.leaving
         /\ kindergartens' = [kindergartens EXCEPT ![d] = RemoveAt(@, i)]
    /\ UNCHANGED <<neis, list>>
OpenKindergarten ==
    /\ Change
    /\ \E d \in DOMAIN kindergartens, id \in scene.others \ InUse :
         \E i \in 1..(Len(kindergartens[d]) + 1) :
           kindergartens' = [kindergartens EXCEPT ![d] = InsertAt(@, i, id)]
    /\ UNCHANGED <<neis, list>>
\* A release of the program brings another reviewed list.
ReleaseList ==
    /\ Change
    /\ list < Len(scene.lists)
    /\ list' = list + 1
    /\ UNCHANGED <<neis, kindergartens>>

-----------------------------------------------------------------------------
(* A sync *)

SyncStep == UNCHANGED <<scene, sources, published, served, visit>>
IsFetching == sync.stage = "fetching"

StartSync ==
    /\ sync = NoSync
    /\ round < scene.rounds
    /\ round' = round + 1
    /\ sync' = [stage |-> "fetching", neis |-> NothingRead, kindergartens |-> NothingRead]
    /\ SyncStep /\ UNCHANGED <<budget, candidate>>

\* A page of NEIS.  One that does not fit ends the sync, as do other counts of
\* the schools in quarantine than the policy's at the end.
ReadNeis ==
    /\ IsFetching
    /\ ~NeisIsRead(sync.neis)
    /\ LET page == PageOf(neis, NextPageNumber(sync.neis))
           on == NeisReadOn(sync.neis, Len(neis), page)
       IN sync' = IF /\ NeisPageIsSound(sync.neis, Len(neis), page, Kinds, scene.profile)
                     /\ NeisIsRead(on) => PolicyCountsHold(on.ids, Kinds, scene.profile)
                  THEN [sync EXCEPT !.neis = on] ELSE NoSync
    /\ SyncStep /\ UNCHANGED <<budget, round, candidate>>

KindergartensAreRead == sync.kindergartens.region > Len(kindergartens)
ReadKindergartens ==
    /\ IsFetching
    /\ ~KindergartensAreRead
    /\ LET reading == sync.kindergartens
           page == PageOf(kindergartens[reading.region], NextPageNumber(reading))
           on == KindergartenReadOn(reading, page)
       IN sync' = IF /\ KindergartenPageIsSound(reading, page)
                     /\ on.region > Len(kindergartens) => KindergartensAreDistinct(on.ids)
                  THEN [sync EXCEPT !.kindergartens = on] ELSE NoSync
    /\ SyncStep /\ UNCHANGED <<budget, round, candidate>>

\* A request fails at both attempts, or the sync is stopped.
FailRequest ==
    /\ IsFetching
    /\ budget.faults > 0
    /\ budget' = [budget EXCEPT !.faults = @ - 1]
    /\ sync' = NoSync
    /\ SyncStep /\ UNCHANGED <<round, candidate>>

SelectableIds(ids) == [i \in {j \in DOMAIN ids : Kinds[ids[j]] \notin Nonselectable} |-> ids[i]]
FetchedNeis ==
    {NeisRecord(id, scene.rows[id])
       : id \in {row \in ToSet(sync.neis.ids) : Kinds[row] \notin Nonselectable}}
FetchedKindergartens ==
    {KindergartenRecord(id, scene.rows[id]) : id \in ToSet(sync.kindergartens.ids)}
FetchedList == {SenRecord(id, scene.lists[list][id]) : id \in DOMAIN scene.lists[list]}
\* How many rows they were made of; one that was listed twice counts twice.
FetchedRows ==
    Cardinality(DOMAIN SelectableIds(sync.neis.ids)) + Len(sync.kindergartens.ids)
      + Cardinality(DOMAIN scene.lists[list])

\* What each source says it delivered.
Fetched ==
    [source \in Source |->
       CASE source = "NEIS" ->
              [count |-> Len(sync.neis.ids), records |-> FetchedNeis,
               unclassified |-> [k \in Quarantined(scene.profile) |->
                                   CountOf(sync.neis.ids, LAMBDA id : Kinds[id] = k)]]
         [] source = "KINDERGARTEN_INFO" ->
              [count |-> Len(sync.kindergartens.ids), records |-> FetchedKindergartens,
               unclassified |-> <<>>]
         [] source = "SEN_REVIEWED_CSV" ->
              [count |-> MapThenSumSet(LAMBDA r : Cardinality(DOMAIN r.sites), FetchedList),
               records |-> FetchedList, unclassified |-> <<>>]]

\* What is known to be the case before Kakao is asked.
MayBeEnriched ==
    /\ \A r \in FetchedNeis : LocationIsSound(r, scene.locations)
    /\ PopulationIsBound(sync.neis.ids, sync.kindergartens.ids, Kinds, scene.profile)
    /\ IsReconciled(SelectableIds(sync.neis.ids), sync.kindergartens.ids, Kinds, scene.profile)

\* The rest of the sync, from the coordinates to the candidate; candidates of
\* earlier syncs are given up.
Build ==
    /\ IsFetching
    /\ NeisIsRead(sync.neis) /\ KindergartensAreRead
    /\ sync' = NoSync
    /\ LET known == {Located(r, scene.locations) : r \in FetchedNeis}
                      \cup FetchedKindergartens \cup FetchedList
           asked == Unplaced(known) # {}
       IN \E answers \in [Unplaced(known) -> scene.answers] :
            LET records == {Geocoded(r, answers) : r \in known}
                built == Candidate(records, Fetched, asked, published, round)
            IN candidate' =
                 IF /\ MayBeEnriched
                    /\ RecordsAreSound(records, FetchedRows)
                    /\ ProvenanceIsSound(records, Fetched)
                    /\ EnrichmentsAreKnown(built, asked, published)
                 THEN built ELSE candidate
    /\ SyncStep /\ UNCHANGED <<budget, round>>

-----------------------------------------------------------------------------
(* Promotion, service and visitors *)

\* What the promotion approves it verifies as the web service will, before the
\* pointer is moved.
Promote ==
    /\ candidate # None
    /\ Accepts(candidate, published, scene.profile)
    /\ Verifies(candidate, scene.profile)
    /\ published' = candidate
    /\ candidate' = None
    /\ UNCHANGED <<scene, sources, budget, sync, round, served, visit>>

\* The service does not start on a snapshot it cannot load.
Restart ==
    /\ published # None
    /\ served # published
    /\ served' = IF Verifies(published, scene.profile) /\ Loads(published) THEN published ELSE None
    /\ UNCHANGED <<scene, sources, budget, sync, round, candidate, published, visit>>

PageFor(ask, offset) == SearchPage(served, ask.query, ask.filter, ask.limit, offset)

Search ==
    /\ served # None
    /\ \E ask \in scene.asks : visit' = [ask |-> ask, pages |-> <<PageFor(ask, 0)>>]
    /\ UNCHANGED <<scene, sources, budget, sync, round, candidate, published, served>>

NextPage ==
    /\ served # None /\ visit # None
    /\ Last(visit.pages).next # None
    /\ visit' = [visit EXCEPT !.pages = Append(@, PageFor(visit.ask, Last(@).next))]
    /\ UNCHANGED <<scene, sources, budget, sync, round, candidate, published, served>>

Next ==
    \/ CloseSchool \/ OpenSchool \/ CloseKindergarten \/ OpenKindergarten \/ ReleaseList
    \/ StartSync \/ ReadNeis \/ ReadKindergartens \/ FailRequest \/ Build
    \/ Promote \/ Restart \/ Search \/ NextPage

Spec == Init /\ [][Next]_vars

-----------------------------------------------------------------------------
(* Properties *)

\* What a visitor once could find does not leave the snapshots without a trace:
\* over any number of syncs an institution and each of its sites stays, current
\* or marked as missing (_preserve_missing_records).
InstitutionsNeverVanish ==
    [][published # None =>
         /\ Ids(published.institutions) \subseteq Ids(published'.institutions)
         /\ SiteIds(published.sites) \subseteq SiteIds(published'.sites)]_published

\* What the promotion accepts the web service verifies, and it can load it but
\* for an office under a name it does not know: the sources may say any name,
\* and nobody looks before the service starts (facets.py:74-86, store.py:106).
AcceptedIsServable ==
    candidate # None /\ Accepts(candidate, published, scene.profile) =>
        /\ Verifies(candidate, scene.profile)
        /\ (\A i \in Active(candidate.institutions) : IsKnownOffice(i.office)) => Loads(candidate)

\* The three judges agree: a candidate the build calls clean is accepted, unless
\* a school in quarantine went missing, and what is accepted can be served.
CleanCandidatesAreServable ==
    /\ /\ candidate # None
       /\ candidate.clean
       /\ \A i \in candidate.institutions : i.type = Unclassified => IsCurrent(i)
       => Accepts(candidate, published, scene.profile)
    /\ AcceptedIsServable

\* However the sources changed while they were read: a candidate has as many
\* different current institutions of each type as the reviewed profile says.
ReviewedCountsHold ==
    candidate # None =>
        /\ CountsOf({i \in OfSource("NEIS", candidate.institutions) : IsCurrent(i)},
                    LAMBDA i : i.type) = TypesOfProfile(scene.profile)
        /\ Cardinality({i \in OfSource("KINDERGARTEN_INFO", candidate.institutions) : IsCurrent(i)})
             = scene.profile.KINDERGARTEN_INFO

Wanted(filter, field) == IF field = "office" THEN filter[field].of ELSE filter[field]
AsksOnlyFor(ask, field) ==
    /\ ask.query = Blank
    /\ {f \in Fields : ask.filter[f] # None} = {field}
    /\ field = "office" => IsKnownOffice(ask.filter[field])
    /\ Wanted(ask.filter, field) \in DOMAIN Facet(served, field)

\* The pages of a search, read to the last from one snapshot, list every site
\* that fits once and no other, and for a filter of one field as many as the
\* facet beside it says.
PagesListEveryMatchOnce ==
    visit # None /\ Last(visit.pages).next = None =>
      LET pages == visit.pages
          ask == visit.ask
          places == UNION {{i} \X DOMAIN pages[i].items : i \in DOMAIN pages}
          listed == [place \in places |-> pages[place[1]].items[place[2]]]
      IN (served # None /\ \A i \in DOMAIN pages : pages[i].snapshot = served.id) =>
           /\ IsInjective(listed)
           /\ Range(listed) = {item \in Items(served) : Fits(item, ask.filter)
                                                        /\ FitsQuery(ask.query, item)}
           /\ \A field \in Fields : AsksOnlyFor(ask, field) =>
                Cardinality(places) = Facet(served, field)[Wanted(ask.filter, field)]
=============================================================================
