------------------------- MODULE InstitutionSources -------------------------
(***************************************************************************)
(* How a sync reads the sources of institutions (app/institutions/sources):*)
(* the pages of NEIS and of the kindergarten register, which go on living  *)
(* while they are read, the reviewed list of the education office, what a  *)
(* row becomes, the counts it is held against, and its coordinates.        *)
(*                                                                         *)
(* A row and an institution are known by a number; names are numbers too,  *)
(* in their order, and addresses say what the code looks at: whether they  *)
(* are in Seoul by their text, and whether their white space is single.    *)
(* Left out: dates, digests of what is pinned, and the shape of documents. *)
(***************************************************************************)
EXTENDS Naturals, FiniteSets, SequencesExt

CONSTANTS
    PageSize,  \* rows asked for at a time
    MaxPages,  \* pages a source may have
    MaxRows,   \* rows NEIS may declare
    Sample,    \* rows of the sample NEIS answers with when it knows no key
    None

ASSUME SourceAssumption ==
    PageSize \in Nat \ {0} /\ None \notin {"SEOUL", "OUTSIDE"} /\ None \notin Nat

Population == {"NEIS", "KINDERGARTEN_INFO"}
Source == Population \cup {"SEN_REVIEWED_CSV"}

\* The kinds of NEIS, and what they are to the service.
TypeOfKind ==
    [PRIMARY |-> "ELEMENTARY_SCHOOL", MIDDLE |-> "MIDDLE_SCHOOL", HIGH |-> "HIGH_SCHOOL",
     SPECIAL |-> "SPECIAL_SCHOOL", FOREIGN |-> "MISC_SCHOOL",
     BROADCAST_MIDDLE |-> "MIDDLE_SCHOOL", BROADCAST_HIGH |-> "HIGH_SCHOOL",
     OTHER_PRIMARY |-> "MISC_SCHOOL", OTHER_MIDDLE |-> "MISC_SCHOOL",
     OTHER_HIGH |-> "MISC_SCHOOL", TECHNICAL |-> "MISC_SCHOOL"]
Nonselectable == {"SHARED_WORKSHOP"}
Unclassified == "UNCLASSIFIED_SCHOOL"
TypeOf(kind) == IF kind \in DOMAIN TypeOfKind THEN TypeOfKind[kind] ELSE Unclassified

\* A reviewed profile: how many rows of each kind there are.  The kinds that
\* are neither known nor unselectable are the ones the policy quarantines.
Quarantined(profile) == DOMAIN profile.NEIS \ (DOMAIN TypeOfKind \cup Nonselectable)
IsSupported(kind, profile) ==
    kind \in DOMAIN TypeOfKind \cup Nonselectable \cup Quarantined(profile)

-----------------------------------------------------------------------------
(* Reading pages *)

\* What a source that is asked for page n of its listing answers.
PageOf(listing, n) ==
    LET last == n * PageSize
    IN SubSeq(listing, (n - 1) * PageSize + 1, IF last < Len(listing) THEN last ELSE Len(listing))

NothingRead == [total |-> 0, ids |-> <<>>, pages |-> {}, region |-> 1]
NextPageNumber(reading) == Cardinality(reading.pages) + 1

\* NEIS declares a total with each page, and every page but the last is full.
NeisPageIsSound(reading, total, page, kinds, profile) ==
    LET read == Len(reading.ids) + Len(page)
    IN /\ NextPageNumber(reading) <= MaxPages
       /\ IF reading.total = 0
          THEN total # Sample /\ total \in 1..MaxRows /\ total <= MaxPages * PageSize
          ELSE total = reading.total
       /\ read <= total
       /\ read < total => Len(page) = PageSize
       /\ page \notin reading.pages
       /\ \A i \in DOMAIN page : IsSupported(kinds[page[i]], profile)
NeisReadOn(reading, total, page) ==
    [reading EXCEPT !.total = total, !.ids = @ \o page, !.pages = @ \cup {page}]
NeisIsRead(reading) == reading.total # 0 /\ Len(reading.ids) = reading.total

\* The kindergarten register is asked district by district, until a page is
\* short.  There is no total.
KindergartenPageIsSound(reading, page) ==
    NextPageNumber(reading) <= MaxPages /\ page \notin reading.pages
KindergartenReadOn(reading, page) ==
    IF Len(page) < PageSize
    THEN [reading EXCEPT !.ids = @ \o page, !.pages = {}, !.region = @ + 1]
    ELSE [reading EXCEPT !.ids = @ \o page, !.pages = @ \cup {page}]
KindergartensAreDistinct(ids) == IsInjective(ids)

-----------------------------------------------------------------------------
(* Records *)

Main == 1  \* the code of the main site

Site(address, district, coordinate, quality) ==
    [address |-> address, district |-> district, coordinate |-> coordinate,
     quality |-> IF coordinate = None THEN "MISSING" ELSE quality]

Record(id, source, row, type, kind, sites) ==
    [id |-> id, source |-> source, name |-> row.name, type |-> type, kind |-> kind,
     foundation |-> row.foundation, office |-> row.office, sites |-> sites]

\* NEIS has no coordinates.
NeisRecord(id, row) ==
    Record(id, "NEIS", row, TypeOf(row.kind), row.kind,
           [code \in {Main} |-> Site(row.address, row.district, None, "MISSING")])
KindergartenRecord(id, row) ==
    Record(id, "KINDERGARTEN_INFO", row, "KINDERGARTEN", None,
           [code \in {Main} |->
              Site(row.address, row.district, row.coordinate, "SOURCE_COORDINATE")])
\* A row of the reviewed list names the main site and may name branches.
SenRecord(id, row) ==
    Record(id, "SEN_REVIEWED_CSV", row, row.kind, None,
           [code \in {Main} \cup DOMAIN row.branches |->
              LET at == IF code = Main THEN row ELSE row.branches[code]
              IN Site(at.address, at.district, at.coordinate, "MANUALLY_VERIFIED")])

-----------------------------------------------------------------------------
(* Counts *)

\* Of rows, listed by their places, those that pass the test.
CountOf(rows, Test(_)) == Cardinality({i \in DOMAIN rows : Test(rows[i])})
\* The sum of the counts of some keys, as the number of what they count.
TotalOf(counts, keys) == Cardinality(UNION {{key} \X (1..counts[key]) : key \in keys})

\* validate_unclassified_school_counts, before NEIS is taken as read.
PolicyCountsHold(neis, kinds, profile) ==
    \A kind \in Quarantined(profile) :
      CountOf(neis, LAMBDA id : kinds[id] = kind) = profile.NEIS[kind]

\* bind_school_count_population_profile: the rows of each kind, those left out
\* and those in quarantine included, are as many as the reviewed profile says.
PopulationIsBound(neis, kindergartens, kinds, profile) ==
    /\ \A id \in ToSet(neis) : kinds[id] \in DOMAIN profile.NEIS
    /\ \A kind \in DOMAIN profile.NEIS :
         CountOf(neis, LAMBDA id : kinds[id] = kind) = profile.NEIS[kind]
    /\ Len(kindergartens) = profile.KINDERGARTEN_INFO

\* reconcile_selectable_school_counts: and so are the records made of them.
IsReconciled(selectable, kindergartens, kinds, profile) ==
    /\ \A kind \in DOMAIN profile.NEIS :
         CountOf(selectable, LAMBDA id : kinds[id] = kind)
           = IF kind \in Nonselectable THEN 0 ELSE profile.NEIS[kind]
    /\ Len(kindergartens) = profile.KINDERGARTEN_INFO

-----------------------------------------------------------------------------
(* Coordinates *)

\* enrich_neis_coordinates: the official location of a school is that of its
\* id, or else of its name, type, foundation and address.
SameSchool(record, location) ==
    /\ record.name = location.name
    /\ record.type = location.type
    /\ record.foundation = location.foundation
    /\ record.sites[Main].address.text = location.text
LocationsOf(record, locations) ==
    LET byId == {l \in locations : l.id = record.id}
    IN IF record.source # "NEIS" THEN {}
       ELSE IF byId # {} THEN byId ELSE {l \in locations : SameSchool(record, l)}
\* None of several locations is chosen, and none that is another school's.
LocationIsSound(record, locations) ==
    /\ Cardinality(LocationsOf(record, locations)) <= 1
    /\ \A l \in LocationsOf(record, locations) : SameSchool(record, l)
Located(record, locations) ==
    IF LocationsOf(record, locations) = {} THEN record
    ELSE LET l == CHOOSE l \in LocationsOf(record, locations) : TRUE
         IN [record EXCEPT !.sites[Main].coordinate = l.coordinate,
                           !.sites[Main].quality = "OFFICIAL_STANDARD_COORDINATE"]

\* The sites Kakao is asked about, each with one request.
Unplaced(records) ==
    UNION {{<<r.id, code>> : code \in {c \in DOMAIN r.sites : r.sites[c].coordinate = None}}
             : r \in records}
\* geocode_missing_records: with the coordinate a site gets the address as it
\* was asked for, with single spaces.
Geocoded(record, answers) ==
    [record EXCEPT !.sites =
       [code \in DOMAIN @ |->
          IF <<record.id, code>> \in DOMAIN answers /\ answers[<<record.id, code>>] # None
          THEN [@[code] EXCEPT !.address.tidy = TRUE, !.quality = "GEOCODED",
                               !.coordinate = answers[<<record.id, code>>]]
          ELSE @[code]]]

Enrichments == {"OFFICIAL_STANDARD_COORDINATE", "GEOCODED"}

\* _record_before_enrichment, of which the digest is taken: without what was
\* added later.
BeforeEnrichment(record) ==
    [record EXCEPT !.sites =
       [code \in DOMAIN @ |->
          IF @[code].quality \in Enrichments
          THEN [@[code] EXCEPT !.coordinate = None, !.quality = "MISSING"]
          ELSE @[code]]]
=============================================================================
