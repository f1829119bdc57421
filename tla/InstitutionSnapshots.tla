------------------------ MODULE InstitutionSnapshots ------------------------
(***************************************************************************)
(* What a snapshot of the institutions holds, and the three places that    *)
(* judge it, each with code of its own: the build (sync.py,                *)
(* build_candidate_snapshot), the promotion, which believes nothing the    *)
(* build wrote (the _recheck functions of sync.py), and the web service    *)
(* that loads it (snapshot.py and store.py).                               *)
(*                                                                         *)
(* The manifest is kept as far as it is compared with the records.  Left   *)
(* out: digests of files, what is pinned (names, licences, the digests of  *)
(* the sources), dates, possible matches, and lineages, which the build    *)
(* leaves empty.                                                           *)
(***************************************************************************)
EXTENDS InstitutionSources, FiniteSetsExt

CONSTANTS
    CoordinatePercent,  \* least share of institutions with a sound place
    ActivePercent,      \* least share of the active institutions of before
    MaxDropped,         \* rows of NEIS there may be without an institution, 50
    Office,             \* education offices
    SupportOffice       \* those that are district offices of Seoul's

ASSUME DroppedAssumption == MaxDropped \in Nat

-----------------------------------------------------------------------------
(* Building *)

\* A site takes part in searches if its place is in Seoul by text and by map.
SiteStatus(type, site) ==
    IF type # Unclassified /\ site.coordinate = "SEOUL" /\ site.address.seoul
    THEN "ACTIVE" ELSE "REVIEW_REQUIRED"

InstitutionOf(record, snapshot) ==
    [id |-> record.id, source |-> record.source, name |-> record.name, type |-> record.type,
     foundation |-> record.foundation, office |-> record.office,
     status |-> SiteStatus(record.type, record.sites[Main]),
     statusSource |-> IF record.type = Unclassified THEN "OFFICIAL_CLASSIFICATION_PENDING"
                      ELSE record.source,
     lastSeen |-> snapshot]
SitesOf(record) ==
    {[parent |-> record.id, code |-> code, address |-> record.sites[code].address,
      district |-> record.sites[code].district, coordinate |-> record.sites[code].coordinate,
      quality |-> record.sites[code].quality,
      status |-> SiteStatus(record.type, record.sites[code])] : code \in DOMAIN record.sites}

Missing == "MISSING_FROM_SOURCE"
Ids(institutions) == {i.id : i \in institutions}
SiteIds(sites) == {<<s.parent, s.code>> : s \in sites}

\* _preserve_missing_records: what the sources no longer have is kept, also what
\* they had not had for a while, and also single sites.
PreservedInstitutions(institutions, previous, snapshot) ==
    {[old EXCEPT !.status = Missing, !.statusSource = "MISSING_FROM_SOURCE_GATE",
                 !.lastSeen = snapshot]
       : old \in {o \in previous.institutions : o.id \notin Ids(institutions)}}
PreservedSites_once(sites, previous) ==
    {[old EXCEPT !.status = Missing]
       : old \in {o \in previous.sites : /\ <<o.parent, o.code>> \notin SiteIds(sites)
                                         /\ o.status # Missing}}
PreservedSites(sites, previous) ==
    {[old EXCEPT !.status = Missing]
       : old \in {o \in previous.sites : <<o.parent, o.code>> \notin SiteIds(sites)}}

IsCurrent(institution) == institution.status # Missing
Selectable(institutions) == {i \in institutions : IsCurrent(i) /\ i.type # Unclassified}
Active(institutions) == {i \in institutions : i.status = "ACTIVE"}
CoordinatesSuffice(institutions) ==
    100 * Cardinality(Active(Selectable(institutions)))
      >= CoordinatePercent * Cardinality(Selectable(institutions))
ActiveSuffice(institutions, previous) ==
    previous # None =>
      100 * Cardinality(Active(institutions))
        >= ActivePercent * Cardinality(Active(previous.institutions))

RecordsAreSound_sources(records, rows) == {r.source : r \in records} = Source
\* What the build asks of the records it has of so many rows: no id twice, and
\* every source.
RecordsAreSound(records, rows) ==
    /\ Cardinality(records) = rows
    /\ {r.source : r \in records} = Source

\* Of a current institution without the sites that went missing.
Fingerprint(institutions, sites) ==
    {BeforeEnrichment(
       [id |-> i.id, type |-> i.type, name |-> i.name, foundation |-> i.foundation,
        office |-> i.office,
        sites |-> [code \in {s.code : s \in {t \in sites : t.parent = i.id /\ t.status # Missing}} |->
                     LET s == CHOOSE s \in sites : s.parent = i.id /\ s.code = code
                     IN Site(s.address, s.district, s.coordinate, s.quality)]]) : i \in institutions}
RecordPrint(record) ==
    BeforeEnrichment([id |-> record.id, type |-> record.type, name |-> record.name,
                      foundation |-> record.foundation, office |-> record.office,
                      sites |-> record.sites])

OfSource(source, institutions) == {i \in institutions : i.source = source}
CountsOf(things, Key(_)) ==
    [key \in {Key(t) : t \in things} |-> Cardinality({t \in things : Key(t) = key})]
Counts(institutions, sites) ==
    [types |-> CountsOf(institutions, LAMBDA i : i.type),
     foundations |-> CountsOf(institutions, LAMBDA i : i.foundation),
     statuses |-> CountsOf(institutions, LAMBDA i : i.status),
     qualities |-> CountsOf(sites, LAMBDA s : s.quality)]

\* Whether a site and its institution are there, not kept from before.
IsPresent(site, institutions) ==
    site.status # Missing /\ \E i \in institutions : i.id = site.parent /\ IsCurrent(i)
Matched(quality, institutions, sites) ==
    LET all == {s \in sites : s.quality = quality}
    IN [current |-> {s \in all : IsPresent(s, institutions)},
        preserved |-> {s \in all : ~IsPresent(s, institutions)}]
UsedEnrichments(sites) == {s.quality : s \in sites} \cap Enrichments

\* The manifest says of each source how many rows it had, which of them the
\* snapshot took over, and how many it keeps from before; and of each service
\* that gave coordinates the same of sites.
SourceEntries(institutions, fetched) ==
    [source \in Source |->
       LET rows == OfSource(source, institutions)
       IN [fetched |-> fetched[source].count,
           print |-> {RecordPrint(r) : r \in fetched[source].records},
           normalized |-> Cardinality({i \in rows : IsCurrent(i)}),
           preserved |-> Cardinality({i \in rows : ~IsCurrent(i)}),
           unclassified |-> fetched[source].unclassified]]
EnrichmentEntries(used, institutions, sites) ==
    [quality \in used |-> Matched(quality, institutions, sites)]

\* A candidate: clean says that the build found no issue, previous which
\* snapshot it was compared with.
Candidate(records, fetched, asked, previous, snapshot) ==
    LET current == {InstitutionOf(r, snapshot) : r \in records}
        here == UNION {SitesOf(r) : r \in records}
        institutions == current \cup IF previous = None THEN {}
                                     ELSE PreservedInstitutions(current, previous, snapshot)
        sites == here \cup IF previous = None THEN {} ELSE PreservedSites(here, previous)
        used == {"OFFICIAL_STANDARD_COORDINATE"} \cup UsedEnrichments(sites)
                  \cup IF asked THEN {"GEOCODED"} ELSE {}
    IN [id |-> snapshot, institutions |-> institutions, sites |-> sites,
        previous |-> IF previous = None THEN None ELSE previous.id,
        clean |-> CoordinatesSuffice(current) /\ ActiveSuffice(current, previous),
        sources |-> SourceEntries(institutions, fetched),
        enrichments |-> EnrichmentEntries(used, institutions, sites),
        counts |-> Counts(institutions, sites)]

\* The build takes nothing for granted that the sync before it did: what was
\* normalised is what was fetched, but for the coordinates.
ProvenanceIsSound(records, fetched) ==
    /\ \A source \in Source :
         {RecordPrint(r) : r \in {q \in records : q.source = source}}
           = {RecordPrint(r) : r \in fetched[source].records}
    /\ fetched["SEN_REVIEWED_CSV"].count = Cardinality(fetched["SEN_REVIEWED_CSV"].records) + 1
\* What coordinates kept from before came from must be known from before.
EnrichmentsAreKnown(candidate, asked, previous) ==
    previous # None =>
      UsedEnrichments(candidate.sites)
        \subseteq {"OFFICIAL_STANDARD_COORDINATE"} \cup DOMAIN previous.enrichments
                  \cup IF asked THEN {"GEOCODED"} ELSE {}

-----------------------------------------------------------------------------
(* Promoting *)

PendingSoFar(institutions, sites) ==
    /\ \A i \in institutions : i.type = Unclassified =>
         i.status = "REVIEW_REQUIRED" /\ i.statusSource = "OFFICIAL_CLASSIFICATION_PENDING"
    /\ \A s \in sites, i \in institutions :
         i.id = s.parent /\ i.type = Unclassified => s.status = "REVIEW_REQUIRED"

RecheckRecords(c) ==
    /\ c.counts = Counts(c.institutions, c.sites)
    /\ \A s \in c.sites : s.parent \in Ids(c.institutions)

RecheckSources_allSites(c) ==
    \A source \in DOMAIN c.sources :
      LET rows == OfSource(source, c.institutions)
          entry == c.sources[source]
      IN /\ entry.normalized = Cardinality({i \in rows : IsCurrent(i)})
         /\ entry.preserved = Cardinality({i \in rows : ~IsCurrent(i)})
         /\ entry.print = Fingerprint({i \in rows : IsCurrent(i)},
                                      {[s EXCEPT !.status = "ACTIVE"] : s \in c.sites})
\* _recheck_source_provenance: the digest of what was fetched comes out again
\* of the current rows.
RecheckSources(c) ==
    \A source \in DOMAIN c.sources :
      LET rows == OfSource(source, c.institutions)
          entry == c.sources[source]
      IN /\ entry.normalized = Cardinality({i \in rows : IsCurrent(i)})
         /\ entry.preserved = Cardinality({i \in rows : ~IsCurrent(i)})
         /\ entry.print = Fingerprint({i \in rows : IsCurrent(i)}, c.sites)

UnclassifiedSum(entry) == TotalOf(entry.unclassified, DOMAIN entry.unclassified)

\* The rows of NEIS in quarantine, those kept from before included, are as many
\* as the policy says.
RecheckUnclassified(c) ==
    \A source \in DOMAIN c.sources :
      UnclassifiedSum(c.sources[source])
        = Cardinality({i \in OfSource(source, c.institutions) : i.type = Unclassified})

\* NEIS has a few rows the service does not take, and the reviewed list has one
\* row more than institutions, for the one branch.
RecheckProduction(c) ==
    /\ DOMAIN c.sources = Source
    /\ c.sources["KINDERGARTEN_INFO"].fetched = c.sources["KINDERGARTEN_INFO"].normalized
    /\ c.sources["NEIS"].fetched # Sample
    /\ c.sources["NEIS"].normalized <= c.sources["NEIS"].fetched
    /\ c.sources["NEIS"].fetched <= c.sources["NEIS"].normalized + MaxDropped
    /\ c.sources["SEN_REVIEWED_CSV"].fetched = c.sources["SEN_REVIEWED_CSV"].normalized + 1

TypesOfProfile(profile) ==
    [type \in {TypeOfKind[k] : k \in DOMAIN TypeOfKind \cap DOMAIN profile.NEIS} \cup
              (IF Quarantined(profile) = {} THEN {} ELSE {Unclassified}) |->
       TotalOf(profile.NEIS, {k \in DOMAIN profile.NEIS \ Nonselectable : type = TypeOf(k)})]
RecheckReconciliation(c, profile) ==
    /\ CountsOf({i \in OfSource("NEIS", c.institutions) : IsCurrent(i)}, LAMBDA i : i.type)
         = TypesOfProfile(profile)
    /\ Cardinality({i \in OfSource("KINDERGARTEN_INFO", c.institutions) : IsCurrent(i)})
         = profile.KINDERGARTEN_INFO
    /\ \A i \in OfSource("NEIS", c.institutions) : IsCurrent(i) /\ i.type = Unclassified =>
         i.status = "REVIEW_REQUIRED" /\ i.statusSource = "OFFICIAL_CLASSIFICATION_PENDING"

RecheckEnrichments(c) ==
    /\ UsedEnrichments(c.sites) \subseteq DOMAIN c.enrichments
    /\ \A quality \in DOMAIN c.enrichments :
         c.enrichments[quality] = Matched(quality, c.institutions, c.sites)

\* _recheck_promotion_quality, whose comparison with the current snapshot is
\* made again.
RecheckQuality(c, published) ==
    /\ PendingSoFar(c.institutions, c.sites)
    /\ \A s \in c.sites : s.status = "ACTIVE" => s.coordinate = "SEOUL" /\ s.address.seoul
    /\ \A i \in c.institutions : IsCurrent(i) =>
         \E s \in c.sites : s.parent = i.id /\ s.code = Main
                            /\ (i.status = "ACTIVE" => s.status = "ACTIVE")
    /\ CoordinatesSuffice(c.institutions)
    /\ c.previous = IF published = None THEN None ELSE published.id
    /\ ActiveSuffice(c.institutions, published)

Accepts(c, published, profile) ==
    /\ c.clean
    /\ RecheckRecords(c)
    /\ RecheckSources(c)
    /\ RecheckProduction(c)
    /\ RecheckUnclassified(c)
    /\ RecheckReconciliation(c, profile)
    /\ RecheckEnrichments(c)
    /\ RecheckQuality(c, published)

-----------------------------------------------------------------------------
(* Serving *)

\* snapshot.py, _verify_records and what it calls.
VerifiesSources(s) ==
    \A source \in DOMAIN s.sources :
      LET rows == OfSource(source, s.institutions)
          entry == s.sources[source]
      IN /\ rows # {}
         /\ entry.normalized + entry.preserved = Cardinality(rows)
         /\ entry.normalized = Cardinality({i \in rows : i.status # Missing})
         /\ IF source = "NEIS"
            THEN UnclassifiedSum(entry) = Cardinality({i \in rows : i.type = Unclassified})
            ELSE DOMAIN entry.unclassified = {}
VerifiesCounts(s, profile) ==
    LET current == {i \in OfSource("NEIS", s.institutions) : i.status # Missing}
    IN /\ CountsOf(current, LAMBDA i : i.type) = TypesOfProfile(profile)
       /\ \A i \in current : i.type = Unclassified =>
            i.status = "REVIEW_REQUIRED" /\ i.statusSource = "OFFICIAL_CLASSIFICATION_PENDING"
       /\ Cardinality({i \in OfSource("KINDERGARTEN_INFO", s.institutions) : i.status # Missing})
            = profile.KINDERGARTEN_INFO
Verifies(s, profile) ==
    /\ DOMAIN s.sources = Source
    /\ s.counts = Counts(s.institutions, s.sites)
    /\ \A i \in s.institutions :
         /\ i.lastSeen = s.id
         /\ i.type = Unclassified =>
              i.status = "REVIEW_REQUIRED" /\ i.statusSource = "OFFICIAL_CLASSIFICATION_PENDING"
    /\ \A site \in s.sites : \E i \in s.institutions :
         i.id = site.parent /\ (i.type = Unclassified => site.status = "REVIEW_REQUIRED")
    /\ VerifiesSources(s)
    /\ VerifiesCounts(s, profile)

\* canonical_education_office: an office is known by its value, by its label,
\* and, of the district offices, by the label with the city's name before it.
IsKnownOffice(office) ==
    office.of \in Office /\ (office.written = "WITH_CITY" => office.of \in SupportOffice)

\* The sites a search may find: active ones of active institutions.
ServedSites(s) ==
    {pair \in s.institutions \X s.sites :
       pair[1].id = pair[2].parent /\ pair[1].status = "ACTIVE" /\ pair[2].status = "ACTIVE"}
\* InstitutionStore.load fails on a site of an unknown office.
Loads(s) == \A p \in ServedSites(s) : IsKnownOffice(p[1].office) /\ p[2].coordinate # None
=============================================================================
