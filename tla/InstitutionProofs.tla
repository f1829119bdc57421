-------------------------- MODULE InstitutionProofs --------------------------
(***************************************************************************)
(* What holds of the snapshots for any sources, any number of syncs and    *)
(* any policy: no institution and no site a visitor once could find leaves *)
(* them without a trace, what a build calls clean a promotion accepts, the *)
(* web service verifies and, but for offices it does not know, can load;   *)
(* the counts someone reviewed are those of the rows; and the pages of a   *)
(* search, read to the last from one snapshot, list every match once.      *)
(***************************************************************************)
EXTENDS InstitutionSync, FiniteSetTheorems, SequenceTheorems, TLAPS

-----------------------------------------------------------------------------
(***************************************************************************)
(* Snapshots.  Records keep their fields, what was current is current or   *)
(* marked as missing, and each source has rows of the day.                 *)
(***************************************************************************)
InstitutionFields ==
    {"id", "source", "name", "type", "foundation", "office", "status", "statusSource", "lastSeen"}
SiteFields == {"parent", "code", "address", "district", "coordinate", "quality", "status"}

Fielded(c) ==
    /\ \A i \in c.institutions : DOMAIN i = InstitutionFields
    /\ \A s \in c.sites : DOMAIN s = SiteFields

\* An institution is known by its id, and a site by that of its parent and its
\* code.
Keyed(c) ==
    /\ IsFiniteSet(c.institutions) /\ IsFiniteSet(c.sites)
    /\ \A i \in c.institutions : i.id \in Int /\ i.name \in Int
    /\ \A s \in c.sites : s.code \in Int
    /\ \A i, j \in c.institutions : i.id = j.id => i = j
    /\ \A s, t \in c.sites : s.parent = t.parent /\ s.code = t.code => s = t

\* What the loader relies on and no check of the promotion looks at.
Sound(c) ==
    /\ Fielded(c)
    /\ Keyed(c)
    /\ \A i \in c.institutions : i.lastSeen = c.id
    /\ \A source \in Source : OfSource(source, c.institutions) # {}
    /\ DOMAIN c.sources = Source
    /\ \A source \in Source \ {"NEIS"} : DOMAIN c.sources[source].unclassified = {}

\* Nothing of the one is without a trace in the other.
Keeps(old, new) ==
    /\ Ids(old.institutions) \subseteq Ids(new.institutions)
    /\ SiteIds(old.sites) \subseteq SiteIds(new.sites)

LEMMA CurrentIsFielded ==
    ASSUME NEW records, NEW snapshot
    PROVE  /\ \A i \in {InstitutionOf(r, snapshot) : r \in records} :
                DOMAIN i = InstitutionFields /\ i.lastSeen = snapshot
           /\ \A s \in UNION {SitesOf(r) : r \in records} : DOMAIN s = SiteFields
<1>1. \A r \in records : /\ DOMAIN InstitutionOf(r, snapshot) = InstitutionFields
                         /\ InstitutionOf(r, snapshot).lastSeen = snapshot
  BY DEF InstitutionOf, InstitutionFields
<1>2. \A r \in records : \A s \in SitesOf(r) : DOMAIN s = SiteFields
  BY DEF SitesOf, SiteFields
<1> QED BY <1>1, <1>2

LEMMA MarkedIsTheSame ==
    ASSUME NEW old, NEW snapshot, DOMAIN old = InstitutionFields
    PROVE  LET new == [old EXCEPT !.status = Missing,
                                  !.statusSource = "MISSING_FROM_SOURCE_GATE",
                                  !.lastSeen = snapshot]
           IN  /\ DOMAIN new = InstitutionFields /\ new.id = old.id /\ new.name = old.name
               /\ new.lastSeen = snapshot
BY DEF InstitutionFields

LEMMA MarkedSiteIsTheSame ==
    ASSUME NEW old, DOMAIN old = SiteFields
    PROVE  LET new == [old EXCEPT !.status = Missing]
           IN  DOMAIN new = SiteFields /\ new.parent = old.parent /\ new.code = old.code
BY DEF SiteFields

LEMMA PreservedIsKept ==
    ASSUME NEW institutions, NEW sites, NEW previous, Fielded(previous), NEW snapshot
    PROVE  /\ Ids(previous.institutions)
                \subseteq Ids(institutions \cup PreservedInstitutions(institutions, previous, snapshot))
           /\ SiteIds(previous.sites)
                \subseteq SiteIds(sites \cup PreservedSites(sites, previous))
           /\ \A i \in PreservedInstitutions(institutions, previous, snapshot) :
                DOMAIN i = InstitutionFields /\ i.lastSeen = snapshot
           /\ \A s \in PreservedSites(sites, previous) : DOMAIN s = SiteFields
<1>1. ASSUME NEW old \in previous.institutions, old.id \notin Ids(institutions)
      PROVE  \E i \in PreservedInstitutions(institutions, previous, snapshot) : i.id = old.id
  <2> DEFINE new == [old EXCEPT !.status = Missing, !.statusSource = "MISSING_FROM_SOURCE_GATE",
                                !.lastSeen = snapshot]
  <2>1. new.id = old.id
    BY MarkedIsTheSame DEF Fielded
  <2>2. new \in PreservedInstitutions(institutions, previous, snapshot)
    BY <1>1 DEF PreservedInstitutions
  <2> QED BY <2>1, <2>2
<1>2. Ids(previous.institutions)
        \subseteq Ids(institutions \cup PreservedInstitutions(institutions, previous, snapshot))
  BY <1>1 DEF Ids
<1>3. ASSUME NEW old \in previous.sites, <<old.parent, old.code>> \notin SiteIds(sites)
      PROVE  \E s \in PreservedSites(sites, previous) : s.parent = old.parent /\ s.code = old.code
  <2> DEFINE new == [old EXCEPT !.status = Missing]
  <2>1. new.parent = old.parent /\ new.code = old.code
    BY MarkedSiteIsTheSame DEF Fielded
  <2>2. new \in PreservedSites(sites, previous)
    BY <1>3 DEF PreservedSites
  <2> QED BY <2>1, <2>2
<1>4. SiteIds(previous.sites) \subseteq SiteIds(sites \cup PreservedSites(sites, previous))
  BY <1>3 DEF SiteIds
<1>5. ASSUME NEW i \in PreservedInstitutions(institutions, previous, snapshot)
      PROVE  DOMAIN i = InstitutionFields /\ i.lastSeen = snapshot
  <2>1. PICK old \in previous.institutions :
           i = [old EXCEPT !.status = Missing, !.statusSource = "MISSING_FROM_SOURCE_GATE",
                           !.lastSeen = snapshot]
    BY <1>5 DEF PreservedInstitutions
  <2>2. DOMAIN old = InstitutionFields
    BY DEF Fielded
  <2> QED BY ONLY <2>1, <2>2, MarkedIsTheSame
<1>6. \A s \in PreservedSites(sites, previous) : DOMAIN s = SiteFields
  BY MarkedSiteIsTheSame DEF PreservedSites, Fielded
<1> QED BY <1>2, <1>4, <1>5, <1>6

LEMMA ImageIsFinite ==
    ASSUME NEW S, IsFiniteSet(S), NEW f, DOMAIN f = S
    PROVE  IsFiniteSet({f[x] : x \in S})
<1> DEFINE T == {f[x] : x \in S}
           g == [x \in S |-> f[x]]
<1>1. g \in [S -> T] /\ \A y \in T : \E x \in S : g[x] = y
  OBVIOUS
<1> HIDE DEF T, g
<1>2. g \in Surjection(S, T)
  BY <1>1 DEF Surjection
<1> QED BY <1>2, FS_Surjection DEF T

\* The records of a sync are known by their ids, and a site by its code.
RecordFields == {"id", "source", "name", "type", "kind", "foundation", "office", "sites"}
IsRecord(r) ==
    /\ DOMAIN r = RecordFields
    /\ r.id \in Int /\ r.name \in Int
    /\ IsFiniteSet(DOMAIN r.sites) /\ DOMAIN r.sites \subseteq Int
AreRecords(records) ==
    /\ IsFiniteSet(records)
    /\ \A r \in records : IsRecord(r)
    /\ \A q, r \in records : q.id = r.id => q = r

LEMMA CurrentIsKeyed ==
    ASSUME NEW records, AreRecords(records), NEW snapshot
    PROVE  Keyed([institutions |-> {InstitutionOf(r, snapshot) : r \in records},
                  sites |-> UNION {SitesOf(r) : r \in records}])
<1> DEFINE current == {InstitutionOf(r, snapshot) : r \in records}
           here == UNION {SitesOf(r) : r \in records}
           c == [institutions |-> current, sites |-> here]
<1>1. \A r \in records : /\ InstitutionOf(r, snapshot).id = r.id
                         /\ InstitutionOf(r, snapshot).name = r.name
  BY DEF InstitutionOf
<1>2. IsFiniteSet(current)
  <2> DEFINE made == [r \in records |-> InstitutionOf(r, snapshot)]
  <2>1. current = {made[r] : r \in records} /\ DOMAIN made = records
    OBVIOUS
  <2> HIDE DEF made, current
  <2> QED BY <2>1, ImageIsFinite DEF AreRecords
<1>3. \A r \in records : IsFiniteSet(SitesOf(r))
  <2> SUFFICES ASSUME NEW r \in records PROVE IsFiniteSet(SitesOf(r))
    OBVIOUS
  <2> DEFINE site(code) == [parent |-> r.id, code |-> code, address |-> r.sites[code].address,
                            district |-> r.sites[code].district,
                            coordinate |-> r.sites[code].coordinate,
                            quality |-> r.sites[code].quality,
                            status |-> SiteStatus(r.type, r.sites[code])]
             codes == DOMAIN r.sites
             made == [code \in codes |-> site(code)]
  <2>1. IsFiniteSet(codes)
    BY DEF AreRecords, IsRecord
  <2>2. SitesOf(r) = {site(code) : code \in codes}
    BY DEF SitesOf
  <2> HIDE DEF site, codes
  <2>3. SitesOf(r) = {made[code] : code \in codes} /\ DOMAIN made = codes
    BY <2>2
  <2> HIDE DEF made
  <2> QED BY <2>1, <2>3, ImageIsFinite
<1>4. IsFiniteSet(here)
  <2> DEFINE made == [r \in records |-> SitesOf(r)]
             all == {SitesOf(r) : r \in records}
  <2>1. all = {made[r] : r \in records} /\ DOMAIN made = records
    OBVIOUS
  <2>2. here = UNION all /\ \A S \in all : IsFiniteSet(S)
    BY <1>3
  <2> HIDE DEF made, all, here
  <2>3. IsFiniteSet(all)
    BY <2>1, ImageIsFinite DEF AreRecords
  <2> QED BY <2>2, <2>3, FS_UNION
<1>5. ASSUME NEW s \in here
      PROVE  \E r \in records : \E code \in DOMAIN r.sites :
                s.parent = r.id /\ s.code = code /\ s \in SitesOf(r)
  <2>1. PICK r \in records : s \in SitesOf(r)
    OBVIOUS
  <2> HIDE DEF here
  <2>2. PICK code \in DOMAIN r.sites :
           s = [parent |-> r.id, code |-> code, address |-> r.sites[code].address,
                district |-> r.sites[code].district, coordinate |-> r.sites[code].coordinate,
                quality |-> r.sites[code].quality, status |-> SiteStatus(r.type, r.sites[code])]
    BY <2>1 DEF SitesOf
  <2> QED BY <2>1, <2>2
<1>6. \A s \in here : s.code \in Int
  BY <1>5 DEF AreRecords, IsRecord
<1>7. ASSUME NEW s \in here, NEW t \in here, s.parent = t.parent, s.code = t.code
      PROVE  s = t
  <2>1. PICK q \in records : s.parent = q.id /\ s \in SitesOf(q)
    BY <1>5
  <2>2. PICK r \in records : t.parent = r.id /\ t \in SitesOf(r)
    BY <1>5
  <2>3. q = r
    BY <1>7, <2>1, <2>2 DEF AreRecords
  <2> HIDE DEF here
  <2>4. s = t
    BY <1>7, <2>1, <2>2, <2>3 DEF SitesOf
  <2> QED BY <2>4
<1>8. \A i, j \in current : i.id = j.id => i = j
  BY <1>1 DEF AreRecords
<1>9. \A i \in current : i.id \in Int /\ i.name \in Int
  BY <1>1 DEF AreRecords, IsRecord
<1>10. c.institutions = current /\ c.sites = here
  OBVIOUS
<1> HIDE DEF current, here, c
<1>11. Keyed(c)
  BY <1>2, <1>4, <1>6, <1>7, <1>8, <1>9, <1>10 DEF Keyed
<1> QED BY <1>11 DEF c, current, here

\* What is kept from before has ids that are not among those of today.
LEMMA PreservedIsKeyed ==
    ASSUME NEW institutions, NEW sites,
           Keyed([institutions |-> institutions, sites |-> sites]),
           NEW previous, Fielded(previous), Keyed(previous), NEW snapshot
    PROVE  Keyed([institutions |-> institutions
                                     \cup PreservedInstitutions(institutions, previous, snapshot),
                  sites |-> sites \cup PreservedSites(sites, previous)])
<1> DEFINE kept == PreservedInstitutions(institutions, previous, snapshot)
           keptSites == PreservedSites(sites, previous)
           gone == {o \in previous.institutions : o.id \notin Ids(institutions)}
           goneSites == {o \in previous.sites : <<o.parent, o.code>> \notin SiteIds(sites)}
           marked == [old \in gone |-> [old EXCEPT !.status = Missing,
                                                   !.statusSource = "MISSING_FROM_SOURCE_GATE",
                                                   !.lastSeen = snapshot]]
           markedSites == [old \in goneSites |-> [old EXCEPT !.status = Missing]]
           c == [institutions |-> institutions \cup kept, sites |-> sites \cup keptSites]
<1>1. kept = {marked[old] : old \in gone} /\ DOMAIN marked = gone
  BY DEF PreservedInstitutions
<1>2. keptSites = {markedSites[old] : old \in goneSites} /\ DOMAIN markedSites = goneSites
  BY DEF PreservedSites
<1>3. \A old \in gone : marked[old].id = old.id /\ marked[old].name = old.name
  BY MarkedIsTheSame DEF Fielded
<1>4. \A old \in goneSites : /\ markedSites[old].parent = old.parent
                             /\ markedSites[old].code = old.code
  BY MarkedSiteIsTheSame DEF Fielded
<1>5. /\ \A old \in gone : old \in previous.institutions /\ old.id \notin Ids(institutions)
      /\ \A old \in goneSites : old \in previous.sites
                                /\ <<old.parent, old.code>> \notin SiteIds(sites)
  OBVIOUS
<1>6. c.institutions = institutions \cup kept /\ c.sites = sites \cup keptSites
  OBVIOUS
<1>7. IsFiniteSet(gone) /\ IsFiniteSet(goneSites)
  BY FS_Subset DEF Keyed
<1>8. /\ IsFiniteSet(institutions) /\ IsFiniteSet(sites)
      /\ \A i \in institutions : i.id \in Int /\ i.name \in Int
      /\ \A s \in sites : s.code \in Int
      /\ \A i, j \in institutions : i.id = j.id => i = j
      /\ \A s, t \in sites : s.parent = t.parent /\ s.code = t.code => s = t
  BY DEF Keyed
<1> HIDE DEF c, kept, keptSites, gone, goneSites, marked, markedSites
<1>9. IsFiniteSet(kept) /\ IsFiniteSet(keptSites)
  BY <1>1, <1>2, <1>7, ImageIsFinite
<1>10. IsFiniteSet(c.institutions) /\ IsFiniteSet(c.sites)
  <2>1. IsFiniteSet(institutions \cup kept) /\ IsFiniteSet(sites \cup keptSites)
    BY <1>8, <1>9, FS_Union
  <2> QED BY <1>6, <2>1
<1>11. \A i \in kept : i.id \in Int /\ i.name \in Int /\ i.id \notin Ids(institutions)
  BY <1>1, <1>3, <1>5 DEF Keyed
<1>12. \A i, j \in kept : i.id = j.id => i = j
  BY <1>1, <1>3, <1>5 DEF Keyed
<1>13. \A s \in keptSites : s.code \in Int /\ <<s.parent, s.code>> \notin SiteIds(sites)
  <2> SUFFICES ASSUME NEW s \in keptSites
               PROVE  s.code \in Int /\ <<s.parent, s.code>> \notin SiteIds(sites)
    OBVIOUS
  <2>1. PICK old \in goneSites : s = markedSites[old]
    BY <1>2
  <2>2. s.parent = old.parent /\ s.code = old.code
    BY <1>4, <2>1
  <2> QED BY <1>5, <2>2 DEF Keyed
<1>14. \A s, t \in keptSites : s.parent = t.parent /\ s.code = t.code => s = t
  <2> SUFFICES ASSUME NEW s \in keptSites, NEW t \in keptSites,
                      s.parent = t.parent, s.code = t.code
               PROVE  s = t
    OBVIOUS
  <2>1. PICK old \in goneSites : s = markedSites[old]
    BY <1>2
  <2>2. PICK other \in goneSites : t = markedSites[other]
    BY <1>2
  <2>3. old.parent = other.parent /\ old.code = other.code
    BY <1>4, <2>1, <2>2
  <2>4. old = other
    BY <1>5, <2>3 DEF Keyed
  <2> QED BY <2>1, <2>2, <2>4
<1>15. \A i, j \in c.institutions : i.id = j.id => i = j
  BY <1>6, <1>8, <1>11, <1>12 DEF Ids
<1>16. \A s, t \in c.sites : s.parent = t.parent /\ s.code = t.code => s = t
  <2> SUFFICES ASSUME NEW s \in c.sites, NEW t \in c.sites, s.parent = t.parent, s.code = t.code
               PROVE  s = t
    OBVIOUS
  <2>1. \A o \in sites : <<o.parent, o.code>> \in SiteIds(sites)
    BY DEF SiteIds
  <2> QED BY <1>6, <1>8, <1>13, <1>14, <2>1
<1>17. /\ \A i \in c.institutions : i.id \in Int /\ i.name \in Int
       /\ \A s \in c.sites : s.code \in Int
  BY <1>6, <1>8, <1>11, <1>13
<1>18. Keyed(c)
  BY <1>10, <1>15, <1>16, <1>17 DEF Keyed
<1> QED BY <1>18 DEF c, kept, keptSites

\* What the build makes of sound records and a sound snapshot of before.
LEMMA CandidateIsSound ==
    ASSUME NEW records, AreRecords(records), NEW rows, RecordsAreSound(records, rows),
           NEW fetched, NEW asked, NEW previous, previous = None \/ Sound(previous),
           \A source \in Source \ {"NEIS"} : fetched[source].unclassified = <<>>,
           NEW snapshot
    PROVE  LET c == Candidate(records, fetched, asked, previous, snapshot)
           IN  Sound(c) /\ (previous # None => Keeps(previous, c))
<1> DEFINE c == Candidate(records, fetched, asked, previous, snapshot)
           current == {InstitutionOf(r, snapshot) : r \in records}
           here == UNION {SitesOf(r) : r \in records}
           kept == PreservedInstitutions(current, previous, snapshot)
           keptSites == PreservedSites(here, previous)
<1>1. /\ c.institutions = IF previous = None THEN current ELSE current \cup kept
      /\ c.sites = IF previous = None THEN here ELSE here \cup keptSites
      /\ c.id = snapshot
      /\ c.sources = SourceEntries(c.institutions, fetched)
  BY DEF Candidate
<1>2. /\ \A i \in current : DOMAIN i = InstitutionFields /\ i.lastSeen = snapshot
      /\ \A s \in here : DOMAIN s = SiteFields
  BY CurrentIsFielded
<1>3. Keyed([institutions |-> current, sites |-> here])
  BY CurrentIsKeyed
<1>4. \A source \in Source : OfSource(source, current) # {}
  <2> SUFFICES ASSUME NEW source \in Source PROVE OfSource(source, current) # {}
    OBVIOUS
  <2>1. PICK r \in records : r.source = source
    BY DEF RecordsAreSound
  <2>2. InstitutionOf(r, snapshot).source = source
    BY <2>1 DEF InstitutionOf
  <2> QED BY <2>2 DEF OfSource
<1>5. ASSUME previous # None
      PROVE  /\ Ids(previous.institutions) \subseteq Ids(current \cup kept)
             /\ SiteIds(previous.sites) \subseteq SiteIds(here \cup keptSites)
             /\ \A i \in kept : DOMAIN i = InstitutionFields /\ i.lastSeen = snapshot
             /\ \A s \in keptSites : DOMAIN s = SiteFields
             /\ Keyed([institutions |-> current \cup kept, sites |-> here \cup keptSites])
  <2>1. Fielded(previous) /\ Keyed(previous)
    BY <1>5 DEF Sound
  <2> HIDE DEF current, here
  <2>2. Keyed([institutions |-> current \cup kept, sites |-> here \cup keptSites])
    BY <1>3, <2>1, PreservedIsKeyed
  <2> QED BY <2>1, <2>2, PreservedIsKept
<1>6. /\ DOMAIN c.sources = Source
      /\ \A source \in Source \ {"NEIS"} : DOMAIN c.sources[source].unclassified = {}
  <2>1. \A source \in Source : c.sources[source].unclassified = fetched[source].unclassified
    BY <1>1 DEF SourceEntries
  <2>2. DOMAIN c.sources = Source
    BY <1>1 DEF SourceEntries
  <2> QED BY <2>1, <2>2
<1> HIDE DEF c, current, here, kept, keptSites
<1>7. Fielded(c) /\ \A i \in c.institutions : i.lastSeen = c.id
  BY <1>1, <1>2, <1>5 DEF Fielded
<1>8. Keyed(c)
  <2>1. Keyed([institutions |-> c.institutions, sites |-> c.sites])
    BY <1>1, <1>3, <1>5
  <2> QED BY <2>1 DEF Keyed
<1>9. \A source \in Source : OfSource(source, c.institutions) # {}
  BY <1>1, <1>4 DEF OfSource
<1>10. previous # None => Keeps(previous, c)
  BY <1>1, <1>5 DEF Keeps
<1> QED BY <1>6, <1>7, <1>8, <1>9, <1>10 DEF Sound, c

-----------------------------------------------------------------------------
(***************************************************************************)
(* What the sources list and what a sync has read of them.                 *)
(***************************************************************************)
School == SchoolRows(scene)
Kindergarten == KindergartenRows(scene)

Readable(reading, Row) ==
    /\ DOMAIN reading = {"total", "ids", "pages", "region"}
    /\ reading.ids \in Seq(Row)
    /\ reading.region \in Nat \ {0}
    /\ IsFiniteSet(reading.pages)

SourcesInv ==
    /\ scene \in Scenes
    /\ neis \in Seq(School) /\ kindergartens \in Seq(Seq(Kindergarten))
    /\ list \in 1..Len(scene.lists)

SyncInv ==
    IsFetching => /\ DOMAIN sync = {"stage", "neis", "kindergartens"}
                  /\ Readable(sync.neis, School)
                  /\ Readable(sync.kindergartens, Kindergarten)

SnapshotsInv ==
    /\ candidate = None \/ Sound(candidate)
    /\ published = None \/ Sound(published)
    /\ candidate # None /\ published # None => Keeps(published, candidate)

SnapshotInv == SourcesInv /\ SyncInv /\ SnapshotsInv

LEMMA PartIsASequence ==
    ASSUME NEW S, NEW s \in Seq(S), NEW m \in Nat \ {0}, NEW n \in Int, n <= Len(s)
    PROVE  SubSeq(s, m, n) \in Seq(S)
<1>1. \A i \in m..n : s[i] \in S
  OBVIOUS
<1> QED BY ONLY <1>1, m \in Nat \ {0}, n \in Int, SubSeqProperties

LEMMA PageIsASequence ==
    ASSUME NEW S, NEW listing \in Seq(S), NEW n \in Nat \ {0}
    PROVE  PageOf(listing, n) \in Seq(S)
<1> DEFINE first == (n - 1) * PageSize + 1
           last == n * PageSize
           end == IF last < Len(listing) THEN last ELSE Len(listing)
<1>1. PageSize \in Nat \ {0}
  BY SourceAssumption
<1>2. n - 1 \in Nat /\ Len(listing) \in Nat
  OBVIOUS
<1>3. first \in Nat \ {0} /\ last \in Int
  <2>1. \A a, b \in Nat : a * b \in Nat
    OBVIOUS
  <2>2. (n - 1) * PageSize \in Nat /\ n * PageSize \in Nat
    BY <1>1, <1>2, <2>1
  <2> QED BY <2>2
<1>4. PageOf(listing, n) = SubSeq(listing, first, end)
  BY DEF PageOf
<1> HIDE DEF first, last
<1>5. end \in Int /\ end <= Len(listing)
  BY <1>2, <1>3
<1> HIDE DEF end
<1> QED BY <1>3, <1>4, <1>5, PartIsASequence

LEMMA RemovedIsASequence ==
    ASSUME NEW S, NEW s \in Seq(S), NEW i \in DOMAIN s
    PROVE  RemoveAt(s, i) \in Seq(S)
<1>1. i \in 1..Len(s) /\ Len(s) \in Nat
  OBVIOUS
<1>2. SubSeq(s, 1, i - 1) \in Seq(S)
  BY <1>1, PartIsASequence
<1>3. SubSeq(s, i + 1, Len(s)) \in Seq(S)
  BY <1>1, PartIsASequence
<1> QED BY ONLY <1>2, <1>3 DEF RemoveAt

LEMMA InsertedIsASequence ==
    ASSUME NEW S, NEW s \in Seq(S), NEW i \in 1..(Len(s) + 1), NEW e \in S
    PROVE  InsertAt(s, i, e) \in Seq(S)
<1>1. i \in Nat \ {0} /\ i - 1 \in Int /\ i - 1 <= Len(s) /\ Len(s) \in Nat
  OBVIOUS
<1>2. SubSeq(s, 1, i - 1) \in Seq(S)
  BY <1>1, PartIsASequence
<1>3. SubSeq(s, i, Len(s)) \in Seq(S)
  BY <1>1, PartIsASequence
<1>4. <<e>> \in Seq(S)
  OBVIOUS
<1> QED BY ONLY <1>2, <1>3, <1>4 DEF InsertAt

LEMMA ElementsAreFinite ==
    ASSUME NEW S, NEW s \in Seq(S)
    PROVE  IsFiniteSet(ToSet(s))
<1>1. DOMAIN s = 1..Len(s) /\ Len(s) \in Nat
  OBVIOUS
<1>2. IsFiniteSet(DOMAIN s)
  BY <1>1, FS_Interval
<1>3. ToSet(s) = {s[i] : i \in DOMAIN s}
  BY DEF ToSet
<1> QED BY ONLY <1>2, <1>3, ImageIsFinite

LEMMA SnapshotsStart == Init => SnapshotInv
<1> SUFFICES ASSUME Init PROVE SnapshotInv
  OBVIOUS
<1>1. SourcesInv
  BY SceneAssumption DEF Init, SourcesInv, School, Kindergarten
<1>2. SyncInv
  BY DEF Init, SyncInv, NoSync, IsFetching
<1> QED BY <1>1, <1>2 DEF Init, SnapshotInv, SnapshotsInv

\* The registers change, and a release brings another list.
LEMMA SourcesChange ==
    ASSUME SnapshotInv,
           CloseSchool \/ OpenSchool \/ CloseKindergarten \/ OpenKindergarten \/ ReleaseList
    PROVE  SnapshotInv'
<1>1. /\ scene' = scene /\ UNCHANGED <<sync, candidate, published>>
  BY DEF CloseSchool, OpenSchool, CloseKindergarten, OpenKindergarten, ReleaseList, Change
<1>2. /\ scene \in Scenes /\ neis \in Seq(School) /\ kindergartens \in Seq(Seq(Kindergarten))
      /\ list \in 1..Len(scene.lists)
  BY DEF SnapshotInv, SourcesInv
<1>3. School' = School /\ Kindergarten' = Kindergarten
  BY <1>1 DEF School, Kindergarten
<1>4. SyncInv' /\ SnapshotsInv'
  BY <1>1, <1>3 DEF SnapshotInv, SyncInv, SnapshotsInv, IsFetching, Readable
<1>5. scene.schools \subseteq School /\ scene.others \subseteq Kindergarten
  BY <1>2, SceneAssumption DEF School, Kindergarten
<1>6. CASE CloseSchool
  <2>1. PICK i \in DOMAIN neis : neis' = RemoveAt(neis, i)
    BY <1>6 DEF CloseSchool
  <2>2. neis' \in Seq(School)
    BY <1>2, <2>1, RemovedIsASequence
  <2> QED BY <1>1, <1>2, <1>3, <1>4, <1>6, <2>2 DEF CloseSchool, SnapshotInv, SourcesInv
<1>7. CASE OpenSchool
  <2>1. PICK id \in scene.schools, i \in 1..(Len(neis) + 1) : neis' = InsertAt(neis, i, id)
    BY <1>7 DEF OpenSchool
  <2>2. neis' \in Seq(School)
    BY <1>2, <1>5, <2>1, InsertedIsASequence
  <2> QED BY <1>1, <1>2, <1>3, <1>4, <1>7, <2>2 DEF OpenSchool, SnapshotInv, SourcesInv
<1>8. ASSUME NEW d \in DOMAIN kindergartens, NEW listing \in Seq(Kindergarten),
             kindergartens' = [kindergartens EXCEPT ![d] = listing], UNCHANGED <<neis, list>>
      PROVE  SnapshotInv'
  <2>1. kindergartens' \in Seq(Seq(Kindergarten))
    BY <1>2, <1>8
  <2> QED BY <1>1, <1>2, <1>3, <1>4, <1>8, <2>1 DEF SnapshotInv, SourcesInv
<1>9. CASE CloseKindergarten
  <2>0. PICK d \in DOMAIN kindergartens : \E i \in DOMAIN kindergartens[d] :
           kindergartens' = [kindergartens EXCEPT ![d] = RemoveAt(@, i)]
    BY <1>9 DEF CloseKindergarten
  <2>1. PICK i \in DOMAIN kindergartens[d] :
           kindergartens' = [kindergartens EXCEPT ![d] = RemoveAt(@, i)]
    BY <2>0
  <2>2. kindergartens[d] \in Seq(Kindergarten)
    BY <1>2
  <2>3. RemoveAt(kindergartens[d], i) \in Seq(Kindergarten)
    BY <2>2, RemovedIsASequence
  <2> QED BY <1>8, <1>9, <2>1, <2>3 DEF CloseKindergarten
<1>10. CASE OpenKindergarten
  <2>0. PICK d \in DOMAIN kindergartens, id \in scene.others :
           \E i \in 1..(Len(kindergartens[d]) + 1) :
             kindergartens' = [kindergartens EXCEPT ![d] = InsertAt(@, i, id)]
    BY <1>10 DEF OpenKindergarten
  <2>1. PICK i \in 1..(Len(kindergartens[d]) + 1) :
           kindergartens' = [kindergartens EXCEPT ![d] = InsertAt(@, i, id)]
    BY <2>0
  <2>2. kindergartens[d] \in Seq(Kindergarten)
    BY <1>2
  <2>3. InsertAt(kindergartens[d], i, id) \in Seq(Kindergarten)
    BY <1>5, <2>2, InsertedIsASequence
  <2> QED BY <1>8, <1>10, <2>1, <2>3 DEF OpenKindergarten
<1>11. CASE ReleaseList
  <2>1. list' \in 1..Len(scene.lists)
    BY <1>2, <1>11, SceneAssumption DEF ReleaseList
  <2> QED BY <1>1, <1>2, <1>3, <1>4, <1>11, <2>1 DEF ReleaseList, SnapshotInv, SourcesInv
<1> QED BY <1>6, <1>7, <1>9, <1>10, <1>11

\* A sync reads on, or ends.
LEMMA ReadOn ==
    ASSUME NEW Row, NEW reading, Readable(reading, Row), NEW page \in Seq(Row), NEW total
    PROVE  Readable(NeisReadOn(reading, total, page), Row)
           /\ Readable(KindergartenReadOn(reading, page), Row)
<1>1. reading.ids \o page \in Seq(Row)
  BY DEF Readable
<1>2. IsFiniteSet(reading.pages \cup {page}) /\ IsFiniteSet({})
  BY FS_AddElement, FS_EmptySet DEF Readable
<1>3. Readable(NeisReadOn(reading, total, page), Row)
  BY <1>1, <1>2 DEF Readable, NeisReadOn
<1>4. Readable(KindergartenReadOn(reading, page), Row)
  BY <1>1, <1>2 DEF Readable, KindergartenReadOn
<1> QED BY <1>3, <1>4

LEMMA NextPageIsNumbered ==
    ASSUME NEW Row, NEW reading, Readable(reading, Row)
    PROVE  NextPageNumber(reading) \in Nat \ {0}
BY FS_CardinalityType DEF Readable, NextPageNumber

LEMMA SyncReads ==
    ASSUME SnapshotInv, StartSync \/ ReadNeis \/ ReadKindergartens \/ FailRequest
    PROVE  SnapshotInv'
<1>1. UNCHANGED <<scene, neis, kindergartens, list, candidate, published>>
  BY DEF StartSync, ReadNeis, ReadKindergartens, FailRequest, SyncStep, sources
<1>2. School' = School /\ Kindergarten' = Kindergarten
  BY <1>1 DEF School, Kindergarten
<1>3. SourcesInv' /\ SnapshotsInv'
  BY <1>1, <1>2 DEF SnapshotInv, SourcesInv, SnapshotsInv
<1>4. ASSUME sync' = NoSync PROVE SyncInv'
  BY <1>4 DEF SyncInv, IsFetching, NoSync
<1>5. neis \in Seq(School) /\ kindergartens \in Seq(Seq(Kindergarten))
  BY DEF SnapshotInv, SourcesInv
<1>6. CASE StartSync
  <2>1. \A Row : Readable(NothingRead, Row)
    BY FS_EmptySet DEF Readable, NothingRead
  <2>2. /\ DOMAIN sync' = {"stage", "neis", "kindergartens"}
        /\ sync'.neis = NothingRead /\ sync'.kindergartens = NothingRead
    BY <1>6 DEF StartSync
  <2>3. SyncInv'
    BY <1>2, <2>1, <2>2 DEF SyncInv, Readable
  <2> QED BY <1>3, <2>3 DEF SnapshotInv
<1>7. CASE ReadNeis
  <2> DEFINE page == PageOf(neis, NextPageNumber(sync.neis))
             on == NeisReadOn(sync.neis, Len(neis), page)
  <2>1. /\ IsFetching /\ DOMAIN sync = {"stage", "neis", "kindergartens"}
        /\ Readable(sync.neis, School)
        /\ Readable(sync.kindergartens, Kindergarten)
    BY <1>7 DEF ReadNeis, SnapshotInv, SyncInv
  <2>2. page \in Seq(School)
    BY <1>5, <2>1, NextPageIsNumbered, PageIsASequence
  <2>3. Readable(on, School)
    BY <2>1, <2>2, ReadOn
  <2>4. sync' = [sync EXCEPT !.neis = on] \/ sync' = NoSync
    BY <1>7 DEF ReadNeis
  <2> HIDE DEF page, on
  <2>5. SyncInv'
    <3>1. CASE sync' = [sync EXCEPT !.neis = on]
      <4>1. /\ DOMAIN sync' = {"stage", "neis", "kindergartens"}
            /\ sync'.neis = on /\ sync'.kindergartens = sync.kindergartens
        BY <2>1, <3>1
      <4> QED BY <1>2, <2>1, <2>3, <4>1 DEF SyncInv, Readable
    <3> QED BY <1>4, <2>4, <3>1
  <2> QED BY <1>3, <2>5 DEF SnapshotInv
<1>8. CASE ReadKindergartens
  <2> DEFINE reading == sync.kindergartens
             page == PageOf(kindergartens[reading.region], NextPageNumber(reading))
             on == KindergartenReadOn(reading, page)
  <2>1. /\ IsFetching /\ DOMAIN sync = {"stage", "neis", "kindergartens"}
        /\ Readable(sync.neis, School)
        /\ Readable(sync.kindergartens, Kindergarten)
        /\ ~(sync.kindergartens.region > Len(kindergartens))
    BY <1>8 DEF ReadKindergartens, KindergartensAreRead, SnapshotInv, SyncInv
  <2>2. kindergartens[reading.region] \in Seq(Kindergarten)
    <3>1. reading.region \in 1..Len(kindergartens)
      BY <1>5, <2>1 DEF Readable
    <3> QED BY <1>5, <3>1
  <2>3. page \in Seq(Kindergarten)
    BY <2>1, <2>2, NextPageIsNumbered, PageIsASequence
  <2>4. Readable(on, Kindergarten)
    BY <2>1, <2>3, ReadOn
  <2>5. sync' = [sync EXCEPT !.kindergartens = on] \/ sync' = NoSync
    BY <1>8 DEF ReadKindergartens
  <2> HIDE DEF page, on
  <2>6. SyncInv'
    <3>1. CASE sync' = [sync EXCEPT !.kindergartens = on]
      <4>1. /\ DOMAIN sync' = {"stage", "neis", "kindergartens"}
            /\ sync'.kindergartens = on /\ sync'.neis = sync.neis
        BY <2>1, <3>1
      <4> QED BY <1>2, <2>1, <2>4, <4>1 DEF SyncInv, Readable
    <3> QED BY <1>4, <2>5, <3>1
  <2> QED BY <1>3, <2>6 DEF SnapshotInv
<1>9. CASE FailRequest
  BY <1>3, <1>4, <1>9 DEF FailRequest, SnapshotInv
<1> QED BY <1>6, <1>7, <1>8, <1>9

\* What keeps ids, names and codes leaves records records.
LEMMA RecordsStay ==
    ASSUME NEW records, AreRecords(records), NEW f, DOMAIN f = records,
           \A r \in records : /\ DOMAIN f[r] = RecordFields
                              /\ f[r].id = r.id /\ f[r].name = r.name
                              /\ DOMAIN f[r].sites = DOMAIN r.sites
    PROVE  AreRecords({f[r] : r \in records})
           /\ Ids({f[r] : r \in records}) = Ids(records)
<1> DEFINE made == {f[r] : r \in records}
<1>1. IsFiniteSet(made)
  BY ImageIsFinite DEF AreRecords
<1>2. \A r \in records : IsRecord(f[r])
  BY DEF AreRecords, IsRecord
<1>3. \A q, r \in made : q.id = r.id => q = r
  BY DEF AreRecords
<1>4. Ids(made) = Ids(records)
  BY DEF Ids
<1> QED BY <1>1, <1>2, <1>3, <1>4 DEF AreRecords

LEMMA RecordsJoin ==
    ASSUME NEW some, NEW others, AreRecords(some), AreRecords(others),
           Ids(some) \cap Ids(others) = {}
    PROVE  AreRecords(some \cup others)
<1>1. IsFiniteSet(some \cup others)
  BY FS_Union DEF AreRecords
<1>2. \A q \in some, r \in others : q.id # r.id
  BY DEF Ids
<1> QED BY <1>1, <1>2 DEF AreRecords

LEMMA RowsMakeRecords ==
    ASSUME NEW rows, IsFiniteSet(rows), NEW f, DOMAIN f = rows,
           \A id \in rows : IsRecord(f[id]) /\ f[id].id = id
    PROVE  AreRecords({f[id] : id \in rows}) /\ Ids({f[id] : id \in rows}) = rows
<1>1. IsFiniteSet({f[id] : id \in rows})
  BY ImageIsFinite
<1>2. \A q, r \in {f[id] : id \in rows} : q.id = r.id => q = r
  OBVIOUS
<1> QED BY <1>1, <1>2 DEF AreRecords, Ids

LEMMA FetchedAreRecords ==
    ASSUME SnapshotInv, IsFetching
    PROVE  /\ AreRecords(FetchedNeis) /\ Ids(FetchedNeis) \subseteq School
           /\ AreRecords(FetchedKindergartens) /\ Ids(FetchedKindergartens) \subseteq Kindergarten
           /\ AreRecords(FetchedList) /\ Ids(FetchedList) \cap DOMAIN scene.rows = {}
<1>1. /\ sync.neis.ids \in Seq(School) /\ sync.kindergartens.ids \in Seq(Kindergarten)
      /\ scene \in Scenes /\ list \in 1..Len(scene.lists)
  BY DEF SnapshotInv, SyncInv, SourcesInv, Readable
<1>2. \A id \in School \cup Kindergarten : id \in Int /\ scene.rows[id].name \in Int
  BY <1>1, SceneAssumption DEF School, Kindergarten, SchoolRows, KindergartenRows
<1>3. IsReviewed(scene, scene.lists[list])
  BY <1>1, SceneAssumption
<1>4. IsFiniteSet({Main}) /\ Main \in Int
  BY FS_Singleton DEF Main
<1>5. AreRecords(FetchedNeis) /\ Ids(FetchedNeis) \subseteq School
  <2> DEFINE rows == ToSet(sync.neis.ids)
             taken == {row \in rows : Kinds[row] \notin Nonselectable}
             made == [id \in taken |-> NeisRecord(id, scene.rows[id])]
  <2>1. IsFiniteSet(rows) /\ rows \subseteq School
    BY <1>1, ElementsAreFinite DEF ToSet
  <2>2. IsFiniteSet(taken) /\ taken \subseteq School
    BY <2>1, FS_Subset
  <2>3. FetchedNeis = {made[id] : id \in taken} /\ DOMAIN made = taken
    BY DEF FetchedNeis
  <2>4. ASSUME NEW id \in School
        PROVE  IsRecord(NeisRecord(id, scene.rows[id])) /\ NeisRecord(id, scene.rows[id]).id = id
    <3> DEFINE r == NeisRecord(id, scene.rows[id])
    <3>1. /\ DOMAIN r = RecordFields /\ r.id = id /\ r.name = scene.rows[id].name
          /\ DOMAIN r.sites = {Main}
      BY DEF NeisRecord, Record, RecordFields
    <3> HIDE DEF r
    <3>2. IsRecord(r)
      BY <1>2, <1>4, <3>1 DEF IsRecord
    <3> QED BY <3>1, <3>2 DEF r
  <2>5. \A id \in taken : IsRecord(made[id]) /\ made[id].id = id
    BY <2>2, <2>4
  <2> HIDE DEF rows, taken, made
  <2> QED BY <2>2, <2>3, <2>5, RowsMakeRecords
<1>6. AreRecords(FetchedKindergartens) /\ Ids(FetchedKindergartens) \subseteq Kindergarten
  <2> DEFINE rows == ToSet(sync.kindergartens.ids)
             made == [id \in rows |-> KindergartenRecord(id, scene.rows[id])]
  <2>1. IsFiniteSet(rows) /\ rows \subseteq Kindergarten
    BY <1>1, ElementsAreFinite DEF ToSet
  <2>2. FetchedKindergartens = {made[id] : id \in rows} /\ DOMAIN made = rows
    BY DEF FetchedKindergartens
  <2>3. ASSUME NEW id \in Kindergarten
        PROVE  /\ IsRecord(KindergartenRecord(id, scene.rows[id]))
               /\ KindergartenRecord(id, scene.rows[id]).id = id
    <3> DEFINE r == KindergartenRecord(id, scene.rows[id])
    <3>1. /\ DOMAIN r = RecordFields /\ r.id = id /\ r.name = scene.rows[id].name
          /\ DOMAIN r.sites = {Main}
      BY DEF KindergartenRecord, Record, RecordFields
    <3> HIDE DEF r
    <3>2. IsRecord(r)
      BY <1>2, <1>4, <3>1 DEF IsRecord
    <3> QED BY <3>1, <3>2 DEF r
  <2>4. \A id \in rows : IsRecord(made[id]) /\ made[id].id = id
    BY <2>1, <2>3
  <2> HIDE DEF rows, made
  <2> QED BY <2>1, <2>2, <2>4, RowsMakeRecords
<1>7. AreRecords(FetchedList) /\ Ids(FetchedList) \cap DOMAIN scene.rows = {}
  <2> DEFINE reviewed == scene.lists[list]
             rows == DOMAIN reviewed
             made == [id \in rows |-> SenRecord(id, reviewed[id])]
  <2>1. IsFiniteSet(rows) /\ rows \subseteq Int \ DOMAIN scene.rows
    BY <1>3 DEF IsReviewed
  <2>2. FetchedList = {made[id] : id \in rows} /\ DOMAIN made = rows
    BY DEF FetchedList
  <2>3. ASSUME NEW id \in rows
        PROVE  IsRecord(SenRecord(id, reviewed[id])) /\ SenRecord(id, reviewed[id]).id = id
    <3> DEFINE r == SenRecord(id, reviewed[id])
               branches == DOMAIN reviewed[id].branches
    <3>1. reviewed[id].name \in Int /\ IsFiniteSet(branches) /\ branches \subseteq Int
      BY <1>3 DEF IsReviewed
    <3>2. /\ DOMAIN r = RecordFields /\ r.id = id /\ r.name = reviewed[id].name
          /\ DOMAIN r.sites = {Main} \cup branches
      BY DEF SenRecord, Record, RecordFields
    <3> HIDE DEF r, branches
    <3>3. IsFiniteSet({Main} \cup branches) /\ {Main} \cup branches \subseteq Int
      BY <1>4, <3>1, FS_Union
    <3>4. IsRecord(r)
      BY <2>1, <3>1, <3>2, <3>3 DEF IsRecord
    <3> QED BY <3>2, <3>4 DEF r
  <2>4. \A id \in rows : IsRecord(made[id]) /\ made[id].id = id
    BY <2>3
  <2> HIDE DEF reviewed, rows, made
  <2>5. AreRecords({made[id] : id \in rows}) /\ Ids({made[id] : id \in rows}) = rows
    <3>1. IsFiniteSet(rows) /\ DOMAIN made = rows
      BY <2>1, <2>2
    <3> QED BY ONLY <2>4, <3>1, RowsMakeRecords
  <2>6. rows \cap DOMAIN scene.rows = {}
    BY <2>1
  <2> QED BY <2>2, <2>5, <2>6
<1> QED BY <1>5, <1>6, <1>7

\* A record keeps what it is when it gets coordinates.
Like(new, old) ==
    /\ DOMAIN new = RecordFields
    /\ new.id = old.id /\ new.source = old.source /\ new.name = old.name
    /\ new.type = old.type /\ new.foundation = old.foundation /\ new.office = old.office
    /\ DOMAIN new.sites = DOMAIN old.sites

LEMMA LocatedIsLike ==
    ASSUME NEW r, IsRecord(r), NEW locations
    PROVE  Like(Located(r, locations), r)
BY DEF Located, IsRecord, RecordFields, Like

LEMMA GeocodedIsLike ==
    ASSUME NEW r, IsRecord(r), NEW answers
    PROVE  Like(Geocoded(r, answers), r)
BY DEF Geocoded, IsRecord, RecordFields, Like

\* The records with their coordinates.
LEMMA PlacedAreRecords ==
    ASSUME SnapshotInv, IsFetching, NEW answers
    PROVE  AreRecords({Geocoded(r, answers) :
                          r \in {Located(q, scene.locations) : q \in FetchedNeis}
                                  \cup FetchedKindergartens \cup FetchedList})
<1> DEFINE located == {Located(q, scene.locations) : q \in FetchedNeis}
           known == located \cup FetchedKindergartens \cup FetchedList
           at == [q \in FetchedNeis |-> Located(q, scene.locations)]
           placed == [r \in known |-> Geocoded(r, answers)]
<1>1. /\ AreRecords(FetchedNeis) /\ Ids(FetchedNeis) \subseteq School
      /\ AreRecords(FetchedKindergartens) /\ Ids(FetchedKindergartens) \subseteq Kindergarten
      /\ AreRecords(FetchedList) /\ Ids(FetchedList) \cap DOMAIN scene.rows = {}
  BY FetchedAreRecords
<1>2. AreRecords(located) /\ Ids(located) \subseteq School
  <2>1. located = {at[q] : q \in FetchedNeis} /\ DOMAIN at = FetchedNeis
    OBVIOUS
  <2>2. \A q \in FetchedNeis : /\ DOMAIN at[q] = RecordFields
                               /\ at[q].id = q.id /\ at[q].name = q.name
                               /\ DOMAIN at[q].sites = DOMAIN q.sites
    BY <1>1, LocatedIsLike DEF AreRecords, Like
  <2> HIDE DEF located, at
  <2> QED BY <1>1, <2>1, <2>2, RecordsStay
<1> HIDE DEF located
<1>3. AreRecords(known)
  <2>1. AreRecords(located \cup FetchedKindergartens)
    <3>1. School \cap Kindergarten = {}
      BY DEF School, Kindergarten, SchoolRows, KindergartenRows
    <3> QED BY <1>1, <1>2, <3>1, RecordsJoin
  <2>2. Ids(located \cup FetchedKindergartens) \subseteq DOMAIN scene.rows
    BY <1>1, <1>2 DEF Ids, School, Kindergarten, SchoolRows, KindergartenRows
  <2> QED BY <1>1, <2>1, <2>2, RecordsJoin
<1>4. {Geocoded(r, answers) : r \in known} = {placed[r] : r \in known} /\ DOMAIN placed = known
  OBVIOUS
<1>5. \A r \in known : /\ DOMAIN placed[r] = RecordFields
                       /\ placed[r].id = r.id /\ placed[r].name = r.name
                       /\ DOMAIN placed[r].sites = DOMAIN r.sites
  BY <1>3, GeocodedIsLike DEF AreRecords, Like
<1> HIDE DEF known, placed
<1>6. AreRecords({placed[r] : r \in known})
  BY <1>3, <1>4, <1>5, RecordsStay
<1>7. AreRecords({Geocoded(r, answers) : r \in known})
  BY <1>4, <1>6
<1> QED BY <1>7 DEF known, located

LEMMA OnlyNeisCountsUnclassified ==
    \A source \in Source \ {"NEIS"} : Fetched[source].unclassified = <<>>
BY DEF Fetched, Source, Population

LEMMA SyncBuilds ==
    ASSUME SnapshotInv, Build
    PROVE  SnapshotInv'
<1>1. /\ UNCHANGED <<scene, neis, kindergartens, list, published>>
      /\ IsFetching /\ sync' = NoSync
  BY DEF Build, SyncStep, sources
<1>2. SourcesInv' /\ SyncInv'
  BY <1>1 DEF SnapshotInv, SourcesInv, SyncInv, School, Kindergarten, IsFetching, NoSync
<1>3. SnapshotsInv
  BY DEF SnapshotInv
<1>4. \E answers :
        LET known == {Located(q, scene.locations) : q \in FetchedNeis}
                        \cup FetchedKindergartens \cup FetchedList
            records == {Geocoded(r, answers) : r \in known}
            asked == Unplaced(known) # {}
        IN  \/ candidate' = candidate
            \/ /\ RecordsAreSound(records, FetchedRows)
               /\ candidate' = Candidate(records, Fetched, asked, published, round)
  BY DEF Build
<1>5. PICK answers :
        LET known == {Located(q, scene.locations) : q \in FetchedNeis}
                        \cup FetchedKindergartens \cup FetchedList
            records == {Geocoded(r, answers) : r \in known}
            asked == Unplaced(known) # {}
        IN  \/ candidate' = candidate
            \/ /\ RecordsAreSound(records, FetchedRows)
               /\ candidate' = Candidate(records, Fetched, asked, published, round)
  BY <1>4
<1> DEFINE known == {Located(q, scene.locations) : q \in FetchedNeis}
                       \cup FetchedKindergartens \cup FetchedList
           records == {Geocoded(r, answers) : r \in known}
           asked == Unplaced(known) # {}
<1>6. AreRecords(records)
  BY <1>1, PlacedAreRecords
<1>7. \/ candidate' = candidate
      \/ /\ RecordsAreSound(records, FetchedRows)
         /\ candidate' = Candidate(records, Fetched, asked, published, round)
  BY <1>5
<1> HIDE DEF known, records, asked
<1>8. SnapshotsInv'
  <2>1. CASE candidate' = candidate
    BY <1>1, <1>3, <2>1 DEF SnapshotsInv
  <2>2. CASE /\ RecordsAreSound(records, FetchedRows)
             /\ candidate' = Candidate(records, Fetched, asked, published, round)
    <3>1. published = None \/ Sound(published)
      BY <1>3 DEF SnapshotsInv
    <3>2. /\ Sound(candidate')
          /\ published # None => Keeps(published, candidate')
      BY <1>6, <2>2, <3>1, OnlyNeisCountsUnclassified, CandidateIsSound
    <3> QED BY <1>1, <3>1, <3>2 DEF SnapshotsInv
  <2> QED BY <1>7, <2>1, <2>2
<1> QED BY <1>2, <1>8 DEF SnapshotInv

LEMMA SnapshotSteps ==
    ASSUME SnapshotInv, [Next]_vars
    PROVE  SnapshotInv'
<1>1. CASE CloseSchool \/ OpenSchool \/ CloseKindergarten \/ OpenKindergarten \/ ReleaseList
  BY <1>1, SourcesChange
<1>2. CASE StartSync \/ ReadNeis \/ ReadKindergartens \/ FailRequest
  BY <1>2, SyncReads
<1>3. CASE Build
  BY <1>3, SyncBuilds
<1>4. ASSUME UNCHANGED <<scene, sources, sync>> PROVE SourcesInv' /\ SyncInv'
  BY <1>4 DEF sources, SnapshotInv, SourcesInv, SyncInv, School, Kindergarten, Readable,
              IsFetching
<1>5. CASE Promote
  BY <1>4, <1>5 DEF Promote, SnapshotInv, SnapshotsInv
<1>6. CASE Restart \/ Search \/ NextPage \/ UNCHANGED vars
  <2>1. UNCHANGED <<scene, sources, sync, candidate, published>>
    BY <1>6 DEF Restart, Search, NextPage, vars
  <2> QED BY <1>4, <2>1 DEF SnapshotInv, SnapshotsInv
<1> QED BY <1>1, <1>2, <1>3, <1>5, <1>6 DEF Next

(***************************************************************************)
(* Candidate and published snapshot keep their form over any number of     *)
(* syncs, and a candidate holds whatever the published one does            *)
(* (sync.py:946-1180, build_candidate_snapshot).                           *)
(***************************************************************************)
THEOREM SnapshotInvariant == Spec => []SnapshotInv
BY SnapshotsStart, SnapshotSteps, PTL DEF Spec

(***************************************************************************)
(* What a visitor once could find does not leave the snapshots without a   *)
(* trace, however the sources change while and between they are read and   *)
(* whichever syncs fail: every institution and every site of what is       *)
(* published stays in what is published next (sync.py:2279-2316,           *)
(* _preserve_missing_records, and 1475-1621, the promotion).               *)
(***************************************************************************)
THEOREM NothingVanishes == Spec => InstitutionsNeverVanish
<1>1. ASSUME SnapshotInv, [Next]_vars, published' # published, published # None
      PROVE  /\ Ids(published.institutions) \subseteq Ids(published'.institutions)
             /\ SiteIds(published.sites) \subseteq SiteIds(published'.sites)
  <2>1. Promote
    BY <1>1 DEF Next, vars, CloseSchool, OpenSchool, CloseKindergarten, OpenKindergarten,
                ReleaseList, Change, StartSync, ReadNeis, ReadKindergartens, FailRequest,
                Build, SyncStep, Restart, Search, NextPage
  <2>2. candidate # None /\ published' = candidate
    BY <2>1 DEF Promote
  <2> QED BY <1>1, <2>2 DEF SnapshotInv, SnapshotsInv, Keeps
<1>2. SnapshotInv /\ [Next]_vars
        => [published # None =>
              /\ Ids(published.institutions) \subseteq Ids(published'.institutions)
              /\ SiteIds(published.sites) \subseteq SiteIds(published'.sites)]_published
  BY <1>1
<1> QED BY <1>2, SnapshotInvariant, PTL DEF Spec, InstitutionsNeverVanish

-----------------------------------------------------------------------------
(***************************************************************************)
(* What a promotion accepts, and what the web service makes of it.         *)
(***************************************************************************)

\* Rows are there or marked as missing.
LEMMA RowsAreSplit ==
    ASSUME NEW rows, IsFiniteSet(rows)
    PROVE  Cardinality({i \in rows : IsCurrent(i)}) + Cardinality({i \in rows : ~IsCurrent(i)})
             = Cardinality(rows)
<1> DEFINE here == {i \in rows : IsCurrent(i)}
           gone == {i \in rows : ~IsCurrent(i)}
<1>1. here \cup gone = rows /\ here \cap gone = {}
  OBVIOUS
<1>2. IsFiniteSet(here) /\ IsFiniteSet(gone)
  BY FS_Subset
<1> HIDE DEF here, gone
<1>3. Cardinality(here \cap gone) = 0
  BY <1>1, FS_EmptySet
<1>4. Cardinality(here) \in Nat /\ Cardinality(gone) \in Nat
  BY <1>2, FS_CardinalityType
<1>5. Cardinality(here \cup gone)
        = Cardinality(here) + Cardinality(gone) - Cardinality(here \cap gone)
  BY <1>2, FS_Union
<1>6. Cardinality(here) + Cardinality(gone) = Cardinality(rows)
  BY <1>1, <1>3, <1>4, <1>5
<1> QED BY <1>6 DEF here, gone

LEMMA AcceptedIsVerified ==
    ASSUME NEW c, Sound(c), NEW before, NEW profile, Accepts(c, before, profile)
    PROVE  Verifies(c, profile)
<1>1. /\ RecheckRecords(c) /\ RecheckSources(c) /\ RecheckUnclassified(c)
      /\ RecheckReconciliation(c, profile) /\ PendingSoFar(c.institutions, c.sites)
  BY DEF Accepts, RecheckQuality
<1>2. DOMAIN c.sources = Source /\ c.counts = Counts(c.institutions, c.sites)
  BY <1>1 DEF Sound, RecheckRecords
<1>3. \A i \in c.institutions :
         /\ i.lastSeen = c.id
         /\ i.type = Unclassified =>
              i.status = "REVIEW_REQUIRED" /\ i.statusSource = "OFFICIAL_CLASSIFICATION_PENDING"
  BY <1>1 DEF Sound, PendingSoFar
<1>4. \A site \in c.sites : \E i \in c.institutions :
         i.id = site.parent /\ (i.type = Unclassified => site.status = "REVIEW_REQUIRED")
  <2> SUFFICES ASSUME NEW site \in c.sites
               PROVE  \E i \in c.institutions : /\ i.id = site.parent
                                                /\ i.type = Unclassified => site.status = "REVIEW_REQUIRED"
    OBVIOUS
  <2>1. PICK i \in c.institutions : i.id = site.parent
    BY <1>1 DEF RecheckRecords, Ids
  <2> QED BY <1>1, <2>1 DEF PendingSoFar
<1>5. VerifiesSources(c)
  <2> SUFFICES ASSUME NEW source \in Source
               PROVE  LET rows == OfSource(source, c.institutions)
                          entry == c.sources[source]
                      IN  /\ rows # {}
                          /\ entry.normalized + entry.preserved = Cardinality(rows)
                          /\ entry.normalized = Cardinality({i \in rows : i.status # Missing})
                          /\ IF source = "NEIS"
                               THEN UnclassifiedSum(entry)
                                      = Cardinality({i \in rows : i.type = Unclassified})
                               ELSE DOMAIN entry.unclassified = {}
    BY <1>2 DEF VerifiesSources
  <2> DEFINE rows == OfSource(source, c.institutions)
             entry == c.sources[source]
  <2>1. rows # {} /\ (source # "NEIS" => DOMAIN entry.unclassified = {})
    BY DEF Sound
  <2>2. IsFiniteSet(rows)
    BY FS_Subset DEF Sound, Keyed, OfSource
  <2>3. /\ entry.normalized = Cardinality({i \in rows : IsCurrent(i)})
        /\ entry.preserved = Cardinality({i \in rows : ~IsCurrent(i)})
    BY <1>1, <1>2 DEF RecheckSources
  <2>4. UnclassifiedSum(entry) = Cardinality({i \in rows : i.type = Unclassified})
    BY <1>1, <1>2 DEF RecheckUnclassified
  <2>5. {i \in rows : IsCurrent(i)} = {i \in rows : i.status # Missing}
    BY DEF IsCurrent
  <2> HIDE DEF rows, entry
  <2>6. entry.normalized + entry.preserved = Cardinality(rows)
    BY <2>2, <2>3, RowsAreSplit
  <2>7. entry.normalized = Cardinality({i \in rows : i.status # Missing})
    BY <2>3, <2>5
  <2> QED BY <2>1, <2>4, <2>6, <2>7 DEF rows, entry
<1>6. VerifiesCounts(c, profile)
  <2>1. \A source : {i \in OfSource(source, c.institutions) : IsCurrent(i)}
                      = {i \in OfSource(source, c.institutions) : i.status # Missing}
    BY DEF IsCurrent
  <2>2. \A i \in OfSource("NEIS", c.institutions) : IsCurrent(i) <=> i.status # Missing
    BY DEF IsCurrent
  <2>3. /\ CountsOf({i \in OfSource("NEIS", c.institutions) : IsCurrent(i)}, LAMBDA i : i.type)
             = TypesOfProfile(profile)
        /\ Cardinality({i \in OfSource("KINDERGARTEN_INFO", c.institutions) : IsCurrent(i)})
             = profile.KINDERGARTEN_INFO
        /\ \A i \in OfSource("NEIS", c.institutions) : IsCurrent(i) /\ i.type = Unclassified =>
             i.status = "REVIEW_REQUIRED" /\ i.statusSource = "OFFICIAL_CLASSIFICATION_PENDING"
    BY <1>1 DEF RecheckReconciliation
  <2>4. CountsOf({i \in OfSource("NEIS", c.institutions) : i.status # Missing}, LAMBDA i : i.type)
          = TypesOfProfile(profile)
    BY <2>3 DEF IsCurrent
  <2> QED BY <2>1, <2>2, <2>3, <2>4 DEF VerifiesCounts
<1> QED BY <1>2, <1>3, <1>4, <1>5, <1>6 DEF Verifies

LEMMA AcceptedIsLoaded ==
    ASSUME NEW c, NEW before, NEW profile, Accepts(c, before, profile),
           \A i \in Active(c.institutions) : IsKnownOffice(i.office)
    PROVE  Loads(c)
<1> SUFFICES ASSUME NEW p \in ServedSites(c)
             PROVE  IsKnownOffice(p[1].office) /\ p[2].coordinate # None
  BY DEF Loads
<1>1. /\ p[1] \in c.institutions /\ p[2] \in c.sites
      /\ p[1].status = "ACTIVE" /\ p[2].status = "ACTIVE"
  BY DEF ServedSites
<1>2. IsKnownOffice(p[1].office)
  BY <1>1 DEF Active
<1>3. p[2].coordinate = "SEOUL"
  BY <1>1 DEF Accepts, RecheckQuality
<1> QED BY <1>2, <1>3, SourceAssumption

(***************************************************************************)
(* Whatever the promotion accepts, the web service verifies when it starts *)
(* and, if it knows the offices of what it may find, loads: no check of    *)
(* the loader is harder than those of the promotion and what the build     *)
(* leaves true (sync.py:2899-2931, snapshot.py:417-766, store.py:83-161).  *)
(***************************************************************************)
THEOREM AcceptedCanBeServed == Spec => []AcceptedIsServable
<1>1. SnapshotInv => AcceptedIsServable
  <2> SUFFICES ASSUME SnapshotInv, candidate # None,
                      Accepts(candidate, published, scene.profile)
               PROVE  /\ Verifies(candidate, scene.profile)
                      /\ (\A i \in Active(candidate.institutions) : IsKnownOffice(i.office))
                           => Loads(candidate)
    BY DEF AcceptedIsServable
  <2>1. Sound(candidate)
    BY DEF SnapshotInv, SnapshotsInv
  <2> QED BY <2>1, AcceptedIsVerified, AcceptedIsLoaded
<1> QED BY <1>1, SnapshotInvariant, PTL

-----------------------------------------------------------------------------
(***************************************************************************)
(* What a search finds.  The keys it sorts by tell any two sites apart, so *)
(* that each has a place of its own.                                       *)
(***************************************************************************)
\* Who comes before whom, of finitely many, gives everyone a place.
PlaceIn(before, S, x) == 1 + Cardinality({y \in S : <<y, x>> \in before})

StrictOrder(before, S) ==
    /\ \A x \in S : <<x, x>> \notin before
    /\ \A x, y \in S : x # y => <<x, y>> \in before \/ <<y, x>> \in before
    /\ \A x, y, z \in S : <<x, y>> \in before /\ <<y, z>> \in before => <<x, z>> \in before

LEMMA PlacesAreTaken ==
    ASSUME NEW S, IsFiniteSet(S), NEW before, StrictOrder(before, S)
    PROVE  LET n == Cardinality(S)
           IN  /\ n \in Nat
               /\ \A x \in S : PlaceIn(before, S, x) \in 1..n
               /\ \A x, y \in S : <<x, y>> \in before =>
                                     PlaceIn(before, S, x) < PlaceIn(before, S, y)
               /\ \A x, y \in S : PlaceIn(before, S, x) = PlaceIn(before, S, y) => x = y
               /\ \A k \in 1..n : \E x \in S : PlaceIn(before, S, x) = k
<1> DEFINE n == Cardinality(S)
           place(x) == PlaceIn(before, S, x)
           Earlier(x) == {y \in S : <<y, x>> \in before}
           places == [x \in S |-> place(x)]
<1>1. n \in Nat
  BY FS_CardinalityType
<1>2. ASSUME NEW x \in S
      PROVE  /\ IsFiniteSet(Earlier(x)) /\ Cardinality(Earlier(x)) \in Nat
             /\ Cardinality(Earlier(x)) < n
  <2>1. Earlier(x) \in SUBSET (S \ {x})
    BY DEF StrictOrder
  <2>2. IsFiniteSet(S \ {x}) /\ Cardinality(S \ {x}) = n - 1
    BY FS_RemoveElement
  <2> HIDE DEF Earlier
  <2>3. IsFiniteSet(Earlier(x)) /\ Cardinality(Earlier(x)) <= n - 1
    BY <2>1, <2>2, FS_Subset
  <2>4. Cardinality(Earlier(x)) \in Nat
    BY <2>3, FS_CardinalityType
  <2> HIDE DEF n
  <2> QED BY <1>1, <2>3, <2>4
<1>3. \A x \in S : place(x) = 1 + Cardinality(Earlier(x))
  BY DEF PlaceIn
<1>4. \A x \in S : place(x) \in 1..n
  <2> HIDE DEF place, n, Earlier
  <2> QED BY <1>1, <1>2, <1>3
<1>5. ASSUME NEW x \in S, NEW y \in S, <<x, y>> \in before PROVE place(x) < place(y)
  <2>1. Earlier(x) \cup {x} \in SUBSET Earlier(y) /\ x \notin Earlier(x)
    BY <1>5 DEF StrictOrder
  <2> HIDE DEF Earlier
  <2>2. IsFiniteSet(Earlier(x)) /\ IsFiniteSet(Earlier(y))
        /\ Cardinality(Earlier(x)) \in Nat /\ Cardinality(Earlier(y)) \in Nat
    BY <1>2
  <2>3. Cardinality(Earlier(x) \cup {x}) = Cardinality(Earlier(x)) + 1
    BY <2>1, <2>2, FS_AddElement
  <2>4. Cardinality(Earlier(x) \cup {x}) <= Cardinality(Earlier(y))
    BY <2>1, <2>2, FS_Subset
  <2> HIDE DEF place
  <2> QED BY <1>3, <2>2, <2>3, <2>4
<1>6. ASSUME NEW x \in S, NEW y \in S, place(x) = place(y) PROVE x = y
  <2> SUFFICES ASSUME x # y PROVE FALSE
    OBVIOUS
  <2>1. <<x, y>> \in before \/ <<y, x>> \in before
    BY DEF StrictOrder
  <2>2. place(x) < place(y) \/ place(y) < place(x)
    <3> HIDE DEF place
    <3> QED BY <1>5, <2>1
  <2>3. place(x) \in Int /\ place(y) \in Int
    <3> HIDE DEF place, n
    <3> QED BY <1>1, <1>4
  <2> HIDE DEF place
  <2> QED BY <1>6, <2>2, <2>3
<1>7. ASSUME NEW k \in 1..n PROVE \E x \in S : place(x) = k
  <2>1. places \in [S -> 1..n]
    BY <1>4
  <2>2. \A x \in S : places[x] = place(x)
    OBVIOUS
  <2>3. DOMAIN places = S
    OBVIOUS
  <2> HIDE DEF places, place
  <2>4. places \in Injection(S, 1..n)
    BY <1>6, <2>1, <2>2, <2>3 DEF Injection, IsInjective
  <2>5. IsFiniteSet(1..n) /\ Cardinality(1..n) = n
    <3> HIDE DEF n
    <3>1. 1 \in Int /\ n \in Int
      BY <1>1
    <3>2. IsFiniteSet(1..n) /\ Cardinality(1..n) = IF 1 > n THEN 0 ELSE n - 1 + 1
      BY <3>1, FS_Interval
    <3> QED BY <1>1, <3>2
  <2>6. places \in Surjection(S, 1..n)
    BY <2>4, <2>5, FS_Injection
  <2> HIDE DEF n
  <2>7. \A i \in 1..n : \E x \in S : places[x] = i
    BY <2>6 DEF Surjection
  <2> QED BY <1>7, <2>2, <2>7
<1> HIDE DEF place
<1> QED BY <1>1, <1>4, <1>5, <1>6, <1>7 DEF place

LEMMA ItemsAreKeyed ==
    ASSUME NEW c, Sound(c)
    PROVE  /\ IsFiniteSet(Items(c))
           /\ \A x \in Items(c) : x.institution \in Int /\ x.code \in Int /\ x.name \in Int
           /\ \A x, y \in Items(c) : x.institution = y.institution /\ x.code = y.code => x = y
<1> DEFINE made == [p \in ServedSites(c) |-> ItemOf(p)]
<1>1. Items(c) = {made[p] : p \in ServedSites(c)} /\ DOMAIN made = ServedSites(c)
  BY DEF Items
<1>2. Keyed(c)
  BY DEF Sound
<1>3. IsFiniteSet(ServedSites(c))
  <2>1. IsFiniteSet(c.institutions \X c.sites)
    BY <1>2, FS_Product DEF Keyed
  <2> QED BY <2>1, FS_Subset DEF ServedSites
<1>4. ASSUME NEW p \in ServedSites(c)
      PROVE  /\ p = <<p[1], p[2]>> /\ p[1] \in c.institutions /\ p[2] \in c.sites
             /\ p[1].id = p[2].parent
             /\ ItemOf(p).institution = p[1].id /\ ItemOf(p).code = p[2].code
             /\ ItemOf(p).name = p[1].name
  BY DEF ServedSites, ItemOf
<1>5. \A x \in Items(c) : \E p \in ServedSites(c) : x = ItemOf(p)
  BY DEF Items
<1>6. \A x \in Items(c) : x.institution \in Int /\ x.code \in Int /\ x.name \in Int
  BY <1>2, <1>4, <1>5 DEF Keyed
<1>7. ASSUME NEW x \in Items(c), NEW y \in Items(c),
             x.institution = y.institution, x.code = y.code
      PROVE  x = y
  <2>1. PICK p \in ServedSites(c) : x = ItemOf(p)
    BY <1>5
  <2>2. PICK q \in ServedSites(c) : y = ItemOf(q)
    BY <1>5
  <2>3. p[1] = q[1]
    BY <1>2, <1>4, <1>7, <2>1, <2>2 DEF Keyed
  <2>4. p[2] = q[2]
    BY <1>2, <1>4, <1>7, <2>1, <2>2, <2>3 DEF Keyed
  <2>5. p = q
    BY <1>4, <2>3, <2>4
  <2> QED BY <2>1, <2>2, <2>5
<1> HIDE DEF made
<1>8. IsFiniteSet(Items(c))
  BY <1>1, <1>3, ImageIsFinite
<1> QED BY <1>6, <1>7, <1>8

\* Queries there are.
Query == {Blank} \cup DOMAIN Ranks

FoundBy(c, query, filter) ==
    {item \in Items(c) : Fits(item, filter) /\ FitsQuery(query, item)}

LEMMA RanksAreNumbers ==
    ASSUME NEW query \in Query, NEW item, FitsQuery(query, item)
    PROVE  Rank(query, item) \in Int
BY RanksAssumption DEF Query, FitsQuery, Rank

LEMMA BeforeIsStrict ==
    ASSUME NEW c, Sound(c), NEW query \in Query, NEW S, S \subseteq Items(c),
           \A x \in S : FitsQuery(query, x)
    PROVE  StrictOrder({z \in S \X S : Before(query, z[1], z[2])}, S)
<1> DEFINE R(x) == Rank(query, x)
           N(x) == x.name
           I(x) == x.institution
           C(x) == x.code
           before == {z \in S \X S : Before(query, z[1], z[2])}
<1>1. \A x \in S : R(x) \in Int /\ N(x) \in Int /\ I(x) \in Int /\ C(x) \in Int
  BY ItemsAreKeyed, RanksAreNumbers
<1>2. \A x, y \in S : I(x) = I(y) /\ C(x) = C(y) => x = y
  BY ItemsAreKeyed
<1>3. ASSUME NEW x \in S, NEW y \in S
      PROVE  Before(query, x, y) <=>
                \/ R(x) < R(y)
                \/ R(x) = R(y) /\ N(x) < N(y)
                \/ R(x) = R(y) /\ N(x) = N(y) /\ I(x) < I(y)
                \/ R(x) = R(y) /\ N(x) = N(y) /\ I(x) = I(y) /\ C(x) < C(y)
  <2> DEFINE a == <<R(x), N(x), I(x), C(x)>>
             b == <<R(y), N(y), I(y), C(y)>>
             After(i) == a[i] < b[i] /\ \A j \in 1..(i - 1) : a[j] = b[j]
  <2>1. Before(query, x, y) <=> \E i \in 1..4 : After(i)
    BY DEF Before
  <2>2. 1..4 = {1, 2, 3, 4}
    OBVIOUS
  <2>3. /\ 1..(1 - 1) = {} /\ 1..(2 - 1) = {1} /\ 1..(3 - 1) = {1, 2}
        /\ 1..(4 - 1) = {1, 2, 3}
    OBVIOUS
  <2>4. /\ a[1] = R(x) /\ a[2] = N(x) /\ a[3] = I(x) /\ a[4] = C(x)
        /\ b[1] = R(y) /\ b[2] = N(y) /\ b[3] = I(y) /\ b[4] = C(y)
    OBVIOUS
  <2> HIDE DEF a, b, R, N, I, C
  <2>5. After(1) <=> R(x) < R(y)
    BY <2>3, <2>4
  <2>6. After(2) <=> N(x) < N(y) /\ R(x) = R(y)
    BY <2>3, <2>4
  <2>7. After(3) <=> I(x) < I(y) /\ R(x) = R(y) /\ N(x) = N(y)
    BY <2>3, <2>4
  <2>8. After(4) <=> C(x) < C(y) /\ R(x) = R(y) /\ N(x) = N(y) /\ I(x) = I(y)
    BY <2>3, <2>4
  <2> HIDE DEF After
  <2>9. Before(query, x, y) <=> After(1) \/ After(2) \/ After(3) \/ After(4)
    BY <2>1, <2>2
  <2> QED BY <2>5, <2>6, <2>7, <2>8, <2>9
<1>4. \A x, y \in S : <<x, y>> \in before <=> Before(query, x, y)
  OBVIOUS
<1> HIDE DEF before, R, N, I, C
<1>5. \A x \in S : <<x, x>> \notin before
  BY <1>1, <1>3, <1>4
<1>6. \A x, y \in S : x # y => <<x, y>> \in before \/ <<y, x>> \in before
  <2> SUFFICES ASSUME NEW x \in S, NEW y \in S, x # y
               PROVE  <<x, y>> \in before \/ <<y, x>> \in before
    OBVIOUS
  <2>1. I(x) # I(y) \/ C(x) # C(y)
    BY <1>2
  <2> QED BY <1>1, <1>3, <1>4, <2>1
<1>7. \A x, y, z \in S : <<x, y>> \in before /\ <<y, z>> \in before => <<x, z>> \in before
  <2> SUFFICES ASSUME NEW x \in S, NEW y \in S, NEW z \in S,
                      <<x, y>> \in before, <<y, z>> \in before
               PROVE  <<x, z>> \in before
    OBVIOUS
  <2> QED BY <1>1, <1>3, <1>4
<1> QED BY <1>5, <1>6, <1>7 DEF StrictOrder, before

\* The matches of a search are what it finds, each once.
LEMMA MatchesListAll ==
    ASSUME NEW c, Sound(c), NEW query \in Query, NEW filter
    PROVE  LET found == FoundBy(c, query, filter)
               n == Cardinality(found)
               matches == Matches(c, query, filter)
           IN  /\ n \in Nat /\ Len(matches) = n /\ matches \in [1..n -> found]
               /\ \A i, j \in 1..n : matches[i] = matches[j] => i = j
               /\ \A x \in found : \E i \in 1..n : matches[i] = x
<1> DEFINE found == FoundBy(c, query, filter)
           n == Cardinality(found)
           matches == Matches(c, query, filter)
           before == {z \in found \X found : Before(query, z[1], z[2])}
           place(x) == PlaceIn(before, found, x)
<1>1. found \subseteq Items(c) /\ \A x \in found : FitsQuery(query, x)
  BY DEF FoundBy
<1>2. IsFiniteSet(found)
  BY <1>1, ItemsAreKeyed, FS_Subset
<1>3. matches = [i \in 1..n |->
                   CHOOSE item \in found :
                      Cardinality({other \in found : Before(query, other, item)}) = i - 1]
  BY DEF Matches, FoundBy
<1> HIDE DEF found
<1>4. StrictOrder(before, found)
  BY <1>1, BeforeIsStrict
<1>5. \A x \in found : {other \in found : Before(query, other, x)}
                         = {y \in found : <<y, x>> \in before}
  OBVIOUS
<1> HIDE DEF before, matches
<1>6. /\ n \in Nat
      /\ \A x \in found : place(x) \in 1..n
      /\ \A x, y \in found : place(x) = place(y) => x = y
      /\ \A k \in 1..n : \E x \in found : place(x) = k
  BY <1>2, <1>4, PlacesAreTaken
<1>7. \A x \in found :
         place(x) = 1 + Cardinality({other \in found : Before(query, other, x)})
  BY <1>5 DEF PlaceIn
<1> HIDE DEF n, place
<1>8. ASSUME NEW i \in 1..n PROVE matches[i] \in found /\ place(matches[i]) = i
  <2> DEFINE Here(item) == Cardinality({other \in found : Before(query, other, item)}) = i - 1
  <2>1. PICK x \in found : place(x) = i
    BY <1>6
  <2>2. IsFiniteSet({other \in found : Before(query, other, x)})
    BY <1>2, FS_Subset
  <2>3. Cardinality({other \in found : Before(query, other, x)}) \in Nat
    BY <2>2, FS_CardinalityType
  <2>4. Here(x)
    BY <1>6, <1>7, <2>1, <2>3
  <2>5. matches[i] = CHOOSE item \in found : Here(item)
    BY <1>3
  <2> HIDE DEF Here
  <2>6. matches[i] \in found /\ Here(matches[i])
    BY <2>4, <2>5
  <2>7. Cardinality({other \in found : Before(query, other, matches[i])}) = i - 1
    BY <2>6 DEF Here
  <2>8. place(matches[i]) = 1 + (i - 1)
    BY <1>7, <2>6, <2>7
  <2> QED BY <1>6, <2>6, <2>8
<1>9. matches \in [1..n -> found]
  BY <1>3, <1>8
<1>10. Len(matches) = n
  BY <1>6, <1>9
<1>11. \A i, j \in 1..n : matches[i] = matches[j] => i = j
  BY <1>8
<1>12. \A x \in found : \E i \in 1..n : matches[i] = x
  BY <1>6, <1>8
<1> QED BY <1>6, <1>9, <1>10, <1>11, <1>12 DEF n, matches, found

\* A page of the matches from an offset on.
Cut(c, query, filter, limit, offset) ==
    LET page == SearchPage(c, query, filter, limit, offset)
        n == Cardinality(FoundBy(c, query, filter))
        matches == Matches(c, query, filter)
    IN  /\ page.snapshot = c.id
        /\ Len(page.items) \in Nat /\ DOMAIN page.items = 1..Len(page.items)
        /\ \A j \in DOMAIN page.items :
              offset + j \in 1..n /\ page.items[j] = matches[offset + j]
        /\ page.next = None => offset + Len(page.items) >= n
        /\ page.next # None => page.next = offset + Len(page.items)
        /\ page.next \in Nat \cup {None}

LEMMA PageOfMatches ==
    ASSUME NEW c, Sound(c), NEW query \in Query, NEW filter,
           NEW limit \in Nat \ {0}, NEW offset \in Nat
    PROVE  Cut(c, query, filter, limit, offset)
<1> DEFINE page == SearchPage(c, query, filter, limit, offset)
           n == Cardinality(FoundBy(c, query, filter))
           found == FoundBy(c, query, filter)
           matches == Matches(c, query, filter)
           end == IF offset + limit < n THEN offset + limit ELSE n
           items == SubSeq(matches, offset + 1, end)
<1>1. n \in Nat /\ Len(matches) = n /\ matches \in [1..n -> found]
  BY MatchesListAll
<1>2. page = [items |-> items, total |-> n, snapshot |-> c.id,
              next |-> IF offset + Len(items) < n THEN offset + Len(items) ELSE None]
  <2> HIDE DEF matches, n
  <2> QED BY <1>1 DEF SearchPage, matches
<1> HIDE DEF page, n, found, matches
<1>3. end \in Nat /\ end <= n /\ offset + 1 \in Nat \ {0}
  BY <1>1
<1>4. \A i \in (offset + 1)..end : i \in 1..n /\ matches[i] \in found
  BY <1>1, <1>3
<1>5. end = n \/ end = offset + limit
  OBVIOUS
<1> HIDE DEF end
<1>6. /\ items \in Seq(found)
      /\ Len(items) = IF offset + 1 <= end THEN end - (offset + 1) + 1 ELSE 0
      /\ \A i \in 1..(end - (offset + 1) + 1) : items[i] = matches[offset + 1 + i - 1]
  <2>1. offset + 1 \in Int /\ end \in Int
    BY <1>3
  <2>2. \A i \in (offset + 1)..end : matches[i] \in found
    BY <1>4
  <2> QED BY ONLY <2>1, <2>2, SubSeqProperties
<1> HIDE DEF items
<1>7. Len(items) \in Nat /\ DOMAIN items = 1..Len(items)
  BY <1>6
<1>8. ASSUME NEW j \in 1..Len(items)
      PROVE  offset + j \in 1..n /\ items[j] = matches[offset + j]
  <2>3. j \in Nat /\ 1 <= j /\ j <= Len(items)
    BY <1>7
  <2>4. Len(items) # 0
    BY <1>7, <2>3
  <2>5. offset + 1 <= end /\ Len(items) = end - (offset + 1) + 1
    BY <1>6, <2>4
  <2>1. /\ j \in Nat /\ 1 <= j /\ offset + 1 <= end /\ j <= end - (offset + 1) + 1
        /\ offset + 1 + j - 1 = offset + j
    BY <1>3, <2>3, <2>5
  <2>2. j \in 1..(end - (offset + 1) + 1)
    BY <1>3, <2>1
  <2> QED BY <1>1, <1>3, <1>6, <2>1, <2>2
<1>9. page.next = IF offset + Len(items) < n THEN offset + Len(items) ELSE None
  BY <1>2
<1>10. /\ page.next = None => offset + Len(items) >= n
       /\ page.next # None => page.next = offset + Len(items)
       /\ page.next \in Nat \cup {None}
  <2>1. offset + Len(items) \in Nat /\ None \notin Nat
    BY <1>7, SourceAssumption
  <2> QED BY <1>1, <1>9, <2>1
<1>11. page.snapshot = c.id /\ page.items = items
  BY <1>2
<1> QED BY <1>7, <1>8, <1>10, <1>11 DEF Cut, page, n, matches

-----------------------------------------------------------------------------
(***************************************************************************)
(* Visits.  Each page begins where the one before it ended, whatever has   *)
(* been served since; and a page that bears the number of the snapshot     *)
(* that is served was cut from its matches.                                *)
(***************************************************************************)
Offset(pages, i) == IF i = 1 THEN 0 ELSE pages[i - 1].next
EndOf(pages, i) == Offset(pages, i) + Len(pages[i].items)

IsPage(page) ==
    /\ Len(page.items) \in Nat /\ DOMAIN page.items = 1..Len(page.items)
    /\ page.next \in Nat \cup {None}

Continue(pages) ==
    /\ pages \in Seq(ToSet(pages)) /\ Len(pages) \in Nat \ {0}
    /\ \A i \in 1..Len(pages) : IsPage(pages[i]) /\ Offset(pages, i) \in Nat
    /\ \A i \in 1..Len(pages) : pages[i].next # None => pages[i].next = EndOf(pages, i)
    /\ \A i, j \in 1..Len(pages) : i < j => EndOf(pages, i) <= Offset(pages, j)
    /\ \A k \in 1..EndOf(pages, Len(pages)) :
          \E i \in 1..Len(pages) : Offset(pages, i) < k /\ k <= EndOf(pages, i)

\* Each snapshot has a number of its own, and they rise.
VersionsInv ==
    /\ round \in Nat
    /\ candidate # None => /\ candidate.id \in Nat /\ candidate.id <= round
                           /\ IsFetching => candidate.id < round
    /\ published # None => /\ published.id \in Nat /\ published.id <= round
                           /\ IsFetching => published.id < round
    /\ candidate # None /\ published # None => published.id < candidate.id
    /\ served # None => /\ published # None /\ Sound(served)
                        /\ served.id \in Nat /\ served.id <= published.id
                        /\ served.id = published.id => served = published

\* A page of the snapshot that is published was cut while that one was served,
\* and still is.
VisitInv ==
    visit # None =>
        /\ DOMAIN visit = {"ask", "pages"} /\ visit.ask \in scene.asks
        /\ Continue(visit.pages)
        /\ published # None
        /\ \A i \in 1..Len(visit.pages) :
             LET page == visit.pages[i]
             IN  /\ page.snapshot \in Nat /\ page.snapshot <= published.id
                 /\ page.snapshot = published.id => served = published
                 /\ served # None /\ page.snapshot = served.id =>
                       page = PageFor(visit.ask, Offset(visit.pages, i))

SearchInv == SnapshotInv /\ VersionsInv /\ VisitInv

LEMMA OnePageContinues ==
    ASSUME NEW page, IsPage(page), page.next # None => page.next = Len(page.items)
    PROVE  /\ Continue(<<page>>) /\ Len(<<page>>) = 1 /\ <<page>>[1] = page
           /\ Offset(<<page>>, 1) = 0
<1> DEFINE pages == <<page>>
<1>1. /\ pages \in Seq(ToSet(pages)) /\ Len(pages) = 1 /\ 1..Len(pages) = {1}
      /\ pages[1] = page
  BY DEF ToSet
<1> HIDE DEF pages
<1>2. Offset(pages, 1) = 0 /\ EndOf(pages, 1) = Len(page.items) /\ Len(page.items) \in Nat
  BY <1>1 DEF Offset, EndOf, IsPage
<1>3. Continue(pages)
  BY <1>1, <1>2 DEF Continue
<1> QED BY <1>1, <1>2, <1>3 DEF pages

LEMMA PagesContinue ==
    ASSUME NEW pages, Continue(pages), pages[Len(pages)].next # None,
           NEW page, IsPage(page),
           page.next # None => page.next = pages[Len(pages)].next + Len(page.items)
    PROVE  LET grown == Append(pages, page)
               n == Len(pages) + 1
           IN  /\ Continue(grown) /\ Len(grown) = n
               /\ \A i \in 1..Len(pages) : /\ grown[i] = pages[i]
                                           /\ Offset(grown, i) = Offset(pages, i)
               /\ grown[n] = page /\ Offset(grown, n) = pages[Len(pages)].next
<1> DEFINE grown == Append(pages, page)
           m == Len(pages)
           n == m + 1
           T == ToSet(pages) \cup {page}
<1>1. /\ pages \in Seq(ToSet(pages)) /\ m \in Nat \ {0}
      /\ \A i \in 1..m : IsPage(pages[i]) /\ Offset(pages, i) \in Nat
      /\ \A i \in 1..m : pages[i].next # None => pages[i].next = EndOf(pages, i)
      /\ \A i, j \in 1..m : i < j => EndOf(pages, i) <= Offset(pages, j)
      /\ \A k \in 1..EndOf(pages, m) :
            \E i \in 1..m : Offset(pages, i) < k /\ k <= EndOf(pages, i)
  BY DEF Continue
<1>2. pages \in Seq(T) /\ page \in T
  BY <1>1
<1>3. /\ grown \in Seq(T) /\ Len(grown) = n /\ grown[n] = page
      /\ \A i \in 1..m : grown[i] = pages[i]
  <2> HIDE DEF T
  <2> QED BY ONLY <1>2, AppendProperties
<1>4. 1..n = 1..m \cup {n} /\ m \in 1..m /\ n \notin 1..m /\ n # 1 /\ n - 1 = m /\ n \in Nat \ {0}
  BY <1>1
<1>5. grown \in Seq(ToSet(grown))
  <2>1. DOMAIN grown = 1..Len(grown) /\ Len(grown) \in Nat
    BY <1>3
  <2>2. \A i \in 1..Len(grown) : grown[i] \in ToSet(grown)
    BY <2>1 DEF ToSet
  <2>3. grown = [i \in 1..Len(grown) |-> grown[i]]
    <3> HIDE DEF grown, T
    <3> QED BY <1>3, <2>1
  <2> HIDE DEF grown
  <2> QED BY <2>1, <2>2, <2>3
<1> HIDE DEF grown, T
<1>6. \A i \in 1..m : Offset(grown, i) = Offset(pages, i)
  <2> SUFFICES ASSUME NEW i \in 1..m PROVE Offset(grown, i) = Offset(pages, i)
    OBVIOUS
  <2>1. i = 1 \/ i - 1 \in 1..m
    OBVIOUS
  <2> QED BY <1>3, <2>1 DEF Offset
<1>7. Offset(grown, n) = pages[m].next
  BY <1>3, <1>4 DEF Offset
<1> DEFINE o(i) == Offset(pages, i)
           e(i) == EndOf(pages, i)
           last == pages[m].next
           end == last + Len(page.items)
<1>8. \A i \in 1..m : EndOf(grown, i) = e(i)
  BY <1>3, <1>6 DEF EndOf
<1>9. EndOf(grown, n) = end
  BY <1>3, <1>7 DEF EndOf
<1>10. \A i \in 1..m : o(i) \in Nat /\ e(i) \in Nat /\ o(i) <= e(i)
  <2> SUFFICES ASSUME NEW i \in 1..m PROVE o(i) \in Nat /\ e(i) \in Nat /\ o(i) <= e(i)
    OBVIOUS
  <2>1. Offset(pages, i) \in Nat /\ Len(pages[i].items) \in Nat
    BY <1>1 DEF IsPage
  <2> QED BY <2>1 DEF EndOf
<1>11. last = e(m) /\ last \in Nat /\ Len(page.items) \in Nat /\ end \in Nat /\ last <= end
  <2>1. last = e(m)
    BY <1>1, <1>4
  <2>2. last \in Nat /\ Len(page.items) \in Nat
    BY <1>4, <1>10, <2>1 DEF IsPage
  <2> QED BY <2>1, <2>2
<1>12. ASSUME NEW i \in 1..m PROVE e(i) <= last
  <2>1. i < m \/ i = m
    BY <1>1
  <2>2. i < m => e(i) <= o(m)
    BY <1>1, <1>4
  <2> HIDE DEF o, e, last
  <2>3. CASE i < m
    <3>1. e(i) <= o(m) /\ o(m) <= e(m) /\ e(i) \in Nat /\ o(m) \in Nat /\ e(m) \in Nat
      BY <1>4, <1>10, <2>2, <2>3
    <3> QED BY <1>11, <3>1
  <2>4. CASE i = m
    BY <1>11, <2>4
  <2> QED BY <2>1, <2>3, <2>4
<1> HIDE DEF n
<1>13. \A i \in 1..n : IsPage(grown[i]) /\ Offset(grown, i) \in Nat
  BY <1>1, <1>3, <1>4, <1>6, <1>7, <1>11
<1>14. \A i \in 1..n : grown[i].next # None => grown[i].next = EndOf(grown, i)
  BY <1>1, <1>3, <1>4, <1>8, <1>9
<1>15. \A i, j \in 1..n : i < j => EndOf(grown, i) <= Offset(grown, j)
  <2> SUFFICES ASSUME NEW i \in 1..n, NEW j \in 1..n, i < j
               PROVE  EndOf(grown, i) <= Offset(grown, j)
    OBVIOUS
  <2>1. i \in 1..m
    BY <1>1, <1>4
  <2>2. CASE j \in 1..m
    BY <1>1, <1>6, <1>8, <2>1, <2>2
  <2>3. CASE j = n
    BY <1>7, <1>8, <1>12, <2>1, <2>3
  <2> QED BY <1>4, <2>2, <2>3
<1>16. ASSUME NEW k \in 1..end
       PROVE  \E i \in 1..n : Offset(grown, i) < k /\ k <= EndOf(grown, i)
  <2> HIDE DEF o, e, last, end
  <2>1. k \in Nat /\ 1 <= k /\ k <= end
    BY <1>11
  <2>2. CASE k <= last
    <3>1. k \in 1..e(m)
      BY <1>11, <2>1, <2>2
    <3>2. PICK i \in 1..m : Offset(pages, i) < k /\ k <= EndOf(pages, i)
      BY <1>1, <3>1 DEF e
    <3> QED BY <1>4, <1>6, <1>8, <3>2 DEF e
  <2>3. CASE last < k
    BY <1>4, <1>7, <1>9, <2>1, <2>3 DEF last
  <2> QED BY <1>11, <2>1, <2>2, <2>3
<1> HIDE DEF o, e, last, end
<1>17. Continue(grown)
  BY <1>3, <1>4, <1>5, <1>9, <1>13, <1>14, <1>15, <1>16 DEF Continue
<1> QED BY <1>3, <1>6, <1>7, <1>17 DEF grown, n

LEMMA VisitsStart == Init => VersionsInv /\ VisitInv
BY DEF Init, VersionsInv, VisitInv, IsFetching, NoSync

\* What is served makes pages.
LEMMA PageIsMade ==
    ASSUME SearchInv, served # None, NEW ask \in scene.asks, NEW offset \in Nat
    PROVE  LET page == PageFor(ask, offset)
           IN  /\ IsPage(page) /\ page.snapshot = served.id
               /\ page.next # None => page.next = offset + Len(page.items)
<1>1. Sound(served)
  BY DEF SearchInv, VersionsInv
<1>2. ask.limit \in Nat \ {0} /\ ask.query \in Query
  BY SceneAssumption DEF SearchInv, SnapshotInv, SourcesInv, Query
<1> DEFINE page == SearchPage(served, ask.query, ask.filter, ask.limit, offset)
<1>3. PageFor(ask, offset) = page
  BY DEF PageFor
<1> DEFINE query == ask.query
           filter == ask.filter
           limit == ask.limit
<1>5. query \in Query /\ limit \in Nat \ {0} /\ offset \in Nat
  BY <1>2
<1> HIDE DEF query, filter, limit
<1>6. Cut(served, query, filter, limit, offset)
  BY ONLY <1>1, <1>5, PageOfMatches
<1>4. /\ page.snapshot = served.id
      /\ Len(page.items) \in Nat /\ DOMAIN page.items = 1..Len(page.items)
      /\ page.next # None => page.next = offset + Len(page.items)
      /\ page.next \in Nat \cup {None}
  BY <1>6 DEF Cut, query, filter, limit
<1> HIDE DEF page
<1> QED BY <1>3, <1>4 DEF IsPage

LEMMA VisitBegins ==
    ASSUME SearchInv, Search
    PROVE  VisitInv'
<1>1. /\ served # None
      /\ UNCHANGED <<scene, candidate, published, served>>
  BY DEF Search
<1>2. PICK ask \in scene.asks : visit' = [ask |-> ask, pages |-> <<PageFor(ask, 0)>>]
  BY DEF Search
<1> DEFINE page == PageFor(ask, 0)
<1>3. /\ IsPage(page) /\ page.snapshot = served.id
      /\ page.next # None => page.next = 0 + Len(page.items)
  BY <1>1, PageIsMade
<1>4. page.next # None => page.next = Len(page.items)
  BY <1>3 DEF IsPage
<1>5. PageFor(ask, 0)' = page
  BY <1>1 DEF PageFor
<1>6. DOMAIN visit' = {"ask", "pages"} /\ visit'.ask = ask /\ visit'.pages = <<page>>
  BY <1>2
<1> HIDE DEF page
<1>7. /\ Continue(<<page>>) /\ Len(<<page>>) = 1 /\ <<page>>[1] = page
      /\ Offset(<<page>>, 1) = 0
  BY <1>3, <1>4, OnePageContinues
<1>8. /\ published # None /\ served.id \in Nat /\ served.id <= published.id
      /\ served.id = published.id => served = published
  BY <1>1 DEF SearchInv, VersionsInv
<1>9. ASSUME NEW i \in 1..Len(visit'.pages)
      PROVE  LET p == visit'.pages[i]
             IN  /\ p.snapshot \in Nat /\ p.snapshot <= published'.id
                 /\ p.snapshot = published'.id => served' = published'
                 /\ served' # None /\ p.snapshot = served'.id =>
                       p = PageFor(visit.ask, Offset(visit.pages, i))'
  <2>1. i = 1 /\ visit'.pages[i] = page
    BY <1>6, <1>7
  <2>2. PageFor(visit.ask, Offset(visit.pages, i))' = page
    <3>1. Offset(visit.pages, i)' = 0
      BY <2>1 DEF Offset
    <3>2. PageFor(visit.ask, Offset(visit.pages, i))' = PageFor(ask, 0)'
      BY <1>6, <3>1 DEF PageFor
    <3> QED BY <1>5, <3>2
  <2> QED BY <1>1, <1>3, <1>8, <2>1, <2>2
<1> QED BY <1>1, <1>6, <1>7, <1>8, <1>9 DEF VisitInv

LEMMA VisitGoesOn ==
    ASSUME SearchInv, NextPage
    PROVE  VisitInv'
<1>1. /\ served # None /\ visit # None /\ Last(visit.pages).next # None
      /\ visit' = [visit EXCEPT !.pages = Append(@, PageFor(visit.ask, Last(@).next))]
      /\ UNCHANGED <<scene, candidate, published, served>>
  BY DEF NextPage
<1> DEFINE pages == visit.pages
           m == Len(pages)
           next == pages[m].next
           page == PageFor(visit.ask, next)
           grown == Append(pages, page)
<1>2. /\ DOMAIN visit = {"ask", "pages"} /\ visit.ask \in scene.asks
      /\ Continue(pages) /\ published # None
  BY <1>1 DEF SearchInv, VisitInv
<1>3. ASSUME NEW i \in 1..m
      PROVE  LET p == pages[i]
             IN  /\ p.snapshot \in Nat /\ p.snapshot <= published.id
                 /\ p.snapshot = published.id => served = published
                 /\ p.snapshot = served.id => p = PageFor(visit.ask, Offset(pages, i))
  BY <1>1 DEF SearchInv, VisitInv
<1>4. m \in Nat \ {0} /\ Last(pages) = pages[m]
  BY <1>2 DEF Continue, Last
<1>5. next # None /\ next \in Nat
  <2>1. IsPage(pages[m])
    BY <1>2, <1>4 DEF Continue
  <2> QED BY <1>1, <1>4, <2>1 DEF IsPage
<1>6. DOMAIN visit' = {"ask", "pages"} /\ visit'.ask = visit.ask /\ visit'.pages = grown
  BY <1>1, <1>2, <1>4
<1>7. /\ IsPage(page) /\ page.snapshot = served.id
      /\ page.next # None => page.next = next + Len(page.items)
  BY <1>1, <1>2, <1>5, PageIsMade
<1>8. \A offset : PageFor(visit.ask, offset)' = PageFor(visit.ask, offset)
  BY <1>1, <1>6 DEF PageFor
<1>9. /\ published # None /\ served.id \in Nat /\ served.id <= published.id
      /\ served.id = published.id => served = published
  BY <1>1 DEF SearchInv, VersionsInv
<1> HIDE DEF pages, page
<1>10. /\ Continue(grown) /\ Len(grown) = m + 1
       /\ \A i \in 1..m : grown[i] = pages[i] /\ Offset(grown, i) = Offset(pages, i)
       /\ grown[m + 1] = page /\ Offset(grown, m + 1) = next
  BY <1>2, <1>5, <1>7, PagesContinue
<1> HIDE DEF grown
<1>11. ASSUME NEW i \in 1..Len(grown)
       PROVE  LET p == grown[i]
              IN  /\ p.snapshot \in Nat /\ p.snapshot <= published.id
                  /\ p.snapshot = published.id => served = published
                  /\ p.snapshot = served.id => p = PageFor(visit.ask, Offset(grown, i))
  <2>1. CASE i \in 1..m
    BY <1>3, <1>10, <2>1
  <2>2. CASE i = m + 1
    BY <1>7, <1>9, <1>10, <2>2 DEF page
  <2>3. i \in 1..m \/ i = m + 1
    BY <1>4, <1>10
  <2> QED BY <2>1, <2>2, <2>3
<1>12. ASSUME NEW i \in 1..Len(visit'.pages)
       PROVE  LET p == visit'.pages[i]
              IN  /\ p.snapshot \in Nat /\ p.snapshot <= published'.id
                  /\ p.snapshot = published'.id => served' = published'
                  /\ served' # None /\ p.snapshot = served'.id =>
                        p = PageFor(visit.ask, Offset(visit.pages, i))'
  <2>1. PageFor(visit.ask, Offset(visit.pages, i))' = PageFor(visit.ask, Offset(grown, i))
    <3>1. Offset(visit.pages, i)' = Offset(grown, i)
      BY <1>6 DEF Offset
    <3> QED BY <1>1, <1>6, <3>1 DEF PageFor
  <2> QED BY <1>1, <1>6, <1>11, <2>1
<1> QED BY <1>1, <1>2, <1>6, <1>10, <1>12 DEF VisitInv

\* Nobody's pages change but by paging, and what is served only with a start.
LEMMA VisitRests ==
    ASSUME SearchInv, UNCHANGED <<scene, served, visit>>, published' = published
    PROVE  VisitInv'
<1>1. \A offset : PageFor(visit.ask, offset)' = PageFor(visit.ask, offset)
  BY DEF PageFor
<1>2. \A i : Offset(visit.pages, i)' = Offset(visit.pages, i)
  BY DEF Offset
<1>3. VisitInv
  BY DEF SearchInv
<1> QED BY <1>1, <1>2, <1>3 DEF VisitInv

LEMMA VersionSteps ==
    ASSUME SearchInv, [Next]_vars
    PROVE  VersionsInv'
<1>1. VersionsInv
  BY DEF SearchInv
<1>2. CASE \/ CloseSchool \/ OpenSchool \/ CloseKindergarten \/ OpenKindergarten \/ ReleaseList
           \/ Search \/ NextPage \/ UNCHANGED vars
  <2>1. UNCHANGED <<sync, round, candidate, published, served>>
    BY <1>2 DEF CloseSchool, OpenSchool, CloseKindergarten, OpenKindergarten, ReleaseList,
                Change, Search, NextPage, vars
  <2> QED BY <1>1, <2>1 DEF VersionsInv, IsFetching
<1>3. CASE StartSync
  <2>1. sync = NoSync /\ round' = round + 1 /\ UNCHANGED <<candidate, published, served>>
    BY <1>3 DEF StartSync, SyncStep
  <2> QED BY <1>1, <2>1 DEF VersionsInv
<1>4. CASE ReadNeis \/ ReadKindergartens \/ FailRequest
  <2>1. IsFetching /\ UNCHANGED <<round, candidate, published, served>>
    BY <1>4 DEF ReadNeis, ReadKindergartens, FailRequest, SyncStep
  <2> QED BY <1>1, <2>1 DEF VersionsInv
<1>5. CASE Build
  <2>1. /\ IsFetching /\ sync' = NoSync /\ UNCHANGED <<round, published, served>>
        /\ candidate' = candidate \/ candidate'.id = round
    <3>1. \A records, asked : Candidate(records, Fetched, asked, published, round).id = round
      BY DEF Candidate
    <3> QED BY <1>5, <3>1 DEF Build, SyncStep
  <2>2. ~IsFetching'
    BY <2>1 DEF IsFetching, NoSync
  <2> QED BY <1>1, <2>1, <2>2 DEF VersionsInv
<1>6. CASE Promote
  <2>1. /\ candidate # None /\ published' = candidate /\ candidate' = None
        /\ UNCHANGED <<sync, round, served>>
    BY <1>6 DEF Promote
  <2> QED BY <1>1, <2>1 DEF VersionsInv, IsFetching
<1>7. CASE Restart
  <2>1. /\ published # None /\ UNCHANGED <<sync, round, candidate, published>>
        /\ served' = published \/ served' = None
    BY <1>7 DEF Restart
  <2>2. Sound(published)
    BY <2>1 DEF SearchInv, SnapshotInv, SnapshotsInv
  <2>3. Sound(served)' \/ served' = None
    BY <2>1, <2>2 DEF Sound, Fielded, Keyed
  <2> QED BY <1>1, <2>1, <2>3 DEF VersionsInv, IsFetching
<1> QED BY <1>2, <1>3, <1>4, <1>5, <1>6, <1>7 DEF Next

LEMMA VisitSteps ==
    ASSUME SearchInv, [Next]_vars
    PROVE  VisitInv'
<1>1. CASE Search
  BY <1>1, VisitBegins
<1>2. CASE NextPage
  BY <1>2, VisitGoesOn
<1>3. CASE \/ CloseSchool \/ OpenSchool \/ CloseKindergarten \/ OpenKindergarten \/ ReleaseList
           \/ StartSync \/ ReadNeis \/ ReadKindergartens \/ FailRequest \/ Build
           \/ UNCHANGED vars
  <2>1. UNCHANGED <<scene, published, served, visit>>
    BY <1>3 DEF CloseSchool, OpenSchool, CloseKindergarten, OpenKindergarten, ReleaseList,
                Change, StartSync, ReadNeis, ReadKindergartens, FailRequest, Build, SyncStep, vars
  <2> QED BY <2>1, VisitRests
<1>4. CASE Promote \/ Restart
  <2>1. UNCHANGED <<scene, visit>>
    BY <1>4 DEF Promote, Restart
  <2> SUFFICES ASSUME visit # None
               PROVE  /\ published' # None
                      /\ \A i \in 1..Len(visit.pages) :
                           LET page == visit.pages[i]
                           IN  /\ page.snapshot \in Nat /\ page.snapshot <= published'.id
                               /\ page.snapshot = published'.id => served' = published'
                               /\ served' # None /\ page.snapshot = served'.id =>
                                     page = PageFor(visit.ask, Offset(visit.pages, i))'
    BY <2>1 DEF VisitInv, SearchInv
  <2>2. /\ published # None /\ published.id \in Nat
        /\ \A i \in 1..Len(visit.pages) :
             LET page == visit.pages[i]
             IN  /\ page.snapshot \in Nat /\ page.snapshot <= published.id
                 /\ page.snapshot = published.id => served = published
                 /\ served # None /\ page.snapshot = served.id =>
                       page = PageFor(visit.ask, Offset(visit.pages, i))
    BY DEF SearchInv, VersionsInv, VisitInv
  <2>3. CASE Promote
    <3>1. candidate # None /\ published' = candidate /\ served' = served
      BY <2>3 DEF Promote
    <3>2. published'.id \in Nat /\ published.id < published'.id
      BY <2>2, <3>1 DEF SearchInv, VersionsInv
    <3>3. \A i : PageFor(visit.ask, Offset(visit.pages, i))'
                   = PageFor(visit.ask, Offset(visit.pages, i))
      BY <2>1, <3>1 DEF PageFor, Offset
    <3> QED BY <2>2, <3>1, <3>2, <3>3
  <2>4. CASE Restart
    <3>1. /\ served # published /\ published' = published
          /\ served' = published \/ served' = None
      BY <2>4 DEF Restart
    <3> QED BY <2>2, <3>1
  <2> QED BY <1>4, <2>3, <2>4
<1> QED BY <1>1, <1>2, <1>3, <1>4 DEF Next

(***************************************************************************)
(* Snapshots are numbered as they are built, each begins to be served      *)
(* after those before it, and the pages of a visit join one another, also  *)
(* across a start of the service (store.py:178-244).                       *)
(***************************************************************************)
THEOREM VisitInvariant == Spec => []SearchInv
<1>1. Init => SearchInv
  BY SnapshotsStart, VisitsStart DEF SearchInv
<1>2. SearchInv /\ [Next]_vars => SearchInv'
  BY SnapshotSteps, VersionSteps, VisitSteps DEF SearchInv
<1> QED BY <1>1, <1>2, PTL DEF Spec

-----------------------------------------------------------------------------
(***************************************************************************)
(* Pages read to the last, all from one snapshot.  A place, the page and   *)
(* the line of it, has a rank among the matches: what was listed before    *)
(* its page, and the line.                                                 *)
(***************************************************************************)
PlacesOf(pages) == UNION {{i} \X DOMAIN pages[i].items : i \in DOMAIN pages}
ListedAt(pages, place) == pages[place[1]].items[place[2]]
RankOf(pages, place) == Offset(pages, place[1]) + place[2]

LEMMA PlacesArePairs ==
    ASSUME NEW pages, Continue(pages), NEW place
    PROVE  /\ place \in PlacesOf(pages) =>
                /\ place[1] \in 1..Len(pages) /\ place[2] \in 1..Len(pages[place[1]].items)
                /\ place = <<place[1], place[2]>>
           /\ \A i \in 1..Len(pages) : \A j \in 1..Len(pages[i].items) :
                <<i, j>> \in PlacesOf(pages)
<1>1. DOMAIN pages = 1..Len(pages)
  BY DEF Continue
<1>2. \A i \in 1..Len(pages) : DOMAIN pages[i].items = 1..Len(pages[i].items)
  BY DEF Continue, IsPage
<1> QED BY <1>1, <1>2 DEF PlacesOf

\* A line of one page is not a line after it.
LEMMA LinesApart ==
    ASSUME NEW p \in Nat, NEW q \in Nat, NEW l \in Nat, NEW x \in Nat, NEW y \in Nat,
           x <= l, 1 <= y, p + l <= q
    PROVE  p + x # q + y
OBVIOUS

\* No two places have one rank, and every rank up to the last has a place.
LEMMA RanksAreDistinct ==
    ASSUME NEW pages, Continue(pages), NEW a \in PlacesOf(pages), NEW b \in PlacesOf(pages),
           RankOf(pages, a) = RankOf(pages, b)
    PROVE  a = b
<1> DEFINE o(i) == Offset(pages, i)
           e(i) == EndOf(pages, i)
           m == Len(pages)
<1>1. /\ a[1] \in 1..m /\ a[2] \in 1..Len(pages[a[1]].items) /\ a = <<a[1], a[2]>>
      /\ b[1] \in 1..m /\ b[2] \in 1..Len(pages[b[1]].items) /\ b = <<b[1], b[2]>>
  BY PlacesArePairs
<1>2. /\ m \in Nat
      /\ \A i \in 1..m : o(i) \in Nat /\ Len(pages[i].items) \in Nat
      /\ \A i, j \in 1..m : i < j => e(i) <= o(j)
  BY DEF Continue, IsPage
<1>3. \A i : e(i) = o(i) + Len(pages[i].items)
  BY DEF EndOf
<1>4. o(a[1]) + a[2] = o(b[1]) + b[2]
  BY DEF RankOf
<1> HIDE DEF o, e, m
<1>5. a[1] \in Int /\ b[1] \in Int /\ a[2] \in Nat /\ b[2] \in Nat /\ 1 <= a[2] /\ 1 <= b[2]
  BY <1>1, <1>2
<1>6. a[2] <= Len(pages[a[1]].items) /\ b[2] <= Len(pages[b[1]].items)
  BY <1>1, <1>2
<1>7. ~(a[1] < b[1])
  <2> SUFFICES ASSUME a[1] < b[1] PROVE FALSE
    OBVIOUS
  <2>1. e(a[1]) <= o(b[1])
    BY <1>1, <1>2
  <2>2. o(a[1]) + Len(pages[a[1]].items) <= o(b[1])
    BY <1>3, <2>1
  <2>3. o(a[1]) \in Nat /\ o(b[1]) \in Nat /\ Len(pages[a[1]].items) \in Nat
    BY <1>1, <1>2
  <2> DEFINE p == o(a[1])
             q == o(b[1])
             l == Len(pages[a[1]].items)
  <2>4. p \in Nat /\ q \in Nat /\ l \in Nat /\ a[2] <= l /\ p + l <= q /\ p + a[2] = q + b[2]
    BY <1>4, <1>6, <2>2, <2>3
  <2> HIDE DEF p, q, l
  <2> QED BY ONLY <1>5, <2>4, LinesApart
<1>8. ~(b[1] < a[1])
  <2> SUFFICES ASSUME b[1] < a[1] PROVE FALSE
    OBVIOUS
  <2>1. e(b[1]) <= o(a[1])
    BY <1>1, <1>2
  <2>2. o(b[1]) + Len(pages[b[1]].items) <= o(a[1])
    BY <1>3, <2>1
  <2>3. o(a[1]) \in Nat /\ o(b[1]) \in Nat /\ Len(pages[b[1]].items) \in Nat
    BY <1>1, <1>2
  <2> DEFINE p == o(b[1])
             q == o(a[1])
             l == Len(pages[b[1]].items)
  <2>4. p \in Nat /\ q \in Nat /\ l \in Nat /\ b[2] <= l /\ p + l <= q /\ p + b[2] = q + a[2]
    BY <1>4, <1>6, <2>2, <2>3
  <2> HIDE DEF p, q, l
  <2> QED BY ONLY <1>5, <2>4, LinesApart
<1>9. a[1] = b[1]
  BY <1>5, <1>7, <1>8
<1>10. o(a[1]) \in Nat
  BY <1>1, <1>2
<1>11. a[2] = b[2]
  BY <1>4, <1>5, <1>9, <1>10
<1> QED BY <1>1, <1>9, <1>11

LEMMA EveryRankIsReached ==
    ASSUME NEW pages, Continue(pages), NEW k \in 1..EndOf(pages, Len(pages))
    PROVE  \E place \in PlacesOf(pages) : RankOf(pages, place) = k
<1>1. PICK i \in 1..Len(pages) : Offset(pages, i) < k /\ k <= EndOf(pages, i)
  BY DEF Continue
<1>2. Offset(pages, i) \in Nat /\ Len(pages[i].items) \in Nat
  BY DEF Continue, IsPage
<1>3. k \in Int /\ k <= Offset(pages, i) + Len(pages[i].items)
  BY <1>1 DEF EndOf
<1> DEFINE j == k - Offset(pages, i)
           place == <<i, j>>
<1>4. j \in 1..Len(pages[i].items) /\ Offset(pages, i) + j = k
  BY <1>1, <1>2, <1>3
<1>5. place \in PlacesOf(pages)
  BY <1>4, PlacesArePairs
<1>6. RankOf(pages, place) = k
  BY <1>4 DEF RankOf
<1> QED BY <1>5, <1>6

LEMMA PagesListAll ==
    ASSUME NEW c, Sound(c), NEW query \in Query, NEW filter, NEW limit \in Nat \ {0},
           NEW pages, Continue(pages),
           \A i \in 1..Len(pages) :
              pages[i] = SearchPage(c, query, filter, limit, Offset(pages, i)),
           pages[Len(pages)].next = None
    PROVE  LET places == PlacesOf(pages)
               listed == [place \in places |-> ListedAt(pages, place)]
               found == FoundBy(c, query, filter)
           IN  /\ IsInjective(listed) /\ Range(listed) = found
               /\ Cardinality(places) = Cardinality(found)
<1> DEFINE places == PlacesOf(pages)
           listed == [place \in places |-> ListedAt(pages, place)]
           found == FoundBy(c, query, filter)
           n == Cardinality(found)
           matches == Matches(c, query, filter)
           m == Len(pages)
<1>1. /\ n \in Nat /\ matches \in [1..n -> found]
      /\ \A i, j \in 1..n : matches[i] = matches[j] => i = j
      /\ \A x \in found : \E i \in 1..n : matches[i] = x
  BY MatchesListAll
<1>2. m \in 1..m /\ m \in Nat /\ \A i \in 1..m : Offset(pages, i) \in Nat
  BY DEF Continue
<1>3. ASSUME NEW i \in 1..m
      PROVE  /\ \A j \in 1..Len(pages[i].items) :
                   /\ Offset(pages, i) + j \in 1..n
                   /\ pages[i].items[j] = matches[Offset(pages, i) + j]
             /\ pages[i].next = None => EndOf(pages, i) >= n
  <2> DEFINE offset == Offset(pages, i)
  <2>1. offset \in Nat
    BY <1>2
  <2> HIDE DEF offset
  <2>2. Cut(c, query, filter, limit, offset)
    BY ONLY <2>1, Sound(c), query \in Query, limit \in Nat \ {0}, PageOfMatches
  <2>3. SearchPage(c, query, filter, limit, offset) = pages[i]
    BY DEF offset
  <2>4. DOMAIN pages[i].items = 1..Len(pages[i].items)
    BY DEF Continue, IsPage
  <2> HIDE DEF matches, found
  <2>5. /\ \A j \in DOMAIN pages[i].items :
              offset + j \in 1..n /\ pages[i].items[j] = matches[offset + j]
        /\ pages[i].next = None => offset + Len(pages[i].items) >= n
    BY <2>2, <2>3 DEF Cut, matches, found
  <2> QED BY <2>4, <2>5 DEF offset, EndOf
<1> HIDE DEF found, n, matches
<1>4. ASSUME NEW place \in places
      PROVE  /\ RankOf(pages, place) \in 1..n
             /\ ListedAt(pages, place) = matches[RankOf(pages, place)]
  <2>1. place[1] \in 1..m /\ place[2] \in 1..Len(pages[place[1]].items)
    BY PlacesArePairs
  <2> QED BY <1>3, <2>1 DEF RankOf, ListedAt
<1>5. EndOf(pages, m) >= n /\ EndOf(pages, m) \in Nat
  <2>1. EndOf(pages, m) >= n
    BY <1>2, <1>3
  <2>2. Offset(pages, m) \in Nat /\ Len(pages[m].items) \in Nat
    BY <1>2 DEF Continue, IsPage
  <2> QED BY <2>1, <2>2 DEF EndOf
<1>6. \A k \in 1..n : \E place \in places : RankOf(pages, place) = k
  <2> SUFFICES ASSUME NEW k \in 1..n
               PROVE  \E place \in places : RankOf(pages, place) = k
    OBVIOUS
  <2>1. k \in 1..EndOf(pages, m)
    BY <1>1, <1>5
  <2> QED BY <2>1, EveryRankIsReached
<1>7. \A a, b \in places : RankOf(pages, a) = RankOf(pages, b) => a = b
  BY RanksAreDistinct
<1> HIDE DEF places, m
<1>8. IsInjective(listed)
  <2> SUFFICES ASSUME NEW a \in places, NEW b \in places,
                      ListedAt(pages, a) = ListedAt(pages, b)
               PROVE  a = b
    BY DEF IsInjective
  <2> QED BY <1>1, <1>4, <1>7
<1>9. Range(listed) = found
  <2>1. \A place \in places : ListedAt(pages, place) \in found
    BY <1>1, <1>4
  <2>2. ASSUME NEW x \in found PROVE \E place \in places : ListedAt(pages, place) = x
    <3>1. PICK k \in 1..n : matches[k] = x
      BY <1>1
    <3> QED BY <1>4, <1>6, <3>1
  <2>3. Range(listed) = {ListedAt(pages, place) : place \in places}
    BY DEF Range
  <2> QED BY <2>1, <2>2, <2>3
<1>10. Cardinality(places) = n
  <2> DEFINE rank == [place \in places |-> RankOf(pages, place)]
             S == 1..n
  <2>1. rank \in [places -> S] /\ \A k \in S : \E place \in places : rank[place] = k
    BY <1>4, <1>6
  <2>2. \A a, b \in places : rank[a] = rank[b] => a = b
    BY <1>7
  <2>3. DOMAIN rank = places
    OBVIOUS
  <2>4. IsFiniteSet(S) /\ Cardinality(S) = n
    <3>1. n \in Int /\ 1 \in Int
      BY <1>1
    <3>2. IsFiniteSet(1..n) /\ Cardinality(1..n) = IF 1 > n THEN 0 ELSE n - 1 + 1
      BY <3>1, FS_Interval
    <3> QED BY <1>1, <3>2
  <2> HIDE DEF rank, S
  <2>5. rank \in Injection(places, S)
    BY <2>1, <2>2, <2>3 DEF Injection, IsInjective
  <2>6. rank \in Surjection(places, S)
    BY <2>1 DEF Surjection
  <2>7. Cardinality(places) = Cardinality(S)
    BY <2>4, <2>5, <2>6, FS_Injection
  <2> QED BY <2>4, <2>7
<1> QED BY <1>8, <1>9, <1>10 DEF places, found, n

\* A filter of one field finds what the facet beside it counts.
LEMMA FacetCountsTheSame ==
    ASSUME NEW ask, NEW field \in Fields, AsksOnlyFor(ask, field)
    PROVE  Facet(served, field)[Wanted(ask.filter, field)]
             = Cardinality(FoundBy(served, ask.query, ask.filter))
<1> DEFINE filter == ask.filter
           wanted == Wanted(filter, field)
           found == FoundBy(served, ask.query, filter)
<1>1. /\ ask.query = Blank
      /\ {f \in Fields : filter[f] # None} = {field}
      /\ field = "office" => IsKnownOffice(filter[field])
      /\ wanted \in DOMAIN Facet(served, field)
  BY DEF AsksOnlyFor
<1>2. filter[field] # None /\ \A f \in Fields : f # field => filter[f] = None
  BY <1>1
<1> HIDE DEF filter
<1>3. ASSUME NEW item \in Items(served)
      PROVE  Fits(item, filter) /\ FitsQuery(ask.query, item) <=> item[field] = wanted
  <2>1. FitsQuery(ask.query, item)
    BY <1>1 DEF FitsQuery
  <2>2. /\ filter.type = filter["type"] /\ filter.foundation = filter["foundation"]
        /\ filter.office = filter["office"] /\ filter.district = filter["district"]
        /\ item.type = item["type"] /\ item.foundation = item["foundation"]
        /\ item.office = item["office"] /\ item.district = item["district"]
    OBVIOUS
  <2>3. Fits(item, filter) <=> item[field] = wanted
    <3>1. CASE field = "type"
      BY <1>2, <2>2, <3>1 DEF Fits, Wanted, Fields
    <3>2. CASE field = "foundation"
      BY <1>2, <2>2, <3>2 DEF Fits, Wanted, Fields
    <3>3. CASE field = "office"
      BY <1>1, <1>2, <2>2, <3>3 DEF Fits, Wanted, Fields
    <3>4. CASE field = "district"
      BY <1>2, <2>2, <3>4 DEF Fits, Wanted, Fields
    <3> QED BY <3>1, <3>2, <3>3, <3>4 DEF Fields
  <2> QED BY <2>1, <2>3
<1>4. found = {item \in Items(served) : item[field] = wanted}
  BY <1>3 DEF FoundBy
<1> HIDE DEF wanted, found
<1>5. Facet(served, field)
        = [key \in {item[field] : item \in Items(served)} |->
             Cardinality({item \in Items(served) : item[field] = key})]
  BY DEF Facet, CountsOf
<1>6. Facet(served, field)[wanted] = Cardinality({item \in Items(served) : item[field] = wanted})
  BY <1>1, <1>5
<1> QED BY <1>4, <1>6 DEF wanted, found, filter

LEMMA VisitsAreComplete ==
    ASSUME SearchInv
    PROVE  PagesListEveryMatchOnce
<1> SUFFICES ASSUME visit # None, Last(visit.pages).next = None, served # None,
                    \A i \in DOMAIN visit.pages : visit.pages[i].snapshot = served.id
             PROVE  LET pages == visit.pages
                        ask == visit.ask
                        places == PlacesOf(pages)
                        listed == [place \in places |-> ListedAt(pages, place)]
                    IN  /\ IsInjective(listed)
                        /\ Range(listed) = FoundBy(served, ask.query, ask.filter)
                        /\ \A field \in Fields : AsksOnlyFor(ask, field) =>
                             Cardinality(places)
                               = Facet(served, field)[Wanted(ask.filter, field)]
  BY DEF PagesListEveryMatchOnce, PlacesOf, ListedAt, FoundBy
<1> DEFINE pages == visit.pages
           ask == visit.ask
           query == ask.query
           filter == ask.filter
           limit == ask.limit
           c == served
<1>1. Continue(pages) /\ ask \in scene.asks /\ Sound(c)
  BY DEF SearchInv, VisitInv, VersionsInv
<1>2. limit \in Nat \ {0} /\ query \in Query
  BY <1>1, SceneAssumption DEF SearchInv, SnapshotInv, SourcesInv, Query
<1>3. DOMAIN pages = 1..Len(pages) /\ Len(pages) \in Nat \ {0}
  BY <1>1 DEF Continue
<1>4. pages[Len(pages)].next = None
  BY <1>3 DEF Last
<1>5. \A i \in 1..Len(pages) :
         pages[i] = SearchPage(c, query, filter, limit, Offset(pages, i))
  BY <1>3 DEF SearchInv, VisitInv, PageFor
<1> HIDE DEF pages, query, filter, limit, c
<1> DEFINE places == PlacesOf(pages)
           listed == [place \in places |-> ListedAt(pages, place)]
           found == FoundBy(c, query, filter)
<1>6. /\ IsInjective(listed) /\ Range(listed) = found
      /\ Cardinality(places) = Cardinality(found)
  BY ONLY <1>1, <1>2, <1>4, <1>5, PagesListAll
<1>7. \A field \in Fields : AsksOnlyFor(ask, field) =>
         Facet(served, field)[Wanted(ask.filter, field)] = Cardinality(found)
  BY FacetCountsTheSame DEF c, query, filter
<1> HIDE DEF places, listed, found
<1>8. \A field \in Fields : AsksOnlyFor(ask, field) =>
         Cardinality(places) = Facet(served, field)[Wanted(ask.filter, field)]
  BY <1>6, <1>7
<1> QED BY <1>6, <1>8 DEF pages, query, filter, c, places, listed, found

(***************************************************************************)
(* Whoever reads the pages of a search to the last, all from one snapshot, *)
(* has seen every site that fits, and none twice; and a filter of one      *)
(* field finds as many as the facet beside it says (store.py:178-244).     *)
(***************************************************************************)
THEOREM PagesAreComplete == Spec => []PagesListEveryMatchOnce
<1>1. SearchInv => PagesListEveryMatchOnce
  BY VisitsAreComplete
<1> QED BY <1>1, VisitInvariant, PTL


-----------------------------------------------------------------------------
(***************************************************************************)
(* Counting.  An image has no more elements than what it is of, and as     *)
(* many if and only if no two have one image; and what has one of several  *)
(* keys is as many as the counts by key add up to.                         *)
(***************************************************************************)
LEMMA ImageCounts ==
    ASSUME NEW S, IsFiniteSet(S), NEW f, DOMAIN f = S
    PROVE  LET T == {f[x] : x \in S}
           IN  /\ IsFiniteSet(T) /\ Cardinality(T) \in Nat /\ Cardinality(T) <= Cardinality(S)
               /\ Cardinality(T) = Cardinality(S) <=>
                    \A x, y \in S : f[x] = f[y] => x = y
<1> DEFINE T == {f[x] : x \in S}
           g == [x \in S |-> f[x]]
<1>1. g \in [S -> T] /\ \A y \in T : \E x \in S : g[x] = y
  OBVIOUS
<1>2. DOMAIN g = S /\ \A x \in S : g[x] = f[x]
  OBVIOUS
<1> HIDE DEF T, g
<1>3. g \in Surjection(S, T)
  BY <1>1 DEF Surjection
<1>4. /\ IsFiniteSet(T) /\ Cardinality(T) <= Cardinality(S)
      /\ Cardinality(T) = Cardinality(S) <=> g \in Injection(S, T)
  BY <1>3, FS_Surjection
<1>5. g \in Injection(S, T) <=> \A x, y \in S : f[x] = f[y] => x = y
  BY <1>1, <1>2 DEF Injection, IsInjective
<1>6. Cardinality(T) \in Nat
  BY <1>4, FS_CardinalityType
<1> QED BY <1>4, <1>5, <1>6 DEF T

\* What is keyed apart is as many as its keys.
LEMMA BijectionCounts ==
    ASSUME NEW S, IsFiniteSet(S), NEW f, DOMAIN f = S, NEW T,
           \A x \in S : f[x] \in T, \A y \in T : \E x \in S : f[x] = y,
           \A x, y \in S : f[x] = f[y] => x = y
    PROVE  IsFiniteSet(T) /\ Cardinality(T) = Cardinality(S)
<1>1. T = {f[x] : x \in S}
  OBVIOUS
<1> QED BY <1>1, ImageCounts

Kept(S, key, k) == {x \in S : key[x] = k}

LEMMA TotalIsCount ==
    ASSUME NEW S, IsFiniteSet(S), NEW key, NEW counts, NEW keys,
           \A x \in S : key[x] \in keys,
           \A k \in keys : counts[k] = Cardinality(Kept(S, key, k))
    PROVE  TotalOf(counts, keys) = Cardinality(S)
<1> DEFINE Units == UNION {{k} \X (1..counts[k]) : k \in keys}
           b == [k \in keys |-> CHOOSE f \in Bijection(Kept(S, key, k), 1..counts[k]) : TRUE]
           g == [x \in S |-> <<key[x], b[key[x]][x]>>]
<1>1. ASSUME NEW k \in keys
      PROVE  /\ b[k] \in [Kept(S, key, k) -> 1..counts[k]]
             /\ \A x, y \in Kept(S, key, k) : b[k][x] = b[k][y] => x = y
             /\ \A n \in 1..counts[k] : \E x \in Kept(S, key, k) : b[k][x] = n
  <2> DEFINE A == Kept(S, key, k)
             N == 1..counts[k]
  <2>1. IsFiniteSet(A)
    BY FS_Subset DEF Kept
  <2>2. counts[k] = Cardinality(A) /\ counts[k] \in Nat
    BY <2>1, FS_CardinalityType
  <2>3. IsFiniteSet(N) /\ Cardinality(N) = counts[k]
    <3>1. counts[k] \in Int /\ 1 \in Int
      BY <2>2
    <3>2. IsFiniteSet(1..counts[k])
          /\ Cardinality(1..counts[k]) = IF 1 > counts[k] THEN 0 ELSE counts[k] - 1 + 1
      BY <3>1, FS_Interval
    <3> QED BY <2>2, <3>2
  <2> HIDE DEF A, N
  <2>4. ExistsBijection(A, N)
    BY <2>1, <2>2, <2>3, FS_SameCardinalityBij
  <2>5. Bijection(A, N) # {}
    BY <2>4 DEF ExistsBijection
  <2>6. b[k] = CHOOSE f \in Bijection(A, N) : TRUE
    BY DEF A, N
  <2>7. b[k] \in Bijection(A, N)
    BY <2>5, <2>6
  <2>8. b[k] \in Injection(A, N) /\ b[k] \in Surjection(A, N)
    BY <2>7 DEF Bijection
  <2>9. /\ b[k] \in [A -> N] /\ \A x, y \in A : b[k][x] = b[k][y] => x = y
        /\ \A n \in N : \E x \in A : b[k][x] = n
    BY <2>8 DEF Injection, Surjection, IsInjective
  <2> QED BY <2>9 DEF A, N
<1> HIDE DEF b
<1>2. \A x \in S : x \in Kept(S, key, key[x])
  BY DEF Kept
<1>3. \A x \in S : g[x] = <<key[x], b[key[x]][x]>> /\ g[x] \in Units
  <2> SUFFICES ASSUME NEW x \in S PROVE g[x] = <<key[x], b[key[x]][x]>> /\ g[x] \in Units
    OBVIOUS
  <2>1. b[key[x]][x] \in 1..counts[key[x]] /\ key[x] \in keys
    BY <1>1, <1>2
  <2> QED BY <2>1
<1>4. \A u \in Units : \E x \in S : g[x] = u
  <2> SUFFICES ASSUME NEW u \in Units PROVE \E x \in S : g[x] = u
    OBVIOUS
  <2>1. PICK k \in keys : u \in {k} \X (1..counts[k])
    OBVIOUS
  <2>2. u = <<k, u[2]>> /\ u[2] \in 1..counts[k]
    BY <2>1
  <2>3. PICK x \in Kept(S, key, k) : b[k][x] = u[2]
    BY <1>1, <2>2
  <2>4. x \in S /\ key[x] = k
    BY DEF Kept
  <2> QED BY <2>2, <2>3, <2>4
<1>5. \A x, y \in S : g[x] = g[y] => x = y
  <2> SUFFICES ASSUME NEW x \in S, NEW y \in S, g[x] = g[y] PROVE x = y
    OBVIOUS
  <2>1. key[x] = key[y] /\ b[key[x]][x] = b[key[y]][y]
    BY <1>3
  <2>2. x \in Kept(S, key, key[x]) /\ y \in Kept(S, key, key[x]) /\ key[x] \in keys
    BY <1>2, <2>1
  <2> QED BY <1>1, <2>1, <2>2
<1>6. DOMAIN g = S /\ TotalOf(counts, keys) = Cardinality(Units)
  BY DEF TotalOf
<1> HIDE DEF g, Units
<1>7. Cardinality(Units) = Cardinality(S)
  BY <1>3, <1>4, <1>5, <1>6, BijectionCounts
<1> QED BY <1>6, <1>7

-----------------------------------------------------------------------------
(***************************************************************************)
(* What a sync fetched, row by row.  The rows of NEIS and of the           *)
(* kindergarten register have places, those of the reviewed list have ids. *)
(***************************************************************************)
Selected == SelectableIds(sync.neis.ids)
Registered == sync.kindergartens.ids
Reviewed == scene.lists[list]
Known == {Located(q, scene.locations) : q \in FetchedNeis}
           \cup FetchedKindergartens \cup FetchedList
Placed(answers) == {Geocoded(r, answers) : r \in Known}

OfNeis(r) ==
    /\ r.source = "NEIS" /\ DOMAIN r.sites = {Main}
    /\ \E i \in DOMAIN Selected : r.id = Selected[i] /\ r.type = TypeOf(Kinds[Selected[i]])
OfKindergartens(r) ==
    /\ r.source = "KINDERGARTEN_INFO" /\ DOMAIN r.sites = {Main} /\ r.type = "KINDERGARTEN"
    /\ \E i \in DOMAIN Registered : r.id = Registered[i]
OfList(r) ==
    /\ r.source = "SEN_REVIEWED_CSV" /\ Main \in DOMAIN r.sites
    /\ r.id \in DOMAIN Reviewed /\ r.type = Reviewed[r.id].kind

\* Every record is of a row, and every row has a record.
FromRows(records) ==
    /\ \A r \in records : OfNeis(r) \/ OfKindergartens(r) \/ OfList(r)
    /\ \A i \in DOMAIN Selected : \E r \in records : r.source = "NEIS" /\ r.id = Selected[i]
    /\ \A i \in DOMAIN Registered :
         \E r \in records : r.source = "KINDERGARTEN_INFO" /\ r.id = Registered[i]
    /\ \A id \in DOMAIN Reviewed :
         \E r \in records : r.source = "SEN_REVIEWED_CSV" /\ r.id = id

LEMMA LikeIsOfTheSameRow ==
    ASSUME NEW new, NEW old, Like(new, old)
    PROVE  /\ OfNeis(old) => OfNeis(new)
           /\ OfKindergartens(old) => OfKindergartens(new)
           /\ OfList(old) => OfList(new)
BY DEF Like, OfNeis, OfKindergartens, OfList

LEMMA SelectedAreRows ==
    ASSUME SnapshotInv, IsFetching
    PROVE  /\ DOMAIN Selected = {j \in DOMAIN sync.neis.ids :
                                   Kinds[sync.neis.ids[j]] \notin Nonselectable}
           /\ \A i \in DOMAIN Selected :
                /\ i \in DOMAIN sync.neis.ids /\ Selected[i] = sync.neis.ids[i]
                /\ Kinds[Selected[i]] \notin Nonselectable
           /\ IsFiniteSet(DOMAIN Selected)
           /\ \A i \in DOMAIN Selected : Selected[i] \in School
           /\ DOMAIN Registered = 1..Len(Registered) /\ Len(Registered) \in Nat
           /\ IsFiniteSet(DOMAIN Registered) /\ Cardinality(DOMAIN Registered) = Len(Registered)
           /\ \A i \in DOMAIN Registered : Registered[i] \in Kindergarten
<1>1. sync.neis.ids \in Seq(School) /\ Registered \in Seq(Kindergarten)
  BY DEF SnapshotInv, SyncInv, Readable, Registered
<1>2. DOMAIN Selected = {j \in DOMAIN sync.neis.ids :
                           Kinds[sync.neis.ids[j]] \notin Nonselectable}
  BY DEF Selected, SelectableIds
<1>3. \A i \in DOMAIN Selected : /\ i \in DOMAIN sync.neis.ids /\ Selected[i] = sync.neis.ids[i]
                                 /\ Kinds[Selected[i]] \notin Nonselectable
  BY DEF Selected, SelectableIds
<1>4. DOMAIN sync.neis.ids = 1..Len(sync.neis.ids) /\ Len(sync.neis.ids) \in Nat
  BY <1>1
<1>5. IsFiniteSet(DOMAIN sync.neis.ids)
  <2> DEFINE n == Len(sync.neis.ids)
  <2>1. n \in Int /\ 1 \in Int /\ DOMAIN sync.neis.ids = 1..n
    BY <1>4
  <2> HIDE DEF n
  <2>2. IsFiniteSet(1..n)
    BY <2>1, FS_Interval
  <2> QED BY <2>1, <2>2
<1>6. IsFiniteSet(DOMAIN Selected)
  BY <1>2, <1>5, FS_Subset
<1>7. \A i \in DOMAIN Selected : Selected[i] \in School
  BY <1>1, <1>3
<1>8. DOMAIN Registered = 1..Len(Registered) /\ Len(Registered) \in Nat
  BY <1>1
<1>9. IsFiniteSet(DOMAIN Registered) /\ Cardinality(DOMAIN Registered) = Len(Registered)
  <2> DEFINE n == Len(Registered)
  <2>1. n \in Int /\ n \in Nat /\ 1 \in Int /\ DOMAIN Registered = 1..n
    BY <1>8
  <2> HIDE DEF n
  <2>2. IsFiniteSet(1..n) /\ Cardinality(1..n) = IF 1 > n THEN 0 ELSE n - 1 + 1
    BY <2>1, FS_Interval
  <2>3. IsFiniteSet(1..n) /\ Cardinality(1..n) = n
    BY <2>1, <2>2
  <2> QED BY <2>1, <2>3 DEF n
<1>10. \A i \in DOMAIN Registered : Registered[i] \in Kindergarten
  BY <1>1
<1> QED BY <1>2, <1>3, <1>6, <1>7, <1>8, <1>9, <1>10

LEMMA FetchedAreFromRows ==
    ASSUME SnapshotInv, IsFetching
    PROVE  /\ \A r \in FetchedNeis : OfNeis(r)
           /\ \A i \in DOMAIN Selected : \E r \in FetchedNeis : r.id = Selected[i]
           /\ \A r \in FetchedKindergartens : OfKindergartens(r)
           /\ \A i \in DOMAIN Registered : \E r \in FetchedKindergartens : r.id = Registered[i]
           /\ \A r \in FetchedList : OfList(r)
           /\ \A id \in DOMAIN Reviewed : \E r \in FetchedList : r.id = id
<1>1. \A id : /\ NeisRecord(id, scene.rows[id]).id = id
              /\ NeisRecord(id, scene.rows[id]).source = "NEIS"
              /\ NeisRecord(id, scene.rows[id]).type = TypeOf(scene.rows[id].kind)
              /\ DOMAIN NeisRecord(id, scene.rows[id]).sites = {Main}
  BY DEF NeisRecord, Record
<1>2. \A id : /\ KindergartenRecord(id, scene.rows[id]).id = id
              /\ KindergartenRecord(id, scene.rows[id]).source = "KINDERGARTEN_INFO"
              /\ KindergartenRecord(id, scene.rows[id]).type = "KINDERGARTEN"
              /\ DOMAIN KindergartenRecord(id, scene.rows[id]).sites = {Main}
  BY DEF KindergartenRecord, Record
<1>3. \A id : /\ SenRecord(id, Reviewed[id]).id = id
              /\ SenRecord(id, Reviewed[id]).source = "SEN_REVIEWED_CSV"
              /\ SenRecord(id, Reviewed[id]).type = Reviewed[id].kind
              /\ Main \in DOMAIN SenRecord(id, Reviewed[id]).sites
  BY DEF SenRecord, Record
<1>4. \A id \in School : Kinds[id] = scene.rows[id].kind
  BY DEF Kinds, School, SchoolRows
<1>5. ToSet(sync.neis.ids) = {sync.neis.ids[i] : i \in DOMAIN sync.neis.ids}
      /\ ToSet(Registered) = {Registered[i] : i \in DOMAIN Registered}
  BY DEF ToSet
<1>6. ASSUME NEW r \in FetchedNeis PROVE OfNeis(r)
  <2>1. PICK id \in ToSet(sync.neis.ids) :
           Kinds[id] \notin Nonselectable /\ r = NeisRecord(id, scene.rows[id])
    BY DEF FetchedNeis
  <2>2. PICK i \in DOMAIN sync.neis.ids : id = sync.neis.ids[i]
    BY <1>5
  <2>3. i \in DOMAIN Selected /\ Selected[i] = id
    BY <2>1, <2>2, SelectedAreRows
  <2>4. id \in School
    BY <2>3, SelectedAreRows
  <2> QED BY <1>1, <1>4, <2>1, <2>3, <2>4 DEF OfNeis
<1>7. ASSUME NEW i \in DOMAIN Selected PROVE \E r \in FetchedNeis : r.id = Selected[i]
  <2>1. Selected[i] \in ToSet(sync.neis.ids) /\ Kinds[Selected[i]] \notin Nonselectable
    BY <1>5, SelectedAreRows
  <2>2. NeisRecord(Selected[i], scene.rows[Selected[i]]) \in FetchedNeis
    BY <2>1 DEF FetchedNeis
  <2> QED BY <1>1, <2>2
<1>8. \A r \in FetchedKindergartens : OfKindergartens(r)
  BY <1>2, <1>5 DEF FetchedKindergartens, OfKindergartens, Registered
<1>9. ASSUME NEW i \in DOMAIN Registered
      PROVE  \E r \in FetchedKindergartens : r.id = Registered[i]
  <2>1. Registered[i] \in ToSet(Registered)
    BY <1>5
  <2>2. KindergartenRecord(Registered[i], scene.rows[Registered[i]]) \in FetchedKindergartens
    BY <2>1 DEF FetchedKindergartens, Registered
  <2> QED BY <1>2, <2>2
<1>10. FetchedList = {SenRecord(id, Reviewed[id]) : id \in DOMAIN Reviewed}
  BY DEF FetchedList, Reviewed
<1>11. \A r \in FetchedList : OfList(r)
  BY <1>3, <1>10 DEF OfList
<1>12. \A id \in DOMAIN Reviewed : \E r \in FetchedList : r.id = id
  BY <1>3, <1>10
<1> QED BY <1>6, <1>7, <1>8, <1>9, <1>11, <1>12

LEMMA PlacedAreFromRows ==
    ASSUME SnapshotInv, IsFetching, NEW answers
    PROVE  FromRows(Placed(answers))
<1> DEFINE located == {Located(q, scene.locations) : q \in FetchedNeis}
<1>1. /\ \A r \in FetchedNeis \cup FetchedKindergartens \cup FetchedList : IsRecord(r)
  BY FetchedAreRecords DEF AreRecords
<1>2. \A q \in FetchedNeis : Like(Located(q, scene.locations), q)
                             /\ IsRecord(Located(q, scene.locations))
  <2> SUFFICES ASSUME NEW q \in FetchedNeis
               PROVE  Like(Located(q, scene.locations), q)
                      /\ IsRecord(Located(q, scene.locations))
    OBVIOUS
  <2>1. Like(Located(q, scene.locations), q)
    BY <1>1, LocatedIsLike
  <2> QED BY <1>1, <2>1 DEF Like, IsRecord
<1>3. /\ \A r \in located : OfNeis(r) /\ IsRecord(r)
      /\ \A i \in DOMAIN Selected : \E r \in located : r.id = Selected[i]
  <2>1. \A r \in located : OfNeis(r) /\ IsRecord(r)
    BY <1>2, FetchedAreFromRows, LikeIsOfTheSameRow
  <2>2. \A q \in FetchedNeis : \E r \in located : r.id = q.id
    BY <1>2 DEF Like
  <2> QED BY <2>1, <2>2, FetchedAreFromRows
<1>4. Known = located \cup FetchedKindergartens \cup FetchedList
  BY DEF Known
<1> HIDE DEF located
<1>5. \A r \in Known : Like(Geocoded(r, answers), r)
  BY <1>1, <1>3, <1>4, GeocodedIsLike
<1>6. \A r \in Placed(answers) : OfNeis(r) \/ OfKindergartens(r) \/ OfList(r)
  BY <1>3, <1>4, <1>5, FetchedAreFromRows, LikeIsOfTheSameRow DEF Placed
<1>7. \A q \in Known : \E r \in Placed(answers) : r.id = q.id /\ r.source = q.source
  BY <1>5 DEF Placed, Like
<1>8. \A i \in DOMAIN Selected : \E r \in Placed(answers) : r.source = "NEIS" /\ r.id = Selected[i]
  BY <1>3, <1>4, <1>7 DEF OfNeis
<1>9. \A i \in DOMAIN Registered :
         \E r \in Placed(answers) : r.source = "KINDERGARTEN_INFO" /\ r.id = Registered[i]
  BY <1>4, <1>7, FetchedAreFromRows DEF OfKindergartens
<1>10. \A id \in DOMAIN Reviewed :
          \E r \in Placed(answers) : r.source = "SEN_REVIEWED_CSV" /\ r.id = id
  BY <1>4, <1>7, FetchedAreFromRows DEF OfList
<1> QED BY <1>6, <1>8, <1>9, <1>10 DEF FromRows

\* Rows without two records are as many places as ids.
LEMMA ThreeSums ==
    ASSUME NEW a \in Nat, NEW b \in Nat, NEW p \in Nat, NEW q \in Nat, NEW l \in Nat,
           a <= p, b <= q, a + b + l = p + q + l
    PROVE  a = p /\ b = q
OBVIOUS

LEMMA RowsAreDistinct ==
    ASSUME SnapshotInv, IsFetching, NEW records, AreRecords(records), FromRows(records),
           Cardinality(records) = FetchedRows
    PROVE  /\ \A i, j \in DOMAIN Selected : Selected[i] = Selected[j] => i = j
           /\ \A i, j \in DOMAIN Registered : Registered[i] = Registered[j] => i = j
<1> DEFINE P == DOMAIN Selected
           Q == DOMAIN Registered
           L == DOMAIN Reviewed
           A == {Selected[i] : i \in P}
           B == {Registered[i] : i \in Q}
<1>1. /\ IsFiniteSet(P) /\ IsFiniteSet(Q) /\ Cardinality(Q) = Len(Registered)
      /\ A \subseteq School /\ B \subseteq Kindergarten
  BY SelectedAreRows
<1>2. School \cap Kindergarten = {}
      /\ School \cup Kindergarten \subseteq DOMAIN scene.rows
  BY DEF School, Kindergarten, SchoolRows, KindergartenRows
<1>3. IsFiniteSet(L) /\ L \cap DOMAIN scene.rows = {}
  <2>1. IsReviewed(scene, Reviewed)
    BY SceneAssumption DEF SnapshotInv, SourcesInv, Reviewed
  <2> QED BY <2>1 DEF IsReviewed
<1>4. FetchedRows = Cardinality(P) + Cardinality(Q) + Cardinality(L)
  BY <1>1 DEF FetchedRows, Selected, Registered, Reviewed
<1>5. Ids(records) = A \cup B \cup L
  BY DEF Ids, FromRows, OfNeis, OfKindergartens, OfList
<1>6. IsFiniteSet(Ids(records)) /\ Cardinality(Ids(records)) = Cardinality(records)
  <2> DEFINE idOf == [r \in records |-> r.id]
             T == Ids(records)
  <2>1. /\ DOMAIN idOf = records /\ \A r \in records : idOf[r] = r.id
    OBVIOUS
  <2>2. /\ \A r \in records : idOf[r] \in T
        /\ \A y \in T : \E r \in records : idOf[r] = y
    BY DEF Ids
  <2>3. IsFiniteSet(records) /\ \A q, r \in records : idOf[q] = idOf[r] => q = r
    BY <2>1 DEF AreRecords
  <2> HIDE DEF idOf, T
  <2>4. IsFiniteSet(T) /\ Cardinality(T) = Cardinality(records)
    BY ONLY <2>1, <2>2, <2>3, BijectionCounts
  <2> QED BY <2>4 DEF T
<1>7. /\ IsFiniteSet(A) /\ Cardinality(A) \in Nat /\ Cardinality(A) <= Cardinality(P)
      /\ Cardinality(A) = Cardinality(P) =>
           \A i, j \in P : Selected[i] = Selected[j] => i = j
  BY <1>1, ImageCounts
<1>8. /\ IsFiniteSet(B) /\ Cardinality(B) \in Nat /\ Cardinality(B) <= Cardinality(Q)
      /\ Cardinality(B) = Cardinality(Q) =>
           \A i, j \in Q : Registered[i] = Registered[j] => i = j
  BY <1>1, ImageCounts
<1>9. A \cap B = {} /\ (A \cup B) \cap L = {}
  BY <1>1, <1>2, <1>3
<1> HIDE DEF P, Q, L, A, B
<1>10. Cardinality(A \cup B \cup L) = Cardinality(A) + Cardinality(B) + Cardinality(L)
  <2>1. IsFiniteSet(A \cup B)
        /\ Cardinality(A \cup B) = Cardinality(A) + Cardinality(B) - Cardinality(A \cap B)
    BY <1>7, <1>8, FS_Union
  <2>2. Cardinality(A \cup B \cup L)
          = Cardinality(A \cup B) + Cardinality(L) - Cardinality((A \cup B) \cap L)
    BY <1>3, <2>1, FS_Union
  <2>3. Cardinality({}) = 0
    BY FS_EmptySet
  <2>4. Cardinality(L) \in Nat
    BY <1>3, FS_CardinalityType
  <2>5. Cardinality(A \cap B) = 0 /\ Cardinality((A \cup B) \cap L) = 0
    BY <1>9, <2>3
  <2> DEFINE a == Cardinality(A)
             b == Cardinality(B)
             l == Cardinality(L)
             ab == Cardinality(A \cup B)
             x == Cardinality(A \cap B)
             y == Cardinality((A \cup B) \cap L)
             all == Cardinality(A \cup B \cup L)
  <2>6. /\ a \in Nat /\ b \in Nat /\ l \in Nat /\ x = 0 /\ y = 0
        /\ ab = a + b - x /\ all = ab + l - y
    BY <1>7, <1>8, <2>1, <2>2, <2>4, <2>5
  <2> HIDE DEF a, b, l, ab, x, y, all
  <2>7. all = a + b + l
    BY <2>6
  <2> QED BY <2>7 DEF a, b, l, all
<1>11. Cardinality(P) \in Nat /\ Cardinality(Q) \in Nat /\ Cardinality(L) \in Nat
  BY <1>1, <1>3, FS_CardinalityType
<1>12. Cardinality(A) + Cardinality(B) + Cardinality(L)
         = Cardinality(P) + Cardinality(Q) + Cardinality(L)
  BY <1>4, <1>5, <1>6, <1>10
<1>13. Cardinality(A) = Cardinality(P) /\ Cardinality(B) = Cardinality(Q)
  BY ONLY <1>7, <1>8, <1>11, <1>12, ThreeSums
<1> QED BY <1>7, <1>8, <1>13 DEF P, Q

-----------------------------------------------------------------------------
(***************************************************************************)
(* What a candidate counts.  Its current institutions are those of the     *)
(* records of the day: what is kept from before is marked as missing.      *)
(***************************************************************************)
LEMMA MarkedIsMissing ==
    ASSUME NEW previous, Fielded(previous), NEW institutions, NEW snapshot,
           NEW i \in PreservedInstitutions(institutions, previous, snapshot)
    PROVE  ~IsCurrent(i)
<1>1. PICK old \in previous.institutions :
         i = [old EXCEPT !.status = Missing, !.statusSource = "MISSING_FROM_SOURCE_GATE",
                         !.lastSeen = snapshot]
  BY DEF PreservedInstitutions
<1>2. DOMAIN old = InstitutionFields
  BY DEF Fielded
<1> QED BY <1>1, <1>2 DEF InstitutionFields, IsCurrent

TypeCounts(institutions) == CountsOf(institutions, LAMBDA i : i.type)
CurrentOf(source, institutions) == {i \in OfSource(source, institutions) : IsCurrent(i)}
RecordsOf(source, records) == {r \in records : r.source = source}
Today(source, records, snapshot) ==
    {InstitutionOf(r, snapshot) : r \in RecordsOf(source, records)}

LEMMA CurrentAreOfTheDay ==
    ASSUME NEW records, NEW fetched, NEW asked, NEW snapshot,
           NEW previous, previous = None \/ Fielded(previous), NEW source
    PROVE  CurrentOf(source, Candidate(records, fetched, asked, previous, snapshot).institutions)
             = Today(source, records, snapshot)
<1> DEFINE c == Candidate(records, fetched, asked, previous, snapshot)
           current == {InstitutionOf(r, snapshot) : r \in records}
           kept == PreservedInstitutions(current, previous, snapshot)
<1>1. c.institutions = IF previous = None THEN current ELSE current \cup kept
  BY DEF Candidate
<1>2. \A r \in records : /\ IsCurrent(InstitutionOf(r, snapshot))
                         /\ InstitutionOf(r, snapshot).source = r.source
  BY DEF IsCurrent, InstitutionOf, SiteStatus, Missing
<1>3. previous # None => \A i \in kept : ~IsCurrent(i)
  BY MarkedIsMissing
<1> HIDE DEF c, kept
<1>4. CurrentOf(source, c.institutions) = {i \in current : i.source = source}
  BY <1>1, <1>2, <1>3 DEF CurrentOf, OfSource
<1>5. {i \in current : i.source = source}
        = Today(source, records, snapshot)
  BY <1>2 DEF RecordsOf, Today
<1> QED BY <1>4, <1>5 DEF c

\* The rows of a kind, by the place they were listed at.
PlacesOfKind(kind) == {i \in DOMAIN Selected : Kinds[Selected[i]] = kind}
PlacesOfType(type) == {i \in DOMAIN Selected : TypeOf(Kinds[Selected[i]]) = type}
KindsOfType(profile, type) ==
    {kind \in DOMAIN profile.NEIS \ Nonselectable : type = TypeOf(kind)}

\* What was asked of the rows before the records were made of them.
Counted ==
    LET profile == scene.profile
    IN  /\ \A i \in DOMAIN Selected : Kinds[Selected[i]] \in DOMAIN profile.NEIS \ Nonselectable
        /\ \A kind \in DOMAIN profile.NEIS \ Nonselectable :
             /\ Cardinality(PlacesOfKind(kind)) = profile.NEIS[kind]
             /\ \E i \in DOMAIN Selected : Kinds[Selected[i]] = kind
        /\ Len(Registered) = profile.KINDERGARTEN_INFO
        /\ \A i \in DOMAIN sync.neis.ids : Kinds[sync.neis.ids[i]] \in Nonselectable =>
             Kinds[sync.neis.ids[i]] \in DOMAIN profile.NEIS
        /\ \A kind \in DOMAIN profile.NEIS \cap Nonselectable :
             Cardinality({i \in DOMAIN sync.neis.ids : Kinds[sync.neis.ids[i]] = kind})
               <= MaxDropped

LEMMA EnrichedIsCounted ==
    ASSUME SnapshotInv, IsFetching, MayBeEnriched
    PROVE  Counted
<1> DEFINE profile == scene.profile
<1>1. PopulationIsBound(sync.neis.ids, Registered, Kinds, profile)
      /\ IsReconciled(Selected, Registered, Kinds, profile)
  BY DEF MayBeEnriched, Selected, Registered
<1>2. \A kind \in DOMAIN profile.NEIS : profile.NEIS[kind] \in Nat \ {0}
  BY SceneAssumption DEF SnapshotInv, SourcesInv
<1>3. \A i \in DOMAIN Selected : Kinds[Selected[i]] \in DOMAIN profile.NEIS \ Nonselectable
  <2> SUFFICES ASSUME NEW i \in DOMAIN Selected
               PROVE  Kinds[Selected[i]] \in DOMAIN profile.NEIS \ Nonselectable
    OBVIOUS
  <2>1. Selected[i] \in ToSet(sync.neis.ids) /\ Kinds[Selected[i]] \notin Nonselectable
    BY SelectedAreRows DEF ToSet
  <2> QED BY <1>1, <2>1 DEF PopulationIsBound
<1>4. ASSUME NEW kind \in DOMAIN profile.NEIS \ Nonselectable
      PROVE  /\ Cardinality(PlacesOfKind(kind)) = profile.NEIS[kind]
             /\ \E i \in DOMAIN Selected : Kinds[Selected[i]] = kind
  <2>1. CountOf(Selected, LAMBDA id : Kinds[id] = kind) = profile.NEIS[kind]
    BY <1>1 DEF IsReconciled
  <2>2. Cardinality(PlacesOfKind(kind)) = profile.NEIS[kind]
    BY <2>1 DEF CountOf, PlacesOfKind
  <2>3. PlacesOfKind(kind) # {}
    BY <1>2, <2>2, FS_EmptySet
  <2> QED BY <2>2, <2>3 DEF PlacesOfKind
<1>5. Len(Registered) = profile.KINDERGARTEN_INFO
  BY <1>1 DEF IsReconciled
<1>6. \A i \in DOMAIN sync.neis.ids : Kinds[sync.neis.ids[i]] \in DOMAIN profile.NEIS
  BY <1>1 DEF PopulationIsBound, ToSet
<1>7. ASSUME NEW kind \in DOMAIN profile.NEIS \cap Nonselectable
      PROVE  Cardinality({i \in DOMAIN sync.neis.ids : Kinds[sync.neis.ids[i]] = kind})
               <= MaxDropped
  <2>1. CountOf(sync.neis.ids, LAMBDA id : Kinds[id] = kind) = profile.NEIS[kind]
    BY <1>1 DEF PopulationIsBound
  <2>2. profile.NEIS[kind] <= MaxDropped
    BY SceneAssumption DEF SnapshotInv, SourcesInv
  <2> QED BY <2>1, <2>2 DEF CountOf
<1> QED BY <1>3, <1>4, <1>5, <1>6, <1>7 DEF Counted

LEMMA PlacesAreTotalled ==
    ASSUME SnapshotInv, IsFetching, Counted, NEW type
    PROVE  Cardinality(PlacesOfType(type))
             = TotalOf(scene.profile.NEIS, KindsOfType(scene.profile, type))
<1> DEFINE S == PlacesOfType(type)
           key == [i \in S |-> Kinds[Selected[i]]]
           counts == scene.profile.NEIS
           keys == KindsOfType(scene.profile, type)
<1>1. IsFiniteSet(S)
  BY SelectedAreRows, FS_Subset DEF PlacesOfType
<1>2. \A i \in S : key[i] \in keys
  BY DEF Counted, KindsOfType, PlacesOfType
<1>3. ASSUME NEW k \in keys PROVE counts[k] = Cardinality(Kept(S, key, k))
  <2>1. Kept(S, key, k) = PlacesOfKind(k)
    BY DEF Kept, PlacesOfKind, PlacesOfType, KindsOfType
  <2>2. Cardinality(PlacesOfKind(k)) = counts[k]
    BY DEF Counted, KindsOfType
  <2> QED BY <2>1, <2>2
<1> HIDE DEF S, key, counts, keys
<1>4. TotalOf(counts, keys) = Cardinality(S)
  BY <1>1, <1>2, <1>3, TotalIsCount
<1> QED BY <1>4 DEF S, counts, keys

\* The types there are in the profile are those there are among the rows.
LEMMA TypesAreThose ==
    ASSUME SnapshotInv, IsFetching, Counted
    PROVE  DOMAIN TypesOfProfile(scene.profile)
             = {TypeOf(Kinds[Selected[i]]) : i \in DOMAIN Selected}
<1> DEFINE profile == scene.profile
           known == {TypeOfKind[k] : k \in DOMAIN TypeOfKind \cap DOMAIN profile.NEIS}
           others == IF Quarantined(profile) = {} THEN {} ELSE {Unclassified}
           types == {TypeOf(Kinds[Selected[i]]) : i \in DOMAIN Selected}
<1>1. DOMAIN TypesOfProfile(profile) = known \cup others
  BY DEF TypesOfProfile
<1>2. DOMAIN TypeOfKind \cap Nonselectable = {}
  BY DEF TypeOfKind, Nonselectable
<1>3. ASSUME NEW i \in DOMAIN Selected PROVE TypeOf(Kinds[Selected[i]]) \in known \cup others
  <2>1. Kinds[Selected[i]] \in DOMAIN profile.NEIS \ Nonselectable
    BY DEF Counted
  <2>2. CASE Kinds[Selected[i]] \in DOMAIN TypeOfKind
    BY <2>1, <2>2 DEF TypeOf
  <2>3. CASE Kinds[Selected[i]] \notin DOMAIN TypeOfKind
    BY <2>1, <2>3 DEF TypeOf, Quarantined
  <2> QED BY <2>2, <2>3
<1>4. ASSUME NEW k \in DOMAIN TypeOfKind \cap DOMAIN profile.NEIS PROVE TypeOfKind[k] \in types
  <2>1. k \in DOMAIN profile.NEIS \ Nonselectable
    BY <1>2
  <2>2. PICK i \in DOMAIN Selected : Kinds[Selected[i]] = k
    BY <2>1 DEF Counted
  <2>3. TypeOf(k) = TypeOfKind[k]
    BY DEF TypeOf
  <2> QED BY <2>2, <2>3
<1>5. ASSUME NEW k \in Quarantined(profile) PROVE Unclassified \in types
  <2>1. k \in DOMAIN profile.NEIS \ Nonselectable /\ k \notin DOMAIN TypeOfKind
    BY DEF Quarantined
  <2>2. PICK i \in DOMAIN Selected : Kinds[Selected[i]] = k
    BY <2>1 DEF Counted
  <2>3. TypeOf(k) = Unclassified
    BY <2>1 DEF TypeOf
  <2> QED BY <2>2, <2>3
<1>6. types \subseteq known \cup others
  BY <1>3
<1>7. known \cup others \subseteq types
  BY <1>4, <1>5
<1> QED BY <1>1, <1>6, <1>7

\* The institution of each place, and the place of each institution.
LEMMA SchoolsHavePlaces ==
    ASSUME SnapshotInv, IsFetching, NEW records, AreRecords(records), FromRows(records),
           NEW snapshot
    PROVE  LET things == Today("NEIS", records, snapshot)
           IN  /\ \A i \in DOMAIN Selected : \E x \in things :
                    x.id = Selected[i] /\ x.type = TypeOf(Kinds[Selected[i]])
               /\ \A x \in things : \E i \in DOMAIN Selected :
                    x.id = Selected[i] /\ x.type = TypeOf(Kinds[Selected[i]])
               /\ \A x, y \in things : x.id = y.id => x = y
<1> DEFINE things == Today("NEIS", records, snapshot)
<1>1. \A r \in records : /\ InstitutionOf(r, snapshot).id = r.id
                         /\ InstitutionOf(r, snapshot).type = r.type
  BY DEF InstitutionOf
<1>2. \A r \in RecordsOf("NEIS", records) : r \in records /\ OfNeis(r)
  BY DEF RecordsOf, FromRows, OfKindergartens, OfList
<1>3. things = {InstitutionOf(r, snapshot) : r \in RecordsOf("NEIS", records)}
  BY DEF Today
<1>4. \A x, y \in things : x.id = y.id => x = y
  BY <1>1, <1>2, <1>3 DEF AreRecords
<1> HIDE DEF things
<1>5. ASSUME NEW i \in DOMAIN Selected
      PROVE  \E x \in things : x.id = Selected[i] /\ x.type = TypeOf(Kinds[Selected[i]])
  <2>1. PICK r \in RecordsOf("NEIS", records) : r.id = Selected[i]
    BY DEF FromRows, RecordsOf
  <2>2. PICK j \in DOMAIN Selected : r.id = Selected[j] /\ r.type = TypeOf(Kinds[Selected[j]])
    BY <1>2, <2>1 DEF OfNeis
  <2>3. InstitutionOf(r, snapshot) \in things
    BY <1>3
  <2> QED BY <1>1, <1>2, <2>1, <2>2, <2>3
<1>6. \A x \in things : \E i \in DOMAIN Selected :
         x.id = Selected[i] /\ x.type = TypeOf(Kinds[Selected[i]])
  BY <1>1, <1>2, <1>3 DEF OfNeis
<1> QED BY <1>4, <1>5, <1>6 DEF things

\* The schools of a type are as many as its places.
LEMMA SchoolsOfType ==
    ASSUME SnapshotInv, IsFetching, NEW records, AreRecords(records), FromRows(records),
           Cardinality(records) = FetchedRows, NEW snapshot, NEW type
    PROVE  Cardinality({x \in Today("NEIS", records, snapshot) : x.type = type})
             = Cardinality(PlacesOfType(type))
<1> DEFINE things == Today("NEIS", records, snapshot)
           S == PlacesOfType(type)
           T == {x \in things : x.type = type}
           made == [i \in S |-> CHOOSE x \in things : x.id = Selected[i]]
<1>1. /\ \A i \in DOMAIN Selected : \E x \in things :
            x.id = Selected[i] /\ x.type = TypeOf(Kinds[Selected[i]])
      /\ \A x \in things : \E i \in DOMAIN Selected :
            x.id = Selected[i] /\ x.type = TypeOf(Kinds[Selected[i]])
      /\ \A x, y \in things : x.id = y.id => x = y
  BY SchoolsHavePlaces
<1>2. \A i, j \in DOMAIN Selected : Selected[i] = Selected[j] => i = j
  BY RowsAreDistinct
<1>3. IsFiniteSet(S)
  BY SelectedAreRows, FS_Subset DEF PlacesOfType
<1> HIDE DEF things
<1>4. \A i \in S : made[i] \in things /\ made[i].id = Selected[i]
  BY <1>1 DEF PlacesOfType
<1>5. \A i \in S : made[i] \in T
  BY <1>1, <1>4 DEF PlacesOfType
<1>6. ASSUME NEW x \in T PROVE \E i \in S : made[i] = x
  <2>1. PICK i \in DOMAIN Selected : x.id = Selected[i] /\ x.type = TypeOf(Kinds[Selected[i]])
    BY <1>1
  <2>2. i \in S
    BY <2>1 DEF PlacesOfType
  <2>3. made[i] = x
    BY <1>1, <1>4, <2>1, <2>2
  <2> QED BY <2>2, <2>3
<1>7. ASSUME NEW i \in S, NEW j \in S, made[i] = made[j] PROVE i = j
  <2>1. Selected[i] = Selected[j]
    BY <1>4, <1>7
  <2> QED BY <1>2, <2>1 DEF PlacesOfType
<1>8. DOMAIN made = S
  OBVIOUS
<1> HIDE DEF S, T, made
<1>9. Cardinality(T) = Cardinality(S)
  BY ONLY <1>3, <1>5, <1>6, <1>7, <1>8, BijectionCounts
<1> QED BY <1>9 DEF S, T, things

LEMMA SchoolsAreCounted ==
    ASSUME SnapshotInv, IsFetching, Counted, NEW records, AreRecords(records), FromRows(records),
           Cardinality(records) = FetchedRows, NEW snapshot
    PROVE  TypeCounts(Today("NEIS", records, snapshot)) = TypesOfProfile(scene.profile)
<1> DEFINE things == Today("NEIS", records, snapshot)
           types == {TypeOf(Kinds[Selected[i]]) : i \in DOMAIN Selected}
           profile == scene.profile
<1>1. {x.type : x \in things} = types
  BY SchoolsHavePlaces
<1>2. \A type : Cardinality({x \in things : x.type = type})
                  = TotalOf(profile.NEIS, KindsOfType(profile, type))
  BY SchoolsOfType, PlacesAreTotalled
<1> HIDE DEF things
<1>3. DOMAIN TypesOfProfile(profile) = types
  BY TypesAreThose
<1>4. TypesOfProfile(profile)
        = [type \in DOMAIN TypesOfProfile(profile) |->
             TotalOf(profile.NEIS, KindsOfType(profile, type))]
  BY DEF TypesOfProfile, KindsOfType
<1>5. TypeCounts(things) = [type \in types |-> Cardinality({x \in things : x.type = type})]
  BY <1>1 DEF TypeCounts, CountsOf
<1> HIDE DEF types
<1>6. TypeCounts(things) = TypesOfProfile(profile)
  BY <1>2, <1>3, <1>4, <1>5
<1> QED BY <1>6 DEF things

LEMMA KindergartensAreCounted ==
    ASSUME SnapshotInv, IsFetching, Counted, NEW records, AreRecords(records), FromRows(records),
           Cardinality(records) = FetchedRows, NEW snapshot
    PROVE  Cardinality(Today("KINDERGARTEN_INFO", records, snapshot))
             = scene.profile.KINDERGARTEN_INFO
<1> DEFINE things == {InstitutionOf(r, snapshot) : r \in RecordsOf("KINDERGARTEN_INFO", records)}
           Q == DOMAIN Registered
           made == [i \in Q |-> CHOOSE x \in things : x.id = Registered[i]]
<1>1. \A r \in records : InstitutionOf(r, snapshot).id = r.id
  BY DEF InstitutionOf
<1>2. \A r \in RecordsOf("KINDERGARTEN_INFO", records) : r \in records /\ OfKindergartens(r)
  BY DEF RecordsOf, FromRows, OfNeis, OfList
<1>3. \A i \in Q : \E x \in things : x.id = Registered[i]
  <2> SUFFICES ASSUME NEW i \in Q PROVE \E x \in things : x.id = Registered[i]
    OBVIOUS
  <2>1. PICK r \in RecordsOf("KINDERGARTEN_INFO", records) : r.id = Registered[i]
    BY DEF FromRows, RecordsOf
  <2>2. InstitutionOf(r, snapshot) \in things
    OBVIOUS
  <2> QED BY <1>1, <1>2, <2>1, <2>2
<1>4. \A x \in things : \E i \in Q : x.id = Registered[i]
  BY <1>1, <1>2 DEF OfKindergartens
<1>5. \A x, y \in things : x.id = y.id => x = y
  BY <1>1, <1>2 DEF AreRecords
<1>6. \A i, j \in Q : Registered[i] = Registered[j] => i = j
  BY RowsAreDistinct
<1>7. IsFiniteSet(Q) /\ Cardinality(Q) = Len(Registered)
  BY SelectedAreRows
<1> HIDE DEF things
<1>8. \A i \in Q : made[i] \in things /\ made[i].id = Registered[i]
  BY <1>3
<1>9. \A x \in things : \E i \in Q : made[i] = x
  <2> SUFFICES ASSUME NEW x \in things PROVE \E i \in Q : made[i] = x
    OBVIOUS
  <2>1. PICK i \in Q : x.id = Registered[i]
    BY <1>4
  <2>2. made[i] = x
    BY <1>5, <1>8, <2>1
  <2> QED BY <2>2
<1>10. DOMAIN made = Q
  OBVIOUS
<1> HIDE DEF made, Q
<1>11. \A i, j \in Q : made[i] = made[j] => i = j
  BY <1>6, <1>8
<1>12. Cardinality(things) = Cardinality(Q)
  BY ONLY <1>7, <1>8, <1>9, <1>10, <1>11, BijectionCounts
<1>13. Len(Registered) = scene.profile.KINDERGARTEN_INFO
  BY DEF Counted
<1> QED BY <1>7, <1>12, <1>13 DEF things, Today

\* A build keeps the candidate there was, or makes one of sound records.
Built(records) ==
    /\ MayBeEnriched
    /\ RecordsAreSound(records, FetchedRows)
    /\ ProvenanceIsSound(records, Fetched)
    /\ \E asked \in BOOLEAN :
         /\ candidate' = Candidate(records, Fetched, asked, published, round)
         /\ EnrichmentsAreKnown(candidate', asked, published)

LEMMA BuildBuilds ==
    ASSUME Build
    PROVE  candidate' = candidate \/ \E answers : Built(Placed(answers))
<1>1. PICK answers :
        LET known == {Located(q, scene.locations) : q \in FetchedNeis}
                        \cup FetchedKindergartens \cup FetchedList
            records == {Geocoded(r, answers) : r \in known}
            asked == Unplaced(known) # {}
            built == Candidate(records, Fetched, asked, published, round)
        IN  candidate' =
              IF /\ MayBeEnriched
                 /\ RecordsAreSound(records, FetchedRows)
                 /\ ProvenanceIsSound(records, Fetched)
                 /\ EnrichmentsAreKnown(built, asked, published)
              THEN built ELSE candidate
  BY DEF Build
<1> DEFINE records == Placed(answers)
           asked == Unplaced(Known) # {}
           built == Candidate(records, Fetched, asked, published, round)
<1>2. candidate' = IF /\ MayBeEnriched
                      /\ RecordsAreSound(records, FetchedRows)
                      /\ ProvenanceIsSound(records, Fetched)
                      /\ EnrichmentsAreKnown(built, asked, published)
                   THEN built ELSE candidate
  BY <1>1 DEF Placed, Known
<1>3. asked \in BOOLEAN
  OBVIOUS
<1> HIDE DEF records, asked
<1>4. candidate' = candidate \/ Built(records)
  <2> DEFINE fits == /\ MayBeEnriched
                     /\ RecordsAreSound(records, FetchedRows)
                     /\ ProvenanceIsSound(records, Fetched)
                     /\ EnrichmentsAreKnown(built, asked, published)
  <2>1. CASE ~fits
    BY <1>2, <2>1
  <2>2. CASE fits
    <3>1. candidate' = Candidate(records, Fetched, asked, published, round)
      BY <1>2, <2>2
    <3>2. EnrichmentsAreKnown(candidate', asked, published)
      BY <2>2, <3>1
    <3> QED BY <1>3, <2>2, <3>1, <3>2 DEF Built
  <2> QED BY <2>1, <2>2
<1> QED BY <1>4 DEF records

Agrees(c, profile) ==
    /\ TypeCounts(CurrentOf("NEIS", c.institutions)) = TypesOfProfile(profile)
    /\ Cardinality(CurrentOf("KINDERGARTEN_INFO", c.institutions)) = profile.KINDERGARTEN_INFO

LEMMA BuiltAreCounted ==
    ASSUME SnapshotInv, IsFetching, NEW answers, Built(Placed(answers))
    PROVE  Agrees(candidate', scene.profile)
<1> DEFINE records == Placed(answers)
<1>1. AreRecords(records) /\ FromRows(records)
  BY PlacedAreRecords, PlacedAreFromRows DEF Placed, Known
<1>2. PICK asked : candidate' = Candidate(records, Fetched, asked, published, round)
  BY DEF Built
<1>3. MayBeEnriched /\ Cardinality(records) = FetchedRows
  BY DEF Built, RecordsAreSound
<1>4. Counted
  BY <1>3, EnrichedIsCounted
<1>5. published = None \/ Fielded(published)
  BY DEF SnapshotInv, SnapshotsInv, Sound
<1> HIDE DEF records
<1>6. ASSUME NEW source
      PROVE  CurrentOf(source, candidate'.institutions)
               = Today(source, records, round)
  <2> DEFINE c == Candidate(records, Fetched, asked, published, round)
  <2>1. CurrentOf(source, c.institutions)
          = Today(source, records, round)
    BY ONLY <1>5, CurrentAreOfTheDay
  <2>2. candidate' = c
    BY <1>2
  <2> HIDE DEF c
  <2> QED BY <2>1, <2>2
<1>7. TypeCounts(CurrentOf("NEIS", candidate'.institutions))
        = TypesOfProfile(scene.profile)
  BY <1>1, <1>3, <1>4, <1>6, SchoolsAreCounted
<1>8. Cardinality(CurrentOf("KINDERGARTEN_INFO", candidate'.institutions))
        = scene.profile.KINDERGARTEN_INFO
  BY <1>1, <1>3, <1>4, <1>6, KindergartensAreCounted
<1> QED BY <1>7, <1>8 DEF Agrees

CountsInv == candidate # None => Agrees(candidate, scene.profile)

(***************************************************************************)
(* However the sources changed while they were read: a candidate has as    *)
(* many different current institutions of each type as the reviewed        *)
(* profile says, since the rows are as many as the profile says, kind by   *)
(* kind, and make as many records, of different ids (sync.py:669-778,      *)
(* school_count_profile.py).                                               *)
(***************************************************************************)
THEOREM ReviewedCountsAreThere == Spec => []ReviewedCountsHold
<1>1. Init => CountsInv
  BY DEF Init, CountsInv
<1>2. CountsInv => ReviewedCountsHold
  BY DEF CountsInv, ReviewedCountsHold, Agrees, TypeCounts, CurrentOf, CountsOf
<1>3. SnapshotInv /\ CountsInv /\ [Next]_vars => CountsInv'
  <2> SUFFICES ASSUME SnapshotInv, candidate # None => Agrees(candidate, scene.profile),
                      [Next]_vars
               PROVE  candidate' # None => Agrees(candidate', scene.profile)
                      /\ scene' = scene
    BY DEF CountsInv
  <2>1. CASE Build
    <3>1. scene' = scene /\ IsFetching
      BY <2>1 DEF Build, SyncStep
    <3>2. ASSUME NEW answers, Built(Placed(answers)) PROVE Agrees(candidate', scene.profile)
      BY <3>1, <3>2, BuiltAreCounted
    <3> QED BY <2>1, <3>1, <3>2, BuildBuilds
  <2>2. CASE Promote
    BY <2>2 DEF Promote
  <2>3. ASSUME ~Build, ~Promote PROVE scene' = scene /\ candidate' = candidate
    BY <2>3 DEF Next, vars, CloseSchool, OpenSchool, CloseKindergarten, OpenKindergarten,
                ReleaseList, Change, StartSync, ReadNeis, ReadKindergartens, FailRequest,
                SyncStep, Restart, Search, NextPage
  <2> QED BY <2>1, <2>2, <2>3
<1> QED BY <1>1, <1>2, <1>3, SnapshotInvariant, PTL DEF Spec

-----------------------------------------------------------------------------
(***************************************************************************)
(* What a candidate is made of, and what is printed of it.                 *)
(***************************************************************************)
IsPlace(site) ==
    /\ site = [address |-> site.address, district |-> site.district,
               coordinate |-> site.coordinate, quality |-> site.quality]
    /\ site.coordinate = None /\ site.quality \notin Enrichments => site.quality = "MISSING"
HasPlaces(r) == r.sites = [code \in DOMAIN r.sites |-> r.sites[code]]
                /\ \A code \in DOMAIN r.sites : IsPlace(r.sites[code])

LEMMA SiteIsPlace ==
    ASSUME NEW address, NEW district, NEW coordinate, NEW quality
    PROVE  IsPlace(Site(address, district, coordinate, quality))
BY DEF IsPlace, Site

LEMMA FetchedHavePlaces ==
    \A r \in FetchedNeis \cup FetchedKindergartens \cup FetchedList : HasPlaces(r)
<1>1. ASSUME NEW id, NEW row PROVE HasPlaces(NeisRecord(id, row))
  <2> DEFINE made == Site(row.address, row.district, None, "MISSING")
             r == NeisRecord(id, row)
  <2>1. r.sites = [code \in {Main} |-> made]
    BY DEF NeisRecord, Record
  <2>2. IsPlace(made)
    BY SiteIsPlace
  <2> HIDE DEF made, r
  <2> QED BY <2>1, <2>2 DEF HasPlaces, r
<1>2. ASSUME NEW id, NEW row PROVE HasPlaces(KindergartenRecord(id, row))
  <2> DEFINE made == Site(row.address, row.district, row.coordinate, "SOURCE_COORDINATE")
             r == KindergartenRecord(id, row)
  <2>1. r.sites = [code \in {Main} |-> made]
    BY DEF KindergartenRecord, Record
  <2>2. IsPlace(made)
    BY SiteIsPlace
  <2> HIDE DEF made, r
  <2> QED BY <2>1, <2>2 DEF HasPlaces, r
<1>3. ASSUME NEW id, NEW row PROVE HasPlaces(SenRecord(id, row))
  <2> DEFINE at(code) == IF code = Main THEN row ELSE row.branches[code]
             made(code) == Site(at(code).address, at(code).district, at(code).coordinate,
                                "MANUALLY_VERIFIED")
             r == SenRecord(id, row)
  <2>1. r.sites = [code \in {Main} \cup DOMAIN row.branches |-> made(code)]
    BY DEF SenRecord, Record
  <2>2. \A code : IsPlace(made(code))
    <3> HIDE DEF at
    <3> QED BY SiteIsPlace
  <2> HIDE DEF made, r
  <2> QED BY <2>1, <2>2 DEF HasPlaces, r
<1> QED BY <1>1, <1>2, <1>3 DEF FetchedNeis, FetchedKindergartens, FetchedList

LEMMA LocatedHasPlaces ==
    ASSUME NEW r, IsRecord(r), HasPlaces(r), NEW locations
    PROVE  HasPlaces(Located(r, locations))
<1> DEFINE l == CHOOSE l \in LocationsOf(r, locations) : TRUE
           old == r.sites[Main]
           new == [old EXCEPT !.coordinate = l.coordinate,
                              !.quality = "OFFICIAL_STANDARD_COORDINATE"]
<1>1. CASE LocationsOf(r, locations) = {}
  BY <1>1 DEF Located
<1>2. CASE LocationsOf(r, locations) # {}
  <2>1. Located(r, locations)
          = [r EXCEPT !.sites[Main].coordinate = l.coordinate,
                      !.sites[Main].quality = "OFFICIAL_STANDARD_COORDINATE"]
    BY <1>2 DEF Located
  <2> HIDE DEF l
  <2>2. Located(r, locations).sites
          = [r.sites EXCEPT ![Main].coordinate = l.coordinate,
                            ![Main].quality = "OFFICIAL_STANDARD_COORDINATE"]
    BY <2>1 DEF IsRecord, RecordFields
  <2>3. Located(r, locations).sites = [r.sites EXCEPT ![Main] = new]
    BY <2>2 DEF HasPlaces
  <2>4. Main \in DOMAIN r.sites => IsPlace(new)
    <3> SUFFICES ASSUME Main \in DOMAIN r.sites PROVE IsPlace(new)
      OBVIOUS
    <3>1. old = [address |-> old.address, district |-> old.district,
                 coordinate |-> old.coordinate, quality |-> old.quality]
      BY DEF HasPlaces, IsPlace
    <3> DEFINE place == l.coordinate
    <3>2. new = [old EXCEPT !.coordinate = place, !.quality = "OFFICIAL_STANDARD_COORDINATE"]
      OBVIOUS
    <3> HIDE DEF old, new, place
    <3>3. new = [address |-> old.address, district |-> old.district,
                 coordinate |-> place, quality |-> "OFFICIAL_STANDARD_COORDINATE"]
      BY ONLY <3>1, <3>2
    <3> QED BY <3>3 DEF IsPlace, Enrichments
  <2> HIDE DEF new
  <2> QED BY <2>3, <2>4 DEF HasPlaces
<1> QED BY <1>1, <1>2

LEMMA GeocodedHasPlaces ==
    ASSUME NEW r, IsRecord(r), HasPlaces(r), NEW answers
    PROVE  HasPlaces(Geocoded(r, answers))
<1> DEFINE answered(code) == /\ <<r.id, code>> \in DOMAIN answers
                             /\ answers[<<r.id, code>>] # None
           new(code) == [r.sites[code] EXCEPT !.address.tidy = TRUE, !.quality = "GEOCODED",
                                              !.coordinate = answers[<<r.id, code>>]]
<1>1. Geocoded(r, answers).sites
        = [code \in DOMAIN r.sites |-> IF answered(code) THEN new(code) ELSE r.sites[code]]
  BY DEF Geocoded, IsRecord, RecordFields
<1>2. ASSUME NEW code \in DOMAIN r.sites, answered(code) PROVE IsPlace(new(code))
  <2> DEFINE old == r.sites[code]
             answer == answers[<<r.id, code>>]
             address == [old.address EXCEPT !.tidy = TRUE]
  <2>1. old = [address |-> old.address, district |-> old.district,
               coordinate |-> old.coordinate, quality |-> old.quality]
    BY DEF HasPlaces, IsPlace
  <2>2. answer # None
    BY <1>2
  <2>3. new(code) = [old EXCEPT !.address.tidy = TRUE, !.quality = "GEOCODED",
                                !.coordinate = answer]
    OBVIOUS
  <2> HIDE DEF old, answer, new
  <2>4. new(code) = [address |-> address, district |-> old.district,
                     coordinate |-> answer, quality |-> "GEOCODED"]
    BY <2>1, <2>3
  <2> HIDE DEF address
  <2> QED BY <2>2, <2>4 DEF IsPlace
<1> HIDE DEF answered, new
<1>3. \A code \in DOMAIN r.sites : IsPlace(r.sites[code])
  BY DEF HasPlaces
<1> QED BY <1>1, <1>2, <1>3 DEF HasPlaces

LEMMA PlacedHavePlaces ==
    ASSUME SnapshotInv, IsFetching, NEW answers, NEW r \in Placed(answers)
    PROVE  HasPlaces(r)
<1>1. \A q \in FetchedNeis \cup FetchedKindergartens \cup FetchedList : IsRecord(q)
  BY FetchedAreRecords DEF AreRecords
<1>2. ASSUME NEW q \in FetchedNeis
      PROVE  /\ IsRecord(Located(q, scene.locations))
             /\ HasPlaces(Located(q, scene.locations))
  <2>1. Like(Located(q, scene.locations), q)
    BY <1>1, LocatedIsLike
  <2> QED BY <1>1, <2>1, FetchedHavePlaces, LocatedHasPlaces DEF Like, IsRecord
<1>3. \A q \in Known : IsRecord(q) /\ HasPlaces(q)
  BY <1>1, <1>2, FetchedHavePlaces DEF Known
<1> QED BY <1>3, GeocodedHasPlaces DEF Placed

\* What a candidate has is of a record, or kept from before and missing.
MadeOf(c, records, previous, snapshot) ==
    /\ \A r \in records : /\ InstitutionOf(r, snapshot) \in c.institutions
                          /\ SitesOf(r) \subseteq c.sites
    /\ \A i \in c.institutions :
         IsCurrent(i) => \E r \in records : i = InstitutionOf(r, snapshot)
    /\ \A s \in c.sites :
         \/ \E r \in records : s \in SitesOf(r)
         \/ /\ s.status = Missing /\ previous # None
            /\ \E old \in previous.sites : s.parent = old.parent /\ s.code = old.code

LEMMA CandidateIsMade ==
    ASSUME NEW records, NEW fetched, NEW asked, NEW snapshot,
           NEW previous, previous = None \/ Fielded(previous)
    PROVE  MadeOf(Candidate(records, fetched, asked, previous, snapshot),
                  records, previous, snapshot)
<1> DEFINE c == Candidate(records, fetched, asked, previous, snapshot)
           current == {InstitutionOf(r, snapshot) : r \in records}
           here == UNION {SitesOf(r) : r \in records}
           kept == PreservedInstitutions(current, previous, snapshot)
           keptSites == PreservedSites(here, previous)
<1>1. /\ c.institutions = IF previous = None THEN current ELSE current \cup kept
      /\ c.sites = IF previous = None THEN here ELSE here \cup keptSites
  BY DEF Candidate
<1>2. previous # None => \A i \in kept : ~IsCurrent(i)
  BY MarkedIsMissing
<1>3. ASSUME previous # None, NEW s \in keptSites
      PROVE  /\ s.status = Missing
             /\ \E old \in previous.sites : s.parent = old.parent /\ s.code = old.code
  <2>1. PICK old \in previous.sites : s = [old EXCEPT !.status = Missing]
    BY DEF PreservedSites
  <2>2. DOMAIN old = SiteFields
    BY <1>3 DEF Fielded
  <2> QED BY <2>1, <2>2 DEF SiteFields
<1>4. \A r \in records : InstitutionOf(r, snapshot) \in current /\ SitesOf(r) \subseteq here
  OBVIOUS
<1>5. /\ \A i \in current : \E r \in records : i = InstitutionOf(r, snapshot)
      /\ \A s \in here : \E r \in records : s \in SitesOf(r)
  OBVIOUS
<1> HIDE DEF c, current, here, kept, keptSites
<1>6. MadeOf(c, records, previous, snapshot)
  BY <1>1, <1>2, <1>3, <1>4, <1>5 DEF MadeOf
<1> QED BY <1>6 DEF c

\* The sites of a current institution are those of its record.
LEMMA SitesOfRecord ==
    ASSUME NEW records, AreRecords(records), NEW previous, NEW snapshot,
           NEW c, Keyed(c), MadeOf(c, records, previous, snapshot), NEW r \in records
    PROVE  /\ {s.code : s \in {t \in c.sites : t.parent = r.id /\ t.status # Missing}}
                = DOMAIN r.sites
           /\ \A s \in SitesOf(r) : s \in c.sites /\ s.parent = r.id
           /\ \A s \in c.sites : s.parent = r.id => s \in SitesOf(r) \/ s.status = Missing
           /\ \A code \in DOMAIN r.sites :
                LET s == CHOOSE s \in c.sites : s.parent = r.id /\ s.code = code
                IN  /\ s \in SitesOf(r) /\ s.code = code
                    /\ s.address = r.sites[code].address /\ s.district = r.sites[code].district
                    /\ s.coordinate = r.sites[code].coordinate
                    /\ s.quality = r.sites[code].quality
<1> DEFINE site(q, code) ==
             [parent |-> q.id, code |-> code, address |-> q.sites[code].address,
              district |-> q.sites[code].district, coordinate |-> q.sites[code].coordinate,
              quality |-> q.sites[code].quality, status |-> SiteStatus(q.type, q.sites[code])]
<1>1. \A q \in records : SitesOf(q) = {site(q, code) : code \in DOMAIN q.sites}
  BY DEF SitesOf
<1>2. \A q, code : /\ site(q, code).parent = q.id /\ site(q, code).code = code
                   /\ site(q, code).address = q.sites[code].address
                   /\ site(q, code).district = q.sites[code].district
                   /\ site(q, code).coordinate = q.sites[code].coordinate
                   /\ site(q, code).quality = q.sites[code].quality
                   /\ site(q, code).status # Missing
  BY DEF SiteStatus, Missing
<1> HIDE DEF site
<1>3. \A s \in SitesOf(r) : s \in c.sites /\ s.parent = r.id
  BY <1>1, <1>2 DEF MadeOf
<1>4. \A s \in c.sites : s.parent = r.id => s \in SitesOf(r) \/ s.status = Missing
  <2> SUFFICES ASSUME NEW s \in c.sites, s.parent = r.id, s.status # Missing
               PROVE  s \in SitesOf(r)
    OBVIOUS
  <2>1. PICK q \in records : s \in SitesOf(q)
    BY DEF MadeOf
  <2>2. q.id = s.parent
    BY <1>1, <1>2, <2>1
  <2>3. q = r
    BY <2>2 DEF AreRecords
  <2> QED BY <2>1, <2>3
<1>5. {s.code : s \in {t \in c.sites : t.parent = r.id /\ t.status # Missing}} = DOMAIN r.sites
  <2>1. ASSUME NEW s \in c.sites, s.parent = r.id, s.status # Missing
        PROVE  s.code \in DOMAIN r.sites
    <3>1. s \in SitesOf(r)
      BY <1>4, <2>1
    <3> QED BY <1>1, <1>2, <3>1
  <2>2. ASSUME NEW code \in DOMAIN r.sites
        PROVE  \E s \in c.sites : s.parent = r.id /\ s.status # Missing /\ s.code = code
    <3>1. site(r, code) \in SitesOf(r)
      BY <1>1
    <3> QED BY <1>2, <1>3, <3>1
  <2> QED BY <2>1, <2>2
<1>6. ASSUME NEW code \in DOMAIN r.sites
      PROVE  (CHOOSE s \in c.sites : s.parent = r.id /\ s.code = code) = site(r, code)
  <2> DEFINE Here(s) == s.parent = r.id /\ s.code = code
             chosen == CHOOSE s \in c.sites : Here(s)
  <2>1. site(r, code) \in c.sites /\ Here(site(r, code))
    <3>1. site(r, code) \in SitesOf(r)
      BY <1>1
    <3> QED BY <1>2, <1>3, <3>1
  <2>2. \A s, t \in c.sites : Here(s) /\ Here(t) => s = t
    BY DEF Keyed
  <2> HIDE DEF Here
  <2>3. chosen \in c.sites /\ Here(chosen)
    BY <2>1
  <2>4. chosen = site(r, code)
    BY <2>1, <2>2, <2>3
  <2> QED BY <2>4 DEF Here
<1>7. ASSUME NEW code \in DOMAIN r.sites
      PROVE  LET s == CHOOSE s \in c.sites : s.parent = r.id /\ s.code = code
             IN  /\ s \in SitesOf(r) /\ s.code = code
                 /\ s.address = r.sites[code].address /\ s.district = r.sites[code].district
                 /\ s.coordinate = r.sites[code].coordinate
                 /\ s.quality = r.sites[code].quality
  <2> DEFINE chosen == CHOOSE s \in c.sites : s.parent = r.id /\ s.code = code
  <2>1. chosen = site(r, code)
    BY <1>6
  <2>2. site(r, code) \in SitesOf(r)
    BY <1>1
  <2> HIDE DEF chosen
  <2>3. /\ chosen \in SitesOf(r) /\ chosen.code = code
        /\ chosen.address = r.sites[code].address /\ chosen.district = r.sites[code].district
        /\ chosen.coordinate = r.sites[code].coordinate
        /\ chosen.quality = r.sites[code].quality
    BY <1>2, <2>1, <2>2
  <2> QED BY <2>3 DEF chosen
<1> QED BY <1>3, <1>4, <1>5, <1>7

\* What is left of a site without what was added later.
Plain(site) ==
    IF site.quality \in Enrichments
    THEN [site EXCEPT !.coordinate = None, !.quality = "MISSING"] ELSE site

LEMMA PlainIsTheSame ==
    ASSUME NEW site, IsPlace(site)
    PROVE  Plain(Site(site.address, site.district, site.coordinate, site.quality)) = Plain(site)
<1> DEFINE a == site.address
           d == site.district
           x == site.coordinate
           q == site.quality
           new == Site(a, d, x, q)
<1>1. site = [address |-> a, district |-> d, coordinate |-> x, quality |-> q]
  BY DEF IsPlace
<1>2. new = [address |-> a, district |-> d, coordinate |-> x,
             quality |-> IF x = None THEN "MISSING" ELSE q]
  BY DEF Site
<1>3. x = None /\ q \notin Enrichments => q = "MISSING"
  BY DEF IsPlace
<1> HIDE DEF a, d, x, q, new
<1>4. CASE x # None \/ q = "MISSING"
  <2>1. new = site
    BY <1>1, <1>2, <1>4
  <2> QED BY <2>1 DEF new, a, d, x, q
<1>5. CASE x = None /\ q # "MISSING"
  <2>1. q \in Enrichments
    BY <1>3, <1>5
  <2>2. Plain(site) = [site EXCEPT !.coordinate = None, !.quality = "MISSING"]
    BY <1>1, <2>1 DEF Plain
  <2>3. Plain(site) = [address |-> a, district |-> d, coordinate |-> None,
                       quality |-> "MISSING"]
    BY ONLY <1>1, <2>2
  <2>4. new = [address |-> a, district |-> d, coordinate |-> None, quality |-> "MISSING"]
    BY <1>2, <1>5
  <2>5. new.quality \notin Enrichments
    BY <2>4 DEF Enrichments
  <2>6. Plain(new) = new
    BY <2>5 DEF Plain
  <2> QED BY <2>3, <2>4, <2>6 DEF new, a, d, x, q
<1> QED BY <1>4, <1>5

Printed(id, type, name, foundation, office, sites) ==
    [id |-> id, type |-> type, name |-> name, foundation |-> foundation, office |-> office,
     sites |-> [code \in DOMAIN sites |-> Plain(sites[code])]]

LEMMA PrintOf ==
    ASSUME NEW id, NEW type, NEW name, NEW foundation, NEW office, NEW sites
    PROVE  BeforeEnrichment([id |-> id, type |-> type, name |-> name,
                             foundation |-> foundation, office |-> office, sites |-> sites])
             = Printed(id, type, name, foundation, office, sites)
<1> DEFINE r == [id |-> id, type |-> type, name |-> name,
                 foundation |-> foundation, office |-> office, sites |-> sites]
           plain == [code \in DOMAIN sites |-> Plain(sites[code])]
           new == [r EXCEPT !.sites = plain]
<1>1. BeforeEnrichment(r) = new
  BY DEF BeforeEnrichment, Plain
<1>2. new = [r EXCEPT !.sites = plain]
  OBVIOUS
<1> HIDE DEF new, plain
<1>3. new = [id |-> id, type |-> type, name |-> name, foundation |-> foundation,
             office |-> office, sites |-> plain]
  BY ONLY <1>2 DEF r
<1> QED BY <1>1, <1>3 DEF Printed, plain

LEMMA PrintIsTheSame ==
    ASSUME NEW records, AreRecords(records), NEW previous, NEW snapshot,
           NEW c, Keyed(c), MadeOf(c, records, previous, snapshot), NEW source,
           \A r \in RecordsOf(source, records) : HasPlaces(r)
    PROVE  Fingerprint(Today(source, records, snapshot), c.sites)
             = {RecordPrint(r) : r \in RecordsOf(source, records)}
<1> DEFINE Sites(i) ==
             [code \in {s.code : s \in {t \in c.sites : t.parent = i.id /\ t.status # Missing}} |->
                LET s == CHOOSE s \in c.sites : s.parent = i.id /\ s.code = code
                IN  Site(s.address, s.district, s.coordinate, s.quality)]
           Shown(i) == BeforeEnrichment([id |-> i.id, type |-> i.type, name |-> i.name,
                                         foundation |-> i.foundation, office |-> i.office,
                                         sites |-> Sites(i)])
<1>1. Fingerprint(Today(source, records, snapshot), c.sites)
        = {Shown(i) : i \in Today(source, records, snapshot)}
  BY DEF Fingerprint
<1>2. ASSUME NEW r \in RecordsOf(source, records)
      PROVE  Shown(InstitutionOf(r, snapshot)) = RecordPrint(r)
  <2> DEFINE i == InstitutionOf(r, snapshot)
             new == Sites(i)
             old == r.sites
  <2>1. /\ i.id = r.id /\ i.type = r.type /\ i.name = r.name
        /\ i.foundation = r.foundation /\ i.office = r.office
    BY DEF InstitutionOf
  <2>2. r \in records
    BY DEF RecordsOf
  <2> HIDE DEF i
  <2>3. DOMAIN new = DOMAIN old
    <3>1. DOMAIN new = {s.code : s \in {t \in c.sites : t.parent = r.id /\ t.status # Missing}}
      BY <2>1
    <3> QED BY <2>2, <3>1, SitesOfRecord
  <2>4. ASSUME NEW code \in DOMAIN old PROVE Plain(new[code]) = Plain(old[code])
    <3> DEFINE s == CHOOSE s \in c.sites : s.parent = r.id /\ s.code = code
    <3>1. new[code] = Site(s.address, s.district, s.coordinate, s.quality)
      BY <2>1, <2>3
    <3>2. /\ s.address = old[code].address /\ s.district = old[code].district
          /\ s.coordinate = old[code].coordinate /\ s.quality = old[code].quality
      BY <2>2, SitesOfRecord
    <3>3. IsPlace(old[code])
      BY DEF HasPlaces
    <3> HIDE DEF s, new, old
    <3>4. new[code] = Site(old[code].address, old[code].district, old[code].coordinate,
                           old[code].quality)
      BY <3>1, <3>2
    <3> QED BY <3>3, <3>4, PlainIsTheSame
  <2> HIDE DEF new, old
  <2>5. [code \in DOMAIN new |-> Plain(new[code])] = [code \in DOMAIN old |-> Plain(old[code])]
    BY <2>3, <2>4
  <2>6. Shown(i) = Printed(i.id, i.type, i.name, i.foundation, i.office, new)
    BY PrintOf DEF new
  <2>7. RecordPrint(r) = Printed(r.id, r.type, r.name, r.foundation, r.office, old)
    BY PrintOf DEF RecordPrint, old
  <2>8. Shown(i) = RecordPrint(r)
    BY <2>1, <2>5, <2>6, <2>7 DEF Printed
  <2> QED BY <2>8 DEF i
<1> HIDE DEF Shown
<1>3. {Shown(i) : i \in Today(source, records, snapshot)}
        = {RecordPrint(r) : r \in RecordsOf(source, records)}
  BY <1>2 DEF Today
<1> QED BY <1>1, <1>3

-----------------------------------------------------------------------------
(***************************************************************************)
(* What the build calls clean the promotion accepts.  What the build knew  *)
(* of its candidate, of which each check of the promotion asks a part:     *)
(***************************************************************************)
Says(c, records, previous, snapshot) ==
    LET current == {InstitutionOf(r, snapshot) : r \in records}
    IN  /\ c.previous = IF previous = None THEN None ELSE previous.id
        /\ c.clean => CoordinatesSuffice(current) /\ ActiveSuffice(current, previous)
        /\ c.sources = SourceEntries(c.institutions, Fetched)
        /\ c.counts = Counts(c.institutions, c.sites)
        /\ \E used : /\ c.enrichments = EnrichmentEntries(used, c.institutions, c.sites)
                     /\ UsedEnrichments(c.sites) \subseteq used

IsOfTheDay(c, records) ==
    /\ AreRecords(records) /\ FromRows(records) /\ \A r \in records : HasPlaces(r)
    /\ Cardinality(records) = FetchedRows
    /\ ProvenanceIsSound(records, Fetched)
    /\ Counted
    /\ Sound(c) /\ MadeOf(c, records, published, round) /\ Says(c, records, published, round)
    /\ \A source : CurrentOf(source, c.institutions) = Today(source, records, round)
    /\ Agrees(c, scene.profile)

LEMMA CandidateSays ==
    ASSUME NEW records, NEW asked
    PROVE  Says(Candidate(records, Fetched, asked, published, round), records, published, round)
<1> DEFINE c == Candidate(records, Fetched, asked, published, round)
           used == {"OFFICIAL_STANDARD_COORDINATE"} \cup UsedEnrichments(c.sites)
                     \cup IF asked THEN {"GEOCODED"} ELSE {}
<1>1. /\ c.previous = IF published = None THEN None ELSE published.id
      /\ c.sources = SourceEntries(c.institutions, Fetched)
      /\ c.counts = Counts(c.institutions, c.sites)
  BY DEF Candidate
<1>2. c.clean = (/\ CoordinatesSuffice({InstitutionOf(r, round) : r \in records})
                 /\ ActiveSuffice({InstitutionOf(r, round) : r \in records}, published))
  BY DEF Candidate
<1>3. c.enrichments = EnrichmentEntries(used, c.institutions, c.sites)
  BY DEF Candidate
<1>4. UsedEnrichments(c.sites) \subseteq used
  OBVIOUS
<1> HIDE DEF c, used
<1>5. Says(c, records, published, round)
  BY <1>1, <1>2, <1>3, <1>4 DEF Says
<1> QED BY <1>5 DEF c

LEMMA BuiltIsOfTheDay ==
    ASSUME SnapshotInv, IsFetching, NEW answers, Built(Placed(answers))
    PROVE  IsOfTheDay(candidate', Placed(answers))
<1> DEFINE records == Placed(answers)
<1>1. AreRecords(records) /\ FromRows(records) /\ \A r \in records : HasPlaces(r)
  BY PlacedAreRecords, PlacedAreFromRows, PlacedHavePlaces DEF Placed, Known
<1>2. PICK asked : candidate' = Candidate(records, Fetched, asked, published, round)
  BY DEF Built
<1>3. /\ MayBeEnriched /\ RecordsAreSound(records, FetchedRows)
      /\ ProvenanceIsSound(records, Fetched) /\ Cardinality(records) = FetchedRows
  BY DEF Built, RecordsAreSound
<1>4. Counted
  BY <1>3, EnrichedIsCounted
<1>5. /\ published = None \/ Sound(published)
      /\ published = None \/ Fielded(published)
  BY DEF SnapshotInv, SnapshotsInv, Sound
<1> HIDE DEF records
<1> DEFINE c == Candidate(records, Fetched, asked, published, round)
<1>6. Sound(c)
  BY <1>1, <1>3, <1>5, OnlyNeisCountsUnclassified, CandidateIsSound
<1>7. MadeOf(c, records, published, round) /\ Says(c, records, published, round)
  BY <1>5, CandidateIsMade, CandidateSays
<1>8. \A source : CurrentOf(source, c.institutions) = Today(source, records, round)
  BY <1>5, CurrentAreOfTheDay
<1>9. candidate' = c
  BY <1>2
<1> HIDE DEF c
<1>10. Agrees(candidate', scene.profile)
  BY BuiltAreCounted
<1> QED BY <1>1, <1>3, <1>4, <1>6, <1>7, <1>8, <1>9, <1>10 DEF IsOfTheDay, records

\* Sites belong to institutions, and one of the registers has one site.
Rooted(c) ==
    \A s \in c.sites : /\ s.parent \in Ids(c.institutions)
                       /\ s.parent \in DOMAIN scene.rows => s.code = Main
RootedInv ==
    /\ candidate = None \/ Rooted(candidate)
    /\ published = None \/ Rooted(published)

LEMMA RowsHaveOneSite ==
    ASSUME SnapshotInv, IsFetching, NEW records, FromRows(records), NEW r \in records
    PROVE  /\ Main \in DOMAIN r.sites
           /\ r.id \in DOMAIN scene.rows => DOMAIN r.sites = {Main}
<1>1. DOMAIN Reviewed \cap DOMAIN scene.rows = {}
  <2>1. IsReviewed(scene, Reviewed)
    BY SceneAssumption DEF SnapshotInv, SourcesInv, Reviewed
  <2> QED BY <2>1 DEF IsReviewed
<1> QED BY <1>1 DEF FromRows, OfNeis, OfKindergartens, OfList

LEMMA OfTheDayIsRooted ==
    ASSUME SnapshotInv, IsFetching, published = None \/ Rooted(published),
           NEW c, NEW records, IsOfTheDay(c, records),
           published # None => Keeps(published, c)
    PROVE  Rooted(c)
<1> SUFFICES ASSUME NEW s \in c.sites
             PROVE  /\ s.parent \in Ids(c.institutions)
                    /\ s.parent \in DOMAIN scene.rows => s.code = Main
  BY DEF Rooted
<1>1. MadeOf(c, records, published, round) /\ FromRows(records)
  BY DEF IsOfTheDay
<1>2. CASE \E r \in records : s \in SitesOf(r)
  <2>1. PICK r \in records : s \in SitesOf(r)
    BY <1>2
  <2>2. s.parent = r.id /\ s.code \in DOMAIN r.sites
    BY <2>1 DEF SitesOf
  <2>3. InstitutionOf(r, round) \in c.institutions /\ InstitutionOf(r, round).id = r.id
    BY <1>1 DEF MadeOf, InstitutionOf
  <2>4. r.id \in Ids(c.institutions)
    BY <2>3 DEF Ids
  <2>5. r.id \in DOMAIN scene.rows => DOMAIN r.sites = {Main}
    BY <1>1, RowsHaveOneSite
  <2> QED BY <2>2, <2>4, <2>5
<1>3. CASE /\ published # None
           /\ \E old \in published.sites : s.parent = old.parent /\ s.code = old.code
  BY <1>3 DEF Rooted, Keeps
<1> QED BY <1>1, <1>2, <1>3 DEF MadeOf

LEMMA SourcesAreRechecked ==
    ASSUME NEW c, NEW records, IsOfTheDay(c, records)
    PROVE  RecheckSources(c)
<1> SUFFICES ASSUME NEW source \in Source
             PROVE  LET rows == OfSource(source, c.institutions)
                        entry == c.sources[source]
                    IN  /\ entry.normalized = Cardinality({i \in rows : IsCurrent(i)})
                        /\ entry.preserved = Cardinality({i \in rows : ~IsCurrent(i)})
                        /\ entry.print = Fingerprint({i \in rows : IsCurrent(i)}, c.sites)
  BY DEF RecheckSources, IsOfTheDay, Sound
<1> DEFINE rows == OfSource(source, c.institutions)
           entry == c.sources[source]
           print == {RecordPrint(r) : r \in Fetched[source].records}
<1>1. /\ entry.normalized = Cardinality({i \in rows : IsCurrent(i)})
      /\ entry.preserved = Cardinality({i \in rows : ~IsCurrent(i)})
      /\ entry.print = print
  <2>1. c.sources = SourceEntries(c.institutions, Fetched)
    BY DEF IsOfTheDay, Says
  <2> QED BY <2>1 DEF SourceEntries
<1>2. print = {RecordPrint(r) : r \in RecordsOf(source, records)}
  BY DEF IsOfTheDay, ProvenanceIsSound, RecordsOf
<1>3. {i \in rows : IsCurrent(i)} = Today(source, records, round)
  BY DEF IsOfTheDay, CurrentOf
<1>4. Fingerprint(Today(source, records, round), c.sites)
        = {RecordPrint(r) : r \in RecordsOf(source, records)}
  <2>1. \A r \in RecordsOf(source, records) : HasPlaces(r)
    BY DEF IsOfTheDay, RecordsOf
  <2>2. AreRecords(records) /\ Keyed(c) /\ MadeOf(c, records, published, round)
    BY DEF IsOfTheDay, Sound
  <2> QED BY <2>1, <2>2, PrintIsTheSame
<1> HIDE DEF rows, entry, print
<1>5. entry.print = Fingerprint({i \in rows : IsCurrent(i)}, c.sites)
  BY <1>1, <1>2, <1>3, <1>4
<1> QED BY <1>1, <1>5 DEF rows, entry

\* The institutions of the reviewed list are as many as its records.
LEMMA ListIsCounted ==
    ASSUME SnapshotInv, IsFetching, NEW records, AreRecords(records), FromRows(records)
    PROVE  Cardinality(Today("SEN_REVIEWED_CSV", records, round)) = Cardinality(FetchedList)
<1> DEFINE things == Today("SEN_REVIEWED_CSV", records, round)
           L == DOMAIN Reviewed
           idOf == [x \in things |-> x.id]
           idOfRecord == [r \in FetchedList |-> r.id]
<1>1. IsFiniteSet(L)
  <2>1. IsReviewed(scene, Reviewed)
    BY SceneAssumption DEF SnapshotInv, SourcesInv, Reviewed
  <2> QED BY <2>1 DEF IsReviewed
<1>2. \A r \in records : InstitutionOf(r, round).id = r.id
  BY DEF InstitutionOf
<1>3. \A r \in RecordsOf("SEN_REVIEWED_CSV", records) : r \in records /\ OfList(r)
  BY DEF RecordsOf, FromRows, OfNeis, OfKindergartens
<1>4. \A x \in things : x.id \in L
  BY <1>2, <1>3 DEF Today, OfList
<1>5. \A id \in L : \E x \in things : x.id = id
  <2> SUFFICES ASSUME NEW id \in L PROVE \E x \in things : x.id = id
    OBVIOUS
  <2>1. PICK r \in RecordsOf("SEN_REVIEWED_CSV", records) : r.id = id
    BY DEF FromRows, RecordsOf
  <2>2. InstitutionOf(r, round) \in things
    BY DEF Today
  <2> QED BY <1>2, <1>3, <2>1, <2>2
<1>6. \A x, y \in things : x.id = y.id => x = y
  BY <1>2, <1>3 DEF Today, AreRecords
<1>7. \A r \in FetchedList : r.id \in L
  BY FetchedAreFromRows DEF OfList
<1>8. \A id \in L : \E r \in FetchedList : r.id = id
  BY FetchedAreFromRows
<1>9. IsFiniteSet(FetchedList) /\ \A q, r \in FetchedList : q.id = r.id => q = r
  BY FetchedAreRecords DEF AreRecords
<1>10. /\ DOMAIN idOf = things /\ DOMAIN idOfRecord = FetchedList
       /\ \A x \in things : idOf[x] = x.id
       /\ \A r \in FetchedList : idOfRecord[r] = r.id
  OBVIOUS
<1>11. IsFiniteSet(things)
  <2> DEFINE made == [r \in RecordsOf("SEN_REVIEWED_CSV", records) |-> InstitutionOf(r, round)]
  <2>1. IsFiniteSet(RecordsOf("SEN_REVIEWED_CSV", records))
    BY FS_Subset DEF RecordsOf, AreRecords
  <2>2. things = {made[r] : r \in RecordsOf("SEN_REVIEWED_CSV", records)}
        /\ DOMAIN made = RecordsOf("SEN_REVIEWED_CSV", records)
    BY DEF Today
  <2> HIDE DEF made, things
  <2> QED BY <2>1, <2>2, ImageIsFinite
<1> HIDE DEF things, L, idOf, idOfRecord
<1>12. Cardinality(L) = Cardinality(things)
  <2>1. /\ \A x \in things : idOf[x] \in L
        /\ \A id \in L : \E x \in things : idOf[x] = id
        /\ \A x, y \in things : idOf[x] = idOf[y] => x = y
    BY <1>4, <1>5, <1>6, <1>10
  <2> QED BY ONLY <1>10, <1>11, <2>1, BijectionCounts
<1>13. Cardinality(L) = Cardinality(FetchedList)
  <2>1. \A r \in FetchedList : idOfRecord[r] \in L
    BY <1>7, <1>10
  <2>2. \A id \in L : \E r \in FetchedList : idOfRecord[r] = id
    BY <1>8, <1>10
  <2>3. \A q, r \in FetchedList : idOfRecord[q] = idOfRecord[r] => q = r
    BY <1>9, <1>10
  <2> QED BY ONLY <1>9, <1>10, <2>1, <2>2, <2>3, BijectionCounts
<1> QED BY <1>12, <1>13 DEF things

\* The schools are not more than the rows that are taken.
LEMMA SchoolsAreFew ==
    ASSUME SnapshotInv, IsFetching, NEW records, AreRecords(records), FromRows(records)
    PROVE  Cardinality(Today("NEIS", records, round)) <= Len(sync.neis.ids)
<1> DEFINE things == Today("NEIS", records, round)
           P == DOMAIN Selected
           A == {Selected[i] : i \in P}
           rows == DOMAIN sync.neis.ids
           idOf == [x \in things |-> x.id]
<1>1. \A r \in records : InstitutionOf(r, round).id = r.id
  BY DEF InstitutionOf
<1>2. \A r \in RecordsOf("NEIS", records) : r \in records /\ OfNeis(r)
  BY DEF RecordsOf, FromRows, OfKindergartens, OfList
<1>3. \A x \in things : x.id \in A
  BY <1>1, <1>2 DEF Today, OfNeis
<1>4. \A x, y \in things : x.id = y.id => x = y
  BY <1>1, <1>2 DEF Today, AreRecords
<1>5. IsFiniteSet(P) /\ P \subseteq rows
  BY SelectedAreRows
<1>6. IsFiniteSet(A) /\ Cardinality(A) \in Nat /\ Cardinality(A) <= Cardinality(P)
  BY <1>5, ImageCounts
<1>7. IsFiniteSet(rows) /\ Cardinality(rows) = Len(sync.neis.ids) /\ Len(sync.neis.ids) \in Nat
  <2> DEFINE n == Len(sync.neis.ids)
  <2>0. sync.neis.ids \in Seq(School)
    BY DEF SnapshotInv, SyncInv, Readable
  <2>1. n \in Int /\ n \in Nat /\ 1 \in Int /\ rows = 1..n
    BY <2>0
  <2> HIDE DEF n
  <2>2. IsFiniteSet(1..n) /\ Cardinality(1..n) = IF 1 > n THEN 0 ELSE n - 1 + 1
    BY <2>1, FS_Interval
  <2>3. IsFiniteSet(1..n) /\ Cardinality(1..n) = n
    BY <2>1, <2>2
  <2> QED BY <2>1, <2>3 DEF n
<1>8. idOf \in [things -> A] /\ DOMAIN idOf = things /\ \A x \in things : idOf[x] = x.id
  BY <1>3
<1> HIDE DEF things, P, A, rows, idOf
<1>9. Cardinality(P) \in Nat /\ Cardinality(P) <= Cardinality(rows)
  BY <1>5, <1>7, FS_Subset, FS_CardinalityType
<1>10. idOf \in Injection(things, A)
  BY <1>4, <1>8 DEF Injection, IsInjective
<1>11. IsFiniteSet(things) /\ Cardinality(things) <= Cardinality(A)
  BY <1>6, <1>10, FS_Injection
<1>12. Cardinality(things) \in Nat
  BY <1>11, FS_CardinalityType
<1>13. Cardinality(things) <= Len(sync.neis.ids)
  BY <1>6, <1>7, <1>9, <1>11, <1>12
<1> QED BY <1>13 DEF things

\* Nor are they fewer by more than the rows the profile says are not taken.
LEMMA FewAreDropped ==
    ASSUME SnapshotInv, IsFetching, Counted, NEW records, AreRecords(records),
           FromRows(records), Cardinality(records) = FetchedRows
    PROVE  Len(sync.neis.ids) <= Cardinality(Today("NEIS", records, round)) + MaxDropped
<1> DEFINE things == Today("NEIS", records, round)
           P == DOMAIN Selected
           rows == DOMAIN sync.neis.ids
           dropped == {i \in rows : Kinds[sync.neis.ids[i]] = "SHARED_WORKSHOP"}
           made == [i \in P |-> CHOOSE x \in things : x.id = Selected[i]]
<1>1. /\ \A i \in P : \E x \in things : x.id = Selected[i]
      /\ \A x \in things : \E i \in P : x.id = Selected[i]
      /\ \A x, y \in things : x.id = y.id => x = y
  BY SchoolsHavePlaces
<1>2. \A i, j \in P : Selected[i] = Selected[j] => i = j
  BY RowsAreDistinct
<1>3. IsFiniteSet(P) /\ P \subseteq rows /\ P = rows \ dropped
  BY SelectedAreRows DEF Nonselectable
<1>4. IsFiniteSet(rows) /\ Cardinality(rows) = Len(sync.neis.ids)
  <2> DEFINE n == Len(sync.neis.ids)
  <2>1. n \in Nat /\ rows = 1..n
    BY DEF SnapshotInv, SyncInv, Readable
  <2> HIDE DEF n, rows
  <2>2. IsFiniteSet(1..n) /\ Cardinality(1..n) = n
    BY <2>1, FS_Interval
  <2> QED BY <2>1, <2>2 DEF n
<1>5. Cardinality(dropped) <= MaxDropped
  <2>1. CASE dropped = {}
    <3>1. Cardinality(dropped) = 0
      BY <2>1, FS_EmptySet
    <3> QED BY <3>1, DroppedAssumption
  <2>2. CASE dropped # {}
    <3>1. "SHARED_WORKSHOP" \in DOMAIN scene.profile.NEIS \cap Nonselectable
      BY <2>2 DEF Counted, Nonselectable
    <3> QED BY <3>1 DEF Counted
  <2> QED BY <2>1, <2>2
<1>6. \A i \in P : made[i] \in things /\ made[i].id = Selected[i]
  BY <1>1
<1>7. DOMAIN made = P
  OBVIOUS
<1> HIDE DEF things, made, P, rows, dropped
<1>8. \A x \in things : \E i \in P : made[i] = x
  BY <1>1, <1>6
<1>9. \A i, j \in P : made[i] = made[j] => i = j
  BY <1>2, <1>6
<1>10. Cardinality(things) = Cardinality(P)
  BY ONLY <1>3, <1>6, <1>7, <1>8, <1>9, BijectionCounts
<1>11. /\ IsFiniteSet(dropped) /\ Cardinality(dropped) \in Nat
       /\ Cardinality(P) \in Nat /\ Cardinality(rows) \in Nat
       /\ Cardinality(rows) = Cardinality(P) + Cardinality(dropped)
  <2>1. dropped \subseteq rows
    BY DEF dropped
  <2>2. IsFiniteSet(dropped) /\ rows \cap dropped = dropped
    BY <1>4, <2>1, FS_Subset
  <2>3. Cardinality(rows \ dropped) = Cardinality(rows) - Cardinality(rows \cap dropped)
    BY <1>4, <2>2, FS_Difference
  <2>4. /\ Cardinality(dropped) \in Nat /\ Cardinality(P) \in Nat
        /\ Cardinality(rows) \in Nat
    BY <1>3, <1>4, <2>2, FS_CardinalityType
  <2> QED BY <1>3, <2>2, <2>3, <2>4
<1> QED BY <1>4, <1>5, <1>10, <1>11, DroppedAssumption DEF things

LEMMA ProductionIsRechecked ==
    ASSUME SnapshotInv, IsFetching, Len(sync.neis.ids) # Sample,
           NEW c, NEW records, IsOfTheDay(c, records)
    PROVE  RecheckProduction(c)
<1> DEFINE entry(source) == c.sources[source]
<1>1. DOMAIN c.sources = Source /\ c.sources = SourceEntries(c.institutions, Fetched)
  BY DEF IsOfTheDay, Sound, Says
<1>2. \A source \in Source :
        /\ entry(source).fetched = Fetched[source].count
        /\ entry(source).normalized = Cardinality(Today(source, records, round))
  <2> SUFFICES ASSUME NEW source \in Source
               PROVE  /\ entry(source).fetched = Fetched[source].count
                      /\ entry(source).normalized = Cardinality(Today(source, records, round))
    OBVIOUS
  <2>1. {i \in OfSource(source, c.institutions) : IsCurrent(i)} = Today(source, records, round)
    BY DEF IsOfTheDay, CurrentOf
  <2>2. entry(source).fetched = Fetched[source].count
    BY <1>1 DEF SourceEntries
  <2>3. entry(source).normalized
          = Cardinality({i \in OfSource(source, c.institutions) : IsCurrent(i)})
    BY <1>1 DEF SourceEntries
  <2> HIDE DEF entry
  <2> QED BY <2>1, <2>2, <2>3
<1> HIDE DEF entry
<1>3. "NEIS" \in Source /\ "KINDERGARTEN_INFO" \in Source /\ "SEN_REVIEWED_CSV" \in Source
  BY DEF Source, Population
<1>4. entry("KINDERGARTEN_INFO").fetched = entry("KINDERGARTEN_INFO").normalized
  <2>1. Fetched["KINDERGARTEN_INFO"].count = Len(Registered)
    BY <1>3 DEF Fetched, Registered
  <2>2. Len(Registered) = scene.profile.KINDERGARTEN_INFO
    BY DEF IsOfTheDay, Counted
  <2>3. Cardinality(Today("KINDERGARTEN_INFO", records, round))
          = scene.profile.KINDERGARTEN_INFO
    BY DEF IsOfTheDay, Agrees
  <2> QED BY <1>2, <1>3, <2>1, <2>2, <2>3
<1>5. /\ entry("NEIS").fetched # Sample /\ entry("NEIS").normalized <= entry("NEIS").fetched
      /\ entry("NEIS").fetched <= entry("NEIS").normalized + MaxDropped
  <2>1. Fetched["NEIS"].count = Len(sync.neis.ids)
    BY <1>3 DEF Fetched
  <2>2. Cardinality(Today("NEIS", records, round)) <= Len(sync.neis.ids)
    BY SchoolsAreFew DEF IsOfTheDay
  <2>3. Len(sync.neis.ids) <= Cardinality(Today("NEIS", records, round)) + MaxDropped
    BY FewAreDropped DEF IsOfTheDay
  <2> QED BY <1>2, <1>3, <2>1, <2>2, <2>3
<1>6. entry("SEN_REVIEWED_CSV").fetched = entry("SEN_REVIEWED_CSV").normalized + 1
  <2>1. Fetched["SEN_REVIEWED_CSV"].count = Cardinality(Fetched["SEN_REVIEWED_CSV"].records) + 1
    BY DEF IsOfTheDay, ProvenanceIsSound
  <2>2. Fetched["SEN_REVIEWED_CSV"].records = FetchedList
    BY <1>3 DEF Fetched
  <2>3. Cardinality(Today("SEN_REVIEWED_CSV", records, round)) = Cardinality(FetchedList)
    BY ListIsCounted DEF IsOfTheDay
  <2> QED BY <1>2, <1>3, <2>1, <2>2, <2>3
<1> QED BY <1>1, <1>4, <1>5, <1>6 DEF RecheckProduction, entry

\* Only rows of NEIS are in quarantine.
LEMMA PendingIsOfTheDay ==
    ASSUME SnapshotInv, IsFetching, NEW c, NEW records, IsOfTheDay(c, records),
           NEW i \in c.institutions, IsCurrent(i), i.type = Unclassified
    PROVE  /\ i.source = "NEIS"
           /\ i.status = "REVIEW_REQUIRED"
           /\ i.statusSource = "OFFICIAL_CLASSIFICATION_PENDING"
           /\ \E r \in records : i = InstitutionOf(r, round) /\ r.type = Unclassified /\ OfNeis(r)
<1>1. PICK r \in records : i = InstitutionOf(r, round)
  BY DEF IsOfTheDay, MadeOf
<1>2. /\ i.source = r.source /\ i.type = r.type /\ i.status = SiteStatus(r.type, r.sites[Main])
      /\ i.statusSource = IF r.type = Unclassified THEN "OFFICIAL_CLASSIFICATION_PENDING"
                          ELSE r.source
  BY <1>1 DEF InstitutionOf
<1>3. ~OfKindergartens(r)
  BY <1>2 DEF OfKindergartens, Unclassified
<1>4. ~OfList(r)
  <2>1. IsReviewed(scene, Reviewed)
    BY SceneAssumption DEF SnapshotInv, SourcesInv, Reviewed
  <2> QED BY <1>2, <2>1 DEF OfList, IsReviewed
<1>5. OfNeis(r)
  BY <1>3, <1>4 DEF IsOfTheDay, FromRows
<1> QED BY <1>1, <1>2, <1>5 DEF OfNeis, SiteStatus

\* The counts of the kinds in quarantine add up to the schools in quarantine.
LEMMA QuarantineIsCounted ==
    ASSUME SnapshotInv, IsFetching, NEW counts, DOMAIN counts = Quarantined(scene.profile),
           \A k \in Quarantined(scene.profile) : counts[k] = Cardinality(
              {i \in DOMAIN sync.neis.ids : Kinds[sync.neis.ids[i]] = k}),
           Counted
    PROVE  TotalOf(counts, DOMAIN counts) = Cardinality(PlacesOfType(Unclassified))
<1> DEFINE S == PlacesOfType(Unclassified)
           key == [i \in S |-> Kinds[Selected[i]]]
           keys == Quarantined(scene.profile)
<1>1. IsFiniteSet(S)
  BY SelectedAreRows, FS_Subset DEF PlacesOfType
<1>2. \A k : k \in DOMAIN TypeOfKind => TypeOf(k) # Unclassified
  BY DEF TypeOfKind, TypeOf, Unclassified
<1>3. \A k : k \notin DOMAIN TypeOfKind => TypeOf(k) = Unclassified
  BY DEF TypeOf
<1>4. \A i \in DOMAIN Selected : Kinds[Selected[i]] \in DOMAIN scene.profile.NEIS \ Nonselectable
  BY DEF Counted
<1>5. \A i \in S : key[i] \in keys
  BY <1>2, <1>4 DEF PlacesOfType, Quarantined
<1>6. ASSUME NEW k \in keys PROVE counts[k] = Cardinality(Kept(S, key, k))
  <2>1. k \notin DOMAIN TypeOfKind /\ k \notin Nonselectable
    BY DEF Quarantined
  <2>2. Kept(S, key, k) = PlacesOfKind(k)
    BY <1>3, <2>1 DEF Kept, PlacesOfKind, PlacesOfType
  <2>3. PlacesOfKind(k) = {i \in DOMAIN sync.neis.ids : Kinds[sync.neis.ids[i]] = k}
    BY <2>1, SelectedAreRows DEF PlacesOfKind
  <2> QED BY <2>2, <2>3
<1> HIDE DEF S, key, keys
<1>7. TotalOf(counts, keys) = Cardinality(S)
  BY <1>1, <1>5, <1>6, TotalIsCount
<1> QED BY <1>7 DEF S, keys

LEMMA UnclassifiedAreRechecked ==
    ASSUME SnapshotInv, IsFetching, NEW c, NEW records, IsOfTheDay(c, records),
           \A i \in c.institutions : i.type = Unclassified => IsCurrent(i)
    PROVE  RecheckUnclassified(c)
<1> SUFFICES ASSUME NEW source \in Source
             PROVE  UnclassifiedSum(c.sources[source])
                      = Cardinality({i \in OfSource(source, c.institutions) :
                                       i.type = Unclassified})
  BY DEF RecheckUnclassified, IsOfTheDay, Sound
<1> DEFINE counts == c.sources[source].unclassified
           pending == {i \in OfSource(source, c.institutions) : i.type = Unclassified}
<1>1. UnclassifiedSum(c.sources[source]) = TotalOf(counts, DOMAIN counts)
  BY DEF UnclassifiedSum
<1>2. counts = Fetched[source].unclassified
  <2>1. c.sources = SourceEntries(c.institutions, Fetched)
    BY DEF IsOfTheDay, Says
  <2> QED BY <2>1 DEF SourceEntries
<1>3. CASE source = "NEIS"
  <2>1. pending = {x \in Today("NEIS", records, round) : x.type = Unclassified}
    <3>1. CurrentOf("NEIS", c.institutions) = Today("NEIS", records, round)
      BY DEF IsOfTheDay
    <3> QED BY <1>3, <3>1 DEF CurrentOf, OfSource
  <2>2. counts = [k \in Quarantined(scene.profile) |->
                    CountOf(sync.neis.ids, LAMBDA id : Kinds[id] = k)]
    BY <1>2, <1>3 DEF Fetched
  <2>3. /\ DOMAIN counts = Quarantined(scene.profile)
        /\ \A k \in Quarantined(scene.profile) : counts[k] = Cardinality(
             {i \in DOMAIN sync.neis.ids : Kinds[sync.neis.ids[i]] = k})
    BY <2>2 DEF CountOf
  <2> HIDE DEF counts, pending
  <2>4. TotalOf(counts, DOMAIN counts) = Cardinality(PlacesOfType(Unclassified))
    BY <2>3, QuarantineIsCounted DEF IsOfTheDay
  <2>5. Cardinality({x \in Today("NEIS", records, round) : x.type = Unclassified})
          = Cardinality(PlacesOfType(Unclassified))
    BY SchoolsOfType DEF IsOfTheDay
  <2> QED BY <1>1, <2>1, <2>4, <2>5 DEF pending
<1>4. CASE source # "NEIS"
  <2>1. counts = <<>>
    BY <1>2, <1>4, OnlyNeisCountsUnclassified
  <2>2. pending = {}
    BY <1>4, PendingIsOfTheDay DEF OfSource
  <2> HIDE DEF counts, pending
  <2>3. UNION {{key} \X (1..counts[key]) : key \in DOMAIN counts} = {}
    BY <2>1
  <2>4. TotalOf(counts, DOMAIN counts) = Cardinality({})
    BY <2>3 DEF TotalOf
  <2> QED BY <1>1, <2>2, <2>4 DEF pending
<1> QED BY <1>3, <1>4

LEMMA ReconciliationIsRechecked ==
    ASSUME SnapshotInv, IsFetching, NEW c, NEW records, IsOfTheDay(c, records)
    PROVE  RecheckReconciliation(c, scene.profile)
<1>1. /\ TypeCounts(CurrentOf("NEIS", c.institutions)) = TypesOfProfile(scene.profile)
      /\ Cardinality(CurrentOf("KINDERGARTEN_INFO", c.institutions))
           = scene.profile.KINDERGARTEN_INFO
  BY DEF IsOfTheDay, Agrees
<1>2. \A i \in OfSource("NEIS", c.institutions) : IsCurrent(i) /\ i.type = Unclassified =>
         i.status = "REVIEW_REQUIRED" /\ i.statusSource = "OFFICIAL_CLASSIFICATION_PENDING"
  BY PendingIsOfTheDay DEF OfSource
<1>3. CountsOf({i \in OfSource("NEIS", c.institutions) : IsCurrent(i)}, LAMBDA i : i.type)
        = TypesOfProfile(scene.profile)
  BY <1>1 DEF TypeCounts, CurrentOf, CountsOf
<1>4. Cardinality({i \in OfSource("KINDERGARTEN_INFO", c.institutions) : IsCurrent(i)})
        = scene.profile.KINDERGARTEN_INFO
  BY <1>1 DEF CurrentOf
<1> QED BY <1>2, <1>3, <1>4 DEF RecheckReconciliation, CountsOf

LEMMA EnrichmentsAreRechecked ==
    ASSUME NEW c, NEW records, IsOfTheDay(c, records)
    PROVE  RecheckEnrichments(c)
<1>1. PICK used : /\ c.enrichments = EnrichmentEntries(used, c.institutions, c.sites)
                  /\ UsedEnrichments(c.sites) \subseteq used
  BY DEF IsOfTheDay, Says
<1>2. /\ DOMAIN c.enrichments = used
      /\ \A quality \in used :
           c.enrichments[quality] = Matched(quality, c.institutions, c.sites)
  BY <1>1 DEF EnrichmentEntries
<1> QED BY <1>1, <1>2 DEF RecheckEnrichments

\* What was kept from before does not count for the quality.
LEMMA QualityIsRechecked ==
    ASSUME SnapshotInv, IsFetching, NEW c, NEW records, IsOfTheDay(c, records), Rooted(c),
           c.clean, \A i \in c.institutions : i.type = Unclassified => IsCurrent(i)
    PROVE  RecheckQuality(c, published)
<1> DEFINE current == {InstitutionOf(r, round) : r \in records}
<1>1. /\ AreRecords(records) /\ FromRows(records) /\ Keyed(c)
      /\ MadeOf(c, records, published, round)
  BY DEF IsOfTheDay, Sound
<1>2. /\ CoordinatesSuffice(current) /\ ActiveSuffice(current, published)
      /\ c.previous = IF published = None THEN None ELSE published.id
  BY DEF IsOfTheDay, Says
<1>3. \A r \in records : /\ InstitutionOf(r, round).id = r.id
                         /\ InstitutionOf(r, round).status = SiteStatus(r.type, r.sites[Main])
                         /\ IsCurrent(InstitutionOf(r, round))
  BY DEF InstitutionOf, IsCurrent, SiteStatus, Missing
<1>4. \A r \in records : \A s \in SitesOf(r) :
         /\ s.code \in DOMAIN r.sites
         /\ s.status = SiteStatus(r.type, r.sites[s.code])
         /\ s.coordinate = r.sites[s.code].coordinate /\ s.address = r.sites[s.code].address
  BY DEF SitesOf
<1>5. /\ \A i \in current : i \in c.institutions /\ IsCurrent(i)
      /\ \A i \in c.institutions : IsCurrent(i) => i \in current
  BY <1>1, <1>3 DEF MadeOf
<1>6. PendingSoFar(c.institutions, c.sites)
  <2>1. \A i \in c.institutions : i.type = Unclassified =>
           i.status = "REVIEW_REQUIRED" /\ i.statusSource = "OFFICIAL_CLASSIFICATION_PENDING"
    BY PendingIsOfTheDay
  <2>2. ASSUME NEW s \in c.sites, NEW i \in c.institutions,
               i.id = s.parent, i.type = Unclassified
        PROVE  s.status = "REVIEW_REQUIRED"
    <3>1. PICK r \in records :
             i = InstitutionOf(r, round) /\ r.type = Unclassified /\ OfNeis(r)
      BY <2>2, PendingIsOfTheDay
    <3>2. s.parent = r.id
      BY <1>3, <2>2, <3>1
    <3>3. r.id \in DOMAIN scene.rows /\ DOMAIN r.sites = {Main}
      BY <3>1, SelectedAreRows DEF OfNeis, School, SchoolRows
    <3>4. s.code = Main
      BY <3>2, <3>3 DEF Rooted
    <3>5. PICK t \in SitesOf(r) : t \in c.sites /\ t.parent = r.id /\ t.code = Main
      <4>1. Main \in DOMAIN r.sites
        BY <3>3
      <4> QED BY <1>1, <4>1, SitesOfRecord
    <3>6. s = t
      BY <1>1, <3>2, <3>4, <3>5 DEF Keyed
    <3> QED BY <1>4, <3>1, <3>5, <3>6 DEF SiteStatus
  <2> QED BY <2>1, <2>2 DEF PendingSoFar
<1>7. ASSUME NEW s \in c.sites, s.status = "ACTIVE"
      PROVE  s.coordinate = "SEOUL" /\ s.address.seoul
  <2>1. PICK r \in records : s \in SitesOf(r)
    BY <1>1, <1>7 DEF MadeOf, Missing
  <2> QED BY <1>4, <1>7, <2>1 DEF SiteStatus
<1>8. ASSUME NEW i \in c.institutions, IsCurrent(i)
      PROVE  \E s \in c.sites : /\ s.parent = i.id /\ s.code = Main
                                /\ i.status = "ACTIVE" => s.status = "ACTIVE"
  <2>1. PICK r \in records : i = InstitutionOf(r, round)
    BY <1>1, <1>8 DEF MadeOf
  <2>2. Main \in DOMAIN r.sites
    BY <1>1, RowsHaveOneSite
  <2>3. PICK s \in SitesOf(r) : s \in c.sites /\ s.parent = r.id /\ s.code = Main
    BY <1>1, <2>2, SitesOfRecord
  <2> QED BY <1>3, <1>4, <2>1, <2>3
<1>9. Selectable(c.institutions) = Selectable(current)
  BY <1>5 DEF Selectable
<1>10. Active(c.institutions) = Active(current)
  BY <1>5 DEF Active, IsCurrent, Missing
<1> HIDE DEF current
<1>11. CoordinatesSuffice(c.institutions) /\ ActiveSuffice(c.institutions, published)
  BY <1>2, <1>9, <1>10 DEF CoordinatesSuffice, ActiveSuffice
<1> QED BY <1>2, <1>6, <1>7, <1>8, <1>11 DEF RecheckQuality

\* What a sync takes NEIS to have is not the sample.
TotalInv == IsFetching => sync.neis.total = 0 \/ sync.neis.total # Sample

CleanInv ==
    /\ candidate # None
    /\ candidate.clean
    /\ \A i \in candidate.institutions : i.type = Unclassified => IsCurrent(i)
    => Accepts(candidate, published, scene.profile)

ServableInv == SnapshotInv /\ RootedInv /\ TotalInv /\ CleanInv

LEMMA CleanIsAccepted ==
    ASSUME SnapshotInv, IsFetching, Len(sync.neis.ids) # Sample,
           NEW c, NEW records, IsOfTheDay(c, records), Rooted(c),
           c.clean, \A i \in c.institutions : i.type = Unclassified => IsCurrent(i)
    PROVE  Accepts(c, published, scene.profile)
<1>1. RecheckRecords(c)
  BY DEF RecheckRecords, IsOfTheDay, Says, Rooted
<1>2. RecheckSources(c) /\ RecheckEnrichments(c)
  BY SourcesAreRechecked, EnrichmentsAreRechecked
<1>3. RecheckProduction(c)
  BY ProductionIsRechecked
<1>4. RecheckUnclassified(c)
  BY UnclassifiedAreRechecked
<1>5. RecheckReconciliation(c, scene.profile)
  BY ReconciliationIsRechecked
<1>6. RecheckQuality(c, published)
  BY QualityIsRechecked
<1> QED BY <1>1, <1>2, <1>3, <1>4, <1>5, <1>6 DEF Accepts

LEMMA ServableStarts == Init => ServableInv
<1> SUFFICES ASSUME Init PROVE ServableInv
  OBVIOUS
<1>1. candidate = None /\ published = None /\ ~IsFetching
  BY DEF Init, NoSync, IsFetching
<1> QED BY <1>1, SnapshotsStart DEF ServableInv, RootedInv, TotalInv, CleanInv

LEMMA TotalSteps ==
    ASSUME SnapshotInv, TotalInv, [Next]_vars
    PROVE  TotalInv'
<1>1. ASSUME sync' = sync PROVE TotalInv'
  BY <1>1 DEF TotalInv, IsFetching
<1>2. ASSUME sync' = NoSync PROVE TotalInv'
  BY <1>2 DEF TotalInv, IsFetching, NoSync
<1>3. CASE StartSync
  BY <1>3 DEF StartSync, TotalInv, NothingRead
<1>4. CASE ReadNeis
  <2> DEFINE page == PageOf(neis, NextPageNumber(sync.neis))
             on == NeisReadOn(sync.neis, Len(neis), page)
  <2>1. /\ IsFetching /\ DOMAIN sync = {"stage", "neis", "kindergartens"}
        /\ Readable(sync.neis, School)
    BY <1>4 DEF ReadNeis, SnapshotInv, SyncInv
  <2>2. \/ sync' = NoSync
        \/ /\ sync' = [sync EXCEPT !.neis = on]
           /\ NeisPageIsSound(sync.neis, Len(neis), page, Kinds, scene.profile)
    BY <1>4 DEF ReadNeis
  <2>3. on.total = Len(neis)
    BY <2>1 DEF NeisReadOn, Readable
  <2> HIDE DEF page, on
  <2>4. CASE /\ sync' = [sync EXCEPT !.neis = on]
             /\ NeisPageIsSound(sync.neis, Len(neis), page, Kinds, scene.profile)
    <3>1. sync'.neis = on
      BY <2>1, <2>4
    <3>2. Len(neis) = 0 \/ Len(neis) # Sample
      BY <2>1, <2>4 DEF NeisPageIsSound, TotalInv
    <3> QED BY <2>3, <3>1, <3>2 DEF TotalInv
  <2> QED BY <1>2, <2>2, <2>4
<1>5. CASE ReadKindergartens
  <2>1. /\ IsFetching /\ DOMAIN sync = {"stage", "neis", "kindergartens"}
    BY <1>5 DEF ReadKindergartens, SnapshotInv, SyncInv
  <2>2. sync' = NoSync \/ \E on : sync' = [sync EXCEPT !.kindergartens = on]
    BY <1>5 DEF ReadKindergartens
  <2>3. ASSUME NEW on, sync' = [sync EXCEPT !.kindergartens = on] PROVE TotalInv'
    <3>1. sync'.neis = sync.neis
      BY <2>1, <2>3
    <3> QED BY <2>1, <3>1 DEF TotalInv
  <2> QED BY <1>2, <2>2, <2>3
<1>6. CASE FailRequest \/ Build
  BY <1>2, <1>6 DEF FailRequest, Build
<1>7. CASE CloseSchool \/ OpenSchool \/ CloseKindergarten \/ OpenKindergarten \/ ReleaseList
  BY <1>1, <1>7 DEF CloseSchool, OpenSchool, CloseKindergarten, OpenKindergarten, ReleaseList,
                    Change
<1>8. CASE Promote \/ Restart \/ Search \/ NextPage \/ UNCHANGED vars
  BY <1>1, <1>8 DEF Promote, Restart, Search, NextPage, vars
<1> QED BY <1>3, <1>4, <1>5, <1>6, <1>7, <1>8 DEF Next

LEMMA ServableSteps ==
    ASSUME ServableInv, [Next]_vars
    PROVE  ServableInv'
<1>1. SnapshotInv' /\ TotalInv'
  BY SnapshotSteps, TotalSteps DEF ServableInv
<1>2. RootedInv' /\ CleanInv'
  <2>1. ASSUME UNCHANGED <<scene, candidate, published>> PROVE RootedInv' /\ CleanInv'
    BY <2>1 DEF ServableInv, RootedInv, Rooted, CleanInv
  <2>2. CASE Build
    <3>1. UNCHANGED <<scene, published>> /\ IsFetching /\ NeisIsRead(sync.neis)
      BY <2>2 DEF Build, SyncStep
    <3>2. CASE candidate' = candidate
      BY <2>1, <3>1, <3>2
    <3>3. ASSUME NEW answers, Built(Placed(answers)) PROVE RootedInv' /\ CleanInv'
      <4> DEFINE records == Placed(answers)
                 c == candidate'
      <4>1. SnapshotInv /\ (published = None \/ Rooted(published))
        BY DEF ServableInv, RootedInv
      <4>2. IsOfTheDay(c, records)
        BY <3>1, <3>3, <4>1, BuiltIsOfTheDay
      <4>3. c # None /\ published # None => Keeps(published, c)
        BY <1>1, <3>1 DEF SnapshotInv, SnapshotsInv
      <4>4. c # None => Rooted(c)
        BY <3>1, <4>1, <4>2, <4>3, OfTheDayIsRooted
      <4>5. Len(sync.neis.ids) # Sample
        BY <3>1 DEF ServableInv, TotalInv, NeisIsRead
      <4>6. /\ c # None
            /\ c.clean
            /\ \A i \in c.institutions : i.type = Unclassified => IsCurrent(i)
            => Accepts(c, published, scene.profile)
        BY <3>1, <4>1, <4>2, <4>4, <4>5, CleanIsAccepted
      <4> HIDE DEF records
      <4>7. RootedInv'
        BY <3>1, <4>1, <4>4 DEF RootedInv, Rooted
      <4>8. CleanInv'
        BY <3>1, <4>6 DEF CleanInv
      <4> QED BY <4>7, <4>8
    <3> QED BY <2>2, <3>2, <3>3, BuildBuilds
  <2>3. CASE Promote
    <3>1. scene' = scene /\ candidate' = None /\ candidate # None /\ published' = candidate
      BY <2>3 DEF Promote
    <3> QED BY <3>1 DEF ServableInv, RootedInv, Rooted, CleanInv
  <2>4. CASE ~Build /\ ~Promote
    <3>1. UNCHANGED <<scene, candidate, published>>
      BY <2>4 DEF Next, vars, CloseSchool, OpenSchool, CloseKindergarten, OpenKindergarten,
                  ReleaseList, Change, StartSync, ReadNeis, ReadKindergartens, FailRequest,
                  SyncStep, Restart, Search, NextPage
    <3> QED BY <2>1, <3>1
  <2> QED BY <2>2, <2>3, <2>4
<1> QED BY <1>1, <1>2 DEF ServableInv

(***************************************************************************)
(* The three judges agree.  What the build calls clean the promotion       *)
(* accepts, unless a school in quarantine went missing: every check of the *)
(* promotion comes out as the build left it, what was kept from before     *)
(* and marked as missing included; and what is accepted the web service    *)
(* can serve (sync.py:946-1180, 2842-2931, snapshot.py:417-766).           *)
(***************************************************************************)
THEOREM CleanCanBeServed == Spec => []CleanCandidatesAreServable
<1>1. ServableInv /\ AcceptedIsServable => CleanCandidatesAreServable
  BY DEF ServableInv, CleanInv, CleanCandidatesAreServable
<1>2. ServableInv /\ [Next]_vars => ServableInv'
  BY ServableSteps
<1> QED BY <1>1, <1>2, ServableStarts, AcceptedCanBeServed, PTL DEF Spec
=============================================================================
