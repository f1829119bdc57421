------------------------- MODULE MCInstitutionSync -------------------------
(***************************************************************************)
(* Small instances for TLC: what the sources of institutions hold, how     *)
(* they may change while and between they are read, and what visitors ask. *)
(***************************************************************************)
EXTENDS InstitutionSync

MCCoordinatePercent == 60
MCActivePercent == 50
MCOffice == {"SEOUL", "GANGNAM", "JUNGBU"}
MCSupportOffice == {"GANGNAM", "JUNGBU"}
Quarantine == "NEW_KIND"

-----------------------------------------------------------------------------
(* Rows *)

At(text) == [text |-> text, seoul |-> TRUE, tidy |-> TRUE]
Office1 == [of |-> "GANGNAM", written |-> "WITH_CITY"]
Office2 == [of |-> "SEOUL", written |-> "VALUE"]

School(name, kind, district) ==
    [name |-> name, kind |-> kind, foundation |-> "PUBLIC", office |-> Office1,
     address |-> At(name), district |-> district]
Kindergarten(name, district, coordinate) ==
    [name |-> name, kind |-> None, foundation |-> "PRIVATE", office |-> Office1,
     address |-> At(name), district |-> district, coordinate |-> coordinate]
Agency(name, branches) ==
    [name |-> name, kind |-> "LIBRARY", foundation |-> "PUBLIC", office |-> Office2,
     address |-> At(name), district |-> "JUNG", coordinate |-> "SEOUL",
     branches |-> [code \in branches |->
                     [address |-> At(code), district |-> "GANGSEO", coordinate |-> "SEOUL"]]]

\* Two schools bear one name, and the order of names is not that of ids.
Rows ==
    1 :> School(9, "PRIMARY", "JUNG") @@ 2 :> School(4, "PRIMARY", "JUNG")
      @@ 3 :> School(4, "HIGH", "GANGSEO") @@ 4 :> School(2, "PRIMARY", "JUNG")
      @@ 5 :> School(5, Quarantine, "JUNG") @@ 6 :> School(6, Quarantine, "JUNG")
      @@ 7 :> School(7, "SHARED_WORKSHOP", "JUNG")
      @@ 11 :> Kindergarten(3, "JUNG", "SEOUL") @@ 12 :> Kindergarten(8, "JUNG", "SEOUL")
      @@ 13 :> Kindergarten(1, "GANGSEO", "SEOUL") @@ 14 :> Kindergarten(10, "JUNG", None)
AnyList == [id \in {21} |-> Agency(4, {2})]

\* The standard location of a school as it should be.
LocationOf(id) ==
    [id |-> id, name |-> Rows[id].name, type |-> TypeOfKind[Rows[id].kind],
     foundation |-> "PUBLIC", text |-> Rows[id].address.text, coordinate |-> "SEOUL"]

AnyFilter == [type |-> None, foundation |-> None, office |-> None, district |-> None]
Ask(query, filter, limit) == [query |-> query, filter |-> filter, limit |-> limit]

\* A profile of two primary schools, one in quarantine, and one kindergarten.
Quiet ==
    [rows |-> Rows, neis |-> <<1, 2, 5>>, kindergartens |-> <<<<11>>>>, lists |-> <<AnyList>>,
     leaving |-> {}, schools |-> {}, others |-> {}, locations |-> {LocationOf(id) : id \in 1..4},
     answers |-> {"SEOUL"},
     profile |-> [NEIS |-> "PRIMARY" :> 2 @@ Quarantine :> 1, KINDERGARTEN_INFO |-> 1],
     changes |-> 0, faults |-> 0, rounds |-> 1, asks |-> {}]

-----------------------------------------------------------------------------
(* Scenes *)

\* A school closes and another opens between two pages of NEIS.
SchoolsChange ==
    {[Quiet EXCEPT !.neis = <<7, 1, 2, 5>>, !.leaving = {1, 2, 5}, !.schools = {4, 6}, !.changes = 3,
                   !.faults = 1, !.profile.NEIS = @ @@ "SHARED_WORKSHOP" :> 1],
     [Quiet EXCEPT !.neis = <<5, 2, 7>>, !.leaving = {5}, !.schools = {6, 3}, !.changes = 2,
                   !.profile.NEIS = "PRIMARY" :> 1 @@ Quarantine :> 1 @@ "SHARED_WORKSHOP" :> 1]}
\* A kindergarten does.
KindergartensChange ==
    {[Quiet EXCEPT !.neis = <<1>>, !.kindergartens = <<<<11, 12>>, <<13>>>>, !.leaving = {11, 13},
                   !.others = {14}, !.changes = 2,
                   !.profile = [NEIS |-> "PRIMARY" :> 1, KINDERGARTEN_INFO |-> 3]]}
\* From sync to sync institutions leave and come back, branches move.
Lists ==
    <<[id \in {21, 22} |-> Agency(id, IF id = 21 THEN {2} ELSE {})],
      [id \in {21, 22} |-> Agency(id, IF id = 22 THEN {2} ELSE {})],
      [id \in {21} |-> Agency(id, {2})]>>
SyncAfterSync ==
    {[Quiet EXCEPT !.neis = <<1>>, !.leaving = {1, 4}, !.schools = {1, 4}, !.changes = 4,
                   !.rounds = 3, !.profile.NEIS = "PRIMARY" :> 1],
     [Quiet EXCEPT !.neis = <<5>>, !.leaving = {5}, !.schools = {6}, !.changes = 2, !.rounds = 2,
                   !.profile.NEIS = Quarantine :> 1],
     [Quiet EXCEPT !.neis = <<1>>, !.leaving = {1}, !.schools = {4}, !.lists = Lists,
                   !.changes = 4, !.rounds = 3, !.profile.NEIS = "PRIMARY" :> 1]}
\* Kakao is asked, about a tidy address and an untidy one.
SchoolsAreGeocoded ==
    {[Quiet EXCEPT !.neis = <<1>>, !.kindergartens = <<<<14>>>>, !.locations = {},
                   !.answers = {"SEOUL", "OUTSIDE", None}, !.rounds = 2,
                   !.rows[1].address.tidy = tidy, !.rows[1].address.seoul = seoul,
                   !.profile.NEIS = "PRIMARY" :> 1]
       : tidy, seoul \in BOOLEAN}
    \cup
    {[Quiet EXCEPT !.neis = <<1>>, !.leaving = {1}, !.schools = {4}, !.locations = {LocationOf(4)},
                   !.answers = {"SEOUL", "OUTSIDE"}, !.changes = 2, !.rounds = 3,
                   !.profile.NEIS = "PRIMARY" :> 1]}
\* Standard locations that name another school, or two for one.
LocationsConflict ==
    {[Quiet EXCEPT !.neis = <<1, 3>>, !.locations = locations,
                   !.profile.NEIS = "PRIMARY" :> 1 @@ "HIGH" :> 1]
       : locations \in {{LocationOf(1), [LocationOf(3) EXCEPT !.id = 99]},
                        {[LocationOf(1) EXCEPT !.name = 4]},
                        {[LocationOf(3) EXCEPT !.id = 98], [LocationOf(3) EXCEPT !.id = 99]}}}
\* An office is set up that the service does not know yet.
OfficesChange == {[Quiet EXCEPT !.rows[1].office = [of |-> "NEW", written |-> "VALUE"]]}
\* Visitors page while the service is started with another snapshot.
VisitorsSearch ==
    {[Quiet EXCEPT !.neis = <<1, 2, 3>>, !.kindergartens = <<<<11, 13>>>>, !.lists = <<AnyList, Lists[1]>>,
                   !.changes = 1, !.rounds = 2,
                   !.profile = [NEIS |-> "PRIMARY" :> 2 @@ "HIGH" :> 1, KINDERGARTEN_INFO |-> 2],
                   !.asks = {Ask(Blank, AnyFilter, 2), Ask("Q", AnyFilter, 2),
                             Ask(Blank, [AnyFilter EXCEPT !.type = "KINDERGARTEN"], 1),
                             Ask(Blank, [AnyFilter EXCEPT !.district = "JUNG"], 3),
                             Ask(Blank, [AnyFilter EXCEPT !.office = Office1], 4),
                             Ask(Blank, [AnyFilter EXCEPT !.office =
                                           [of |-> "SEOUL", written |-> "WITH_CITY"]], 1),
                             Ask("Q", [AnyFilter EXCEPT !.foundation = "PUBLIC"], 1)}]}

\* The letters of "Q" are in the names of some.
MCRanks ==
    "Q" :> (<<2, Main>> :> 1 @@ <<3, Main>> :> 1 @@ <<1, Main>> :> 2 @@ <<21, 2>> :> 1
              @@ <<4, Main>> :> 0 @@ <<13, Main>> :> 2)

MCScenes ==
    SchoolsChange \cup KindergartensChange \cup SyncAfterSync \cup SchoolsAreGeocoded
      \cup LocationsConflict \cup OfficesChange \cup VisitorsSearch
=============================================================================
