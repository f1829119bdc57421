---------------------------- MODULE MCTripPreview ----------------------------
(***************************************************************************)
(* TLC instance of TripPreview: the rules of the repository, and one group *)
(* of scenes for each thing that may go wrong.                             *)
(***************************************************************************)
EXTENDS TripPreview

Minute == 60
Hour == 3600
Day == 86400

MCRules == {[effectiveFrom |-> day, localRoundTripExclusive |-> 12000,
             actualExpenseInclusive |-> 2000, fourHours |-> 240, underFourHours |-> 10000,
             fourHoursOrMore |-> full, officialVehicleDeduction |-> 10000]
              : <<day, full>> \in {<<2, 20000>>, <<3, 24000>>}}

Car(parking) == [fuel |-> "GASOLINE", efficiency |-> 10, parking |-> parking]

\* A visit within Seoul, there and in the afternoon.
Visit == [client |-> "c1", site |-> 100, place |-> 500, fromSeoul |-> 0, known |-> TRUE,
          pattern |-> "OUTBOUND_ONLY_END_AFTER_SCHEDULE", startsAt |-> 2 * Day + 5 * Hour,
          endsAt |-> 2 * Day + 8 * Hour, car |-> Car(0), vehicle |-> "NONE",
          otherTrips |-> FALSE, previous |-> 0]
RoundTrip == [Visit EXCEPT !.pattern = "ROUND_TRIP"]
FarRoundTrip == [RoundTrip EXCEPT !.fromSeoul = 12001]

Asked(first, second, third) ==
    [r \in Request |-> CASE r = "r1" -> first [] r = "r2" -> second [] r = "r3" -> third]
Only(ask) == Asked(ask, NotAsked, NotAsked)
Both(first, second) == Asked(first, second, NotAsked)

Raw(duration, distance, price, ends, line) ==
    [duration |-> duration, distance |-> distance, price |-> price, ends |-> ends,
     line |-> line, sound |-> TRUE]
Document(status, routes) ==
    [status |-> status, routes |-> routes, price |-> 1700]
NothingFound == Document("NO_RESULTS", <<>>)
Malformed == Document("OK", <<[Raw(0, 0, 0, 0, 0) EXCEPT !.sound = FALSE]>>)

Drive == Document("OK", <<Raw(600, 9000, 0, 0, 0)>>)
Walk == Document("OK", <<Raw(900, 1500, 0, 0, 0)>>)
Bus == Document("OK", <<Raw(700, 5000, 1500, 0, 0)>>)

Replies(seoul, transit, car, walk, measured, prices) ==
    [p \in ToSet(Registry) \cup {"OPINET", Classify_} |->
        CASE p = "SEOUL_TRANSIT" -> seoul [] p = "KAKAO_TRANSIT" -> transit
          [] p = "KAKAO_CAR" -> car [] p = "KAKAO_WALK" -> walk
          [] p = Classify_ -> measured [] p = "OPINET" -> prices]
OneEach == Replies({Bus}, {Bus}, {Drive}, {Walk}, {Drive}, {Document("OK", <<>>)})

NoChains == [m \in Mode |-> <<>>]
AllChains == [m \in Mode |-> CASE m = "TRANSIT" -> <<"SEOUL_TRANSIT", "KAKAO_TRANSIT">>
                               [] m = "CAR" -> <<"KAKAO_CAR">>
                               [] m = "WALK" -> <<"KAKAO_WALK">>]
ChainsFor(modes) == [m \in Mode |-> IF m \in modes THEN AllChains[m] ELSE <<>>]

Scene(asks, chain, replies, keyless, faultBudget, horizon) ==
    [asks |-> asks, chain |-> chain, replies |-> replies, keyless |-> keyless,
     faults |-> faultBudget, horizon |-> horizon]

\* Many requests, quickly answered: the limiter.
Crowds == {Scene(Asked(FarRoundTrip, [FarRoundTrip EXCEPT !.known = FALSE],
                       [FarRoundTrip EXCEPT !.client = third]), NoChains, OneEach, {}, 0, 3)
            : third \in {"c1", "c2"}}

\* The same walk asked for twice, two millionths of a degree apart.
Walkers == {Scene(Both(Visit, [Visit EXCEPT !.place = 502]), ChainsFor({"WALK"}),
                  OneEach, {"KAKAO_CAR"}, 1, 3)}

\* The same drive asked for twice, with and without parking.
Drivers == {Scene(Both(Visit, [Visit EXCEPT !.car = Car(3000), !.client = "c2"]),
                  ChainsFor({"CAR"}), OneEach, {}, 1, 2)}

\* Up to three public and three Kakao routes, alike in every way they can be.
Bus3 == {Raw(d, 5000, 1500, 0, 0) : d \in {100, 102, 104}}
Lists(shapes) == {Document("OK", list) : list \in UNION {[1..k -> shapes] : k \in 1..3}}
Riders == {Scene(Only(Visit), ChainsFor({"TRANSIT"}),
                 [OneEach EXCEPT !["SEOUL_TRANSIT"] = Lists(Bus3),
                                 !["KAKAO_TRANSIT"] = Lists(Bus3 \cup {Raw(100, 5000, 1500, 30, 0)})], {"KAKAO_CAR"}, 0, 0)}

\* Everything at once, with calls that fail or answer with nothing.
Everyone == {Scene(Only(Visit), AllChains,
                   [OneEach EXCEPT !["SEOUL_TRANSIT"] = {Bus, Malformed, NothingFound},
                                   !["KAKAO_TRANSIT"] =
                                       {Bus, NothingFound, Document("OK", Bus.routes \o Bus.routes
                                                                   \o Bus.routes \o Bus.routes)}],
                   {}, 1, 0)}

\* There and back by car, several routes of which some hide others, with the
\* price service in every condition; and without any key.
DriveShapes == <<Raw(600, 9000, 0, 0, 0), Raw(606, 9100, 900, 0, 1), Raw(612, 9200, 500, 0, 2)>>
Returns == {Scene(Only([RoundTrip EXCEPT !.car = Car(3000)]), ChainsFor({"CAR"}),
                  [OneEach EXCEPT !["KAKAO_CAR"] = {Document("OK", DriveShapes), Document("OK", <<>>)},
                                  !["OPINET"] = {Document("OK", <<>>), Malformed},
                                  ![Classify_] = {Drive, Document("OK", <<>>)}],
                  keyless, 1, 0) : keyless \in {{}, {"OPINET"}, ToSet(Registry) \cup {"OPINET"}}}

\* Distances around every limit of the rules, for trips of every kind: the
\* first days have no rule, and rules change on the third.
MeasuredDistances == {Document("OK", <<Raw(600, d, 0, 0, 0)>>) :
                    d \in {1000, 2000, 2001, 6000, 11999, 12000}}
PolicyAsks ==
    {[Visit EXCEPT !.fromSeoul = metres, !.pattern = pattern, !.vehicle = vehicle,
                   !.otherTrips = previous > 0, !.previous = previous,
                   !.startsAt = start, !.endsAt = start + hours * Hour]
      : metres \in {0, 12000, 12001}, pattern \in {"ROUND_TRIP", "OUTBOUND_ONLY_END_AFTER_SCHEDULE",
                                                  "RETURN_ONLY_DIRECT_TO_DESTINATION"},
        vehicle \in {"NONE", "OFFICIAL_OR_RENTED", "ASSIGNED_OFFICIAL"},
        previous \in {0, 15000}, start \in {2 * Day - 10 * Hour, 2 * Day + 14 * Hour,
                                            2 * Day + 15 * Hour}, hours \in {3, 4}}
Policies == {Scene(Only(ask), NoChains, [OneEach EXCEPT ![Classify_] = MeasuredDistances], {}, 0, 0)
              : ask \in PolicyAsks}

MCScenes == UNION {Crowds, Walkers, Drivers, Riders, Everyone, Returns, Policies}

=============================================================================
