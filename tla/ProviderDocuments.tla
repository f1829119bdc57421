-------------------------- MODULE ProviderDocuments --------------------------
(***************************************************************************)
(* What each provider makes of the document it is sent: routes, or the     *)
(* code of the warning it gives instead of them.                           *)
(*                                                                         *)
(* A document is its status with a sequence of raw routes, each with its   *)
(* duration, distance and price (fare or toll), its geometry as in         *)
(* RoutePlanning, and whether it keeps to the documented schema.           *)
(***************************************************************************)
EXTENDS Integers, Sequences, SequencesExt, RoutePlanning

CONSTANT MaxRoutes      \* the most routes a provider takes from one document

ASSUME MaxRoutesAssumption == MaxRoutes \in 1..MostRoutes

WalkModes == 3          \* requests a walking query makes: broad, short, accessible

Parsed(routes) == [failure |-> "none", routes |-> routes]
Failure(code) == [failure |-> code, routes |-> <<>>]

\* Durations and distances of a route that keeps to the schema are natural numbers.
IsDocument(document) ==
    /\ DOMAIN document.routes = 1..Len(document.routes) /\ Len(document.routes) \in Nat
    /\ \A i \in DOMAIN document.routes :
          document.routes[i].sound =>
              /\ document.routes[i].duration \in Nat /\ document.routes[i].distance \in Nat
              /\ document.routes[i].line \in Int /\ document.routes[i].ends \in Nat

WellFormed(document) == \A i \in DOMAIN document.routes : document.routes[i].sound

\* The checks every parser makes of its route list, in their order.
Checked(document, routes) ==
    CASE Len(document.routes) > MaxRoutes -> Failure("RESPONSE_LIMIT_EXCEEDED")
      [] Len(document.routes) <= MaxRoutes /\ ~WellFormed(document) -> Failure("SCHEMA_MISMATCH")
      [] OTHER -> Parsed(routes)

RouteFrom(source, mode, raw, number, cost) ==
    [source |-> source, number |-> number, mode |-> mode, duration |-> raw.duration,
     distance |-> raw.distance, cost |-> cost, line |-> raw.line, ends |-> raw.ends]

\* The public service gives no line: its routes run straight from end to end,
\* and no fare.
StraightLine == 9
ParseSeoulTransit(document) ==
    IF document.status # "OK" THEN Failure("UPSTREAM_REJECTED")
    ELSE Checked(document,
            [i \in DOMAIN document.routes |->
                [RouteFrom("SEOUL_TRANSIT", "TRANSIT", document.routes[i], i, UnknownCost)
                    EXCEPT !.line = StraightLine, !.ends = 0]])

\* A range of fares is no fare; an empty answer is a warning of its own.
ParseKakaoTransit(document) ==
    CASE \/ document.status = "NO_RESULTS"
         \/ document.status = "OK" /\ document.routes = <<>> -> Failure("NO_RESULTS")
      [] document.status \notin {"OK", "NO_RESULTS"} -> Failure("SCHEMA_MISMATCH")
      [] OTHER -> Checked(document,
            [i \in DOMAIN document.routes |->
                RouteFrom("KAKAO_TRANSIT", "TRANSIT", document.routes[i], i,
                          document.routes[i].price)])

\* One of the walking requests: a route, none, or a failure of the whole query.
ParseWalk(document, exchange) ==
    CASE document.status = "NO_RESULTS" -> Parsed(<<>>)
      [] \/ document.status \notin {"OK", "NO_RESULTS"}
         \/ document.status = "OK" /\ (document.routes = <<>> \/ ~WellFormed(document)) ->
            Failure("SCHEMA_MISMATCH")
      [] OTHER -> Parsed(<<RouteFrom("KAKAO_WALK", "WALK", document.routes[1], exchange, 0)>>)

\* The cost of a car route is worked out later; until then it is its toll.
ParseCar(document) ==
    IF document.status # "OK" THEN Failure("SCHEMA_MISMATCH")
    ELSE Checked(document,
            [i \in DOMAIN document.routes |->
                RouteFrom("KAKAO_CAR", "CAR", document.routes[i], i, document.routes[i].price)])

\* One price list has all three fuels, each exactly once, or it is refused.
ParsePrices(document) ==
    IF document.status = "OK" /\ WellFormed(document) THEN "none" ELSE "SCHEMA_MISMATCH"

\* Rounded to the nearest whole amount, a tie to the even one.
Rounded(numerator, denominator) ==
    LET q == numerator \div denominator
        twice == 2 * (numerator % denominator)
    IN  IF twice > denominator \/ (twice = denominator /\ q % 2 = 1) THEN q + 1 ELSE q

\* Fuel for the distance, toll and parking; unknown without a fuel price.
EstimateCarCost(route, price, car) ==
    [route EXCEPT !.cost =
        IF price = UnknownCost THEN UnknownCost
        ELSE Rounded(route.distance * price, 1000 * car.efficiency) + @ + car.parking]

=============================================================================
