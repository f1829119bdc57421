----------------------------- MODULE TripPreview -----------------------------
(***************************************************************************)
(* POST /trips/preview in one process: requests are let in by the rate     *)
(* limiter, the legs of a trip ask the routes of every mode at the same    *)
(* time, each mode tries its providers one after the other under a common  *)
(* limit of concurrent calls, results are cached for all requests, and the *)
(* travel rules are applied to the driving distance.                       *)
(*                                                                         *)
(* The event loop runs one task at a time until it waits, so an action is  *)
(* what a task does from one wait to the next.  "server" has the state the *)
(* tasks share.  A scene fixes the world of a behaviour: what is asked,    *)
(* which providers there are and what they may answer, and how many calls  *)
(* go wrong in transport.                                                  *)
(***************************************************************************)
EXTENDS ProviderDocuments, TtlLruCache, RateLimiter, TravelPolicy

CONSTANTS
    Request,            \* the requests of a behaviour
    NotAsked,           \* stands for the input of a request that never comes
    Scenes,             \* the worlds considered
    Rules,              \* the rule sets in force
    Permits,            \* provider calls the orchestrator makes at a time
    MaxAttempts,        \* attempts of one HTTP exchange
    ShortTtl, LongTtl,  \* lives of cached car and transit, and walking, results
    FuelTtl             \* life of a fuel price list

\* What the contract of the request lets in, with the conditions the rules are
\* asked under; instants are seconds, positions millionths of a degree.
ValidAsk(ask) ==
    /\ ask.site \in Int /\ ask.place \in Int /\ ask.fromSeoul \in Nat
    /\ ask.pattern \in {"ROUND_TRIP", "OUTBOUND_ONLY_END_AFTER_SCHEDULE",
                        "RETURN_ONLY_DIRECT_TO_DESTINATION"}
    /\ ask.startsAt \in Int /\ ask.endsAt \in Int /\ ask.startsAt < ask.endsAt
    /\ ask.car \in [fuel : STRING, efficiency : Nat \ {0}, parking : Nat]
    /\ ask.vehicle \in VehicleUses /\ ask.otherTrips \in BOOLEAN /\ ask.previous \in Nat

ASSUME PreviewAssumption ==
    /\ Permits \in Nat \ {0} /\ MaxAttempts \in Nat \ {0}
    /\ ShortTtl \in Nat \ {0} /\ LongTtl \in Nat \ {0} /\ FuelTtl \in Nat \ {0}
    /\ ValidRepository(Rules)

VARIABLES
    scene,      \* the world of this behaviour; never changes
    clock,      \* monotonic time
    faults,     \* calls that may still go wrong
    request,    \* request r: new, refused, unknown, working, answered or failed
    visit,      \* when request r came and whether the limiter let it in
    counts,     \* the buckets of the rate limiter
    server      \* task, queue and permits of the semaphore, cache, fuel prices

vars == <<scene, clock, faults, request, visit, counts, server>>

Mode == {"TRANSIT", "CAR", "WALK"}
Classify_ == "CLASSIFY"     \* the task that measures the driving distance

\* The providers that are built for a mode.
ProvidersOf(mode) ==
    CASE mode = "TRANSIT" -> {"SEOUL_TRANSIT", "KAKAO_TRANSIT"}
      [] mode = "CAR" -> {"KAKAO_CAR"}
      [] mode = "WALK" -> {"KAKAO_WALK"}

\* A scene asks what can be asked, of providers there are, and they answer
\* with documents.
ASSUME SceneAssumption ==
    \A s \in Scenes :
        /\ \A r \in Request : s.asks[r] = NotAsked \/ ValidAsk(s.asks[r])
        /\ \A m \in Mode : s.chain[m] \in Seq(ProvidersOf(m))
        /\ \A p \in ToSet(Registry) \cup {Classify_} : \A document \in s.replies[p] :
              IsDocument(document)

Leg == {1, 2}
Task == Request \X Leg \X (Mode \cup {Classify_})
Client(kind) == IF kind = Classify_ THEN "classifying" ELSE "showing"

-----------------------------------------------------------------------------
(***************************************************************************)
(* The legs of a trip and the keys of the cache.                           *)
(***************************************************************************)
CoverageOf(metres) ==
    CASE metres = 0 -> "SEOUL"
      [] metres \in 1..12000 -> "BUFFER"
      [] OTHER -> "OUTSIDE"

\* The way there leaves at the start, the way back at the end of the trip;
\* parking is paid once for a round trip.
PlannedLegs(ask) ==
    LET there == [from |-> ask.site, to |-> ask.place, departs |-> ask.startsAt, car |-> ask.car]
        back == [from |-> ask.place, to |-> ask.site, departs |-> ask.endsAt,
                 car |-> IF ask.pattern = "ROUND_TRIP"
                           THEN [ask.car EXCEPT !.parking = 0] ELSE ask.car]
    IN  CASE ask.pattern = "ROUND_TRIP" -> <<there, back>>
          [] ask.pattern = "OUTBOUND_ONLY_END_AFTER_SCHEDULE" -> <<there>>
          [] ask.pattern = "RETURN_ONLY_DIRECT_TO_DESTINATION" -> <<back>>

Ask(r) == scene.asks[r]
Legs(r) == PlannedLegs(Ask(r))
LegOf(t) == Legs(t[1])[t[2]]

\* Coordinates are in millionths of a degree and rounded to five decimals,
\* departures fall into buckets of five minutes.
Quantized(position) == (position + 5) \div 10
DepartureBucket(instant) == instant \div 300

\* Variant: the car assumptions are left out of the key.
KeyOptions_noAssumptions(kind, leg) ==
    IF kind = Classify_ THEN <<"DISTANCE", "false">> ELSE <<>>

KeyOptions(kind, leg) ==
    CASE kind = "CAR" -> <<leg.car.fuel, leg.car.efficiency, leg.car.parking>>
      [] kind = Classify_ -> <<"DISTANCE", "false">>
      [] OTHER -> <<>>

RouteKey(kind, leg) ==
    [provider |-> Client(kind), mode |-> kind,
     from |-> Quantized(leg.from), to |-> Quantized(leg.to),
     bucket |-> DepartureBucket(leg.departs), options |-> KeyOptions(kind, leg)]

TtlOf(kind) == IF kind = "WALK" THEN LongTtl ELSE ShortTtl

-----------------------------------------------------------------------------
(***************************************************************************)
(* Tasks, and the semaphore they share (an asyncio.Semaphore: waiters are  *)
(* served in order, and a released permit goes to the first of them).      *)
(***************************************************************************)
Resting == [phase |-> "none", at |-> 0, exchange |-> 0, attempt |-> 0,
            heard |-> <<>>, public |-> <<>>, warnings |-> {}, found |-> <<>>]
Calling == {"calling", "pricing", "awaitingPrice"}

ChainOf(t) == IF t[3] = Classify_ THEN <<"KAKAO_CAR">> ELSE scene.chain[t[3]]
ProviderOf(s, t) == ChainOf(t)[s.task[t].at]
Documents(s, t) == scene.replies[IF t[3] = Classify_ THEN Classify_ ELSE ProviderOf(s, t)]

Acquire(s, t) ==
    IF s.permits > 0 /\ s.queue = <<>>
      THEN [s EXCEPT !.permits = @ - 1, !.task[t].phase = "calling"]
      ELSE [s EXCEPT !.queue = Append(@, t), !.task[t].phase = "queued"]

Release(s) ==
    IF s.queue = <<>> THEN [s EXCEPT !.permits = @ + 1]
    ELSE [s EXCEPT !.queue = Tail(@), !.task[Head(s.queue)].phase = "calling"]

Kept(s, t, value) ==
    [s EXCEPT !.task[t] = [Resting EXCEPT !.phase = "done", !.found = <<value>>],
              !.cache = CacheAfterSet(@, RouteKey(t[3], LegOf(t)), value, clock, TtlOf(t[3]))]

\* The routes of a mode are final: build its collection and cache it,
\* whether there are routes in it or not.
Collected(s, t, routes, warnings, matched) ==
    Kept(s, t, [mode |-> t[3], leg |-> LegOf(t), at |-> clock, raw |-> routes,
                shown |-> BuildCollection(routes),
                warnings |-> s.task[t].warnings \cup warnings, matched |-> matched])

\* The shortest driving route, or none; only a route is cached.
Measured(s, t, routes) ==
    IF routes = <<>> THEN [s EXCEPT !.task[t] = [Resting EXCEPT !.phase = "done"]]
    ELSE Kept(s, t, [mode |-> Classify_, leg |-> LegOf(t), at |-> clock,
                     distance |-> routes[1].distance])

\* On to the next provider of the mode; after the last there are no routes.
NextProvider(s, t, warnings) ==
    LET here == s.task[t]
        moved == [Resting EXCEPT !.at = here.at + 1, !.exchange = 1, !.attempt = 1,
                                 !.public = here.public, !.warnings = here.warnings \cup warnings]
    IN  IF here.at < Len(ChainOf(t)) THEN Acquire([s EXCEPT !.task[t] = moved], t)
        ELSE Collected(s, t, <<>>,
                       warnings \cup {w \in {"NO_PROVIDER"} : ChainOf(t) = <<>>}
                                \cup {w \in {"GEOMETRY_UNAVAILABLE"} : here.public # <<>>},
                       <<>>)

\* Variant: the provider's own warnings are all there is.
WhyNoRoutes_asGiven(warnings) == warnings

\* A provider that gives neither routes nor a reason is given one.
WhyNoRoutes(warnings) == IF warnings = {} THEN {"NO_ROUTES"} ELSE warnings

\* The routes of the last provider, drawn by those of Kakao if they are public.
Finished(s, t, public, routes, warnings) ==
    IF public = <<>> THEN Collected(s, t, routes, warnings, <<>>)
    ELSE LET supplement == SupplementPublicGeometry(public, routes)
         IN  Collected(s, t, supplement.routes, warnings \cup {supplement.warning},
                       <<public, routes>>)

\* A provider has answered with routes, with warnings, or with both.
Concluded(s, t, routes, warnings) ==
    CASE t[3] = Classify_ -> Measured(s, t, routes)
      [] t[3] # Classify_ /\ (routes = <<>> \/ ProviderOf(s, t) = "SEOUL_TRANSIT") ->
            NextProvider([Release(s) EXCEPT !.task[t].public =
                             IF ProviderOf(s, t) = "SEOUL_TRANSIT" THEN routes ELSE @],
                         t, IF routes = <<>> THEN WhyNoRoutes(warnings) ELSE warnings)
      [] OTHER -> Finished(Release(s), t, s.task[t].public, routes, warnings)

-----------------------------------------------------------------------------
(***************************************************************************)
(* Fuel prices: each Opinet client keeps the last price list and asks for  *)
(* a new one under a lock, so that waiting tasks find what the first got.  *)
(***************************************************************************)
FuelOf(s, t) == s.fuel[Client(t[3])]

Costed(routes, price, car) ==
    [i \in DOMAIN routes |-> EstimateCarCost(routes[i], price, car)]

Priced(s, t, price, warnings) ==
    Concluded(s, t, Costed(s.task[t].heard, price, LegOf(t).car), warnings)

TakeLock(s, t) ==
    [s EXCEPT !.fuel[Client(t[3])].asked = clock, !.fuel[Client(t[3])].holder = <<t>>,
              !.task[t].phase = "pricing", !.task[t].attempt = 1]

WaitForPrice(s, t) ==
    IF FuelOf(s, t).holder = <<>> /\ FuelOf(s, t).waiting = <<>> THEN TakeLock(s, t)
    ELSE [s EXCEPT !.fuel[Client(t[3])].waiting = Append(@, t), !.task[t].phase = "awaitingPrice"]

\* Variant: a task that is cancelled keeps the lock.
LeaveFuel_keepLock(s, t) ==
    [s EXCEPT !.fuel[Client(t[3])].waiting = SelectSeq(@, LAMBDA w : w # t)]

\* Gives up the lock, if it has it, or its place in the line for it.
LeaveFuel(s, t) ==
    [s EXCEPT !.fuel[Client(t[3])].waiting = SelectSeq(@, LAMBDA w : w # t),
              !.fuel[Client(t[3])].holder = IF @ = <<t>> THEN <<>> ELSE @]

\* The price list lives from when it was asked for; a failure leaves the
\* routes without a cost, and the old list where it was.
PriceEnds(s, t, price, failure) ==
    IF failure = "none"
      THEN Priced(LeaveFuel([s EXCEPT !.fuel[Client(t[3])].price = price,
                                      !.fuel[Client(t[3])].expires =
                                          FuelOf(s, t).asked + FuelTtl], t), t, price, {})
      ELSE Priced(LeaveFuel(s, t), t, UnknownCost, {failure})

-----------------------------------------------------------------------------
(***************************************************************************)
(* What comes of an HTTP exchange: the call goes on with another attempt,  *)
(* another exchange or the price of fuel, or it ends with routes, with     *)
(* warnings, or with both.                                                 *)
(***************************************************************************)
Outcome(next, routes, warnings) == [next |-> next, routes |-> routes, warnings |-> warnings]
Refused(code) == Outcome("end", <<>>, {code})

HeardAll(routes) ==
    CASE Len(routes) > MaxRoutes -> Refused("RESPONSE_LIMIT_EXCEEDED")
      [] routes = <<>> -> Refused("NO_RESULTS")
      [] OTHER -> Outcome("end", routes, {})

ParsedBy(provider, exchange, document) ==
    CASE provider = "SEOUL_TRANSIT" -> ParseSeoulTransit(document)
      [] provider = "KAKAO_TRANSIT" -> ParseKakaoTransit(document)
      [] provider = "KAKAO_WALK" -> ParseWalk(document, exchange)
      [] provider = "KAKAO_CAR" -> ParseCar(document)

Understood(provider, exchange, heard, parsed) ==
    CASE parsed.failure # "none" -> Refused(parsed.failure)
      [] parsed.failure = "none" /\ provider = "SEOUL_TRANSIT" ->
            Outcome("end", parsed.routes, {"GEOMETRY_MISSING", "FARE_MISSING"})
      [] parsed.failure = "none" /\ provider = "KAKAO_TRANSIT" ->
            Outcome("end", parsed.routes, {})
      [] parsed.failure = "none" /\ provider = "KAKAO_WALK" ->
            IF exchange < WalkModes THEN Outcome("exchange", parsed.routes, {})
            ELSE HeardAll(heard \o parsed.routes)
      [] parsed.failure = "none" /\ provider = "KAKAO_CAR" ->
            Outcome("price", parsed.routes, {})

\* A transport failure is tried again if it may pass; the last one counts.
Faults == {"passing", "final"}
MayTryAgain(s, t, kind) == kind = "passing" /\ s.task[t].attempt < MaxAttempts
FailureCode(kind) == IF kind = "passing" THEN "UPSTREAM_UNAVAILABLE" ELSE "UPSTREAM_REJECTED"

\* A price list that is still good is used without asking for the lock.
WithPrice(s, t, outcome) ==
    IF outcome.next = "price" /\ clock < FuelOf(s, t).expires
      THEN Outcome("end", Costed(outcome.routes, FuelOf(s, t).price, LegOf(t).car), {})
      ELSE outcome

Carried(s, t, outcome) ==
    CASE outcome.next = "again" -> [s EXCEPT !.task[t].attempt = @ + 1]
      [] outcome.next = "exchange" ->
            [s EXCEPT !.task[t].heard = @ \o outcome.routes, !.task[t].exchange = @ + 1,
                      !.task[t].attempt = 1]
      [] outcome.next = "price" ->
            WaitForPrice([s EXCEPT !.task[t].heard = outcome.routes], t)
      [] outcome.next = "end" -> Concluded(s, t, outcome.routes, outcome.warnings)

(***************************************************************************)
(* Actions.                                                                *)
(***************************************************************************)
Init ==
    /\ scene \in Scenes
    /\ clock = 0
    /\ faults = scene.faults
    /\ request = [r \in Request |-> "new"]
    /\ visit = [r \in Request |-> [at |-> 0, allowed |-> FALSE]]
    /\ counts = {}
    /\ server = [task |-> [t \in Task |-> Resting], queue |-> <<>>, permits |-> Permits,
                 cache |-> <<>>,
                 fuel |-> [c \in {"showing", "classifying"} |->
                             [price |-> UnknownCost, expires |-> 0, asked |-> 0,
                              holder |-> <<>>, waiting |-> <<>>]]]

Phase(t) == server.task[t].phase

\* The tasks of a request were scheduled together: they start in the order of
\* legs and modes, before anything else runs.
Starting(t) == Phase(t) = "new"
Order(t) == 3 * t[2] + (CHOOSE i \in DOMAIN TravelModes : TravelModes[i] = t[3])
AllStarted == \A t \in Task : ~Starting(t)
Runs(t, phase) == Phase(t) = phase /\ AllStarted

Tick ==
    /\ AllStarted
    /\ clock < scene.horizon
    /\ clock' = clock + 1
    /\ UNCHANGED <<scene, faults, request, visit, counts, server>>

\* The legs' tasks are there as soon as the request is being worked on.
Started(s, r) ==
    [s EXCEPT !.task = [t \in Task |->
        IF t[1] = r /\ t[2] \in DOMAIN Legs(r) /\ t[3] \in Mode
          THEN [Resting EXCEPT !.phase = "new"] ELSE @[t]]]

OutOfCoverage(r) == CoverageOf(Ask(r).fromSeoul) = "OUTSIDE" /\ Ask(r).pattern = "ROUND_TRIP"

TripPreviewRequested(r) ==
    LET client == Ask(r).client
        allowed == Allowed(counts, client, clock)
        outcome == CASE ~allowed -> "refused"
                     [] allowed /\ ~Ask(r).known -> "unknown"
                     [] allowed /\ Ask(r).known /\ OutOfCoverage(r) -> "answered"
                     [] OTHER -> "working"
    IN  /\ request[r] = "new"
        /\ Ask(r) # NotAsked
        /\ AllStarted
        /\ counts' = CountsAfterCheck(counts, client, clock)
        /\ visit' = [visit EXCEPT ![r] = [at |-> clock, allowed |-> allowed]]
        /\ request' = [request EXCEPT ![r] = outcome]
        /\ server' = IF outcome = "working" THEN Started(server, r) ELSE server
        /\ UNCHANGED <<scene, clock, faults>>

Becomes(s) == server' = s /\ UNCHANGED <<scene, clock, request, visit, counts>>

LookedUp(t) ==
    LET key == RouteKey(t[3], LegOf(t))
        cached == CacheGet(server.cache, key, clock)
        seen == [server EXCEPT !.cache = CacheAfterGet(@, key, clock)]
        started == [Resting EXCEPT !.at = 1, !.exchange = 1, !.attempt = 1, !.phase = "calling"]
    IN  CASE cached # Missing ->
                [seen EXCEPT !.task[t] = [Resting EXCEPT !.phase = "done", !.found = <<cached>>]]
          [] cached = Missing /\ t[3] = Classify_ -> [seen EXCEPT !.task[t] = started]
          [] OTHER -> NextProvider(seen, t, {})

DisplayModeRoutes(t) ==
    /\ Starting(t)
    /\ \A u \in Task : u[1] = t[1] /\ Starting(u) => Order(t) <= Order(u)
    /\ Becomes(LookedUp(t))
    /\ UNCHANGED faults

\* Without its key a provider, or the fuel price client, makes no call.
NoCredential(t) ==
    /\ \/ /\ Runs(t, "calling")
          /\ ProviderOf(server, t) \in scene.keyless
          /\ Becomes(Carried(server, t, Refused("MISSING_CREDENTIAL")))
       \/ /\ Runs(t, "pricing")
          /\ "OPINET" \in scene.keyless
          /\ Becomes(PriceEnds(server, t, UnknownCost, "MISSING_CREDENTIAL"))
    /\ UNCHANGED faults

Answered(t) ==
    /\ Runs(t, "calling")
    /\ ProviderOf(server, t) \notin scene.keyless
    /\ \E document \in Documents(server, t) :
          LET provider == ProviderOf(server, t)
              task == server.task[t]
          IN  Becomes(Carried(server, t,
                  WithPrice(server, t,
                      Understood(provider, task.exchange, task.heard,
                                 ParsedBy(provider, task.exchange, document)))))
    /\ UNCHANGED faults

Faulted(t) ==
    /\ Runs(t, "calling")
    /\ ProviderOf(server, t) \notin scene.keyless
    /\ faults > 0
    /\ faults' = faults - 1
    /\ \E kind \in Faults :
          Becomes(Carried(server, t, IF MayTryAgain(server, t, kind)
                                       THEN Outcome("again", <<>>, {})
                                       ELSE Refused(FailureCode(kind))))

\* The lock goes to the first in line, who looks at the prices once more.
LockTurn(t) ==
    LET fuel == FuelOf(server, t)
    IN  /\ Runs(t, "awaitingPrice")
        /\ fuel.holder = <<>>
        /\ Head(fuel.waiting) = t
        /\ Becomes(IF clock < fuel.expires
                     THEN Priced(LeaveFuel(server, t), t, fuel.price, {})
                     ELSE TakeLock(LeaveFuel(server, t), t))
        /\ UNCHANGED faults

PriceAnswered(t) ==
    /\ Runs(t, "pricing")
    /\ "OPINET" \notin scene.keyless
    /\ \E document \in scene.replies["OPINET"] :
          Becomes(PriceEnds(server, t, document.price, ParsePrices(document)))
    /\ UNCHANGED faults

PriceFaulted(t) ==
    /\ Runs(t, "pricing")
    /\ "OPINET" \notin scene.keyless
    /\ faults > 0
    /\ faults' = faults - 1
    /\ \E kind \in Faults :
          Becomes(IF MayTryAgain(server, t, kind) THEN [server EXCEPT !.task[t].attempt = @ + 1]
                  ELSE PriceEnds(server, t, UnknownCost, FailureCode(kind)))

\* The orchestrator gives up a call, whatever it is waiting for; the task that
\* measures the distance is not called through the orchestrator.
TimedOut(t) ==
    /\ Phase(t) \in Calling
    /\ AllStarted
    /\ t[3] # Classify_
    /\ faults > 0
    /\ faults' = faults - 1
    /\ Becomes(NextProvider(Release(LeaveFuel(server, t)), t, {"UPSTREAM_TIMEOUT"}))

Done(t) == Phase(t) = "done"
Shown(r) == \A l \in DOMAIN Legs(r), m \in Mode : Done(<<r, l, m>>)

\* With all routes there, the distances are measured, one leg after the other.
ClassificationRoute(r, l) ==
    /\ request[r] = "working"
    /\ AllStarted
    /\ l \in DOMAIN Legs(r)
    /\ Shown(r)
    /\ Phase(<<r, l, Classify_>>) = "none"
    /\ \A k \in 1..(l - 1) : Done(<<r, k, Classify_>>)
    /\ Becomes(LookedUp(<<r, l, Classify_>>))
    /\ UNCHANGED faults

Found(t) == server.task[t].found[1]

\* Both legs or none: the sum of a round trip is exact, one way is a bound.
ClassificationEvidence(r) ==
    LET measured == \A l \in DOMAIN Legs(r) : server.task[<<r, l, Classify_>>].found # <<>>
        metres(l) == IF l \in DOMAIN Legs(r) THEN Found(<<r, l, Classify_>>).distance ELSE 0
    IN  [basis |-> IF Ask(r).pattern = "ROUND_TRIP"
                     THEN "ROUND_TRIP_EXACT" ELSE "ONE_WAY_LOWER_BOUND",
         distance |-> IF measured THEN metres(1) + metres(2) ELSE Unknown]

PolicyInputOf(r) ==
    LET ask == Ask(r)
        evidence == ClassificationEvidence(r)
    IN  [inSeoul |-> CoverageOf(ask.fromSeoul) = "SEOUL",
         distance |-> evidence.distance, basis |-> evidence.basis,
         startsAt |-> ask.startsAt, endsAt |-> ask.endsAt,
         profile |-> "SEOUL_EDU_PUBLIC_OFFICIAL_CONFIRMED", vehicle |-> ask.vehicle,
         otherTrips |-> ask.otherTrips, previous |-> ask.previous]

PolicyOf(r) == Calculate(Rules, PolicyInputOf(r))

LegCollection(r, l) == CombineCollections([m \in Mode |-> Found(<<r, l, m>>).shown])

\* The answer of a request that is worked out (an out-of-coverage round trip
\* is answered without routes, distance or allowance).
Response(r) ==
    LET legs == [l \in DOMAIN Legs(r) |-> LegCollection(r, l)]
        costs == [l \in DOMAIN legs |-> MobilityCost(legs[l])]
    IN  [legs |-> legs, costs |-> costs, total |-> AggregateMobilityCost(costs),
         policy |-> PolicyOf(r)]

\* Without a rule set for the day the request ends in an error.
Preview(r) ==
    /\ request[r] = "working"
    /\ AllStarted
    /\ Shown(r)
    /\ \A l \in DOMAIN Legs(r) : Done(<<r, l, Classify_>>)
    /\ request' = [request EXCEPT ![r] = IF Response(r).policy.status = Failed
                                           THEN "failed" ELSE "answered"]
    /\ UNCHANGED <<scene, clock, faults, visit, counts, server>>

TaskStep(t) ==
    \/ DisplayModeRoutes(t) \/ NoCredential(t) \/ Answered(t) \/ Faulted(t)
    \/ LockTurn(t) \/ PriceAnswered(t) \/ PriceFaulted(t)

Next ==
    \/ Tick
    \/ \E r \in Request : TripPreviewRequested(r) \/ Preview(r)
    \/ \E r \in Request, l \in Leg : ClassificationRoute(r, l)
    \/ \E t \in Task : TaskStep(t) \/ TimedOut(t)

Spec == Init /\ [][Next]_vars

\* What it takes for a step of a task or of a request to be possible.
TaskCanGoOn(t) ==
    \/ Phase(t) \in {"new", "calling", "pricing"}
    \/ Phase(t) = "awaitingPrice" /\ FuelOf(server, t).holder = <<>>
                                  /\ Head(FuelOf(server, t).waiting) = t
RequestCanGoOn(r) ==
    /\ request[r] = "working"
    /\ Shown(r)
    /\ \A l \in DOMAIN Legs(r) : Phase(<<r, l, Classify_>>) \in {"none", "done"}

CanGoOn == (\E t \in Task : TaskCanGoOn(t)) \/ (\E r \in Request : RequestCanGoOn(r))

(***************************************************************************)
(* Every HTTP exchange ends (each phase of it has a timeout in httpx), and *)
(* the event loop does not stand still while something can go on: weak     *)
(* fairness of the steps of tasks and requests, with the condition that    *)
(* they are enabled written out.  Nothing is assumed of the orchestrator's *)
(* own timeout or of further requests.                                     *)
(***************************************************************************)
FairSpec ==
    /\ Spec
    /\ []<>~CanGoOn \/ []<><<server' # server \/ request' # request>>_vars

-----------------------------------------------------------------------------
(***************************************************************************)
(* Properties.                                                             *)
(***************************************************************************)
WithRoutes(r) == request[r] = "answered" /\ ~OutOfCoverage(r)
Collections == {t \in Task : t[3] # Classify_ /\ request[t[1]] = "answered"
                                             /\ server.task[t].found # <<>>}

\* Permits are neither lost nor created: each is free or with a task in a
\* call, and tasks wait only while none is free.  The cache keeps to its
\* size and holds a key once.
TypeOK ==
    /\ request \in [Request -> {"new", "refused", "unknown", "working", "answered", "failed"}]
    /\ server.permits \in 0..Permits
    /\ server.permits + Cardinality({t \in Task : Phase(t) \in Calling /\ t[3] # Classify_})
         = Permits
    /\ server.queue # <<>> => server.permits = 0
    /\ ToSet(server.queue) = {t \in Task : Phase(t) = "queued"}
    /\ Len(server.cache) <= MaxEntries
    /\ \A i, j \in DOMAIN server.cache : server.cache[i].key = server.cache[j].key => i = j

\* What a request is shown for a mode of a leg was found for that mode, the
\* same ends (to the rounding of a coordinate), the same five minutes and, for
\* the car, the same assumptions, and had not outlived its time to live when
\* the request came, whoever had it looked up (trip_preview.py:172-212).
AnswersFitTheQuestion ==
    \A t \in Collections :
        LET found == Found(t)
            leg == LegOf(t)
        IN  /\ found.mode = t[3]
            /\ Distance(found.leg.from, leg.from) < 10 /\ Distance(found.leg.to, leg.to) < 10
            /\ found.leg.departs \div 300 = leg.departs \div 300
            /\ t[3] = "CAR" => found.leg.car = leg.car
            /\ visit[t[1]].at < found.at + TtlOf(t[3])

\* A public route is drawn along a Kakao route only if there is exactly one
\* way to match them all, and then along the route of that matching; in every
\* other case the Kakao routes themselves are shown (orchestrator.py:289-353).
GeometryIsTheOnlyMatch ==
    \A t \in Task : server.task[t].found # <<>> /\ t[3] = "TRANSIT" /\ Found(t).matched # <<>> =>
        LET publics == Found(t).matched[1]
            kakaos == Found(t).matched[2]
            matchings == PerfectMatchings(publics, kakaos)
        IN  IF Cardinality(matchings) = 1
              THEN LET only == CHOOSE m \in matchings : TRUE
                   IN  Found(t).raw = [p \in DOMAIN publics |->
                                          WithGeometry(publics[p], kakaos[only[p]])]
              ELSE Found(t).raw = kakaos

\* Of the routes the providers gave, an answer leaves out only those of which
\* it shows a near-duplicate of the same mode from a provider at least as high
\* in the registry; joining the modes leaves nothing out (ranking.py:72-87).
OnlyNearDuplicatesAreHidden ==
    \A r \in Request : WithRoutes(r) =>
        \A l \in DOMAIN Legs(r) :
            LET shown == ToSet(LegCollection(r, l).routes)
            IN  \A m \in Mode : \A route \in ToSet(Found(<<r, l, m>>).raw) :
                    \E other \in shown :
                        /\ other = route \/ Duplicates(route, other)
                        /\ Priority(other.source) <= Priority(route.source)

\* A mode without routes always comes with a warning that says why, also when
\* it is shown from the cache (orchestrator.py:126-245).
EmptyModesSayWhy ==
    \A t \in Collections : Found(t).shown.routes = <<>> => Found(t).warnings # {}

\* A decision on a one-way distance is the one every exact round trip at
\* least as long would have led to (engine.py:51-72).
LongerTrips == {0, 1, 500, 1000, 1001, 11000, 12000, 40000}
LowerBoundsStand ==
    \A r \in Request : WithRoutes(r) =>
        LET input == PolicyInputOf(r)
            rule == RuleFor(Rules, KoreanDate(input.startsAt))
        IN  input.basis = "ONE_WAY_LOWER_BOUND" /\ input.distance # Unknown =>
                \A more \in LongerTrips : LowerBoundStands(input, rule, input.distance + more)

\* No client is let in more than Limit times in one window, in whatever order
\* requests and windows come (rate_limit.py:44-67).
AdmissionsAreLimited ==
    \A r \in Request : visit[r].allowed =>
        Cardinality({q \in Request : /\ visit[q].allowed
                                     /\ Ask(q).client = Ask(r).client
                                     /\ WindowOf(visit[q].at) = WindowOf(visit[r].at)}) <= Limit

\* Every request that is let in is answered or fails; no timeout, lost permit
\* or abandoned lock leaves it waiting (orchestrator.py:160, opinet.py:94).
PreviewsEnd ==
    \A r \in Request : request[r] = "working" ~> request[r] \in {"answered", "failed"}

=============================================================================
