---------------------------- MODULE RoutePlanning ----------------------------
(***************************************************************************)
(* What is done with the routes of the providers: near-duplicates are      *)
(* dropped, the best ones are named, and a public-transport route without  *)
(* a line on the map takes the line of a Kakao route if it is certain      *)
(* which one.  Pure functions.                                             *)
(*                                                                         *)
(* A route is a record with its source, its number within the source (the  *)
(* two make its id), mode, duration, distance, cost, and its geometry in   *)
(* two numbers: "ends", how far both its ends lie from a reference point   *)
(* in metres, and "line", where lines that overlap by at least 95% on both *)
(* sides have the same or neighbouring numbers (so that overlapping, like  *)
(* in the code, is symmetric but not transitive).                          *)
(***************************************************************************)
EXTENDS Integers, Sequences, FiniteSets, SequencesExt

CONSTANT NoRoute        \* stands where no route is best

TravelModes == <<"TRANSIT", "CAR", "WALK">>

\* The order in which the providers are registered, over all modes.
Registry == <<"SEOUL_TRANSIT", "KAKAO_TRANSIT", "KAKAO_CAR", "KAKAO_WALK">>

Supplemented == "SEOUL_TRANSIT+KAKAO_GEOMETRY"
UnknownCost == -1

IdOf(route) == <<route.source, route.number>>

\* A supplemented route keeps the priority of the provider it came from.
Priority(source) ==
    LET original == IF source = Supplemented THEN "SEOUL_TRANSIT" ELSE source
    IN  CHOOSE i \in 1..Len(Registry) : Registry[i] = original

Distance(a, b) == IF a >= b THEN a - b ELSE b - a
Larger(a, b) == IF a >= b THEN a ELSE b

\* Within two per cent of the larger one (two zeros are equal).
Close(a, b) == 50 * Distance(a, b) <= Larger(a, b)

EndsMeet(left, right) == Distance(left.ends, right.ends) <= 20
LinesOverlap(left, right) == Distance(left.line, right.line) <= 1

Duplicates(left, right) ==
    /\ left.mode = right.mode
    /\ Close(left.duration, right.duration)
    /\ Close(left.distance, right.distance)
    /\ EndsMeet(left, right)
    /\ LinesOverlap(left, right)

-----------------------------------------------------------------------------
\* Keys are compared as tuples are: by the first place where they differ.
KeyBefore(a, b) ==
    \E i \in DOMAIN a : a[i] < b[i] /\ \A j \in 1..(i - 1) : a[j] = b[j]

RegistryKey(route) == <<Priority(route.source), route.number>>
FastestKey(route) == <<route.duration, route.distance>> \o RegistryKey(route)
ShortestKey(route) == <<route.distance, route.duration>> \o RegistryKey(route)
CheapestKey(route) == <<route.cost, route.duration, route.distance>> \o RegistryKey(route)

LeastBy(routes, Key(_)) ==
    IF routes = {} THEN NoRoute
    ELSE IdOf(CHOOSE route \in routes :
                \A other \in routes : ~KeyBefore(Key(other), Key(route)))

RankRoutes(routes) ==
    [fastest  |-> LeastBy(ToSet(routes), FastestKey),
     shortest |-> LeastBy(ToSet(routes), ShortestKey),
     cheapest |-> LeastBy({r \in ToSet(routes) : r.cost # UnknownCost}, CheapestKey)]

\* The sort is stable: routes with the same key stay in their order.
ComesBefore(routes, i, j) ==
    LET one == RegistryKey(routes[i])
        other == RegistryKey(routes[j])
    IN  KeyBefore(one, other) \/ (one = other /\ i < j)

Place(routes, i) == 1 + Cardinality({j \in DOMAIN routes : ComesBefore(routes, j, i)})

Ordered(routes) ==
    [n \in DOMAIN routes |-> routes[CHOOSE i \in DOMAIN routes : Place(routes, i) = n]]

\* Variant: a route hides later ones though it was itself dropped.
DeduplicateRoutes_byDropped(routes) ==
    LET ordered == Ordered(routes)
    IN  SelectSeq(ordered, LAMBDA route :
            ~\E other \in ToSet(ordered) :
                /\ KeyBefore(RegistryKey(other), RegistryKey(route))
                /\ Duplicates(route, other))

\* In registry order, a route is kept unless it duplicates one already kept.
DeduplicateRoutes(routes) ==
    FoldLeft(LAMBDA kept, route :
                IF \E other \in ToSet(kept) : Duplicates(route, other)
                  THEN kept ELSE Append(kept, route),
             <<>>, Ordered(routes))

DropRepeatedIds(routes) ==
    FoldLeft(LAMBDA kept, route :
                IF \E other \in ToSet(kept) : IdOf(other) = IdOf(route)
                  THEN kept ELSE Append(kept, route),
             <<>>, routes)

CollectionOf(kept) == [routes |-> kept, best |-> RankRoutes(kept)]
BuildCollection(routes) == CollectionOf(DeduplicateRoutes(DropRepeatedIds(routes)))

\* The collections of the modes, joined in the order of the modes.
CombineCollections(collections) ==
    BuildCollection(collections["TRANSIT"].routes \o collections["CAR"].routes
                                                  \o collections["WALK"].routes)

-----------------------------------------------------------------------------
(***************************************************************************)
(* A public route may be drawn along a Kakao route of the same length and  *)
(* duration between the same ends.  The pairs are matched by augmenting    *)
(* paths, and the matching is used only if there is no other one.          *)
(***************************************************************************)
GeometryMatches(public, kakao) ==
    /\ public.mode = kakao.mode
    /\ Close(public.duration, kakao.duration)
    /\ Close(public.distance, kakao.distance)
    /\ EndsMeet(public, kakao)

\* For each public route the places of the Kakao routes that match it (they are
\* tried in ascending order).
CandidateEdges(publics, kakaos) ==
    [p \in DOMAIN publics |-> {k \in DOMAIN kakaos : GeometryMatches(publics[p], kakaos[k])}]

\* For whom a candidate is sought, which ones were seen, and whose they are.
Searches(edges, count) ==
    (DOMAIN edges) \X (SUBSET (1..count)) \X [1..count -> {0} \cup DOMAIN edges]

\* The candidate goes to the public route if its owner, if any, could move.
Claimed(moved, public, k) == IF moved.found THEN [moved EXCEPT !.owner[k] = public] ELSE moved

\* Tries to give a public route a candidate, moving the owners of candidates
\* already taken; "seen" and "owner" keep what earlier tries did to them.
Augmented(edges, count, forbidden, public, owners) ==
    LET augment[at \in Searches(edges, count)] ==
          FoldLeft(LAMBDA state, k :
              IF \/ state.found \/ k \notin edges[at[1]]
                 \/ forbidden = <<at[1], k>> \/ k \in state.seen
              THEN state
              ELSE Claimed(IF state.owner[k] = 0
                             THEN [state EXCEPT !.found = TRUE, !.seen = @ \cup {k}]
                             ELSE augment[<<state.owner[k], state.seen \cup {k}, state.owner>>],
                           at[1], k),
              [found |-> FALSE, seen |-> at[2], owner |-> at[3]],
              [k \in 1..count |-> k])
    IN  augment[<<public, {}, owners>>]

NoMatching == <<>>

\* A public route that was left without a candidate leaves all without.
AssignmentOf(final, edges, count) ==
    IF \/ ~final.found
       \/ \E p \in DOMAIN edges : \A k \in 1..count : final.owner[k] # p
      THEN NoMatching
      ELSE [p \in DOMAIN edges |-> CHOOSE k \in 1..count : final.owner[k] = p]

\* One public route after the other.
FindPerfectMatching(edges, count, forbidden) ==
    AssignmentOf(FoldLeft(LAMBDA state, p :
                              IF ~state.found THEN state
                              ELSE Augmented(edges, count, forbidden, p, state.owner),
                          [found |-> TRUE, seen |-> {}, owner |-> [k \in 1..count |-> 0]],
                          [p \in DOMAIN edges |-> p]),
                 edges, count)

NotForbidden == <<0, 0>>

\* Variant: any perfect matching will do.
IsOnlyMatching_any(edges, count, assignment) == TRUE

IsOnlyMatching(edges, count, assignment) ==
    \A p \in DOMAIN assignment :
        FindPerfectMatching(edges, count, <<p, assignment[p]>>) = NoMatching

\* The id of the Kakao route is added to that of the public one (no provider
\* may be allowed more than a hundred routes).
MostRoutes == 100
WithGeometry(public, kakao) ==
    [public EXCEPT !.source = Supplemented,
                   !.number = (MostRoutes + 1) * public.number + kakao.number,
                   !.line = kakao.line, !.ends = kakao.ends]

Supplement(publics, kakaos, edges, assignment) ==
    CASE \E p \in DOMAIN edges : edges[p] = {} ->
            [routes |-> kakaos, warning |-> "GEOMETRY_MATCH_NOT_FOUND"]
      [] /\ \A p \in DOMAIN edges : edges[p] # {}
         /\ assignment = NoMatching \/ ~IsOnlyMatching(edges, Len(kakaos), assignment) ->
            [routes |-> kakaos, warning |-> "GEOMETRY_MATCH_AMBIGUOUS"]
      [] OTHER ->
            [routes |-> [p \in DOMAIN publics |-> WithGeometry(publics[p], kakaos[assignment[p]])],
             warning |-> "GEOMETRY_SUPPLEMENTED"]

SupplementPublicGeometry(publics, kakaos) ==
    LET edges == CandidateEdges(publics, kakaos)
    IN  Supplement(publics, kakaos, edges,
                   FindPerfectMatching(edges, Len(kakaos), NotForbidden))

\* Reference: every way to give each public route a Kakao route of its own.
PerfectMatchings(publics, kakaos) ==
    {m \in [DOMAIN publics -> DOMAIN kakaos] :
        /\ IsInjective(m)
        /\ \A p \in DOMAIN publics : GeometryMatches(publics[p], kakaos[m[p]])}

-----------------------------------------------------------------------------
(***************************************************************************)
(* What a leg and what the whole trip costs.                               *)
(***************************************************************************)
MobilityCost(collection) ==
    LET fastest == {r \in ToSet(collection.routes) : IdOf(r) = collection.best.fastest}
    IN  IF fastest = {} THEN UnknownCost ELSE (CHOOSE r \in fastest : TRUE).cost

AggregateMobilityCost(costs) ==
    IF costs = <<>> \/ UnknownCost \in ToSet(costs) THEN UnknownCost
    ELSE FoldLeft(LAMBDA sum, cost : sum + cost, 0, costs)

=============================================================================
