---------------------------- MODULE TravelPolicy ----------------------------
(***************************************************************************)
(* The travel rules: which rule set applies to a trip, whether the trip is *)
(* local, and which allowance may be shown.  Pure functions; instants are  *)
(* seconds since the epoch (UTC), dates are days since it.                 *)
(***************************************************************************)
EXTENDS Integers, FiniteSets

Unknown == -1           \* no distance was measured; no amount can be shown
Failed == "failed"      \* the policy raises: the request ends in an error

(***************************************************************************)
(* A rule set as its constructor accepts it.                               *)
(***************************************************************************)
RuleSet == [effectiveFrom : Int, localRoundTripExclusive : Nat \ {0},
            actualExpenseInclusive : Nat \ {0}, fourHours : Nat \ {0},
            underFourHours : Nat, fourHoursOrMore : Nat,
            officialVehicleDeduction : Nat]

ValidRule(rule) ==
    /\ rule \in RuleSet
    /\ rule.actualExpenseInclusive < rule.localRoundTripExclusive
    /\ rule.underFourHours <= rule.fourHoursOrMore
    /\ rule.officialVehicleDeduction <= rule.underFourHours

ValidRepository(rules) ==
    /\ \A rule \in rules : ValidRule(rule)
    /\ \A p, q \in rules : p.effectiveFrom = q.effectiveFrom => p = q

(***************************************************************************)
(* The rule set in force on a date: the latest that has taken effect.      *)
(***************************************************************************)
Eligible(rules, date) == {rule \in rules : rule.effectiveFrom <= date}

RuleFor(rules, date) ==
    CHOOSE rule \in Eligible(rules, date) :
        \A other \in Eligible(rules, date) : other.effectiveFrom <= rule.effectiveFrom

KoreanDate(instant) == (instant + 9 * 3600) \div 86400

(***************************************************************************)
(* What the engine is asked.                                               *)
(***************************************************************************)
Profiles == {"SEOUL_EDU_PUBLIC_OFFICIAL_CONFIRMED", "NATIONAL_PUBLIC_OFFICIAL_CONFIRMED",
             "INTERNAL_RULE_ADOPTION_CONFIRMED_BY_USER", "NONPUBLIC_OR_UNKNOWN"}
VehicleUses == {"NONE", "PRIVATE", "OFFICIAL_OR_RENTED", "ASSIGNED_OFFICIAL"}
Bases == {"ROUND_TRIP_EXACT", "ONE_WAY_LOWER_BOUND"}

PolicyInput == [inSeoul : BOOLEAN, distance : Nat \cup {Unknown}, basis : Bases,
                startsAt : Int, endsAt : Int, profile : Profiles,
                vehicle : VehicleUses, otherTrips : BOOLEAN, previous : Nat]

ValidInput(input) == input \in PolicyInput /\ input.startsAt < input.endsAt

\* Variant: a one-way distance is taken for the whole way.
Classify_oneWayIsExact(input, rule) ==
    IF input.inSeoul \/ input.distance < rule.localRoundTripExclusive
      THEN "LOCAL" ELSE "NON_LOCAL_EXPECTED"

(***************************************************************************)
(* Local or not.  A one-way distance only bounds the round trip from below.*)
(***************************************************************************)
Classify(input, rule) ==
    CASE input.inSeoul -> "LOCAL"
      [] ~input.inSeoul /\ input.basis = "ONE_WAY_LOWER_BOUND" ->
            IF input.distance >= rule.localRoundTripExclusive
              THEN "NON_LOCAL_EXPECTED" ELSE "REVIEW_REQUIRED"
      [] ~input.inSeoul /\ input.basis = "ROUND_TRIP_EXACT" ->
            IF input.distance < rule.localRoundTripExclusive
              THEN "LOCAL" ELSE "NON_LOCAL_EXPECTED"

DurationMinutes(input) == (input.endsAt - input.startsAt) \div 60

AtLeast(a, b) == IF a >= b THEN a ELSE b
AtMost(a, b) == IF a <= b THEN a ELSE b

LongTrip(input, rule) == DurationMinutes(input) >= rule.fourHours

BaseAmount(input, rule) ==
    LET full == IF LongTrip(input, rule) THEN rule.fourHoursOrMore ELSE rule.underFourHours
    IN  IF input.vehicle = "OFFICIAL_OR_RENTED"
          THEN AtLeast(0, full - rule.officialVehicleDeduction)
          ELSE full

\* What is left of the day's ceiling after the other trips of the day.
CappedAmount(input, rule) ==
    IF input.otherTrips
      THEN AtMost(BaseAmount(input, rule), AtLeast(0, rule.fourHoursOrMore - input.previous))
      ELSE BaseAmount(input, rule)

Review(classification) ==
    [classification |-> classification, status |-> "REVIEW_REQUIRED", amount |-> Unknown]

Granted(input, classification, amount) ==
    [classification |-> classification,
     status |-> IF input.profile = "INTERNAL_RULE_ADOPTION_CONFIRMED_BY_USER"
                  THEN "REFERENCE_ESTIMATE" ELSE "ESTIMATED",
     amount |-> amount]

\* Before any amount is worked out: the cases a person has to look at.
NeedsReview(input, rule, classification) ==
    \/ /\ input.basis = "ONE_WAY_LOWER_BOUND"
       /\ ~input.inSeoul \/ input.distance <= rule.actualExpenseInclusive
    \/ classification # "LOCAL"
    \/ input.profile = "NONPUBLIC_OR_UNKNOWN"

Decide(input, rule) ==
    LET classification == Classify(input, rule)
    IN  CASE input.distance = Unknown -> Review("REVIEW_REQUIRED")
          [] input.distance # Unknown /\ NeedsReview(input, rule, classification) ->
                Review(classification)
          [] input.distance # Unknown /\ ~NeedsReview(input, rule, classification) ->
                CASE input.vehicle = "ASSIGNED_OFFICIAL" -> Granted(input, classification, 0)
                  [] /\ input.vehicle # "ASSIGNED_OFFICIAL"
                     /\ \/ input.distance <= rule.actualExpenseInclusive
                        \/ input.otherTrips /\ ~LongTrip(input, rule) ->
                        Review(classification)
                  [] OTHER -> Granted(input, classification, CappedAmount(input, rule))

Calculate(rules, input) ==
    LET date == KoreanDate(input.startsAt)
    IN  IF Eligible(rules, date) = {} THEN [status |-> Failed]
        ELSE Decide(input, RuleFor(rules, date))

-----------------------------------------------------------------------------
(***************************************************************************)
(* A decision taken on a one-way distance is the decision that the exact   *)
(* round trip, whatever its length, would have led to: a person is asked   *)
(* whenever the missing half of the way could still change the answer.     *)
(***************************************************************************)
LowerBoundStands(input, rule, exactDistance) ==
    LET bound == Decide(input, rule)
        exact == Decide([input EXCEPT !.basis = "ROUND_TRIP_EXACT",
                                      !.distance = exactDistance], rule)
    IN  /\ bound.classification # "REVIEW_REQUIRED"
              => exact.classification = bound.classification
        /\ bound.amount # Unknown => exact = bound

=============================================================================
