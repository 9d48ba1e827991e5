---------------------------- MODULE BuyingIntent ----------------------------
(***************************************************************************)
(* The deterministic score of a company (intelligence_scoring.py): FIT     *)
(* from facts and notes, INTENT from dated signals, and the route, P1 to   *)
(* P4.  Notes are the set of topics whose keywords occur in them.          *)
(***************************************************************************)
EXTENDS Integers, FiniteSets, Folds

CONSTANTS AmplifierPoints,  \* topic -> its points, FIT_AMPLIFIERS
          Canonical,        \* research label -> signal type of the taxonomy
          ContextTypes,     \* the types that are context and no intent
          SignalValue       \* <<type, date>> -> weight times freshness today

ASSUME SignalValueAssumption ==
    \A k \in DOMAIN SignalValue : SignalValue[k] \in Nat

P1Stages == {"IDENTIFIED_TECHNICAL_EVALUATION", "COMMERCIAL_EVALUATION",
             "ACTIVE_EVALUATION", "DEPLOYMENT", "PRODUCT_QUALIFIED"}

Between(n, low, high) == n \in Nat /\ low <= n /\ n <= high

One(holds) == IF holds THEN 1 ELSE 0

Capped(n) == IF n > 10 THEN 10 ELSE n

SumOver(f, S) == MapThenFoldSet(+, 0, LAMBDA x : f[x], LAMBDA T : CHOOSE x \in T : TRUE, S)

(* Points for the bands of size and traffic, a login, and the topics of    *)
(* the notes.                                                              *)
ComputeFit(facts, notes) ==
    Capped(One(Between(facts.employees, 50, 500)) + One(Between(facts.sessions, 100000, 5000000))
           + One(facts.login) + SumOver(AmplifierPoints, notes \cap DOMAIN AmplifierPoints))

(* Copies of one event, by type and date, count once.                      *)
ComputeIntent(signals) ==
    LET events == {<<s.type, s.date>> : s \in {x \in signals : x.type \notin ContextTypes}}
    IN  Capped(SumOver(SignalValue, events))

BasePriority(fit, intent, stage) ==
    IF stage \in P1Stages THEN "P1"
    ELSE IF fit > 5 /\ intent > 5 THEN "P1"
    ELSE IF fit > 5 THEN "P2"
    ELSE IF intent > 5 THEN "P3"
    ELSE "P4"

Bridged(priority, india) ==
    IF india /\ priority = "P3" THEN "P2"
    ELSE IF india /\ priority = "P2" THEN "P1"
    ELSE priority

CapCorporate(priority, flags) ==
    IF "corporate_route_only" \in flags /\ priority \in {"P1", "P2"} THEN "P3" ELSE priority

CapFreeze(priority, flags) ==
    IF "ma_freeze" \in flags /\ priority = "P1" THEN "P2" ELSE priority

RoutePriority(fit, intent, stage, flags, india) ==
    CapFreeze(CapCorporate(Bridged(BasePriority(fit, intent, stage), india), flags), flags)

ScoreCompany(facts, notes, signals, stage) ==
    LET fit    == ComputeFit(facts, notes)
        intent == ComputeIntent(signals)
    IN  [fit |-> fit, intent |-> intent,
         priority |-> RoutePriority(fit, intent, stage, notes, facts.india)]
=============================================================================
