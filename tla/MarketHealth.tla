----------------------------- MODULE MarketHealth -----------------------------
(***************************************************************************)
(* Descriptors of a session and the damage memory over a window of them:   *)
(* services/market_context_engine.py and services/market_health.py.        *)
(*                                                                         *)
(* Ratios are per mille.  A raw session says whether any symbol passed the *)
(* quality filters (universe), how many are above their EMA21 (breadth) and *)
(* are leaders, whether too many leaders are over-extended, and what the   *)
(* index does.                                                             *)
(***************************************************************************)
EXTENDS Integers, Sequences, FiniteSets

CONSTANTS
  HEALTH_MIN_CLASSIFIED_DAYS, REPAIR_WINDOW_DAYS, REPAIR_REQUIRED_CLEAN_DAYS,
  SEVERE_LOOKBACK_DAYS, ROBUST_MAX_DAMAGED_DAYS, ROBUST_MAX_EPISODES,
  DAMAGED_MIN_DAYS, DAMAGED_RECENT_WINDOW, DAMAGED_MIN_RECENT

ASSUME HealthAssumption ==
  /\ HEALTH_MIN_CLASSIFIED_DAYS \in Nat /\ REPAIR_WINDOW_DAYS \in Nat
  /\ REPAIR_REQUIRED_CLEAN_DAYS \in Nat /\ SEVERE_LOOKBACK_DAYS \in Nat
  /\ ROBUST_MAX_DAMAGED_DAYS \in Nat /\ ROBUST_MAX_EPISODES \in Nat
  /\ DAMAGED_MIN_DAYS \in Nat /\ DAMAGED_RECENT_WINDOW \in Nat /\ DAMAGED_MIN_RECENT \in Nat

RawSession ==
  [ universe : BOOLEAN, breadth : Nat, leaders : Nat,
    extended : BOOLEAN,
    index_bullish : BOOLEAN, index_above_ema200 : BOOLEAN, index_new_high : BOOLEAN ]

Participations == {"EXPANDING", "STABLE", "NARROWING", "COLLAPSING"}
Leaderships == {"EXPANDING", "HEALTHY", "THINNING", "COLLAPSING", "EXHAUSTED"}
Severities == {"clean", "mild", "severe"}
HealthStates == {"ROBUST", "FRAGILE", "DAMAGED", "RECOVERING", "UNKNOWN"}

-----------------------------------------------------------------------------
(* Descriptors.                                                            *)

\* breadth_momentum_5d, a difference of ratios: 50 per mille are 5 points.
_participation_descriptor(momentum) ==
  IF momentum > 50 THEN "EXPANDING"
  ELSE IF momentum >= -50 THEN "STABLE"
  ELSE IF momentum >= -150 THEN "NARROWING" ELSE "COLLAPSING"

\* The relative change of a density as a fraction; none without a base.
_density_delta_pct(now, then) ==
  IF then <= 0 THEN [num |-> 0, den |-> 1] ELSE [num |-> now - then, den |-> then]

MoreThan(delta, pct) == delta.num * 100 > pct * delta.den
AtLeast(delta, pct) == delta.num * 100 >= pct * delta.den

_leadership_descriptor(delta, exhausted) ==
  IF exhausted THEN "EXHAUSTED"
  ELSE IF MoreThan(delta, 5) THEN "EXPANDING"
  ELSE IF AtLeast(delta, -5) THEN "HEALTHY"
  ELSE IF AtLeast(delta, -15) THEN "THINNING" ELSE "COLLAPSING"

classify_damage_severity(p, l) ==
  IF p = "COLLAPSING" \/ l \in {"COLLAPSING", "EXHAUSTED"} THEN "severe"
  ELSE IF p = "NARROWING" \/ l = "THINNING" THEN "mild" ELSE "clean"

-----------------------------------------------------------------------------
(* The damage memory.                                                      *)

Count(s, Test(_)) == Cardinality({i \in DOMAIN s : Test(s[i])})
LastOf(s, n) == SubSeq(s, IF Len(s) < n THEN 1 ELSE Len(s) - n + 1, Len(s))

Damaged(severity) == severity # "clean"

\* Maximal runs of damaged days.
Episodes(severities) ==
  Cardinality({i \in DOMAIN severities :
                 Damaged(severities[i]) /\ (i = 1 \/ ~Damaged(severities[i - 1]))})

\* How many sessions at the end are confirmed, one flag for each.
trailing_confirmation_streak(confirmations) ==
  Cardinality({i \in DOMAIN confirmations :
                 \A j \in i .. Len(confirmations) : confirmations[j]})

RecentSevere(severities) ==
  Count(LastOf(severities, SEVERE_LOOKBACK_DAYS), LAMBDA x : x = "severe")

RepairReady(severities) ==
  /\ Len(severities) >= REPAIR_WINDOW_DAYS
  /\ Count(LastOf(severities, REPAIR_WINDOW_DAYS), LAMBDA x : ~Damaged(x))
       >= REPAIR_REQUIRED_CLEAN_DAYS
  /\ RecentSevere(severities) = 0

compute_health_state(severities) ==
  LET damaged_days == Count(severities, Damaged)
  IN  IF Len(severities) < HEALTH_MIN_CLASSIFIED_DAYS THEN "UNKNOWN"
      ELSE IF /\ damaged_days <= ROBUST_MAX_DAMAGED_DAYS
              /\ Episodes(severities) <= ROBUST_MAX_EPISODES
              /\ RecentSevere(severities) = 0 THEN "ROBUST"
      ELSE IF RepairReady(severities) THEN "RECOVERING"
      ELSE IF \/ damaged_days >= DAMAGED_MIN_DAYS
              \/ Count(LastOf(severities, DAMAGED_RECENT_WINDOW), Damaged) >= DAMAGED_MIN_RECENT
      THEN "DAMAGED" ELSE "FRAGILE"
===============================================================================
