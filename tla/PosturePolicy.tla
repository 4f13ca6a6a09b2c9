----------------------------- MODULE PosturePolicy -----------------------------
(***************************************************************************)
(* The posture of a session: services/market_posture_policy.py (levels and  *)
(* hysteresis) and services/market_posture.py (today's read under the      *)
(* ceilings of the damage memory and of the follow-through).               *)
(***************************************************************************)
EXTENDS MarketHealth

CONSTANTS T,     \* PostureThresholds, per mille
          None

\* What the proofs need of the thresholds, and the code's defaults satisfy.
ASSUME ThresholdAssumption ==
  /\ T \in [ defensive_breadth_entry : Nat, defensive_breadth_exit : Nat,
             defensive_leaders_entry : Nat, defensive_leaders_exit : Nat,
             normal_breadth_entry : Nat, normal_breadth_exit : Nat,
             normal_leaders_entry : Nat, normal_leaders_exit : Nat,
             normal_confirmation_days : Nat,
             aggressive_breadth_entry : Nat, aggressive_breadth_exit : Nat,
             aggressive_leaders_entry : Nat, aggressive_leaders_exit : Nat,
             exceptional_breadth_entry : Nat, exceptional_breadth_delta : Nat,
             exceptional_leaders_entry : Nat, exceptional_leaders_delta_pct : Nat,
             exceptional_retention_sessions : Nat ]
  /\ T.defensive_breadth_entry <= T.defensive_breadth_exit
  /\ T.defensive_breadth_exit <= T.normal_breadth_exit
  /\ T.normal_breadth_exit <= T.normal_breadth_entry
  /\ T.normal_breadth_exit <= T.aggressive_breadth_exit
  /\ T.defensive_leaders_entry <= T.defensive_leaders_exit
  /\ T.defensive_leaders_exit <= T.normal_leaders_exit
  /\ T.normal_leaders_exit <= T.normal_leaders_entry
  /\ T.normal_leaders_exit <= T.aggressive_leaders_exit
  /\ T.normal_confirmation_days > 0

ASSUME NoneAssumption == None \notin Nat

POSTURE_ORDER == <<"FUERA", "DEFENSIVO", "SELECTIVO", "NORMAL", "AGRESIVO">>
Postures == {"FUERA", "DEFENSIVO", "SELECTIVO", "NORMAL", "AGRESIVO"}
_RANK == [ FUERA |-> 0, DEFENSIVO |-> 1, SELECTIVO |-> 2, NORMAL |-> 3, AGRESIVO |-> 4 ]
Least(x, y) == IF _RANK[x] <= _RANK[y] THEN x ELSE y

_HEALTH_CEILING ==
  [ ROBUST |-> "AGRESIVO", UNKNOWN |-> "NORMAL", RECOVERING |-> "NORMAL",
    FRAGILE |-> "SELECTIVO", DAMAGED |-> "DEFENSIVO" ]

-----------------------------------------------------------------------------
(* One classified day: cur beside the session Lookback earlier.            *)

ClassifiedDay(cur, prev) ==
  LET delta == _density_delta_pct(cur.leaders, prev.leaders)
      p == _participation_descriptor(cur.breadth - prev.breadth)
      l == _leadership_descriptor(delta, cur.leaders > 0 /\ cur.extended)
  IN  [ participation |-> p, leadership |-> l,
        severity |-> classify_damage_severity(p, l),
        breadth |-> cur.breadth, leaders |-> cur.leaders,
        breadth_delta |-> cur.breadth - prev.breadth, leaders_delta |-> delta,
        index_bullish |-> cur.index_bullish,
        index_above_ema200 |-> cur.index_above_ema200,
        index_new_high |-> cur.index_new_high ]

\* A day either of whose sessions has no universe is left out of the history.
Classifiable(cur, prev) == cur.universe /\ prev.universe

is_confirmed_recovery_session(d) ==
  /\ d.severity # "severe" /\ d.index_bullish
  /\ d.breadth > T.normal_breadth_entry /\ d.participation = "EXPANDING"
  /\ d.leaders > T.normal_leaders_entry /\ d.leadership = "EXPANDING"

is_exceptional_recovery_session(d) ==
  /\ d.severity # "severe" /\ d.index_bullish /\ d.index_new_high
  /\ d.breadth > T.exceptional_breadth_entry
  /\ d.breadth_delta > T.exceptional_breadth_delta
  /\ d.participation = "EXPANDING"
  /\ d.leaders > T.exceptional_leaders_entry
  /\ MoreThan(d.leaders_delta, T.exceptional_leaders_delta_pct)
  /\ d.leadership = "EXPANDING"

\* classify_policy_session, signal by signal; a classified day is complete.
Severe(d) ==
  \/ d.severity = "severe"
  \/ d.participation = "COLLAPSING"
  \/ d.leadership \in {"COLLAPSING", "EXHAUSTED"}
Orderly(d) == d.participation \in {"STABLE", "EXPANDING"} /\ d.leadership \in {"HEALTHY", "EXPANDING"}

defensive_entry(d) ==
  \/ d.breadth < T.defensive_breadth_entry \/ d.leaders < T.defensive_leaders_entry
  \/ Severe(d)
defensive_exit(d) ==
  /\ d.breadth >= T.defensive_breadth_exit /\ d.leaders >= T.defensive_leaders_exit
  /\ ~Severe(d)
normal_entry(d) ==
  /\ d.index_bullish /\ Orderly(d) /\ ~Severe(d)
  /\ d.breadth > T.normal_breadth_entry /\ d.leaders > T.normal_leaders_entry
normal_exit(d) ==
  /\ d.index_above_ema200 /\ ~Severe(d)
  /\ d.breadth >= T.normal_breadth_exit /\ d.leaders >= T.normal_leaders_exit
aggressive_entry(d) ==
  /\ d.index_bullish /\ d.index_new_high /\ ~Severe(d)
  /\ d.breadth > T.aggressive_breadth_entry /\ d.leaders > T.aggressive_leaders_entry
  /\ d.participation = "EXPANDING" /\ d.leadership = "EXPANDING"
aggressive_exit(d) ==
  /\ d.index_above_ema200 /\ Orderly(d) /\ ~Severe(d)
  /\ d.breadth >= T.aggressive_breadth_exit /\ d.leaders >= T.aggressive_leaders_exit

-----------------------------------------------------------------------------
(* evaluate_policy_history: the state of the loop and one turn of it.      *)

NoMemory ==
  [ defensive |-> FALSE, normal |-> FALSE, aggressive |-> FALSE, streak |-> 0, age |-> None ]

\* Mutant: a session without entry quality pauses the streak.
StreakPauses(s, d) == IF normal_entry(d) THEN s.streak + 1 ELSE s.streak

Streak(s, d) == IF normal_entry(d) THEN s.streak + 1 ELSE 0

DefensiveActive(s, d) == defensive_entry(d) \/ (s.defensive /\ ~defensive_exit(d))

\* Mutant: once active it is never left.
NeverLeft(s, d) == s.normal \/ Streak(s, d) >= T.normal_confirmation_days

NormalActive(s, d) ==
  \/ s.normal /\ normal_exit(d)
  \/ Streak(s, d) >= T.normal_confirmation_days

\* Mutant: a strong day alone starts it.
AggressiveOnItsOwn(s, d) == (s.aggressive /\ aggressive_exit(d)) \/ aggressive_entry(d)

AggressiveActive(s, d) ==
  \/ s.aggressive /\ aggressive_exit(d)
  \/ NormalActive(s, d) /\ aggressive_entry(d)

\* Mutant: the retention is one session longer.
HeldTooLong(age, d) ==
  age <= T.exceptional_retention_sessions + 1 /\ normal_exit(d) /\ ~Severe(d)

Held(age, d) ==
  age <= T.exceptional_retention_sessions /\ normal_exit(d) /\ ~Severe(d)

ExceptionalAge(s, d) ==
  LET age == IF is_exceptional_recovery_session(d) THEN 0
             ELSE IF s.age = None THEN None ELSE s.age + 1
  IN  IF age # None /\ Held(age, d) THEN age ELSE None

PolicyDay(s, d) ==
  [ defensive |-> DefensiveActive(s, d), normal |-> NormalActive(s, d),
    aggressive |-> AggressiveActive(s, d), streak |-> Streak(s, d),
    age |-> ExceptionalAge(s, d) ]

-----------------------------------------------------------------------------
(* market_posture.py.  A headline is what the session itself shows: its    *)
(* descriptors p and l, breadth and leaders (0 without a universe) and the  *)
(* index of the last classified day.                                       *)

_base_state(h, policy) ==
  IF \/ h.p = "COLLAPSING" \/ h.l \in {"COLLAPSING", "EXHAUSTED"}
     \/ h.breadth < T.defensive_breadth_entry \/ h.leaders < T.defensive_leaders_entry
     \/ policy.defensive
  THEN "DEFENSIVO"
  ELSE IF policy.aggressive THEN "AGRESIVO"
  ELSE IF policy.normal THEN "NORMAL" ELSE "SELECTIVO"

\* Mutant: the ceiling of a repaired memory is granted, not only allowed.
CeilingGranted(base, health) ==
  IF health = "DAMAGED" /\ base = "DEFENSIVO" THEN "FUERA"
  ELSE IF health = "RECOVERING" THEN _HEALTH_CEILING[health]
  ELSE Least(base, _HEALTH_CEILING[health])

Capped(base, health) ==
  IF health = "DAMAGED" /\ base = "DEFENSIVO" THEN "FUERA"
  ELSE Least(base, _HEALTH_CEILING[health])

\* exceptional: of the last classified day; confirmations: the trailing ones.
compute_posture(h, health, policy, severe_days, confirmations, exceptional, not_paying) ==
  LET base == _base_state(h, policy)
      capped == Capped(base, health)
      protective == /\ health = "DAMAGED" /\ capped = "DEFENSIVO"
                    /\ base \notin {"DEFENSIVO", "FUERA"} /\ severe_days = 0
      recovers == /\ protective
                  /\ \/ exceptional \/ policy.age # None
                     \/ confirmations >= T.normal_confirmation_days
      state == IF recovers THEN "SELECTIVO" ELSE capped
  IN  [ state |-> IF not_paying THEN Least(state, "SELECTIVO") ELSE state,
        base |-> base, health |-> health ]
===============================================================================
