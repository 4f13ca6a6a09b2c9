---------------------------- MODULE TransitionRules ----------------------------
(***************************************************************************)
(* TransitionEngine: which operational transition a pair of daily metrics  *)
(* rows shows, and the gate of leaders it asks before it calls a setup.    *)
(*                                                                         *)
(* Distances to the averages are tenths of an ATR, volume and RS changes   *)
(* percents and points, tightness hundredths.                              *)
(***************************************************************************)
EXTENDS Integers, Sequences, FiniteSets, SequencesExt

(* A reading of the two rows: distances to EMA50, EMA21 and EMA9, their    *)
(* change since the previous row, the previous EMA21 distance, RS and its  *)
(* change, relative volume in hundredths and its change, tightness and its *)
(* change, and whether the Minervini gate (is_quality_leader) is passed.   *)

\* Missing numbers were replaced before: distances by 0, RS by 100, volume by 1.
Failing(m) == m.ema50 < -25 \/ (m.ema21 < -20 /\ m.d21 < -5)
Distribution(m) == m.ema21 < -8 /\ m.dvol > 25 /\ m.rs < 95 /\ m.drs < -3
Weakening(m) == m.drs < -2 /\ m.dvol > 15 /\ m.dtight < -10

FlushAndRecover(m) == m.leader /\ m.rvol > 150 /\ m.d21 > 3 /\ m.ema21 \in -25 .. -5
VolumeDryUp(m) == m.leader /\ m.dvol < -25 /\ m.ema21 \in -20 .. -4 /\ m.drs >= -1
Compressing(m) == m.leader /\ m.dtight > 8 /\ m.ema21 \in -20 .. -4 /\ m.dvol < 0
ApproachingEma9(m) == m.ema9 \in 1 .. 5 /\ m.d9 < 0
ApproachingEma21(m) == m.ema21 \in 1 .. 10 /\ m.d21 < 0
EnteringPullback(m) == m.leader /\ (ApproachingEma9(m) \/ ApproachingEma21(m))
SupportHolding(m) == m.leader /\ m.ema21 < 0 /\ m.ema50 \in -5 .. 2 /\ m.d21 > 1

Reclaiming(m) == m.ema21 \in -10 .. 2 /\ m.d21 > 2 /\ m.prev21 < 0
Coiling(m) ==
  /\ m.leader /\ m.ema21 \in 1 .. 15 /\ m.high52 >= -10
  /\ m.tight >= 37 /\ m.weeks >= 4 /\ m.dry /\ m.rvol < 90
Stabilizing(m) == m.leader /\ m.ema21 \in 0 .. 20 /\ m.tight >= 30 /\ m.dvol < 0
ContinuationHolding(m) == m.leader /\ m.ema9 >= 0 /\ m.ema21 \in 0 .. 15 /\ m.d21 >= 0

\* The conditions in the order the code asks them.
Cascade(m) ==
  << [label |-> "failing",              holds |-> Failing(m)],
     [label |-> "distribution",         holds |-> Distribution(m)],
     [label |-> "weakening",            holds |-> Weakening(m)],
     [label |-> "flush_and_recover",    holds |-> FlushAndRecover(m)],
     [label |-> "volume_dry_up",        holds |-> VolumeDryUp(m)],
     [label |-> "compressing",          holds |-> Compressing(m)],
     [label |-> "entering_pullback",    holds |-> EnteringPullback(m)],
     [label |-> "support_holding",      holds |-> SupportHolding(m)],
     [label |-> "reclaiming",           holds |-> Reclaiming(m)],
     [label |-> "breakout",             holds |-> Coiling(m)],
     [label |-> "stabilizing",          holds |-> Stabilizing(m)],
     [label |-> "continuation_holding", holds |-> ContinuationHolding(m)] >>

First(conditions) ==
  LET hits == {i \in DOMAIN conditions : conditions[i].holds}
  IN  IF hits = {} THEN "stable" ELSE conditions[Min(hits)].label

_determine_operational_transition(m) == First(Cascade(m))

-----------------------------------------------------------------------------
(* The Minervini gate, and the breakdown the emerging-leaders view shows of *)
(* it.  A number of the row may be missing (NoNumber).                      *)

CONSTANT NoNumber

ASSUME NoNumberAssumption == NoNumber \notin Int

Missing(x) == x = NoNumber

\* Mutant: the width of the 52-week range is never asked for.
RangeSkipped(q) ==
  /\ ~ \E x \in {q.perf, q.ema200, q.price, q.sma50, q.sma150, q.sma200, q.low, q.adr} :
       Missing(x)
  /\ q.low # 0
  /\ q.perf > 30 /\ q.price > q.ema200 /\ ~Missing(q.ema50) /\ q.ema50 > 0
  /\ q.sma50 > q.sma150 /\ 100 * q.sma150 > 101 * q.sma200
  /\ 10 * (q.price - q.low) >= 7 * q.low
  /\ q.adr >= 3

is_quality_leader(q) ==
  /\ ~ \E x \in {q.perf, q.ema200, q.price, q.sma50, q.sma150, q.sma200, q.low, q.adr} :
       Missing(x)
  /\ q.low # 0
  /\ Missing(q.high) \/ 10 * (q.high - q.low) >= 6 * q.low
  /\ q.perf > 30 /\ q.price > q.ema200 /\ ~Missing(q.ema50) /\ q.ema50 > 0
  /\ q.sma50 > q.sma150 /\ 100 * q.sma150 > 101 * q.sma200
  /\ 10 * (q.price - q.low) >= 7 * q.low
  /\ q.adr >= 3

\* The criteria the breakdown shows as passed.
evaluate_minervini_criteria(q) ==
  { c \in {"perf_1y_gt_30", "price_above_ema200", "price_above_ema50", "sma50_gt_sma150",
           "sma150_gt_sma200_x_101", "range_52w_gte_60pct", "price_above_low_gte_70pct",
           "adr_gte_3pct"} :
    CASE c = "perf_1y_gt_30"      -> ~Missing(q.perf) /\ q.perf > 30
      [] c = "price_above_ema200" -> ~Missing(q.price) /\ ~Missing(q.ema200) /\ q.price > q.ema200
      [] c = "price_above_ema50"  -> ~Missing(q.ema50) /\ q.ema50 > 0
      [] c = "sma50_gt_sma150"    -> ~Missing(q.sma50) /\ ~Missing(q.sma150) /\ q.sma50 > q.sma150
      [] c = "sma150_gt_sma200_x_101" ->
           ~Missing(q.sma150) /\ ~Missing(q.sma200) /\ 100 * q.sma150 > 101 * q.sma200
      [] c = "range_52w_gte_60pct" ->
           ~Missing(q.high) /\ ~Missing(q.low) /\ q.low > 0 /\ 10 * (q.high - q.low) >= 6 * q.low
      [] c = "price_above_low_gte_70pct" ->
           ~Missing(q.price) /\ ~Missing(q.low) /\ q.low > 0 /\ 10 * (q.price - q.low) >= 7 * q.low
      [] c = "adr_gte_3pct"       -> ~Missing(q.adr) /\ q.adr >= 3 }

-----------------------------------------------------------------------------
(* What the rules promise of any readings, and the values around each      *)
(* threshold on which the runs compare them.                               *)

Measured ==
  [ ema50 : Int, ema21 : Int, ema9 : Int, d21 : Int, d9 : Int, prev21 : Int, rs : Int,
    drs : Int, rvol : Int, dvol : Int, tight : Int, dtight : Int, weeks : Int, high52 : Int,
    dry : BOOLEAN, leader : BOOLEAN ]

Deteriorating == {"failing", "distribution", "weakening"}
Lower(x, y) == IF x < y THEN x ELSE y
Higher(x, y) == IF x > y THEN x ELSE y

\* One number of the reading gets worse.
Worse(m) ==
  {[m EXCEPT !.ema50 = Lower(@, -40)], [m EXCEPT !.ema21 = Lower(@, -25)],
   [m EXCEPT !.d21 = Lower(@, -10)], [m EXCEPT !.rs = Lower(@, 80)],
   [m EXCEPT !.drs = Lower(@, -10)], [m EXCEPT !.dvol = Higher(@, 40)],
   [m EXCEPT !.dtight = Lower(@, -20)]}

\* A stock that deteriorates is told to, whatever setup it shows besides, and
\* still is when one more of its numbers gets worse: no reading of a falling
\* leader is sold as the flush of a pullback.
DeteriorationWins(readings) ==
  \A m \in readings :
    (Failing(m) \/ Distribution(m) \/ Weakening(m)) =>
      /\ _determine_operational_transition(m) \in Deteriorating
      /\ \A w \in Worse(m) : _determine_operational_transition(w) \in Deteriorating

\* A row with its 52-week high; a price is never negative.
Rows ==
  LET MaybeInt == Int \cup {NoNumber}
      MaybePrice == Nat \cup {NoNumber}
  IN  [ perf : MaybeInt, price : MaybePrice, ema200 : MaybeInt, ema50 : MaybeInt,
        sma50 : MaybeInt, sma150 : MaybeInt, sma200 : MaybeInt, high : Nat, low : MaybePrice,
        adr : MaybeInt ]
SampleRows ==
  [ perf : {NoNumber, 30, 31}, price : {NoNumber, 16, 20}, ema200 : {NoNumber, 16},
    ema50 : {NoNumber, 0, 1}, sma50 : {NoNumber, 102, 103}, sma150 : {NoNumber, 101, 102},
    sma200 : {NoNumber, 100}, high : {15, 16, 17}, low : {NoNumber, 0, 10},
    adr : {NoNumber, 2, 3} ]

Criteria == {"perf_1y_gt_30", "price_above_ema200", "price_above_ema50", "sma50_gt_sma150",
             "sma150_gt_sma200_x_101", "range_52w_gte_60pct", "price_above_low_gte_70pct",
             "adr_gte_3pct"}

\* The breakdown is "Used by the emerging-leaders gate breakdown": of a row
\* with its 52-week high it shows eight passes exactly when the gate passes.
BreakdownIsGate(rows) ==
  \A q \in rows : is_quality_leader(q) <=> evaluate_minervini_criteria(q) = Criteria
================================================================================
