----------------------------- MODULE OutcomeRules -----------------------------
(***************************************************************************)
(* The rules that settle an observed transition and read the settled ones: *)
(* services/pullback_outcome.py, OutcomeTracker._classify_outcome and      *)
(* services/follow_through.py.                                             *)
(*                                                                         *)
(* Moves are integers: tenths of an ATR, tenths of a percent.              *)
(***************************************************************************)
EXTENDS Integers, Sequences, FiniteSets, SequencesExt

CONSTANT Window   \* PULLBACK_WINDOW_SESSIONS, sessions an outcome needs

ASSUME WindowAssumption == Window \in Nat \ {0}

PRE_RECLAIM == {"entering_pullback", "volume_dry_up", "compressing",
                "flush_and_recover", "support_holding"}
BREAKOUT == {"breakout"}
RECLAIM_CONT == {"reclaiming", "continuation_holding", "stabilizing"}
DETERIORATION == {"weakening", "distribution", "failing"}
BULLISH_TRANSITIONS == PRE_RECLAIM \cup BREAKOUT \cup RECLAIM_CONT

Verdicts == {"SUCCESS", "FAILURE", "NEUTRAL"}
Statuses == Verdicts \cup {"PENDING", "INSUFFICIENT_DATA"}

-----------------------------------------------------------------------------
(* Pullbacks.  A daily bar is what it says of the EMAs carried forward from *)
(* the detection: it breaks them (low at EMA50, close below EMA21), tests   *)
(* one and recovers, reaches the target with its close above EMA9, or its   *)
(* numbers are unusable.                                                    *)

BarKinds == {"flat", "dip", "rally", "swing", "break", "bad"}
Tests(b) == b \in {"dip", "swing"}
Resumes(b) == b \in {"rally", "swing"}

\* One bar of the loop: the first support session and whether a later bar
\* has resumed the advance.
ReadBar(reading, b) ==
  [ session   |-> reading.session + 1,
    support   |-> IF reading.support = 0 /\ Tests(b) THEN reading.session + 1
                  ELSE reading.support,
    continued |-> reading.continued \/ (reading.support # 0 /\ Resumes(b)),
    broken    |-> reading.broken \/ b = "break" ]

\* What the loop holds after each bar.
SessionReadings(bars) ==
  LET after[n \in 0 .. Len(bars)] ==
        IF n = 0 THEN [session |-> 0, support |-> 0, continued |-> FALSE, broken |-> FALSE]
        ELSE ReadBar(after[n - 1], bars[n])
  IN  after

classify_entering_pullback(bars) ==
  LET window == SubSeq(bars, 1, IF Len(bars) < Window THEN Len(bars) ELSE Window)
      reading == SessionReadings(window)[Len(window)]
  IN  IF "bad" \in ToSet(window) THEN "INSUFFICIENT_DATA"
      ELSE IF Len(window) < Window THEN "PENDING"
      ELSE IF reading.broken THEN "FAILURE"
      ELSE IF reading.continued THEN "SUCCESS" ELSE "NEUTRAL"

\* What openspec's entering-pullback-outcomes asks of a complete window: no
\* break, and a support test strictly before a session that resumes.
PullbackReference(bars) ==
  IF \E i \in 1 .. Window : bars[i] = "bad" THEN "INSUFFICIENT_DATA"
  ELSE IF \E i \in 1 .. Window : bars[i] = "break" THEN "FAILURE"
  ELSE IF \E i, j \in 1 .. Window : i < j /\ Tests(bars[i]) /\ Resumes(bars[j])
       THEN "SUCCESS" ELSE "NEUTRAL"

-----------------------------------------------------------------------------
(* Every other family is judged by the extremes of the window: gain and    *)
(* drawdown in tenths of an ATR, the move of five days in tenths of a      *)
(* percent, whether a close lost EMA50, and the extremes in percent.       *)

PreReclaimVerdict(x) ==
  IF x.broke_ema50 \/ x.drawdown < -30 THEN "FAILURE"
  ELSE IF x.gain >= 15 /\ x.drawdown > -25 THEN "SUCCESS" ELSE "NEUTRAL"

\* Mutant: the advance is asked for before the broken structure.
GainFirst(x) ==
  IF x.gain >= 15 THEN "SUCCESS"
  ELSE IF x.broke_ema50 \/ x.drawdown < -20 THEN "FAILURE" ELSE "NEUTRAL"

BreakoutVerdict(x) ==
  IF x.broke_ema50 \/ x.drawdown < -20 THEN "FAILURE"
  ELSE IF x.gain >= 15 /\ x.drawdown > -20 THEN "SUCCESS" ELSE "NEUTRAL"

ReclaimVerdict(x) ==
  IF x.pct_5d < -30 THEN "FAILURE"
  ELSE IF x.gain > 10 /\ x.drawdown > -15 THEN "SUCCESS" ELSE "NEUTRAL"

Magnitude(n) == IF n < 0 THEN -n ELSE n

DeteriorationVerdict(x) ==
  IF x.pct_5d > 30 THEN "FAILURE"
  ELSE IF x.drawdown_pct < -Magnitude(x.gain_pct) THEN "SUCCESS" ELSE "NEUTRAL"

_classify_outcome(type, x) ==
  CASE type \in PRE_RECLAIM   -> PreReclaimVerdict(x)
    [] type \in BREAKOUT      -> BreakoutVerdict(x)
    [] type \in RECLAIM_CONT  -> ReclaimVerdict(x)
    [] type \in DETERIORATION -> DeteriorationVerdict(x)
    [] OTHER                  -> "NEUTRAL"

-----------------------------------------------------------------------------
(* Follow-through: does the market pay recent signals?  Rates are compared *)
(* by cross-multiplication, deltas in percentage points.                   *)

FT_MIN_RESOLVED == 6
FT_MIN_BASELINE_RESOLVED == 30
FT_MIN_PROVISIONAL == 5

\* The five-day move of a pending observation; atr = 0 when it is missing.
classify_provisional(moveAtr, movePct, hasAtr) ==
  IF hasAtr
  THEN IF moveAtr <= -15 THEN "failing" ELSE IF moveAtr >= 10 THEN "on_track" ELSE "none"
  ELSE IF movePct <= -50 THEN "failing" ELSE IF movePct >= 40 THEN "on_track" ELSE "none"

Total(c) == c.success + c.failure + c.neutral

\* (delivery - baseline) * 100 against a threshold, without dividing.
DeltaAtLeast(c, base, pp) ==
  100 * (c.success * Total(base) - base.success * Total(c)) >= pp * Total(c) * Total(base)
DeltaAtMost(c, base, pp) ==
  100 * (c.success * Total(base) - base.success * Total(c)) <= pp * Total(c) * Total(base)

Confirmed(c, base) ==
  IF Total(base) >= FT_MIN_BASELINE_RESOLVED
  THEN IF DeltaAtLeast(c, base, 10) THEN "PAYING"
       ELSE IF DeltaAtMost(c, base, -15) THEN "NOT_PAYING" ELSE "MIXED"
  ELSE IF 100 * c.success >= 45 * Total(c) THEN "PAYING"
       ELSE IF 100 * c.success <= 25 * Total(c) THEN "NOT_PAYING" ELSE "MIXED"

Dying(onTrack, failing) ==
  /\ onTrack + failing >= FT_MIN_PROVISIONAL
  /\ 2 * failing >= onTrack + failing

\* Mutant: enough fresh signals on track certify a market that pays.
CertifiedByFresh(c, base, onTrack, failing) ==
  IF onTrack + failing >= FT_MIN_PROVISIONAL /\ failing = 0 THEN "PAYING"
  ELSE IF Total(c) >= FT_MIN_RESOLVED THEN Confirmed(c, base) ELSE "UNKNOWN"

classify_follow_through(c, base, onTrack, failing) ==
  IF Total(c) >= FT_MIN_RESOLVED
  THEN IF ~Dying(onTrack, failing) THEN Confirmed(c, base)
       ELSE IF Confirmed(c, base) = "PAYING" THEN "MIXED" ELSE "NOT_PAYING"
  ELSE IF onTrack + failing >= FT_MIN_PROVISIONAL
  THEN IF Dying(onTrack, failing) THEN "NOT_PAYING" ELSE "MIXED"
  ELSE "UNKNOWN"

-----------------------------------------------------------------------------
(* What the rules promise of any paths, moves and counts, and the values   *)
(* around each threshold on which the runs compare them.                   *)

Extremes ==
  [ broke_ema50 : BOOLEAN, gain : Int, drawdown : Int, pct_5d : Int,
    gain_pct : Int, drawdown_pct : Int ]
SampleExtremes ==
  [ broke_ema50 : BOOLEAN, gain : {5, 10, 11, 15}, drawdown : {-31, -25, -21, -20, -15, -5},
    pct_5d : {-31, 0, 31}, gain_pct : {10}, drawdown_pct : {-10} ]

\* How good a verdict or a descriptor is.
Rank(v) == CASE v \in {"FAILURE", "NOT_PAYING"} -> 0 [] v \in {"NEUTRAL", "MIXED"} -> 1
             [] OTHER -> 2

Better(x, y) ==
  /\ x.broke_ema50 => y.broke_ema50
  /\ x.gain >= y.gain /\ x.drawdown >= y.drawdown /\ x.pct_5d >= y.pct_5d

\* In every bullish family a path that gains more and gives back less, with
\* its structure no worse, is never judged worse, and a breakout, which has
\* left its base, is never judged better than a setup below it would be.
FamiliesOrdered(paths) ==
  /\ \A type \in BULLISH_TRANSITIONS, x, y \in paths :
       Better(x, y) => Rank(_classify_outcome(type, x)) >= Rank(_classify_outcome(type, y))
  /\ \A type \in PRE_RECLAIM, x \in paths :
       Rank(_classify_outcome("breakout", x)) <= Rank(_classify_outcome(type, x))

Counts == [success : Nat, failure : Nat, neutral : Nat]
Count(s, f, n) == [success |-> s, failure |-> f, neutral |-> n]
SampleCounts == [success : 0 .. 7, failure : 0 .. 4, neutral : 0 .. 4]
SampleBaselines == {Count(0, 0, 0), Count(15, 10, 4), Count(15, 10, 5), Count(3, 27, 0)}
SampleMoves == {-51, -50, -15, -14, 0, 9, 10, 40}

\* Whether a fresh signal counts as on track or as failing follows its move, in
\* ATR and in percent alike.
ProvisionalFollows(moves) ==
  \A x, y \in moves, hasAtr \in BOOLEAN :
    x <= y => /\ classify_provisional(y, y, hasAtr) = "failing" =>
                   classify_provisional(x, x, hasAtr) = "failing"
              /\ classify_provisional(x, x, hasAtr) = "on_track" =>
                   classify_provisional(y, y, hasAtr) = "on_track"

\* follow_through.py: the provisional layer "can only downgrade" and never
\* certifies PAYING by itself; and the descriptor follows its evidence: a
\* failure that had been a success, or a fresh signal that fails instead of
\* being on track, never raises it.
FollowThroughFollows(counts, baselines, fresh) ==
  \A c \in counts, base \in baselines, on, bad \in fresh :
    LET told == classify_follow_through(c, base, on, bad)
    IN  told # "UNKNOWN" =>
          /\ told = "PAYING" => Total(c) >= FT_MIN_RESOLVED
          /\ Total(c) >= FT_MIN_RESOLVED =>
               Rank(told) <= Rank(classify_follow_through(c, base, 0, 0))
          /\ c.success > 0 =>
               Rank(classify_follow_through(Count(c.success - 1, c.failure + 1, c.neutral),
                                            base, on, bad)) <= Rank(told)
          /\ on > 0 => Rank(classify_follow_through(c, base, on - 1, bad + 1)) <= Rank(told)
===============================================================================
