---------------------------- MODULE Outcomes_proofs ----------------------------
(***************************************************************************)
(* Proofs about the outcomes of observed transitions.  First the rules of  *)
(* OutcomeRules and TransitionRules for every input: what the loop over a  *)
(* pullback's bars computes, how the verdicts of the families compare,     *)
(* what the follow-through descriptor may do, which transition the cascade *)
(* of patterns names and what the gate and its breakdown share.  Then      *)
(* Outcomes, for any universe, calendar, number of scans and overlapping   *)
(* jobs: every observation carries the regime of its own date, every       *)
(* verdict of a pullback stands on sessions that were over, as the table   *)
(* held them at some moment; and what the rules promise, in every run.     *)
(***************************************************************************)
EXTENDS Outcomes, Induction_proofs

-----------------------------------------------------------------------------
(* The loop over the bars. *)

Reading == [session : Nat, support : Nat, continued : BOOLEAN, broken : BOOLEAN]
NothingRead == [session |-> 0, support |-> 0, continued |-> FALSE, broken |-> FALSE]

LEMMA ReadBarType ==
  ASSUME NEW r \in Reading, NEW b
  PROVE  ReadBar(r, b) \in Reading
BY DEF Reading, ReadBar, Resumes

(* What the loop holds after each bar is what it held before, and that bar. *)
LEMMA ReadingsCourse ==
  ASSUME NEW bars \in Seq(BarKinds)
  PROVE  /\ SessionReadings(bars) \in [0 .. Len(bars) -> Reading]
         /\ SessionReadings(bars)[0] = NothingRead
         /\ \A n \in 1 .. Len(bars) :
              SessionReadings(bars)[n] = ReadBar(SessionReadings(bars)[n - 1], bars[n])
<1>. DEFINE N == Len(bars)
            turn == [n \in 1 .. N |-> [r \in Reading |-> ReadBar(r, bars[n])]]
            Whole(f) == f = [n \in 0 .. N |-> IF n = 0 THEN NothingRead
                                              ELSE ReadBar(f[n - 1], bars[n])]
<1>1. N \in Nat /\ NothingRead \in Reading
  BY DEF NothingRead, Reading
<1>2. turn \in [1 .. N -> [Reading -> Reading]]
  BY ReadBarType
<1>3. PICK f : Course(f, N, Reading, NothingRead, turn)
  <2>. HIDE DEF turn, N
  <2>. QED  BY <1>1, <1>2, CourseExists
<1>3a. /\ f \in [0 .. N -> Reading] /\ f[0] = NothingRead
       /\ \A n \in 1 .. N : f[n] = turn[n][f[n - 1]]
  BY <1>3 DEF Course
<1>4. ASSUME NEW n \in 1 .. N PROVE f[n] = ReadBar(f[n - 1], bars[n])
  <2>1. f[n - 1] \in Reading
    BY <1>1, <1>3a
  <2>. QED  BY <1>3a, <2>1
<1>5. Whole(f)
  <2>. DEFINE g == [n \in 0 .. N |-> IF n = 0 THEN NothingRead ELSE ReadBar(f[n - 1], bars[n])]
  <2>1. ASSUME NEW n \in 0 .. N PROVE f[n] = g[n]
    BY <1>1, <1>3a, <1>4
  <2>. QED  BY <1>3a, <2>1
<1>6. SessionReadings(bars) = CHOOSE h : Whole(h)
  BY DEF SessionReadings, NothingRead
<1>. DEFINE r == SessionReadings(bars)
<1>7. Whole(r)
  BY <1>5, <1>6
<1>. HIDE DEF r
<1>8. /\ DOMAIN r = 0 .. N /\ r[0] = NothingRead
      /\ \A n \in 1 .. N : r[n] = ReadBar(r[n - 1], bars[n])
  BY <1>1, <1>7
<1>. DEFINE P == {n \in 0 .. N : r[n] \in Reading}
<1>9. 0 .. N \subseteq P
  <2>1. 0 \in P
    BY <1>1, <1>8
  <2>2. ASSUME NEW n \in 0 .. N - 1, n \in P PROVE n + 1 \in P
    <3>1. n + 1 \in 1 .. N /\ n + 1 - 1 = n
      BY <1>1
    <3>. QED  BY <1>8, <2>2, <3>1, ReadBarType
  <2>. HIDE DEF P, N
  <2>. QED  BY <1>1, <2>1, <2>2, UpwardInduction
<1>10. r = [n \in 0 .. N |-> r[n]] /\ \A n \in 0 .. N : r[n] \in Reading
  BY <1>7, <1>9
<1>11. r \in [0 .. N -> Reading]
  BY <1>10
<1>. QED  BY <1>8, <1>11 DEF r

(* What has been read after n bars. *)
ReadSoFar(r, bars, n) ==
  /\ r.session = n
  /\ r.support # 0 <=> \E i \in 1 .. n : Tests(bars[i])
  /\ r.continued <=> \E i, j \in 1 .. n : i < j /\ Tests(bars[i]) /\ Resumes(bars[j])
  /\ r.broken <=> \E i \in 1 .. n : bars[i] = "break"

LEMMA ReadingMeans ==
  ASSUME NEW bars \in Seq(BarKinds)
  PROVE  \A n \in 0 .. Len(bars) : ReadSoFar(SessionReadings(bars)[n], bars, n)
<1>. DEFINE r == SessionReadings(bars)
            N == Len(bars)
            P == {n \in 0 .. N : ReadSoFar(r[n], bars, n)}
<1>1. /\ N \in Nat /\ r \in [0 .. N -> Reading] /\ r[0] = NothingRead
      /\ \A n \in 1 .. N : r[n] = ReadBar(r[n - 1], bars[n])
  BY ReadingsCourse
<1>. HIDE DEF r
<1>2. 0 \in P
  BY <1>1 DEF ReadSoFar, NothingRead
<1>3. ASSUME NEW n \in 0 .. N - 1, n \in P PROVE n + 1 \in P
  <2>. DEFINE old == r[n]
              b == bars[n + 1]
              new == r[n + 1]
  <2>1. n \in Nat /\ n + 1 \in 1 .. N /\ n + 1 - 1 = n /\ n \in 0 .. N
    BY <1>1
  <2>2. new = ReadBar(old, b) /\ old \in Reading
    BY <1>1, <2>1
  <2>3. ReadSoFar(old, bars, n)
    BY <1>3
  <2>4. /\ new.session = n + 1
        /\ new.support = IF old.support = 0 /\ Tests(b) THEN n + 1 ELSE old.support
        /\ new.continued = (old.continued \/ (old.support # 0 /\ Resumes(b)))
        /\ new.broken = (old.broken \/ b = "break")
    BY <2>2, <2>3 DEF ReadBar, ReadSoFar
  <2>5. \A i \in 1 .. n + 1 : i \in 1 .. n \/ i = n + 1
    BY <2>1
  <2>6. 1 .. n \subseteq 1 .. n + 1 /\ n + 1 \in 1 .. n + 1
    BY <2>1
  <2>. HIDE DEF new, old, b
  <2>7. new.support # 0 <=> \E i \in 1 .. n + 1 : Tests(bars[i])
    <3>1. new.support # 0 <=> old.support # 0 \/ Tests(b)
      BY <2>1, <2>4
    <3>2. old.support # 0 <=> \E i \in 1 .. n : Tests(bars[i])
      BY <2>3 DEF ReadSoFar
    <3>. QED  BY <3>1, <3>2, <2>5, <2>6 DEF b
  <2>8. new.broken <=> \E i \in 1 .. n + 1 : bars[i] = "break"
    <3>1. old.broken <=> \E i \in 1 .. n : bars[i] = "break"
      BY <2>3 DEF ReadSoFar
    <3>. QED  BY <2>4, <3>1, <2>5, <2>6 DEF b
  <2>9. new.continued <=> \E i, j \in 1 .. n + 1 : i < j /\ Tests(bars[i]) /\ Resumes(bars[j])
    <3>1. old.continued <=> \E i, j \in 1 .. n : i < j /\ Tests(bars[i]) /\ Resumes(bars[j])
      BY <2>3 DEF ReadSoFar
    <3>2. old.support # 0 <=> \E i \in 1 .. n : Tests(bars[i])
      BY <2>3 DEF ReadSoFar
    <3>3. \A i, j \in 1 .. n + 1 : i < j => i \in 1 .. n
      BY <2>1
    <3>4. \A i \in 1 .. n : i < n + 1
      BY <2>1
    <3>5. ASSUME new.continued
          PROVE  \E i, j \in 1 .. n + 1 : i < j /\ Tests(bars[i]) /\ Resumes(bars[j])
      BY <3>5, <2>4, <3>1, <3>2, <3>4, <2>6 DEF b
    <3>6. ASSUME NEW i \in 1 .. n + 1, NEW j \in 1 .. n + 1,
                 i < j, Tests(bars[i]), Resumes(bars[j])
          PROVE  new.continued
      <4>1. i \in 1 .. n
        BY <3>3, <3>6
      <4>2. CASE j = n + 1
        BY <2>4, <3>2, <3>6, <4>1, <4>2 DEF b
      <4>3. CASE j \in 1 .. n
        BY <2>4, <3>1, <3>6, <4>1, <4>3
      <4>. QED  BY <2>5, <4>2, <4>3
    <3>. QED  BY <3>5, <3>6
  <2>10. ReadSoFar(new, bars, n + 1)
    BY <2>4, <2>7, <2>8, <2>9 DEF ReadSoFar
  <2>11. n + 1 \in 0 .. N
    BY <2>1
  <2>. QED  BY <2>10, <2>11 DEF new
<1>4. 0 .. N \subseteq P
  <2>. HIDE DEF P, N
  <2>. QED  BY <1>1, <1>2, <1>3, UpwardInduction
<1>. QED  BY <1>4 DEF r

(* The first bars of a long enough history. *)
LEMMA FirstBars ==
  ASSUME NEW bars \in Seq(BarKinds), Len(bars) >= Window
  PROVE  /\ SubSeq(bars, 1, Window) \in Seq(BarKinds)
         /\ SubSeq(bars, 1, Window) \in [1 .. Window -> BarKinds]
         /\ Len(SubSeq(bars, 1, Window)) = Window
         /\ \A i \in 1 .. Window : SubSeq(bars, 1, Window)[i] = bars[i]
<1>1. Window \in Nat /\ Window >= 1 /\ Len(bars) \in Nat
  BY WindowAssumption
<1>2. /\ SubSeq(bars, 1, Window) \in Seq(BarKinds)
      /\ Len(SubSeq(bars, 1, Window)) = Window
      /\ \A i \in 1 .. Window : SubSeq(bars, 1, Window)[i] = bars[i]
  BY <1>1
<1>3. ASSUME NEW w \in Seq(BarKinds), Len(w) = Window PROVE w \in [1 .. Window -> BarKinds]
  BY <1>1, <1>3
<1>. QED  BY <1>2, <1>3

(* The reference looks no further than the window. *)
LEMMA ReferenceOfFirstBars ==
  ASSUME NEW bars \in Seq(BarKinds), Len(bars) >= Window
  PROVE  PullbackReference(SubSeq(bars, 1, Window)) = PullbackReference(bars)
<1>. DEFINE w == SubSeq(bars, 1, Window)
<1>1. \A i \in 1 .. Window : w[i] = bars[i]
  BY FirstBars
<1>. HIDE DEF w
<1>. QED  BY <1>1 DEF PullbackReference, w

(* The verdict is that of the loop over the first bars. *)
WindowVerdict(w) ==
  LET reading == SessionReadings(w)[Window]
  IN  IF "bad" \in ToSet(w) THEN "INSUFFICIENT_DATA"
      ELSE IF reading.broken THEN "FAILURE"
      ELSE IF reading.continued THEN "SUCCESS" ELSE "NEUTRAL"

LEMMA VerdictOfWindow ==
  ASSUME NEW bars \in Seq(BarKinds), Len(bars) >= Window
  PROVE  classify_entering_pullback(bars) = WindowVerdict(SubSeq(bars, 1, Window))
<1>1. (IF Len(bars) < Window THEN Len(bars) ELSE Window) = Window
  <2>1. Len(bars) \in Nat /\ Window \in Nat
    BY WindowAssumption
  <2>. QED  BY <2>1
<1>. DEFINE w == SubSeq(bars, 1, Window)
<1>2. Len(w) = Window /\ Window \in Nat
  BY FirstBars, WindowAssumption
<1>. HIDE DEF w
<1>3. ~ (Len(w) < Window)
  BY <1>2
<1>. QED  BY <1>1, <1>2, <1>3 DEF classify_entering_pullback, WindowVerdict, w

(* The loop over a complete window, which keeps only the first support session *)
(* and flags, gives the verdict the specification of pullback outcomes asks    *)
(* for, whatever the window's length and bars (classify_entering_pullback).    *)
THEOREM PullbackRuleMeetsReference ==
  ASSUME NEW bars \in Seq(BarKinds), Len(bars) >= Window
  PROVE  /\ classify_entering_pullback(bars) = PullbackReference(bars)
         /\ classify_entering_pullback(bars) =
              classify_entering_pullback(SubSeq(bars, 1, Window))
<1>. DEFINE w == SubSeq(bars, 1, Window)
            reading == SessionReadings(w)[Window]
            verdict == WindowVerdict(w)
<1>1. /\ w \in Seq(BarKinds) /\ w \in [1 .. Window -> BarKinds] /\ Len(w) = Window
      /\ \A i \in 1 .. Window : w[i] = bars[i]
      /\ Window \in Nat
  BY FirstBars, WindowAssumption
<1>2. SubSeq(w, 1, Window) = w
  <2>1. /\ SubSeq(w, 1, Window) \in [1 .. Window -> BarKinds]
        /\ \A i \in 1 .. Window : SubSeq(w, 1, Window)[i] = w[i]
    <3>. HIDE DEF w
    <3>1. Len(w) >= Window
      BY <1>1
    <3>. QED  BY <1>1, <3>1, FirstBars
  <2>. QED  BY <1>1, <2>1
<1>3. classify_entering_pullback(bars) = verdict
  BY <1>1, VerdictOfWindow DEF WindowVerdict
<1>4. classify_entering_pullback(w) = verdict
  <2>1. Len(w) >= Window
    BY <1>1
  <2>. HIDE DEF w
  <2>2. classify_entering_pullback(w) = WindowVerdict(SubSeq(w, 1, Window))
    BY <1>1, <2>1, VerdictOfWindow
  <2>. QED  BY <1>2, <2>2 DEF WindowVerdict
<1>. HIDE DEF w
<1>5. ReadSoFar(reading, w, Window)
  BY <1>1, ReadingMeans
<1>6. "bad" \in ToSet(w) <=> \E i \in 1 .. Window : w[i] = "bad"
  BY <1>1 DEF ToSet
<1>7. verdict = PullbackReference(w)
  <2>1. reading.broken \in BOOLEAN /\ reading.continued \in BOOLEAN
    <3>1. SessionReadings(w)[Window] \in Reading
      BY <1>1, ReadingsCourse
    <3>. QED  BY <3>1 DEF Reading
  <2>2. verdict = IF "bad" \in ToSet(w) THEN "INSUFFICIENT_DATA"
                  ELSE IF reading.broken THEN "FAILURE"
                  ELSE IF reading.continued THEN "SUCCESS" ELSE "NEUTRAL"
    BY DEF WindowVerdict
  <2>. HIDE DEF reading, verdict
  <2>. QED  BY <1>5, <1>6, <2>1, <2>2 DEF PullbackReference, ReadSoFar
<1>. QED  BY <1>3, <1>4, <1>7, ReferenceOfFirstBars DEF w

-----------------------------------------------------------------------------
(* The other families. *)

LEMMA RankOfVerdicts ==
  Rank("FAILURE") = 0 /\ Rank("NOT_PAYING") = 0 /\ Rank("NEUTRAL") = 1 /\ Rank("MIXED") = 1
  /\ Rank("SUCCESS") = 2 /\ Rank("PAYING") = 2
BY DEF Rank

LEMMA FamilyOfLabel ==
  ASSUME NEW x
  PROVE  /\ \A type \in PRE_RECLAIM : _classify_outcome(type, x) = PreReclaimVerdict(x)
         /\ \A type \in BREAKOUT : _classify_outcome(type, x) = BreakoutVerdict(x)
         /\ \A type \in RECLAIM_CONT : _classify_outcome(type, x) = ReclaimVerdict(x)
BY DEF _classify_outcome, PRE_RECLAIM, BREAKOUT, RECLAIM_CONT, DETERIORATION

(* For every pair of paths, whatever their extremes: the thresholds of each *)
(* family are ordered as the paths are (_classify_outcome).                 *)
THEOREM FamiliesAlwaysOrdered == FamiliesOrdered(Extremes)
<1>1. ASSUME NEW type \in BULLISH_TRANSITIONS, NEW x \in Extremes, NEW y \in Extremes, Better(x, y)
      PROVE  Rank(_classify_outcome(type, x)) >= Rank(_classify_outcome(type, y))
  <2>1. /\ x.broke_ema50 \in BOOLEAN /\ y.broke_ema50 \in BOOLEAN
        /\ x.gain \in Int /\ y.gain \in Int /\ x.drawdown \in Int /\ y.drawdown \in Int
        /\ x.pct_5d \in Int /\ y.pct_5d \in Int
    BY DEF Extremes
  <2>2. CASE type \in PRE_RECLAIM
    <3>1. Rank(PreReclaimVerdict(x)) >= Rank(PreReclaimVerdict(y))
      BY <1>1, <2>1, RankOfVerdicts DEF Better, PreReclaimVerdict
    <3>. QED  BY <2>2, <3>1, FamilyOfLabel
  <2>3. CASE type \in BREAKOUT
    <3>1. Rank(BreakoutVerdict(x)) >= Rank(BreakoutVerdict(y))
      BY <1>1, <2>1, RankOfVerdicts DEF Better, BreakoutVerdict
    <3>. QED  BY <2>3, <3>1, FamilyOfLabel
  <2>4. CASE type \in RECLAIM_CONT
    <3>1. Rank(ReclaimVerdict(x)) >= Rank(ReclaimVerdict(y))
      BY <1>1, <2>1, RankOfVerdicts DEF Better, ReclaimVerdict
    <3>. QED  BY <2>4, <3>1, FamilyOfLabel
  <2>. QED  BY <1>1, <2>2, <2>3, <2>4 DEF BULLISH_TRANSITIONS
<1>2. ASSUME NEW type \in PRE_RECLAIM, NEW x \in Extremes
      PROVE  Rank(_classify_outcome("breakout", x)) <= Rank(_classify_outcome(type, x))
  <2>1. x.gain \in Int /\ x.drawdown \in Int /\ x.broke_ema50 \in BOOLEAN
    BY DEF Extremes
  <2>2. Rank(BreakoutVerdict(x)) <= Rank(PreReclaimVerdict(x))
    BY <2>1, RankOfVerdicts DEF BreakoutVerdict, PreReclaimVerdict
  <2>. QED  BY <2>2, FamilyOfLabel DEF BREAKOUT
<1>. QED  BY <1>1, <1>2 DEF FamiliesOrdered

-----------------------------------------------------------------------------
(* Follow-through. *)

LEMMA TotalType ==
  ASSUME NEW c \in Counts
  PROVE  Total(c) \in Nat /\ c.success \in Nat /\ c.failure \in Nat /\ c.neutral \in Nat
BY DEF Counts, Total

(* Products compared without dividing. *)
LEMMA LessPaid ==
  ASSUME NEW s \in Int, NEW t \in Int, NEW B \in Nat, NEW x \in Int, NEW pp \in Int, s <= t
  PROVE  100 * (s * B - x) <= 100 * (t * B - x)
<1>1. s * B <= t * B
  <2>1. (t - s) * B >= 0
    <3>1. t - s \in Nat
      OBVIOUS
    <3>2. \A u, v \in Nat : u * v >= 0
      OBVIOUS
    <3>. QED  BY <3>1, <3>2
  <2>2. (t - s) * B = t * B - s * B
    OBVIOUS
  <2>3. t * B \in Int /\ s * B \in Int
    OBVIOUS
  <2>. QED  BY <2>1, <2>2, <2>3
<1>2. s * B \in Int /\ t * B \in Int
  OBVIOUS
<1>. DEFINE p == s * B
            q == t * B
<1>. HIDE DEF p, q
<1>3. p \in Int /\ q \in Int /\ p <= q
  BY <1>1, <1>2 DEF p, q
<1>4. 100 * (p - x) <= 100 * (q - x)
  BY <1>3
<1>. QED  BY <1>4 DEF p, q

LEMMA GradesFollow ==
  ASSUME NEW high \in BOOLEAN, NEW low \in BOOLEAN, NEW high2 \in BOOLEAN, NEW low2 \in BOOLEAN,
         high2 => high, low => low2
  PROVE  Rank(IF high2 THEN "PAYING" ELSE IF low2 THEN "NOT_PAYING" ELSE "MIXED")
           <= Rank(IF high THEN "PAYING" ELSE IF low THEN "NOT_PAYING" ELSE "MIXED")
BY RankOfVerdicts

(* One success turned into a failure never makes a paying market of one that *)
(* was not.                                                                  *)
LEMMA ConfirmedFollows ==
  ASSUME NEW c \in Counts, NEW base \in Counts, c.success > 0
  PROVE  Rank(Confirmed(Count(c.success - 1, c.failure + 1, c.neutral), base))
           <= Rank(Confirmed(c, base))
<1>. DEFINE d == Count(c.success - 1, c.failure + 1, c.neutral)
            T == Total(c)
            B == Total(base)
            x == base.success * T
<1>1. T \in Nat /\ B \in Nat /\ c.success \in Nat /\ c.failure \in Nat /\ c.neutral \in Nat
      /\ base.success \in Nat /\ x \in Int
  BY TotalType
<1>2. d.success = c.success - 1 /\ Total(d) = T
  BY <1>1 DEF Count, Total
<1>3. 100 * (d.success * B - x) <= 100 * (c.success * B - x)
  <2>1. d.success \in Int /\ c.success \in Int /\ d.success <= c.success
    BY <1>1, <1>2
  <2>. HIDE DEF d, T, B, x
  <2>. QED  BY <1>1, <2>1, LessPaid
<1>4. DeltaAtLeast(d, base, 10) => DeltaAtLeast(c, base, 10)
  <2>. DEFINE low == 100 * (d.success * B - x)
              high == 100 * (c.success * B - x)
              mark == 10 * T * B
  <2>1. low \in Int /\ high \in Int /\ mark \in Int
    BY <1>1, <1>2
  <2>2. (DeltaAtLeast(d, base, 10) <=> low >= mark) /\ (DeltaAtLeast(c, base, 10) <=> high >= mark)
    BY <1>2 DEF DeltaAtLeast
  <2>. HIDE DEF low, high, mark
  <2>3. low <= high
    BY <1>3 DEF low, high
  <2>. QED  BY <2>1, <2>2, <2>3
<1>5. DeltaAtMost(c, base, -15) => DeltaAtMost(d, base, -15)
  <2>. DEFINE low == 100 * (d.success * B - x)
              high == 100 * (c.success * B - x)
              mark == (-15) * T * B
  <2>1. low \in Int /\ high \in Int /\ mark \in Int
    BY <1>1, <1>2
  <2>2. (DeltaAtMost(d, base, -15) <=> low <= mark) /\ (DeltaAtMost(c, base, -15) <=> high <= mark)
    BY <1>2 DEF DeltaAtMost
  <2>. HIDE DEF low, high, mark
  <2>3. low <= high
    BY <1>3 DEF low, high
  <2>. QED  BY <2>1, <2>2, <2>3
<1>6. /\ 100 * d.success >= 45 * Total(d) => 100 * c.success >= 45 * Total(c)
      /\ 100 * c.success <= 25 * Total(c) => 100 * d.success <= 25 * Total(d)
  <2>. HIDE DEF d, T
  <2>. QED  BY <1>1, <1>2 DEF T
<1>7. CASE B >= FT_MIN_BASELINE_RESOLVED
  <2>. DEFINE G(e) == IF DeltaAtLeast(e, base, 10) THEN "PAYING"
                      ELSE IF DeltaAtMost(e, base, -15) THEN "NOT_PAYING" ELSE "MIXED"
  <2>1. Confirmed(c, base) = G(c) /\ Confirmed(d, base) = G(d)
    BY <1>7 DEF Confirmed
  <2>2. Rank(G(d)) <= Rank(G(c))
    <3>1. \A e : DeltaAtLeast(e, base, 10) \in BOOLEAN /\ DeltaAtMost(e, base, -15) \in BOOLEAN
      BY DEF DeltaAtLeast, DeltaAtMost
    <3>. HIDE DEF d
    <3>. QED  BY <1>4, <1>5, <3>1, GradesFollow
  <2>. HIDE DEF G
  <2>. QED  BY <2>1, <2>2
<1>8. CASE ~ (B >= FT_MIN_BASELINE_RESOLVED)
  <2>. DEFINE pays(e) == 100 * e.success >= 45 * Total(e)
              fails(e) == 100 * e.success <= 25 * Total(e)
              G(e) == IF pays(e) THEN "PAYING" ELSE IF fails(e) THEN "NOT_PAYING" ELSE "MIXED"
  <2>1. Confirmed(c, base) = G(c) /\ Confirmed(d, base) = G(d)
    BY <1>8 DEF Confirmed
  <2>2. Rank(G(d)) <= Rank(G(c))
    <3>1. \A e : pays(e) \in BOOLEAN /\ fails(e) \in BOOLEAN
      OBVIOUS
    <3>2. (pays(d) => pays(c)) /\ (fails(c) => fails(d))
      BY <1>6
    <3>. HIDE DEF pays, fails, d
    <3>. QED  BY <3>1, <3>2, GradesFollow
  <2>. HIDE DEF G
  <2>. QED  BY <2>1, <2>2
<1>. QED  BY <1>7, <1>8

LEMMA DescriptorRanks ==
  ASSUME NEW c, NEW base
  PROVE  Rank(Confirmed(c, base)) \in 0 .. 2
         /\ (Rank(Confirmed(c, base)) = 2 <=> Confirmed(c, base) = "PAYING")
BY RankOfVerdicts DEF Confirmed

(* Every evidence, whatever the counts and the baseline: fresh signals only  *)
(* downgrade and never certify a paying market, and worse evidence never     *)
(* raises the descriptor (classify_follow_through, classify_provisional).    *)
THEOREM FollowThroughAlwaysFollows ==
  ProvisionalFollows(Int) /\ FollowThroughFollows(Counts, Counts, Nat)
<1>1. ProvisionalFollows(Int)
  BY DEF ProvisionalFollows, classify_provisional
<1>2. ASSUME NEW c \in Counts, NEW base \in Counts, NEW on \in Nat, NEW bad \in Nat,
             classify_follow_through(c, base, on, bad) # "UNKNOWN"
      PROVE  LET told == classify_follow_through(c, base, on, bad)
             IN  /\ told = "PAYING" => Total(c) >= FT_MIN_RESOLVED
                 /\ Total(c) >= FT_MIN_RESOLVED =>
                      Rank(told) <= Rank(classify_follow_through(c, base, 0, 0))
                 /\ c.success > 0 =>
                      Rank(classify_follow_through(Count(c.success - 1, c.failure + 1, c.neutral),
                                                   base, on, bad)) <= Rank(told)
                 /\ on > 0 =>
                      Rank(classify_follow_through(c, base, on - 1, bad + 1)) <= Rank(told)
  <2>. DEFINE told == classify_follow_through(c, base, on, bad)
              d == Count(c.success - 1, c.failure + 1, c.neutral)
              firm == Confirmed(c, base)
              full == Total(c) >= FT_MIN_RESOLVED
              lowered == IF firm = "PAYING" THEN "MIXED" ELSE "NOT_PAYING"
  <2>1. /\ full => told = IF Dying(on, bad) THEN lowered ELSE firm
        /\ ~full => told = IF Dying(on, bad) THEN "NOT_PAYING" ELSE "MIXED"
        /\ ~full => on + bad >= FT_MIN_PROVISIONAL
    BY <1>2 DEF classify_follow_through
  <2>2. /\ Rank(firm) \in 0 .. 2 /\ (Rank(firm) = 2 <=> firm = "PAYING")
        /\ Rank(lowered) = IF firm = "PAYING" THEN 1 ELSE 0
    BY DescriptorRanks, RankOfVerdicts
  <2>3. ~Dying(0, 0)
    BY DEF Dying, FT_MIN_PROVISIONAL
  <2>4. Total(c) \in Nat /\ c.success \in Nat /\ c.failure \in Nat /\ c.neutral \in Nat
    BY TotalType
  <2>5. told = "PAYING" => full
    BY <2>1
  <2>6. full => Rank(told) <= Rank(classify_follow_through(c, base, 0, 0))
    <3>1. full => classify_follow_through(c, base, 0, 0) = firm
      BY <2>3 DEF classify_follow_through
    <3>. HIDE DEF told, firm, lowered, full
    <3>. QED  BY <2>1, <2>2, <3>1
  <2>7. ASSUME c.success > 0 PROVE Rank(classify_follow_through(d, base, on, bad)) <= Rank(told)
    <3>1. Total(d) = Total(c)
      BY <2>4 DEF Count, Total
    <3>. DEFINE weak == Confirmed(d, base)
                fell == IF weak = "PAYING" THEN "MIXED" ELSE "NOT_PAYING"
                next == classify_follow_through(d, base, on, bad)
    <3>2. /\ Rank(weak) <= Rank(firm) /\ Rank(weak) \in 0 .. 2
          /\ (Rank(weak) = 2 <=> weak = "PAYING")
          /\ Rank(fell) = IF weak = "PAYING" THEN 1 ELSE 0
      BY <2>7, ConfirmedFollows, DescriptorRanks, RankOfVerdicts
    <3>3. /\ full => next = IF Dying(on, bad) THEN fell ELSE weak
          /\ ~full => next = told
      BY <3>1 DEF classify_follow_through
    <3>4. ~full => told \in {"NOT_PAYING", "MIXED"}
      BY <2>1
    <3>. SUFFICES Rank(next) <= Rank(told)
      OBVIOUS
    <3>. HIDE DEF told, firm, lowered, full, weak, fell, next, d
    <3>5. CASE full
      <4>1. CASE Dying(on, bad)
        <5>1. told = lowered /\ next = fell /\ (weak = "PAYING" => firm = "PAYING")
          BY <2>1, <2>2, <3>2, <3>3, <3>5, <4>1
        <5>2. Rank(fell) <= Rank(lowered)
          BY <2>2, <3>2, <5>1
        <5>. QED  BY <5>1, <5>2
      <4>2. CASE ~Dying(on, bad)
        BY <2>1, <3>2, <3>3, <3>5, <4>2
      <4>. QED  BY <4>1, <4>2
    <3>6. CASE ~full
      <4>1. Rank(told) \in Int
        BY <3>4, <3>6, RankOfVerdicts
      <4>. QED  BY <3>3, <3>6, <4>1
    <3>. QED  BY <3>5, <3>6
  <2>8. ASSUME on > 0 PROVE Rank(classify_follow_through(c, base, on - 1, bad + 1)) <= Rank(told)
    <3>. DEFINE next == classify_follow_through(c, base, on - 1, bad + 1)
    <3>1. Dying(on, bad) => Dying(on - 1, bad + 1)
      BY <2>8 DEF Dying
    <3>2. on - 1 + (bad + 1) = on + bad
      BY <2>8
    <3>3. /\ full => next = IF Dying(on - 1, bad + 1) THEN lowered ELSE firm
          /\ ~full => next = IF Dying(on - 1, bad + 1) THEN "NOT_PAYING" ELSE "MIXED"
      BY <2>1, <3>2 DEF classify_follow_through
    <3>. HIDE DEF told, firm, lowered, full, next
    <3>. QED  BY <2>1, <2>2, <3>1, <3>3, RankOfVerdicts DEF next
  <2>. QED  BY <2>5, <2>6, <2>7, <2>8
<1>. QED  BY <1>1, <1>2 DEF FollowThroughFollows

-----------------------------------------------------------------------------
(* The transition of a reading. *)

LEMMA LeastOf ==
  ASSUME NEW S, S \subseteq Nat, S # {}
  PROVE  Min(S) \in S /\ \A y \in S : Min(S) <= y
<1>1. \E x \in S : \A y \in S : x <= y
  BY SmallestMember
<1>. QED  BY <1>1 DEF Min

(* The first condition that holds names the transition. *)
LEMMA EarlyConditionNames ==
  ASSUME NEW m, Failing(m) \/ Distribution(m) \/ Weakening(m)
  PROVE  _determine_operational_transition(m) \in Deteriorating
<1>. DEFINE all == Cascade(m)
            hits == {i \in DOMAIN all : all[i].holds}
<1>1. /\ DOMAIN all = 1 .. 12
      /\ all[1] = [label |-> "failing", holds |-> Failing(m)]
      /\ all[2] = [label |-> "distribution", holds |-> Distribution(m)]
      /\ all[3] = [label |-> "weakening", holds |-> Weakening(m)]
  BY DEF Cascade
<1>2. _determine_operational_transition(m) = IF hits = {} THEN "stable" ELSE all[Min(hits)].label
  BY DEF _determine_operational_transition, First
<1>. HIDE DEF all
<1>3. all[1].holds = Failing(m) /\ all[2].holds = Distribution(m) /\ all[3].holds = Weakening(m)
      /\ all[1].label = "failing" /\ all[2].label = "distribution" /\ all[3].label = "weakening"
  BY <1>1
<1>4. \E i \in 1 .. 3 : i \in hits
  <2>1. 1 \in DOMAIN all /\ 2 \in DOMAIN all /\ 3 \in DOMAIN all
    BY <1>1
  <2>. QED  BY <1>3, <2>1
<1>5. hits \subseteq 1 .. 12 /\ hits \subseteq Nat
  BY <1>1
<1>. HIDE DEF hits
<1>6. Min(hits) \in hits /\ \A y \in hits : Min(hits) <= y
  <2>1. hits # {}
    BY <1>4
  <2>. QED  BY <1>5, <2>1, LeastOf
<1>7. Min(hits) \in {1, 2, 3}
  <2>. DEFINE least == Min(hits)
  <2>1. least \in Nat /\ least >= 1
    <3>1. least \in 1 .. 12
      BY <1>5, <1>6
    <3>. HIDE DEF least
    <3>. QED  BY <3>1
  <2>2. PICK i \in 1 .. 3 : i \in hits
    BY <1>4
  <2>3. least <= i
    BY <1>6, <2>2
  <2>. HIDE DEF least
  <2>4. least \in {1, 2, 3}
    BY <2>1, <2>2, <2>3
  <2>. QED  BY <2>4 DEF least
<1>. QED  BY <1>2, <1>3, <1>4, <1>7 DEF Deteriorating

(* Every reading, whatever its numbers: a falling stock is told to whatever  *)
(* setup it shows besides, and still is when one more of its numbers gets    *)
(* worse (_determine_operational_transition).                                *)
THEOREM DeteriorationAlwaysWins == DeteriorationWins(Measured)
<1>1. ASSUME NEW m \in Measured, Failing(m) \/ Distribution(m) \/ Weakening(m), NEW w \in Worse(m)
      PROVE  Failing(w) \/ Distribution(w) \/ Weakening(w)
  <2>1. /\ m.ema50 \in Int /\ m.ema21 \in Int /\ m.d21 \in Int /\ m.rs \in Int
        /\ m.drs \in Int /\ m.dvol \in Int /\ m.dtight \in Int
    BY DEF Measured
  <2>2. /\ w.ema50 \in Int /\ w.ema50 <= m.ema50
        /\ w.ema21 \in Int /\ w.ema21 <= m.ema21
        /\ w.d21 \in Int /\ w.d21 <= m.d21
        /\ w.rs \in Int /\ w.rs <= m.rs
        /\ w.drs \in Int /\ w.drs <= m.drs
        /\ w.dvol \in Int /\ w.dvol >= m.dvol
        /\ w.dtight \in Int /\ w.dtight <= m.dtight
    <3>1. DOMAIN m = {"ema50", "ema21", "ema9", "d21", "d9", "prev21", "rs", "drs", "rvol", "dvol",
                      "tight", "dtight", "weeks", "high52", "dry", "leader"}
      BY DEF Measured
    <3>2. /\ \A x, y \in Int : Lower(x, y) \in Int /\ Lower(x, y) <= x
          /\ \A x, y \in Int : Higher(x, y) \in Int /\ Higher(x, y) >= x
      BY DEF Lower, Higher
    <3>. QED  BY <1>1, <2>1, <3>1, <3>2 DEF Worse
  <2>3. Failing(m) => Failing(w)
    BY <2>1, <2>2 DEF Failing
  <2>4. Distribution(m) => Distribution(w)
    BY <2>1, <2>2 DEF Distribution
  <2>5. Weakening(m) => Weakening(w)
    BY <2>1, <2>2 DEF Weakening
  <2>. QED  BY <1>1, <2>3, <2>4, <2>5
<1>. QED  BY <1>1, EarlyConditionNames DEF DeteriorationWins

-----------------------------------------------------------------------------
(* The gate of leaders. *)

(* For every row with its 52-week high, whatever numbers are missing: the    *)
(* gate and the breakdown of it shown to the user agree (is_quality_leader,  *)
(* evaluate_minervini_criteria).                                             *)
THEOREM BreakdownIsAlwaysGate == BreakdownIsGate(Rows)
<1>1. ASSUME NEW q \in Rows
      PROVE  is_quality_leader(q) <=> evaluate_minervini_criteria(q) = Criteria
  <2>. DEFINE passed == evaluate_minervini_criteria(q)
  <2>1. /\ q.perf \in Int \cup {NoNumber} /\ q.price \in Nat \cup {NoNumber}
        /\ q.ema200 \in Int \cup {NoNumber} /\ q.ema50 \in Int \cup {NoNumber}
        /\ q.sma50 \in Int \cup {NoNumber} /\ q.sma150 \in Int \cup {NoNumber}
        /\ q.sma200 \in Int \cup {NoNumber} /\ q.high \in Nat
        /\ q.low \in Nat \cup {NoNumber} /\ q.adr \in Int \cup {NoNumber}
    BY DEF Rows
  <2>2. passed = Criteria <=> \A c \in Criteria : c \in passed
    BY DEF evaluate_minervini_criteria, Criteria
  <2>3. /\ "perf_1y_gt_30" \in passed <=> ~Missing(q.perf) /\ q.perf > 30
        /\ "price_above_ema200" \in passed <=>
             ~Missing(q.price) /\ ~Missing(q.ema200) /\ q.price > q.ema200
        /\ "price_above_ema50" \in passed <=> ~Missing(q.ema50) /\ q.ema50 > 0
        /\ "sma50_gt_sma150" \in passed <=>
             ~Missing(q.sma50) /\ ~Missing(q.sma150) /\ q.sma50 > q.sma150
        /\ "sma150_gt_sma200_x_101" \in passed <=>
             ~Missing(q.sma150) /\ ~Missing(q.sma200) /\ 100 * q.sma150 > 101 * q.sma200
        /\ "range_52w_gte_60pct" \in passed <=>
             ~Missing(q.high) /\ ~Missing(q.low) /\ q.low > 0 /\ 10 * (q.high - q.low) >= 6 * q.low
        /\ "price_above_low_gte_70pct" \in passed <=>
             ~Missing(q.price) /\ ~Missing(q.low) /\ q.low > 0 /\ 10 * (q.price - q.low) >= 7 * q.low
        /\ "adr_gte_3pct" \in passed <=> ~Missing(q.adr) /\ q.adr >= 3
    BY DEF evaluate_minervini_criteria
  <2>4. ~Missing(q.high) /\ (~Missing(q.low) => (q.low # 0 <=> q.low > 0))
    BY <2>1, NoNumberAssumption DEF Missing
  <2>. HIDE DEF passed
  <2>5. (\A c \in Criteria : c \in passed) <=>
          /\ "perf_1y_gt_30" \in passed /\ "price_above_ema200" \in passed
          /\ "price_above_ema50" \in passed /\ "sma50_gt_sma150" \in passed
          /\ "sma150_gt_sma200_x_101" \in passed /\ "range_52w_gte_60pct" \in passed
          /\ "price_above_low_gte_70pct" \in passed /\ "adr_gte_3pct" \in passed
    BY DEF Criteria
  <2>6. (~ \E x \in {q.perf, q.ema200, q.price, q.sma50, q.sma150, q.sma200, q.low, q.adr} : Missing(x))
        <=> /\ ~Missing(q.perf) /\ ~Missing(q.ema200) /\ ~Missing(q.price) /\ ~Missing(q.sma50)
            /\ ~Missing(q.sma150) /\ ~Missing(q.sma200) /\ ~Missing(q.low) /\ ~Missing(q.adr)
    OBVIOUS
  <2>7. is_quality_leader(q) <=> passed = Criteria
    BY <2>2, <2>3, <2>4, <2>5, <2>6 DEF is_quality_leader
  <2>. QED  BY <2>7 DEF passed
<1>. QED  BY <1>1 DEF BreakdownIsGate

-----------------------------------------------------------------------------
(* The observations. *)

(* The fields of a row, a scan and an evaluation. *)
IsRow(r) == DOMAIN r = {"status", "regime", "price_1d", "window"}
IsScan(x) == DOMAIN x = {"active", "left", "mine", "want", "label", "broken"}
IsEval(x) == DOMAIN x = {"active", "job", "asOf", "read", "new", "held"}

(* The regime found for date d, or the sentinel of a failed detection. *)
Of(d) == {d, Unknown}

RowsOK == \A k \in DOMAIN obs : IsRow(obs[k]) /\ obs[k].regime \in Of(k[3])

(* A cached label is the one of the date that is its key. *)
CacheOK ==
  /\ DOMAIN regimes = Processes
  /\ \A p \in Processes : regimes[p] # None => regimes[p].regime \in Of(regimes[p].key)

(* What a scan has labelled it labelled for the date in the row's key. *)
OneScanOK(x) ==
  /\ IsScan(x)
  /\ x.label # None => x.label \in Of(x.want[3])
  /\ \A k \in DOMAIN x.mine : x.mine[k] \in Of(k[3])
ScansOK ==
  /\ DOMAIN scan = Scanners
  /\ \A p \in Scanners : scan[p].active => OneScanOK(scan[p])

(* An evaluation never names the regime in its UPDATE, and locks only rows it *)
(* has been through.                                                          *)
OneEvalOK(x) ==
  /\ IsEval(x)
  /\ DOMAIN x.new \subseteq DOMAIN x.read /\ x.held \subseteq DOMAIN x.new
  /\ \A k \in DOMAIN x.read : IsRow(x.read[k])
  /\ \A k \in DOMAIN x.new : IsRow(x.new[k]) /\ x.new[k].regime = x.read[k].regime
EvalsOK ==
  /\ DOMAIN eval = Evals
  /\ \A e \in Evals : eval[e].active => OneEvalOK(eval[e])

IInv == RowsOK /\ CacheOK /\ ScansOK /\ EvalsOK

-----------------------------------------------------------------------------
LEMMA EvaluatedKeeps ==
  ASSUME NEW k, NEW r, NEW asOf, IsRow(r)
  PROVE  IsRow(Evaluated(k, r, asOf)) /\ Evaluated(k, r, asOf).regime = r.regime
<1> DEFINE prices == BarsIn(k[1], LookAhead(k, asOf))
           window == SubSeq(prices, 1, Earliest(Window, Len(prices)))
           priced == [r EXCEPT !.price_1d = IF @ = None THEN prices[1] ELSE @]
           given == IF asOf - k[3] >= Patience THEN "INSUFFICIENT_DATA" ELSE r.status
           verdict == IF k[2] = "entering_pullback" THEN classify_entering_pullback(window)
                      ELSE _classify_outcome(k[2], ExtremesOf(window))
<1>1. Evaluated(k, r, asOf) \in
        {[r EXCEPT !.status = given], [r EXCEPT !.status = "INSUFFICIENT_DATA"],
         [priced EXCEPT !.window = window, !.status = verdict], priced}
  BY DEF Evaluated
<1> HIDE DEF prices, window, given, verdict
<1>2. IsRow(priced) /\ priced.regime = r.regime
  BY DEF IsRow
<1> HIDE DEF priced
<1>3. IsRow([priced EXCEPT !.window = window, !.status = verdict])
      /\ [priced EXCEPT !.window = window, !.status = verdict].regime = priced.regime
  BY <1>2 DEF IsRow
<1>4. ASSUME NEW v PROVE IsRow([r EXCEPT !.status = v]) /\ [r EXCEPT !.status = v].regime = r.regime
  BY DEF IsRow
<1>. QED  BY <1>1, <1>2, <1>3, <1>4

LEMMA ReclassifiedKeeps ==
  ASSUME NEW k, NEW r, NEW asOf, IsRow(r)
  PROVE  IsRow(Reclassified(k, r, asOf)) /\ Reclassified(k, r, asOf).regime = r.regime
<1>1. CASE k[2] = "entering_pullback"
  <2> DEFINE q == [r EXCEPT !.status = "PENDING", !.price_1d = None, !.window = None]
  <2>1. IsRow(q) /\ q.regime = r.regime
    BY DEF IsRow
  <2>2. Reclassified(k, r, asOf) = Evaluated(k, q, asOf)
    BY <1>1 DEF Reclassified
  <2> HIDE DEF q
  <2>. QED  BY <2>1, <2>2, EvaluatedKeeps
<1>2. CASE k[2] # "entering_pullback"
  <2> DEFINE v == _classify_outcome(k[2], ExtremesOf(r.window))
  <2>1. Reclassified(k, r, asOf) = [r EXCEPT !.status = v]
    BY <1>2 DEF Reclassified
  <2> HIDE DEF v
  <2>. QED  BY <2>1 DEF IsRow
<1>. QED  BY <1>1, <1>2

LEMMA FollowingOK ==
  ASSUME NEW x, OneScanOK(x)
  PROVE  OneScanOK(Following(x)) /\ Following(x).mine = x.mine
BY DEF OneScanOK, IsScan, Following

(* A step of one scan that leaves the rest alone. *)
LEMMA ScanMoves ==
  ASSUME IInv, NEW p \in Scanners, NEW x, x.active => OneScanOK(x),
         scan' = [scan EXCEPT ![p] = x]
  PROVE  ScansOK'
BY DEF IInv, ScansOK

LEMMA EvalMoves ==
  ASSUME IInv, NEW e \in Evals, NEW x, x.active => OneEvalOK(x),
         eval' = [eval EXCEPT ![e] = x]
  PROVE  EvalsOK'
BY DEF IInv, EvalsOK

-----------------------------------------------------------------------------
LEMMA DetectKeeps ==
  ASSUME IInv, NEW p \in Scanners, Detect(p) PROVE IInv'
<1>1. scan[p].active /\ OneScanOK(scan[p])
  BY DEF Detect, Walking, IInv, ScansOK
<1>2. PICK t \in LabelsOf[Head(scan[p].left)], fails \in BOOLEAN :
        LET cached == CachedRegime(p, day)
            found == IF cached # None THEN cached
                     ELSE IF fails \/ scan[p].broken THEN Unknown ELSE day
        IN  IF t = "stable"
            THEN /\ ~fails /\ scan' = [scan EXCEPT ![p] = Following(@)]
                 /\ UNCHANGED <<regimes, faults>>
            ELSE /\ fails => cached = None /\ ~scan[p].broken
                 /\ Failed(fails)
                 /\ scan' = [scan EXCEPT ![p].want = <<Head(scan[p].left), t, day>>,
                                          ![p].label = found]
                 /\ regimes' = [regimes EXCEPT ![ProcessOf(p)] =
                                  IF cached = None THEN [key |-> day, regime |-> found] ELSE @]
  BY DEF Detect
<1>3. UNCHANGED <<obs, eval>>
  BY DEF Detect
<1>4. RowsOK' /\ EvalsOK'
  BY <1>3 DEF IInv, RowsOK, EvalsOK
<1>5. CASE t = "stable"
  <2>1. ScansOK'
    BY <1>1, <1>2, <1>5, FollowingOK, ScanMoves
  <2>2. CacheOK'
    BY <1>2, <1>5 DEF IInv, CacheOK
  <2>. QED  BY <1>4, <2>1, <2>2 DEF IInv
<1>6. CASE t # "stable"
  <2> DEFINE cached == CachedRegime(p, day)
             found == IF cached # None THEN cached
                      ELSE IF fails \/ scan[p].broken THEN Unknown ELSE day
             x == [scan[p] EXCEPT !.want = <<Head(scan[p].left), t, day>>, !.label = found]
  <2>1. ProcessOf(p) \in Processes
    BY DEF ProcessOf, Processes
  <2>2. cached # None => cached \in Of(day)
    BY <2>1 DEF CachedRegime, IInv, CacheOK
  <2>3. found \in Of(day)
    BY <2>2 DEF Of
  <2>4. scan' = [scan EXCEPT ![p] = x]
        /\ regimes' = [regimes EXCEPT ![ProcessOf(p)] =
                         IF cached = None THEN [key |-> day, regime |-> found] ELSE @]
    BY <1>2, <1>6
  <2> HIDE DEF cached, found
  <2>5. OneScanOK(x)
    BY <1>1, <2>3 DEF OneScanOK, IsScan
  <2>6. ScansOK'
    BY <2>4, <2>5, ScanMoves
  <2>7. CacheOK'
    BY <2>1, <2>3, <2>4 DEF IInv, CacheOK
  <2>. QED  BY <1>4, <2>6, <2>7 DEF IInv
<1>. QED  BY <1>5, <1>6

LEMMA InsertKeeps ==
  ASSUME IInv, NEW p \in Scanners, Insert(p) PROVE IInv'
<1> DEFINE new == scan[p].want
           held == scan[p].mine
           fresh == ~scan[p].broken /\ new \notin DOMAIN obs \cup DOMAIN held
           more == IF fresh THEN [k \in DOMAIN held \cup {new} |->
                                    IF k = new THEN scan[p].label ELSE held[k]]
                   ELSE held
           x == [Following(scan[p]) EXCEPT !.mine = more]
<1>1. scan[p].active /\ OneScanOK(scan[p]) /\ scan[p].label # None
  BY DEF Insert, Walking, IInv, ScansOK
<1>2. OneScanOK(Following(scan[p])) /\ Following(scan[p]).mine = scan[p].mine
  BY <1>1, FollowingOK
<1>3. scan' = [scan EXCEPT ![p] = x]
  BY DEF Insert
<1>4. \A k \in DOMAIN more : more[k] \in Of(k[3])
  BY <1>1 DEF OneScanOK
<1> HIDE DEF more
<1>5. OneScanOK(x)
  BY <1>2, <1>4 DEF OneScanOK, IsScan
<1> HIDE DEF x
<1>6. ScansOK'
  BY <1>3, <1>5, ScanMoves
<1>. QED  BY <1>6 DEF Insert, IInv, RowsOK, CacheOK, EvalsOK

LEMMA ScanEndsKeep ==
  ASSUME IInv, NEW p \in Scanners, ScanStart(p) \/ Abort(p) \/ ScanEnd(p) \/ ScanLost(p)
  PROVE  IInv'
<1>0. ~Idle.active
  BY DEF Idle
<1>1. CASE ScanStart(p)
  <2> DEFINE x == [active |-> TRUE, left |-> ScanOrder[p], mine |-> << >>,
                   want |-> None, label |-> None, broken |-> FALSE]
  <2>1. OneScanOK(x)
    BY DEF OneScanOK, IsScan
  <2>2. ScansOK'
    BY <1>1, <2>1, ScanMoves DEF ScanStart
  <2>. QED  BY <1>1, <2>2 DEF ScanStart, IInv, RowsOK, CacheOK, EvalsOK
<1>2. CASE Abort(p)
  <2> DEFINE y == [scan[p] EXCEPT !.mine = << >>, !.broken = TRUE]
             x == Following(y)
  <2>1. OneScanOK(scan[p])
    BY <1>2 DEF Abort, Deadlocked, WaitsFor, Walking, IInv, ScansOK
  <2>2. OneScanOK(y)
    BY <2>1 DEF OneScanOK, IsScan
  <2> HIDE DEF y
  <2>3. OneScanOK(x)
    BY <2>2, FollowingOK
  <2>4. scan' = [scan EXCEPT ![p] = x]
    BY <1>2 DEF Abort, y
  <2> HIDE DEF x
  <2>5. ScansOK'
    BY <2>3, <2>4, ScanMoves
  <2>. QED  BY <1>2, <2>5 DEF Abort, IInv, RowsOK, CacheOK, EvalsOK
<1>3. CASE ScanEnd(p)
  <2>1. ScansOK'
    BY <1>0, <1>3, ScanMoves DEF ScanEnd
  <2>2. OneScanOK(scan[p])
    BY <1>3 DEF ScanEnd, IInv, ScansOK
  <2>3. RowsOK'
    BY <1>3, <2>2 DEF ScanEnd, IInv, RowsOK, OneScanOK, NewObservation, IsRow
  <2>. QED  BY <1>3, <2>1, <2>3 DEF ScanEnd, IInv, CacheOK, EvalsOK
<1>4. CASE ScanLost(p)
  <2>1. ScansOK'
    BY <1>0, <1>4, ScanMoves DEF ScanLost
  <2>. QED  BY <1>4, <2>1 DEF ScanLost, IInv, RowsOK, CacheOK, EvalsOK
<1>. QED  BY <1>1, <1>2, <1>3, <1>4

LEMMA RowKeeps ==
  ASSUME NEW x, OneEvalOK(x), NEW k \in DOMAIN x.read, NEW result,
         IsRow(result), result.regime = x.read[k].regime
  PROVE  OneEvalOK([x EXCEPT !.new = [j \in DOMAIN @ \cup {k} |-> IF j = k THEN result ELSE @[j]]])
<1> DEFINE new == [j \in DOMAIN x.new \cup {k} |-> IF j = k THEN result ELSE x.new[j]]
           y == [x EXCEPT !.new = new]
<1>1. y.new = new /\ y.read = x.read /\ y.held = x.held /\ IsEval(y)
  BY DEF OneEvalOK, IsEval
<1>2. DOMAIN new = DOMAIN x.new \cup {k}
      /\ \A j \in DOMAIN new : IsRow(new[j]) /\ new[j].regime = x.read[j].regime
  BY DEF OneEvalOK
<1> HIDE DEF new, y
<1>3. OneEvalOK(y)
  BY <1>1, <1>2 DEF OneEvalOK
<1>. QED  BY <1>3 DEF y, new

LEMMA HoldingKeeps ==
  ASSUME NEW x, OneEvalOK(x), NEW rows, rows \subseteq DOMAIN x.new
  PROVE  OneEvalOK([x EXCEPT !.held = @ \cup rows])
<1> DEFINE y == [x EXCEPT !.held = @ \cup rows]
<1>1. y.new = x.new /\ y.read = x.read /\ y.held = x.held \cup rows /\ IsEval(y)
  BY DEF OneEvalOK, IsEval
<1> HIDE DEF y
<1>2. OneEvalOK(y)
  BY <1>1 DEF OneEvalOK
<1>. QED  BY <1>2 DEF y

LEMMA EvaluationKeeps ==
  ASSUME IInv, NEW e \in Evals, EvalStart(e) \/ EvalStep(e) \/ EvalLost(e)
  PROVE  IInv'
<1>0. ~Idle.active
  BY DEF Idle
<1>1. CASE EvalStart(e)
  <2>1. PICK job \in JobsOf[e] :
          eval' = [eval EXCEPT ![e] =
            [active |-> TRUE, job |-> job, asOf |-> day,
             read |-> [k \in {k \in DOMAIN obs : Loaded(job, k, day)} |-> obs[k]],
             new |-> << >>, held |-> {}]]
    BY <1>1 DEF EvalStart
  <2> DEFINE x == [active |-> TRUE, job |-> job, asOf |-> day,
                   read |-> [k \in {k \in DOMAIN obs : Loaded(job, k, day)} |-> obs[k]],
                   new |-> << >>, held |-> {}]
  <2>2. OneEvalOK(x)
    BY DEF OneEvalOK, IsEval, IInv, RowsOK
  <2> HIDE DEF x
  <2>3. EvalsOK'
    BY <2>1, <2>2, EvalMoves DEF x
  <2>. QED  BY <1>1, <2>3 DEF EvalStart, IInv, RowsOK, CacheOK, ScansOK
<1>2. CASE EvalRow(e)
  <2> DEFINE x == eval[e]
  <2>1. OneEvalOK(x)
    BY <1>2 DEF EvalRow, IInv, EvalsOK
  <2>2. PICK k \in DOMAIN x.read :
          LET result == IF x.job = "evaluate" THEN Evaluated(k, x.read[k], x.asOf)
                        ELSE Reclassified(k, x.read[k], x.asOf)
          IN  eval' = [eval EXCEPT ![e].new = [j \in DOMAIN @ \cup {k} |->
                                                 IF j = k THEN result ELSE @[j]]]
    BY <1>2 DEF EvalRow, Left
  <2> DEFINE result == IF x.job = "evaluate" THEN Evaluated(k, x.read[k], x.asOf)
                       ELSE Reclassified(k, x.read[k], x.asOf)
             y == [x EXCEPT !.new = [j \in DOMAIN @ \cup {k} |-> IF j = k THEN result ELSE @[j]]]
  <2>3. IsRow(result) /\ result.regime = x.read[k].regime
    BY <2>1, EvaluatedKeeps, ReclassifiedKeeps DEF OneEvalOK
  <2>4. eval' = [eval EXCEPT ![e] = y]
    BY <2>2
  <2> HIDE DEF result, x
  <2>5. OneEvalOK(y)
    BY <2>1, <2>3, RowKeeps
  <2> HIDE DEF y
  <2>6. EvalsOK'
    BY <2>4, <2>5, EvalMoves
  <2>. QED  BY <1>2, <2>6 DEF EvalRow, IInv, RowsOK, CacheOK, ScansOK
<1>3. CASE EvalFlush(e)
  <2> DEFINE x == eval[e]
  <2>1. PICK k \in Dirty(x) : eval' = [eval EXCEPT ![e].held = @ \cup {k}]
    BY <1>3 DEF EvalFlush
  <2> DEFINE y == [x EXCEPT !.held = @ \cup {k}]
  <2>2. OneEvalOK(x) /\ {k} \subseteq DOMAIN x.new
    BY <1>3 DEF EvalFlush, Dirty, IInv, EvalsOK
  <2>3. eval' = [eval EXCEPT ![e] = y]
    BY <2>1
  <2> HIDE DEF x
  <2>4. OneEvalOK(y)
    BY <2>2, HoldingKeeps
  <2> HIDE DEF y
  <2>5. EvalsOK'
    BY <2>3, <2>4, EvalMoves
  <2>. QED  BY <1>3, <2>5 DEF EvalFlush, IInv, RowsOK, CacheOK, ScansOK
<1>4. CASE EvalCommit(e)
  <2>1. EvalsOK'
    BY <1>0, <1>4, EvalMoves DEF EvalCommit
  <2>2. OneEvalOK(eval[e])
    BY <1>4 DEF EvalCommit, IInv, EvalsOK
  <2>3. ASSUME NEW current, NEW read, NEW new, IsRow(current), new.regime = read.regime
        PROVE  IsRow(Written(current, read, new))
               /\ Written(current, read, new).regime = current.regime
    <3>1. DOMAIN current = {"status", "regime", "price_1d", "window"}
      BY <2>3 DEF IsRow
    <3>. QED  BY <3>1, <2>3 DEF Written, IsRow
  <2>4. RowsOK'
    BY <1>4, <2>2, <2>3 DEF EvalCommit, IInv, RowsOK, OneEvalOK
  <2>. QED  BY <1>4, <2>1, <2>4 DEF EvalCommit, IInv, CacheOK, ScansOK
<1>5. CASE EvalAbort(e)
  <2>1. PICK f \in Evals :
          /\ EvalWaits(e, f) /\ EvalWaits(f, e)
          /\ eval' = [eval EXCEPT ![e] = Idle,
                                  ![f].held = @ \cup (Dirty(eval[f]) \cap eval[e].held)]
    BY <1>5 DEF EvalAbort
  <2> DEFINE rows == Dirty(eval[f]) \cap eval[e].held
             y == [eval[f] EXCEPT !.held = @ \cup rows]
  <2>2. e # f /\ eval[f].active /\ OneEvalOK(eval[f]) /\ rows \subseteq DOMAIN eval[f].new
    BY <2>1 DEF EvalWaits, Dirty, IInv, EvalsOK
  <2>3. eval' = [eval EXCEPT ![e] = Idle, ![f] = y]
    BY <2>1, <2>2
  <2> HIDE DEF rows
  <2>4. OneEvalOK(y)
    BY <2>2, HoldingKeeps
  <2> HIDE DEF y
  <2>5. EvalsOK'
    BY <1>0, <2>2, <2>3, <2>4 DEF IInv, EvalsOK
  <2>. QED  BY <1>5, <2>5 DEF EvalAbort, IInv, RowsOK, CacheOK, ScansOK
<1>6. CASE EvalLost(e)
  <2>1. EvalsOK'
    BY <1>0, <1>6, EvalMoves DEF EvalLost
  <2>. QED  BY <1>6, <2>1 DEF EvalLost, IInv, RowsOK, CacheOK, ScansOK
<1>. QED  BY <1>1, <1>2, <1>3, <1>4, <1>5, <1>6 DEF EvalStep

LEMMA RegimesKeep ==
  ASSUME IInv, ReclassifyRegimes PROVE IInv'
<1>1. RowsOK'
  <2>1. DOMAIN obs' = DOMAIN obs
        /\ \A k \in DOMAIN obs : obs'[k] = [obs[k] EXCEPT !.regime = k[3]]
    BY DEF ReclassifyRegimes
  <2>2. \A k \in DOMAIN obs : IsRow(obs'[k]) /\ obs'[k].regime = k[3]
    <3>1. SUFFICES ASSUME NEW k \in DOMAIN obs
                   PROVE  IsRow(obs'[k]) /\ obs'[k].regime = k[3]
      OBVIOUS
    <3>2. IsRow(obs[k]) /\ obs'[k] = [obs[k] EXCEPT !.regime = k[3]]
      BY <2>1 DEF IInv, RowsOK
    <3>. QED  BY <3>2 DEF IsRow
  <2>. QED  BY <2>1, <2>2 DEF RowsOK, Of
<1>2. CacheOK'
  BY DEF ReclassifyRegimes, IInv, CacheOK
<1>. QED  BY <1>1, <1>2 DEF ReclassifyRegimes, IInv, ScansOK, EvalsOK

-----------------------------------------------------------------------------
LEMMA InitInv == Init => IInv
BY DEF Init, IInv, RowsOK, CacheOK, ScansOK, EvalsOK, Idle

LEMMA StepInv == IInv /\ [Next]_vars => IInv'
<1>1. SUFFICES ASSUME IInv, [Next]_vars PROVE IInv'
  OBVIOUS
<1>2. CASE Midnight \/ PriceCycle \/ UNCHANGED vars
  BY <1>1, <1>2 DEF Midnight, PriceCycle, vars, IInv, RowsOK, CacheOK, ScansOK, EvalsOK
<1>3. ASSUME NEW p \in Scanners, ScanStart(p) \/ ScanStep(p) \/ ScanLost(p) PROVE IInv'
  BY <1>1, <1>3, DetectKeeps, InsertKeeps, ScanEndsKeep DEF ScanStep
<1>4. ASSUME NEW e \in Evals, EvalStart(e) \/ EvalStep(e) \/ EvalLost(e)
      PROVE  IInv'
  BY <1>1, <1>4, EvaluationKeeps
<1>5. CASE ReclassifyRegimes  BY <1>1, <1>5, RegimesKeep
<1>. QED  BY <1>1, <1>2, <1>3, <1>4, <1>5 DEF Next

(* However days pass during a scan, whatever is cached in each process,     *)
(* detections that fail and evaluations that overwrite rows beside a regime *)
(* reclassification: an observation carries the regime of its own date or   *)
(* the sentinel (get_current_regime's cache; EvalCommit's UPDATE).          *)
THEOREM RegimesOfOwnDay == Spec => []RegimeOfOwnDay
<1>1. IInv => RegimeOfOwnDay
  BY DEF IInv, RowsOK, Of, RegimeOfOwnDay
<1>. QED  BY InitInv, StepInv, <1>1, PTL DEF Spec

-----------------------------------------------------------------------------
(* The bars of a range. *)

LEMMA BarsCourse ==
  ASSUME NEW prices \in Sessions, NEW range
  PROVE  /\ BarsUpTo(prices, range) \in [Days -> Seq(BarKinds)]
         /\ BarsUpTo(prices, range)[0] = << >>
         /\ \A d \in 1 .. LastDay :
              BarsUpTo(prices, range)[d] =
                IF d \in range /\ prices[d] # None
                THEN Append(BarsUpTo(prices, range)[d - 1], prices[d])
                ELSE BarsUpTo(prices, range)[d - 1]
<1>. DEFINE S == Seq(BarKinds)
            turn == [d \in 1 .. LastDay |-> [seq \in S |->
                       IF d \in range /\ prices[d] # None THEN Append(seq, prices[d]) ELSE seq]]
            Whole(f) == f = [d \in Days |->
                               IF d = 0 THEN << >>
                               ELSE IF d \in range /\ prices[d] # None THEN Append(f[d - 1], prices[d])
                               ELSE f[d - 1]]
<1>1. LastDay \in Nat /\ << >> \in S /\ Days = 0 .. LastDay
  BY OutcomesAssumption DEF Days
<1>2. turn \in [1 .. LastDay -> [S -> S]]
  <2>1. ASSUME NEW d \in 1 .. LastDay, NEW seq \in S
        PROVE  (IF d \in range /\ prices[d] # None THEN Append(seq, prices[d]) ELSE seq) \in S
    <3>1. prices[d] \in BarKinds \cup {None}
      BY <1>1 DEF Sessions
    <3>. QED  BY <3>1
  <2>. HIDE DEF S
  <2>. QED  BY <2>1
<1>3. PICK f : Course(f, LastDay, S, << >>, turn)
  <2>. HIDE DEF turn, S
  <2>. QED  BY <1>1, <1>2, CourseExists
<1>4. /\ f \in [Days -> S] /\ f[0] = << >>
      /\ \A d \in 1 .. LastDay : f[d] = turn[d][f[d - 1]]
  BY <1>1, <1>3 DEF Course
<1>5. ASSUME NEW d \in 1 .. LastDay
      PROVE  f[d] = IF d \in range /\ prices[d] # None THEN Append(f[d - 1], prices[d]) ELSE f[d - 1]
  <2>1. f[d - 1] \in S
    BY <1>1, <1>4
  <2>. HIDE DEF S
  <2>. QED  BY <1>4, <2>1
<1>. HIDE DEF S, turn
<1>6. Whole(f)
  <2>. DEFINE g == [d \in Days |->
                      IF d = 0 THEN << >>
                      ELSE IF d \in range /\ prices[d] # None THEN Append(f[d - 1], prices[d])
                      ELSE f[d - 1]]
  <2>1. ASSUME NEW d \in Days PROVE f[d] = g[d]
    <3>1. d = 0 \/ d \in 1 .. LastDay
      BY <1>1
    <3>2. CASE d = 0
      BY <1>4, <3>2
    <3>3. CASE d \in 1 .. LastDay
      <4>1. d # 0
        BY <1>1, <3>3
      <4>2. g[d] = IF d \in range /\ prices[d] # None THEN Append(f[d - 1], prices[d]) ELSE f[d - 1]
        BY <4>1
      <4>. HIDE DEF g
      <4>. QED  BY <1>5, <3>3, <4>2
    <3>. QED  BY <3>1, <3>2, <3>3
  <2>. QED  BY <1>4, <2>1
<1>7. BarsUpTo(prices, range) = CHOOSE h : Whole(h)
  BY DEF BarsUpTo
<1>. DEFINE r == BarsUpTo(prices, range)
<1>8. Whole(r)
  BY <1>6, <1>7
<1>. HIDE DEF r
<1>9. /\ DOMAIN r = Days /\ r[0] = << >>
      /\ \A d \in 1 .. LastDay :
           r[d] = IF d \in range /\ prices[d] # None THEN Append(r[d - 1], prices[d]) ELSE r[d - 1]
  <2>1. DOMAIN r = Days /\ r[0] = << >>
    BY <1>1, <1>8
  <2>2. ASSUME NEW d \in 1 .. LastDay
        PROVE  r[d] = IF d \in range /\ prices[d] # None THEN Append(r[d - 1], prices[d]) ELSE r[d - 1]
    <3>1. d \in Days /\ d # 0
      BY <1>1
    <3>. QED  BY <1>8, <3>1
  <2>. QED  BY <2>1, <2>2
<1>. DEFINE P == {d \in Days : r[d] \in S}
<1>10. Days \subseteq P
  <2>1. 0 \in P
    BY <1>1, <1>9
  <2>2. ASSUME NEW n \in 0 .. LastDay - 1, n \in P PROVE n + 1 \in P
    <3>1. n + 1 \in 1 .. LastDay /\ n + 1 - 1 = n /\ n + 1 \in Days
      BY <1>1
    <3>2. prices[n + 1] \in BarKinds \cup {None}
      BY <3>1 DEF Sessions
    <3>3. r[n + 1] = IF n + 1 \in range /\ prices[n + 1] # None THEN Append(r[n], prices[n + 1]) ELSE r[n]
      BY <1>9, <3>1
    <3>4. r[n] \in Seq(BarKinds)
      BY <2>2 DEF S
    <3>5. CASE n + 1 \in range /\ prices[n + 1] # None
      <4>1. prices[n + 1] \in BarKinds /\ r[n + 1] = Append(r[n], prices[n + 1])
        BY <3>2, <3>3, <3>5
      <4>2. Append(r[n], prices[n + 1]) \in Seq(BarKinds)
        BY <3>4, <4>1
      <4>. QED  BY <3>1, <4>1, <4>2 DEF S
    <3>6. CASE ~ (n + 1 \in range /\ prices[n + 1] # None)
      BY <2>2, <3>1, <3>3, <3>6
    <3>. QED  BY <3>5, <3>6
  <2>. HIDE DEF P
  <2>. QED  BY <1>1, <2>1, <2>2, UpwardInduction
<1>11. r = [d \in Days |-> r[d]] /\ \A d \in Days : r[d] \in S
  BY <1>8, <1>10
<1>12. r \in [Days -> S]
  BY <1>11
<1>. QED  BY <1>9, <1>12 DEF r, S

(* a begins b. *)
Begins(a, b) == Len(a) <= Len(b) /\ \A i \in 1 .. Len(a) : a[i] = b[i]

(* A longer look ahead sees the same bars first. *)
LEMMA LongerLook ==
  ASSUME NEW prices \in Sessions, NEW from \in Int, NEW m \in Int, NEW n \in Int, m <= n
  PROVE  Begins(BarsUpTo(prices, from .. m)[LastDay], BarsUpTo(prices, from .. n)[LastDay])
<1>. DEFINE a == BarsUpTo(prices, from .. m)
            b == BarsUpTo(prices, from .. n)
            P == {d \in Days : Begins(a[d], b[d]) /\ (d <= m => a[d] = b[d])}
<1>1. LastDay \in Nat /\ Days = 0 .. LastDay
  BY OutcomesAssumption DEF Days
<1>2. /\ a \in [Days -> Seq(BarKinds)] /\ a[0] = << >>
      /\ \A d \in 1 .. LastDay :
           a[d] = IF d \in from .. m /\ prices[d] # None THEN Append(a[d - 1], prices[d]) ELSE a[d - 1]
  BY BarsCourse
<1>3. /\ b \in [Days -> Seq(BarKinds)] /\ b[0] = << >>
      /\ \A d \in 1 .. LastDay :
           b[d] = IF d \in from .. n /\ prices[d] # None THEN Append(b[d - 1], prices[d]) ELSE b[d - 1]
  BY BarsCourse
<1>. HIDE DEF a, b
<1>4. 0 \in P
  BY <1>1, <1>2, <1>3 DEF Begins
<1>5. ASSUME NEW c \in 0 .. LastDay - 1, c \in P PROVE c + 1 \in P
  <2>1. c \in Nat /\ c + 1 \in 1 .. LastDay /\ c + 1 \in Days /\ c + 1 - 1 = c /\ c \in Days
    BY <1>1
  <2>2. a[c] \in Seq(BarKinds) /\ b[c] \in Seq(BarKinds) /\ Begins(a[c], b[c])
    BY <1>2, <1>3, <1>5, <2>1
  <2>3. CASE c + 1 <= m
    <3>1. a[c] = b[c]
      BY <1>5, <2>1, <2>3
    <3>2. c + 1 \in from .. m <=> c + 1 \in from .. n
      BY <2>1, <2>3
    <3>3. a[c + 1] = b[c + 1]
      <4>1. a[c + 1] = IF c + 1 \in from .. m /\ prices[c + 1] # None
                       THEN Append(a[c], prices[c + 1]) ELSE a[c]
        BY <1>2, <2>1
      <4>2. b[c + 1] = IF c + 1 \in from .. n /\ prices[c + 1] # None
                       THEN Append(b[c], prices[c + 1]) ELSE b[c]
        BY <1>3, <2>1
      <4>. QED  BY <4>1, <4>2, <3>1, <3>2
    <3>4. Begins(a[c + 1], b[c + 1])
      BY <1>2, <1>3, <2>1, <3>3 DEF Begins
    <3>. QED  BY <2>1, <3>3, <3>4
  <2>4. CASE ~ (c + 1 <= m)
    <3>1. a[c + 1] = a[c]
      BY <1>2, <2>1, <2>4
    <3>2. b[c + 1] = b[c] \/ (prices[c + 1] \in BarKinds /\ b[c + 1] = Append(b[c], prices[c + 1]))
      <4>1. prices[c + 1] \in BarKinds \cup {None}
        BY <2>1 DEF Sessions
      <4>2. b[c + 1] = IF c + 1 \in from .. n /\ prices[c + 1] # None
                       THEN Append(b[c], prices[c + 1]) ELSE b[c]
        BY <1>3, <2>1
      <4>. QED  BY <4>1, <4>2
    <3>3. Begins(a[c], b[c + 1])
      BY <2>2, <3>2 DEF Begins
    <3>. QED  BY <2>1, <2>4, <3>1, <3>3
  <2>. QED  BY <2>3, <2>4
<1>6. 0 .. LastDay \subseteq P
  <2>. HIDE DEF P
  <2>. QED  BY <1>1, <1>4, <1>5, UpwardInduction
<1>7. LastDay \in P
  BY <1>1, <1>6
<1>. QED  BY <1>7 DEF a, b

(* Bars that agree over a range give the same sequence. *)
LEMMA SameBars ==
  ASSUME NEW prices \in Sessions, NEW other \in Sessions, NEW range,
         \A d \in Days : d \in range => prices[d] = other[d]
  PROVE  BarsUpTo(prices, range)[LastDay] = BarsUpTo(other, range)[LastDay]
<1>. DEFINE a == BarsUpTo(prices, range)
            b == BarsUpTo(other, range)
            P == {d \in Days : a[d] = b[d]}
<1>1. LastDay \in Nat /\ Days = 0 .. LastDay
  BY OutcomesAssumption DEF Days
<1>2. /\ a[0] = << >>
      /\ \A d \in 1 .. LastDay :
           a[d] = IF d \in range /\ prices[d] # None THEN Append(a[d - 1], prices[d]) ELSE a[d - 1]
  BY BarsCourse
<1>3. /\ b[0] = << >>
      /\ \A d \in 1 .. LastDay :
           b[d] = IF d \in range /\ other[d] # None THEN Append(b[d - 1], other[d]) ELSE b[d - 1]
  BY BarsCourse
<1>. HIDE DEF a, b
<1>4. 0 \in P
  BY <1>1, <1>2, <1>3
<1>5. ASSUME NEW c \in 0 .. LastDay - 1, c \in P PROVE c + 1 \in P
  <2>1. c + 1 \in 1 .. LastDay /\ c + 1 \in Days /\ c + 1 - 1 = c
    BY <1>1
  <2>. QED  BY <1>2, <1>3, <1>5, <2>1
<1>6. 0 .. LastDay \subseteq P
  <2>. HIDE DEF P
  <2>. QED  BY <1>1, <1>4, <1>5, UpwardInduction
<1>7. LastDay \in P
  BY <1>1, <1>6
<1>. QED  BY <1>7 DEF a, b

-----------------------------------------------------------------------------
(* What a row says, and what the sessions behind it say. *)

IsPullback(k) == k[2] = "entering_pullback"

(* What a pullback shows stands on sessions that the table has held at one *)
(* moment: its first price on those of one moment, its verdict on those of *)
(* perhaps another.                                                        *)
Backed(k, r, held) ==
  /\ r.price_1d # None =>
       \E book \in held : After(book, k) # << >> /\ r.price_1d = After(book, k)[1]
  /\ r.status \in Verdicts =>
       \E book \in held : /\ Len(After(book, k)) >= Window
                          /\ r.status = PullbackReference(After(book, k))

(* Outside pullbacks a verdict never comes without its window. *)
Sound(k, r, held) ==
  /\ r.status \in Statuses
  /\ r.price_1d \in BarKinds \cup {None}
  /\ r.window \in [1 .. Window -> BarKinds] \cup {None}
  /\ IsPullback(k) => Backed(k, r, held)
  /\ ~IsPullback(k) /\ r.status \in Verdicts => r.window # None

BarsOK ==
  /\ bar \in [Symbols -> Sessions]
  /\ books \in [Symbols -> SUBSET Sessions]
  /\ \A s \in Symbols : Past(bar[s], day) \in books[s]

RowsSound ==
  /\ DOMAIN obs \subseteq Keys
  /\ \A k \in DOMAIN obs : Sound(k, obs[k], books[k[1]])

(* A scan walks symbols of the universe; an aborted one holds no row. *)
OneScanFits(x) ==
  /\ x.left \in Seq(Symbols)
  /\ x.label # None => x.want \in Keys
  /\ DOMAIN x.mine \subseteq Keys
  /\ x.broken => x.mine = << >>
ScansFit == \A p \in Scanners : scan[p].active => OneScanFits(scan[p])

(* The window of a row that is no pullback, once stored, is never lost. *)
Keeps(k, before, after) == ~IsPullback(k) /\ before.window # None => after.window # None

(* An evaluation has read sound rows and makes sound rows of them; neither it *)
(* nor the others meanwhile lose a window.                                    *)
OneEvalSound(x, held, rows, d) ==
  /\ x.asOf \in Days /\ x.asOf <= d
  /\ DOMAIN x.read \subseteq DOMAIN rows
  /\ \A k \in DOMAIN x.read :
       /\ Sound(k, x.read[k], held[k[1]])
       /\ Keeps(k, x.read[k], rows[k])
       /\ x.job # "evaluate" /\ ~IsPullback(k) => x.read[k].window # None
  /\ \A k \in DOMAIN x.new : Sound(k, x.new[k], held[k[1]]) /\ Keeps(k, x.read[k], x.new[k])
EvalsSound == \A e \in Evals : eval[e].active => OneEvalSound(eval[e], books, obs, day)

CountsOK ==
  /\ day \in Days /\ scans \in 0 .. MaxScans /\ faults \in 0 .. MaxFaults
  /\ rewrites \in 0 .. MaxRewrites

VInv == BarsOK /\ RowsSound /\ ScansFit /\ EvalsSound /\ CountsOK

-----------------------------------------------------------------------------
(* Rows and the sessions behind them. *)

LEMMA PastTyped ==
  ASSUME NEW sessions \in Sessions, NEW d
  PROVE  Past(sessions, d) \in Sessions
BY DEF Past, Sessions

LEMMA AfterTyped ==
  ASSUME NEW book \in Sessions, NEW k
  PROVE  After(book, k) \in Seq(BarKinds)
<1>1. LastDay \in Days
  BY OutcomesAssumption DEF Days
<1>. QED  BY <1>1, BarsCourse DEF After

(* What is over by a day comes first in what the table holds of the past. *)
LEMMA PastBeginsSo ==
  ASSUME NEW sessions \in Sessions, NEW k \in Keys, NEW asOf \in Int, NEW d \in Int, asOf <= d
  PROVE  Begins(BarsUpTo(sessions, k[3] + 1 .. Earliest(k[3] + WindowDays, asOf - 1))[LastDay],
                After(Past(sessions, d), k))
<1>. DEFINE m == Earliest(k[3] + WindowDays, asOf - 1)
            n == k[3] + WindowDays
            past == Past(sessions, d)
<1>1. k[3] \in Nat /\ WindowDays \in Nat
  BY OutcomesAssumption DEF Keys, Days
<1>2. m \in Int /\ m < d /\ m <= n /\ n \in Int /\ k[3] + 1 \in Int
  BY <1>1 DEF Earliest
<1>3. past \in Sessions
  BY PastTyped
<1>. HIDE DEF m, n
<1>4. ASSUME NEW x \in Days, x \in k[3] + 1 .. m PROVE sessions[x] = past[x]
  <2>1. x < d
    BY <1>1, <1>2, <1>4
  <2>. QED  BY <2>1 DEF Past
<1>. HIDE DEF past
<1>5. BarsUpTo(sessions, k[3] + 1 .. m)[LastDay] = BarsUpTo(past, k[3] + 1 .. m)[LastDay]
  BY <1>3, <1>4, SameBars
<1>6. Begins(BarsUpTo(past, k[3] + 1 .. m)[LastDay], BarsUpTo(past, k[3] + 1 .. n)[LastDay])
  BY <1>2, <1>3, LongerLook
<1>. QED  BY <1>5, <1>6 DEF After, m, n, past

LEMMA FirstBarsKept ==
  ASSUME NEW a \in Seq(BarKinds), NEW b \in Seq(BarKinds), Begins(a, b), Len(a) >= Window
  PROVE  Len(b) >= Window /\ SubSeq(b, 1, Window) = SubSeq(a, 1, Window)
<1>1. /\ Len(a) \in Nat /\ Len(b) \in Nat /\ Len(a) <= Len(b) /\ Window \in Nat
      /\ \A i \in 1 .. Len(a) : a[i] = b[i]
  BY WindowAssumption DEF Begins
<1>2. Len(b) >= Window
  BY <1>1
<1>. DEFINE u == SubSeq(a, 1, Window)
            v == SubSeq(b, 1, Window)
<1>3. u \in [1 .. Window -> BarKinds] /\ \A i \in 1 .. Window : u[i] = a[i]
  BY FirstBars
<1>4. v \in [1 .. Window -> BarKinds] /\ \A i \in 1 .. Window : v[i] = b[i]
  BY <1>2, FirstBars
<1>. HIDE DEF u, v
<1>5. ASSUME NEW i \in 1 .. Window PROVE u[i] = v[i]
  <2>1. i \in 1 .. Len(a)
    BY <1>1
  <2>. QED  BY <1>1, <1>3, <1>4, <2>1
<1>6. u \in [1 .. Window -> BarKinds] /\ v \in [1 .. Window -> BarKinds]
      /\ \A i \in 1 .. Window : u[i] = v[i]
  BY <1>3, <1>4, <1>5
<1>7. u = v
  <2>1. u = [i \in 1 .. Window |-> u[i]] /\ v = [i \in 1 .. Window |-> v[i]]
    BY <1>6
  <2>2. [i \in 1 .. Window |-> u[i]] = [i \in 1 .. Window |-> v[i]]
    BY <1>6
  <2>. QED  BY <2>1, <2>2
<1>. QED  BY <1>2, <1>7 DEF u, v

(* A longer history has the same first bar and the same verdict. *)
LEMMA BegunAlike ==
  ASSUME NEW a \in Seq(BarKinds), NEW b \in Seq(BarKinds), Begins(a, b)
  PROVE  /\ a # << >> => b # << >> /\ a[1] = b[1]
         /\ Len(a) >= Window => Len(b) >= Window /\ PullbackReference(a) = PullbackReference(b)
<1>1. ASSUME a # << >> PROVE b # << >> /\ a[1] = b[1]
  <2>1. Len(a) \in Nat /\ Len(a) >= 1 /\ Len(b) \in Nat
    BY <1>1
  <2>2. Len(b) >= 1 /\ a[1] = b[1]
    BY <2>1 DEF Begins
  <2>. QED  BY <2>2
<1>2. ASSUME Len(a) >= Window
      PROVE  Len(b) >= Window /\ PullbackReference(a) = PullbackReference(b)
  <2>1. Len(b) >= Window /\ SubSeq(b, 1, Window) = SubSeq(a, 1, Window)
    BY <1>2, FirstBarsKept
  <2>2. PullbackReference(a) = PullbackReference(SubSeq(a, 1, Window))
    BY <1>2, ReferenceOfFirstBars
  <2>3. PullbackReference(b) = PullbackReference(SubSeq(b, 1, Window))
    BY <2>1, ReferenceOfFirstBars
  <2>. QED  BY <2>1, <2>2, <2>3
<1>. QED  BY <1>1, <1>2

(* A sound row stays sound as the table goes on to hold other sessions. *)
LEMMA SoundKept ==
  ASSUME NEW k, NEW r, NEW a, NEW b, a \subseteq b, Sound(k, r, a)
  PROVE  Sound(k, r, b)
BY DEF Sound, Backed

-----------------------------------------------------------------------------
(* What an evaluation makes of a sound row. *)

LEMMA VerdictTypes ==
  /\ \A type, x : _classify_outcome(type, x) \in Verdicts
  /\ \A bars \in Seq(BarKinds) : Len(bars) >= Window =>
       /\ classify_entering_pullback(bars) \in Statuses
       /\ "bad" \notin ToSet(SubSeq(bars, 1, Window)) => classify_entering_pullback(bars) \in Verdicts
<1>1. ASSUME NEW type, NEW x PROVE _classify_outcome(type, x) \in Verdicts
  BY DEF _classify_outcome, PreReclaimVerdict, BreakoutVerdict, ReclaimVerdict,
         DeteriorationVerdict, Verdicts
<1>2. ASSUME NEW bars \in Seq(BarKinds), Len(bars) >= Window
      PROVE  /\ classify_entering_pullback(bars) \in Statuses
             /\ "bad" \notin ToSet(SubSeq(bars, 1, Window)) =>
                  classify_entering_pullback(bars) \in Verdicts
  BY <1>2, VerdictOfWindow DEF WindowVerdict, Statuses, Verdicts
<1>. QED  BY <1>1, <1>2

LEMMA EvaluatedSound ==
  ASSUME BarsOK, NEW k \in Keys, NEW asOf \in Int, day \in Int, asOf <= day, NEW r, IsRow(r),
         Sound(k, r, books[k[1]])
  PROVE  /\ Sound(k, Evaluated(k, r, asOf), books[k[1]])
         /\ r.window # None => Evaluated(k, r, asOf).window # None
<1>. DEFINE held == books[k[1]]
            book == Past(bar[k[1]], day)
            over == After(book, k)
            prices == BarsIn(k[1], LookAhead(k, asOf))
            window == SubSeq(prices, 1, Earliest(Window, Len(prices)))
            priced == [r EXCEPT !.price_1d = IF @ = None THEN prices[1] ELSE @]
            given == IF asOf - k[3] >= Patience THEN "INSUFFICIENT_DATA" ELSE r.status
            verdict == IF IsPullback(k) THEN classify_entering_pullback(window)
                       ELSE _classify_outcome(k[2], ExtremesOf(window))
            full == SubSeq(prices, 1, Window)
            settled == [priced EXCEPT !.window = window, !.status = verdict]
            e == Evaluated(k, r, asOf)
<1>1. bar[k[1]] \in Sessions /\ book \in held /\ book \in Sessions
  BY PastTyped DEF BarsOK, Keys
<1>2. prices \in Seq(BarKinds) /\ over \in Seq(BarKinds)
  <2>1. LastDay \in Days
    BY OutcomesAssumption DEF Days
  <2>. QED  BY <1>1, <2>1, BarsCourse, AfterTyped DEF BarsIn
<1>3. IsPullback(k) => Begins(prices, over)
  BY <1>1, PastBeginsSo DEF IsPullback, LookAhead, BarsIn
<1>4. Window \in Nat \ {0} /\ Len(prices) \in Nat
  BY <1>2, WindowAssumption
<1>5. e = IF prices = << >> THEN [r EXCEPT !.status = given]
          ELSE IF IsPullback(k) /\ "bad" \in ToSet(window) THEN [r EXCEPT !.status = "INSUFFICIENT_DATA"]
          ELSE IF Len(prices) >= Window /\ r.status = "PENDING" THEN settled
          ELSE priced
  BY DEF Evaluated, IsPullback
<1>6. Len(prices) >= Window => window = full
  BY <1>4 DEF Earliest
<1>7. DOMAIN r = {"status", "regime", "price_1d", "window"}
  BY DEF IsRow
<1>8. prices # << >> => prices[1] \in BarKinds
  BY <1>2
<1>9. prices # << >> => /\ DOMAIN priced = DOMAIN r
                        /\ priced.status = r.status /\ priced.window = r.window
                        /\ priced.price_1d = IF r.price_1d = None THEN prices[1] ELSE r.price_1d
  BY <1>7
<1>10. Len(prices) >= Window =>
         /\ full \in [1 .. Window -> BarKinds]
         /\ IsPullback(k) /\ "bad" \notin ToSet(full) => classify_entering_pullback(prices) \in Verdicts
         /\ classify_entering_pullback(full) = PullbackReference(prices)
         /\ classify_entering_pullback(full) = classify_entering_pullback(prices)
  BY <1>2, FirstBars, VerdictTypes, PullbackRuleMeetsReference
<1>11. None \notin BarKinds /\ None \notin [1 .. Window -> BarKinds]
  BY OutcomesAssumption
<1>12. IsPullback(k) =>
         /\ prices # << >> => over # << >> /\ prices[1] = over[1]
         /\ Len(prices) >= Window =>
              Len(over) >= Window /\ PullbackReference(prices) = PullbackReference(over)
  BY <1>2, <1>3, BegunAlike
<1>. HIDE DEF prices, over, book, window, full, e
<1>13. ASSUME IsPullback(k), prices # << >> PROVE
         priced.price_1d # None =>
           \E b \in held : After(b, k) # << >> /\ priced.price_1d = After(b, k)[1]
  <2>1. CASE r.price_1d = None
    BY <1>1, <1>9, <1>12, <1>13, <2>1 DEF over
  <2>2. CASE r.price_1d # None
    BY <1>9, <1>13, <2>2 DEF Sound, Backed
  <2>. QED  BY <2>1, <2>2
<1>14. CASE prices = << >>
  <2>1. e.status = given /\ e.price_1d = r.price_1d /\ e.window = r.window
    BY <1>5, <1>7, <1>14
  <2>2. given \in {r.status, "INSUFFICIENT_DATA"} /\ "INSUFFICIENT_DATA" \in Statuses \ Verdicts
    BY DEF Statuses, Verdicts
  <2>3. Sound(k, e, held)
    BY <2>1, <2>2 DEF Sound, Backed
  <2>. QED  BY <2>1, <2>3 DEF e
<1>15. CASE prices # << >> /\ IsPullback(k) /\ "bad" \in ToSet(window)
  <2>1. e.status = "INSUFFICIENT_DATA" /\ e.price_1d = r.price_1d /\ e.window = r.window
    BY <1>5, <1>7, <1>15
  <2>2. "INSUFFICIENT_DATA" \in Statuses \ Verdicts
    BY DEF Statuses, Verdicts
  <2>3. Sound(k, e, held)
    BY <2>1, <2>2 DEF Sound, Backed
  <2>. QED  BY <2>1, <2>3 DEF e
<1>16. CASE /\ prices # << >> /\ ~ (IsPullback(k) /\ "bad" \in ToSet(window))
            /\ Len(prices) >= Window /\ r.status = "PENDING"
  <2>1. e = settled
    BY <1>5, <1>16
  <2>. HIDE DEF verdict, priced, held
  <2>2. e.status = verdict /\ e.price_1d = priced.price_1d /\ e.window = full
    BY <1>6, <1>7, <1>9, <1>16, <2>1
  <2>3. verdict \in Verdicts /\ (IsPullback(k) => verdict = PullbackReference(prices))
    BY <1>6, <1>10, <1>16, VerdictTypes DEF verdict
  <2>4. e.price_1d \in BarKinds \cup {None}
    BY <1>8, <1>9, <1>16, <2>2 DEF Sound
  <2>5. e.window \in [1 .. Window -> BarKinds]
    BY <1>10, <1>16, <2>2
  <2>6. ASSUME IsPullback(k) PROVE Backed(k, e, held)
    <3>1. Len(After(book, k)) >= Window /\ e.status = PullbackReference(After(book, k))
      BY <1>12, <1>16, <2>2, <2>3, <2>6 DEF over
    <3>. QED  BY <1>1, <1>13, <1>16, <2>2, <2>6, <3>1 DEF Backed
  <2>7. Sound(k, e, held)
    BY <2>2, <2>3, <2>4, <2>5, <2>6, <1>11 DEF Sound, Statuses
  <2>. QED  BY <1>11, <2>5, <2>7 DEF e, held
<1>17. CASE /\ prices # << >> /\ ~ (IsPullback(k) /\ "bad" \in ToSet(window))
            /\ ~ (Len(prices) >= Window /\ r.status = "PENDING")
  <2>1. e = priced
    BY <1>5, <1>17
  <2>. HIDE DEF priced
  <2>2. e.price_1d \in BarKinds \cup {None}
    BY <1>8, <1>9, <1>17, <2>1 DEF Sound
  <2>3. ASSUME IsPullback(k) PROVE Backed(k, e, held)
    BY <1>9, <1>13, <1>17, <2>1, <2>3 DEF Sound, Backed
  <2>4. Sound(k, e, held)
    BY <1>9, <1>17, <2>1, <2>2, <2>3 DEF Sound
  <2>. QED  BY <1>9, <1>17, <2>1, <2>4 DEF e
<1>. QED  BY <1>14, <1>15, <1>16, <1>17

LEMMA ReclassifiedSound ==
  ASSUME BarsOK, NEW k \in Keys, NEW asOf \in Int, day \in Int, asOf <= day, NEW r, IsRow(r),
         Sound(k, r, books[k[1]]), ~IsPullback(k) => r.window # None
  PROVE  /\ Sound(k, Reclassified(k, r, asOf), books[k[1]])
         /\ Keeps(k, r, Reclassified(k, r, asOf))
<1>. DEFINE c == Reclassified(k, r, asOf)
<1>1. DOMAIN r = {"status", "regime", "price_1d", "window"}
  BY DEF IsRow
<1>2. CASE ~IsPullback(k)
  <2>. DEFINE verdict == _classify_outcome(k[2], ExtremesOf(r.window))
  <2>1. c = [r EXCEPT !.status = verdict] /\ verdict \in Verdicts
    BY <1>2, VerdictTypes DEF Reclassified, IsPullback
  <2>. HIDE DEF c, verdict
  <2>2. c.status = verdict /\ c.price_1d = r.price_1d /\ c.window = r.window
    BY <1>1, <2>1
  <2>3. Sound(k, c, books[k[1]])
    BY <1>2, <2>1, <2>2 DEF Sound, Statuses
  <2>. QED  BY <2>2, <2>3 DEF c, Keeps
<1>3. CASE IsPullback(k)
  <2>. DEFINE q == [r EXCEPT !.status = "PENDING", !.price_1d = None, !.window = None]
  <2>1. c = Evaluated(k, q, asOf)
    BY <1>3 DEF Reclassified, IsPullback
  <2>2. IsRow(q) /\ q.status = "PENDING" /\ q.price_1d = None /\ q.window = None
    BY <1>1 DEF IsRow
  <2>. HIDE DEF q, c
  <2>3. Sound(k, q, books[k[1]])
    BY <1>3, <2>2 DEF Sound, Backed, Statuses, Verdicts
  <2>4. Sound(k, Evaluated(k, q, asOf), books[k[1]])
    BY <2>2, <2>3, EvaluatedSound
  <2>. QED  BY <1>3, <2>1, <2>4 DEF c, Keeps
<1>. QED  BY <1>2, <1>3

(* Two transactions may have settled the row meanwhile: whichever fields the *)
(* UPDATE names, each field of the mixture is sound by itself, and outside   *)
(* pullbacks no window is lost beside a verdict.                             *)
LEMMA WrittenSound ==
  ASSUME NEW k, NEW held, NEW current, NEW read, NEW new, IsRow(current),
         Sound(k, current, held), Sound(k, new, held),
         Keeps(k, read, current), Keeps(k, read, new)
  PROVE  /\ Sound(k, Written(current, read, new), held)
         /\ Keeps(k, current, Written(current, read, new))
<1>. DEFINE w == Written(current, read, new)
<1>1. DOMAIN current = {"status", "regime", "price_1d", "window"}
  BY DEF IsRow
<1>2. /\ w.status \in {current.status, new.status}
      /\ w.price_1d \in {current.price_1d, new.price_1d}
      /\ w.window = IF new.window = read.window THEN current.window ELSE new.window
  BY <1>1 DEF Written
<1>. HIDE DEF w
<1>3. ASSUME ~IsPullback(k), current.window # None \/ new.window # None PROVE w.window # None
  BY <1>2, <1>3 DEF Keeps
<1>4. IsPullback(k) => Backed(k, w, held)
  BY <1>2 DEF Sound, Backed
<1>5. Sound(k, w, held)
  BY <1>2, <1>3, <1>4 DEF Sound
<1>. QED  BY <1>3, <1>5 DEF w, Keeps

-----------------------------------------------------------------------------
(* The steps. *)

(* Rows that only come and that keep their windows disturb no evaluation. *)
LEMMA EvalsUndisturbed ==
  ASSUME NEW x, NEW held, NEW rows, NEW later, NEW d, OneEvalSound(x, held, rows, d),
         DOMAIN rows \subseteq DOMAIN later,
         \A k \in DOMAIN rows : Keeps(k, rows[k], later[k])
  PROVE  OneEvalSound(x, held, later, d)
BY DEF OneEvalSound, Keeps

LEMMA ScanStepsSound ==
  ASSUME IInv, VInv, NEW p \in Scanners,
         ScanStart(p) \/ Detect(p) \/ Insert(p) \/ Abort(p) \/ ScanLost(p)
  PROVE  VInv'
<1>0. ~Idle.active /\ UNCHANGED <<market, obs, eval>> /\ DOMAIN scan = Scanners
  BY DEF Idle, ScanStart, Detect, Insert, Abort, ScanLost, IInv, ScansOK
<1>1. BarsOK' /\ RowsSound' /\ EvalsSound'
  BY <1>0 DEF market, VInv, BarsOK, RowsSound, EvalsSound
<1>2. CountsOK'
  <2>1. MaxScans \in Nat /\ MaxFaults \in Nat
    BY OutcomesAssumption
  <2>2. scans \in 0 .. MaxScans /\ faults \in 0 .. MaxFaults /\ day \in Days
    BY DEF VInv, CountsOK
  <2>3. scans' = scans \/ (scans < MaxScans /\ scans' = scans + 1)
    BY DEF ScanStart, Detect, Insert, Abort, ScanLost
  <2>4. faults' = faults \/ (faults < MaxFaults /\ faults' = faults + 1)
    BY DEF ScanStart, Detect, Insert, Abort, ScanLost, Failed
  <2>. QED  BY <1>0, <2>1, <2>2, <2>3, <2>4 DEF market, VInv, CountsOK
<1>3. ASSUME NEW x, scan' = [scan EXCEPT ![p] = x], x.active => OneScanFits(x) PROVE ScansFit'
  BY <1>0, <1>3 DEF VInv, ScansFit
<1>4. CASE ScanStart(p)
  <2>. DEFINE x == [active |-> TRUE, left |-> ScanOrder[p], mine |-> << >>,
                    want |-> None, label |-> None, broken |-> FALSE]
  <2>1. ScanOrder[p] \in Seq(Symbols)
    BY OutcomesAssumption
  <2>2. OneScanFits(x)
    BY <2>1 DEF OneScanFits
  <2>3. scan' = [scan EXCEPT ![p] = x]
    BY <1>4 DEF ScanStart
  <2>. HIDE DEF x
  <2>. QED  BY <1>1, <1>2, <1>3, <2>2, <2>3 DEF VInv
<1>5. CASE ScanLost(p)
  <2>1. scan' = [scan EXCEPT ![p] = Idle]
    BY <1>5 DEF ScanLost
  <2>2. ScansFit'
    BY <1>0, <1>3, <2>1
  <2>. QED  BY <1>1, <1>2, <2>2 DEF VInv
<1>6. CASE Detect(p) \/ Insert(p) \/ Abort(p)
  <2>. DEFINE y == scan[p]
              f == Following(y)
  <2>1. y.active /\ OneScanFits(y) /\ y.left # << >> /\ IsScan(y)
    BY <1>6 DEF Detect, Insert, Abort, Deadlocked, WaitsFor, Walking, VInv, ScansFit,
                IInv, ScansOK, OneScanOK
  <2>2. Head(y.left) \in Symbols /\ Tail(y.left) \in Seq(Symbols)
    BY <2>1 DEF OneScanFits
  <2>3. f.left = Tail(y.left) /\ f.label = None /\ f.mine = y.mine /\ f.broken = y.broken
        /\ DOMAIN f = DOMAIN y
    BY <2>1 DEF Following, IsScan
  <2>4. CASE Detect(p)
    <3>1. PICK t, found :
            /\ t \in LabelsOf[Head(y.left)]
            /\ \/ scan' = [scan EXCEPT ![p] = f]
               \/ t # "stable" /\ scan' = [scan EXCEPT ![p] =
                    [y EXCEPT !.want = <<Head(y.left), t, day>>, !.label = found]]
      <4>1. PICK t \in LabelsOf[Head(scan[p].left)], fails \in BOOLEAN :
              LET cached == CachedRegime(p, day)
                  found == IF cached # None THEN cached
                           ELSE IF fails \/ scan[p].broken THEN Unknown ELSE day
              IN  IF t = "stable"
                  THEN scan' = [scan EXCEPT ![p] = Following(@)]
                  ELSE scan' = [scan EXCEPT ![p].want = <<Head(scan[p].left), t, day>>,
                                            ![p].label = found]
        BY <2>4 DEF Detect
      <4>2. CASE t = "stable"
        BY <4>1, <4>2, <1>0
      <4>3. CASE t # "stable"
        <5>. DEFINE cached == CachedRegime(p, day)
                    found == IF cached # None THEN cached
                             ELSE IF fails \/ scan[p].broken THEN Unknown ELSE day
        <5>1. scan' = [scan EXCEPT ![p].want = <<Head(scan[p].left), t, day>>, ![p].label = found]
          BY <4>1, <4>3
        <5>. HIDE DEF found
        <5>2. scan' = [scan EXCEPT ![p] =
                         [y EXCEPT !.want = <<Head(y.left), t, day>>, !.label = found]]
          BY <1>0, <5>1
        <5>. QED  BY <4>3, <5>2
      <4>. QED  BY <4>2, <4>3
    <3>. DEFINE x == [y EXCEPT !.want = <<Head(y.left), t, day>>, !.label = found]
    <3>2. OneScanFits(f)
      BY <2>1, <2>2, <2>3 DEF OneScanFits
    <3>3. t # "stable" => OneScanFits(x)
      <4>1. SUFFICES ASSUME t # "stable" PROVE OneScanFits(x)
        OBVIOUS
      <4>2. t \in Labels /\ day \in Days
        <5>1. t \in UNION {LabelsOf[s] : s \in Symbols}
          BY <2>2, <3>1
        <5>. QED  BY <4>1, <5>1 DEF Labels, VInv, CountsOK
      <4>3. <<Head(y.left), t, day>> \in Keys
        BY <2>2, <4>2 DEF Keys
      <4>4. x.left = y.left /\ x.want = <<Head(y.left), t, day>> /\ x.mine = y.mine /\ x.broken = y.broken
        BY <2>1 DEF IsScan
      <4>. HIDE DEF x, y
      <4>. QED  BY <2>1, <4>3, <4>4 DEF OneScanFits
    <3>. HIDE DEF f, x
    <3>4. ScansFit'
      BY <1>3, <3>1, <3>2, <3>3 DEF x
    <3>. QED  BY <1>1, <1>2, <3>4 DEF VInv
  <2>5. CASE Insert(p)
    <3>. DEFINE new == y.want
                held == y.mine
                fresh == ~y.broken /\ new \notin DOMAIN obs \cup DOMAIN held
                more == IF fresh THEN [k \in DOMAIN held \cup {new} |->
                                         IF k = new THEN y.label ELSE held[k]]
                        ELSE held
                x == [f EXCEPT !.mine = more]
    <3>1. scan' = [scan EXCEPT ![p] = x] /\ y.label # None
      BY <2>5 DEF Insert
    <3>2. DOMAIN more \subseteq Keys /\ (y.broken => more = held)
      BY <2>1, <3>1 DEF OneScanFits
    <3>. HIDE DEF more, f
    <3>3. x.left = f.left /\ x.label = None /\ x.mine = more /\ x.broken = y.broken
      BY <2>1, <2>3 DEF IsScan
    <3>. HIDE DEF x, y
    <3>4. OneScanFits(x)
      BY <2>1, <2>2, <2>3, <3>2, <3>3 DEF OneScanFits
    <3>5. ScansFit'
      BY <1>3, <3>1, <3>4
    <3>. QED  BY <1>1, <1>2, <3>5 DEF VInv
  <2>6. CASE Abort(p)
    <3>. DEFINE x == Following([y EXCEPT !.mine = << >>, !.broken = TRUE])
    <3>1. scan' = [scan EXCEPT ![p] = x]
      BY <2>6 DEF Abort
    <3>2. x.left = Tail(y.left) /\ x.label = None /\ x.mine = << >>
      BY <2>1 DEF IsScan, Following
    <3>3. DOMAIN << >> \subseteq Keys
      OBVIOUS
    <3>. HIDE DEF x, y
    <3>4. OneScanFits(x)
      BY <2>2, <3>2, <3>3 DEF OneScanFits
    <3>5. ScansFit'
      BY <1>3, <3>1, <3>4
    <3>. QED  BY <1>1, <1>2, <3>5 DEF VInv
  <2>. QED  BY <1>6, <2>4, <2>5, <2>6
<1>. QED  BY <1>4, <1>5, <1>6

(* New rows claim nothing yet; the others stay. *)
LEMMA ScanEndSound ==
  ASSUME IInv, VInv, NEW p \in Scanners, ScanEnd(p) PROVE VInv'
<1>1. UNCHANGED <<market, eval, scans, faults>> /\ DOMAIN scan = Scanners /\ OneScanFits(scan[p])
  BY DEF ScanEnd, IInv, ScansOK, VInv, ScansFit
<1>2. ASSUME NEW k \in DOMAIN obs' PROVE k \in Keys /\ Sound(k, obs'[k], books[k[1]])
  <2>1. CASE k \in DOMAIN obs
    <3>1. obs'[k] = obs[k]
      BY <1>2, <2>1 DEF ScanEnd
    <3>. QED  BY <2>1, <3>1 DEF VInv, RowsSound
  <2>2. CASE k \notin DOMAIN obs
    <3>1. k \in DOMAIN scan[p].mine /\ obs'[k] = NewObservation(scan[p].mine[k])
      BY <1>2, <2>2 DEF ScanEnd
    <3>2. k \in Keys
      BY <1>1, <3>1 DEF OneScanFits
    <3>. QED  BY <3>1, <3>2 DEF NewObservation, Sound, Backed, Statuses, Verdicts
  <2>. QED  BY <2>1, <2>2
<1>3. RowsSound'
  BY <1>1, <1>2 DEF RowsSound, market
<1>4. DOMAIN obs \subseteq DOMAIN obs' /\ \A k \in DOMAIN obs : Keeps(k, obs[k], obs'[k])
  BY DEF ScanEnd, Keeps
<1>5. EvalsSound'
  <2>1. ASSUME NEW e \in Evals, eval[e].active PROVE OneEvalSound(eval[e], books, obs', day)
    <3>1. OneEvalSound(eval[e], books, obs, day)
      BY <2>1 DEF VInv, EvalsSound
    <3>. QED  BY <1>4, <3>1, EvalsUndisturbed
  <2>. QED  BY <1>1, <2>1 DEF EvalsSound, market
<1>6. ScansFit'
  BY <1>1 DEF ScanEnd, VInv, ScansFit, Idle
<1>. QED  BY <1>1, <1>3, <1>5, <1>6 DEF VInv, BarsOK, CountsOK, market

LEMMA EvalStepsSound ==
  ASSUME IInv, VInv, NEW e \in Evals,
         EvalStart(e) \/ EvalRow(e) \/ EvalFlush(e) \/ EvalAbort(e) \/ EvalLost(e)
  PROVE  VInv'
<1>0. ~Idle.active /\ UNCHANGED <<market, obs, scan, scans>> /\ DOMAIN eval = Evals
  BY DEF Idle, EvalStart, EvalRow, EvalFlush, EvalAbort, EvalLost, IInv, EvalsOK
<1>1. BarsOK' /\ RowsSound' /\ ScansFit'
  BY <1>0 DEF VInv, BarsOK, RowsSound, ScansFit, market
<1>2. CountsOK'
  <2>1. faults \in 0 .. MaxFaults /\ MaxFaults \in Nat
    BY OutcomesAssumption DEF VInv, CountsOK
  <2>2. faults' = faults \/ (faults < MaxFaults /\ faults' = faults + 1)
    BY DEF EvalStart, Failed, EvalRow, EvalFlush, EvalAbort, EvalLost
  <2>. QED  BY <1>0, <2>1, <2>2 DEF VInv, CountsOK, market
<1>3. ASSUME NEW x, eval' = [eval EXCEPT ![e] = x],
             x.active => OneEvalSound(x, books, obs, day)
      PROVE  EvalsSound'
  BY <1>0, <1>3 DEF VInv, EvalsSound, market
<1>4. CASE EvalLost(e)
  BY <1>0, <1>1, <1>2, <1>3, <1>4 DEF EvalLost, VInv
<1>5. CASE EvalStart(e)
  <2>1. PICK job \in JobsOf[e] :
          eval' = [eval EXCEPT ![e] =
            [active |-> TRUE, job |-> job, asOf |-> day,
             read |-> [k \in {k \in DOMAIN obs : Loaded(job, k, day)} |-> obs[k]],
             new |-> << >>, held |-> {}]]
    BY <1>5 DEF EvalStart
  <2>. DEFINE rows == {k \in DOMAIN obs : Loaded(job, k, day)}
              x == [active |-> TRUE, job |-> job, asOf |-> day,
                    read |-> [k \in rows |-> obs[k]], new |-> << >>, held |-> {}]
  <2>2. day \in Days /\ day <= day
    BY OutcomesAssumption DEF VInv, CountsOK, Days
  <2>3. ASSUME NEW k \in rows
        PROVE  /\ Sound(k, obs[k], books[k[1]])
               /\ job # "evaluate" /\ ~IsPullback(k) => obs[k].window # None
    <3>1. Sound(k, obs[k], books[k[1]])
      BY <2>3 DEF VInv, RowsSound
    <3>2. Loaded(job, k, day)
      BY <2>3
    <3>. QED  BY <3>1, <3>2 DEF Loaded, IsPullback, Sound
  <2>4. rows \subseteq DOMAIN obs
    OBVIOUS
  <2>5. x.asOf = day /\ DOMAIN x.read = rows /\ x.new = << >> /\ x.job = job
        /\ \A k \in rows : x.read[k] = obs[k]
    OBVIOUS
  <2>6. DOMAIN << >> = {}
    OBVIOUS
  <2>. HIDE DEF x, rows
  <2>7. OneEvalSound(x, books, obs, day)
    BY <2>2, <2>3, <2>4, <2>5, <2>6 DEF OneEvalSound, Keeps
  <2>8. EvalsSound'
    BY <1>3, <2>1, <2>7 DEF x, rows
  <2>. QED  BY <1>1, <1>2, <2>8 DEF VInv
<1>6. CASE EvalRow(e)
  <2>. DEFINE y == eval[e]
  <2>1. OneEvalSound(y, books, obs, day) /\ IsEval(y) /\ \A k \in DOMAIN y.read : IsRow(y.read[k])
    BY <1>6 DEF EvalRow, VInv, EvalsSound, IInv, EvalsOK, OneEvalOK
  <2>2. PICK k \in DOMAIN y.read :
          LET result == IF y.job = "evaluate" THEN Evaluated(k, y.read[k], y.asOf)
                        ELSE Reclassified(k, y.read[k], y.asOf)
          IN  eval' = [eval EXCEPT ![e].new = [j \in DOMAIN @ \cup {k} |->
                                                 IF j = k THEN result ELSE @[j]]]
    BY <1>6 DEF EvalRow, Left
  <2>. DEFINE result == IF y.job = "evaluate" THEN Evaluated(k, y.read[k], y.asOf)
                        ELSE Reclassified(k, y.read[k], y.asOf)
              new == [j \in DOMAIN y.new \cup {k} |-> IF j = k THEN result ELSE y.new[j]]
              x == [y EXCEPT !.new = new]
  <2>3. Sound(k, result, books[k[1]]) /\ Keeps(k, y.read[k], result)
    <3>1. k \in Keys /\ y.asOf \in Int /\ day \in Int /\ y.asOf <= day /\ BarsOK
      BY <2>1, OutcomesAssumption DEF OneEvalSound, VInv, RowsSound, Days, CountsOK
    <3>2. /\ Sound(k, y.read[k], books[k[1]]) /\ IsRow(y.read[k])
          /\ y.job # "evaluate" /\ ~IsPullback(k) => y.read[k].window # None
      BY <2>1 DEF OneEvalSound
    <3>3. CASE y.job = "evaluate"
      <4>1. result = Evaluated(k, y.read[k], y.asOf)
        BY <3>3
      <4>. HIDE DEF y, result
      <4>. QED  BY <3>1, <3>2, <4>1, EvaluatedSound DEF Keeps
    <3>4. CASE y.job # "evaluate"
      <4>1. result = Reclassified(k, y.read[k], y.asOf)
        BY <3>4
      <4>. HIDE DEF y, result
      <4>. QED  BY <3>1, <3>2, <3>4, <4>1, ReclassifiedSound
    <3>. QED  BY <3>3, <3>4
  <2>4. eval' = [eval EXCEPT ![e] = x]
    BY <2>2
  <2>. HIDE DEF result, y
  <2>5. /\ DOMAIN new = DOMAIN y.new \cup {k} /\ new[k] = result
        /\ \A j \in DOMAIN y.new : j # k => new[j] = y.new[j]
    OBVIOUS
  <2>. HIDE DEF new
  <2>6. x.asOf = y.asOf /\ x.read = y.read /\ x.job = y.job /\ x.new = new
    BY <2>1 DEF IsEval
  <2>. HIDE DEF x
  <2>7. ASSUME NEW j \in DOMAIN new
        PROVE  Sound(j, new[j], books[j[1]]) /\ Keeps(j, y.read[j], new[j])
    BY <2>1, <2>3, <2>5, <2>7 DEF OneEvalSound
  <2>8. OneEvalSound(x, books, obs, day)
    BY <2>1, <2>6, <2>7 DEF OneEvalSound
  <2>9. EvalsSound'
    BY <1>3, <2>4, <2>8
  <2>. QED  BY <1>1, <1>2, <2>9 DEF VInv
<1>7. CASE EvalFlush(e)
  <2>. DEFINE y == eval[e]
  <2>1. OneEvalSound(y, books, obs, day) /\ IsEval(y)
    BY <1>7 DEF EvalFlush, VInv, EvalsSound, IInv, EvalsOK, OneEvalOK
  <2>2. PICK h : eval' = [eval EXCEPT ![e].held = h]
    BY <1>7 DEF EvalFlush
  <2>. DEFINE x == [y EXCEPT !.held = h]
  <2>3. eval' = [eval EXCEPT ![e] = x]
    BY <2>2
  <2>. HIDE DEF y
  <2>4. x.asOf = y.asOf /\ x.read = y.read /\ x.job = y.job /\ x.new = y.new
    BY <2>1 DEF IsEval
  <2>. HIDE DEF x
  <2>5. OneEvalSound(x, books, obs, day)
    BY <2>1, <2>4 DEF OneEvalSound
  <2>6. EvalsSound'
    BY <1>3, <2>3, <2>5
  <2>. QED  BY <1>1, <1>2, <2>6 DEF VInv
<1>8. CASE EvalAbort(e)
  <2>1. PICK f \in Evals : /\ e # f /\ eval[f].active
                           /\ \E h : eval' = [eval EXCEPT ![e] = Idle, ![f].held = h]
    BY <1>8 DEF EvalAbort, EvalWaits
  <2>. DEFINE y == eval[f]
  <2>2. PICK h : eval' = [eval EXCEPT ![e] = Idle, ![f].held = h]
    BY <2>1
  <2>. DEFINE x == [y EXCEPT !.held = h]
  <2>3. OneEvalSound(y, books, obs, day) /\ IsEval(y)
    BY <2>1 DEF VInv, EvalsSound, IInv, EvalsOK, OneEvalOK
  <2>4. eval' = [eval EXCEPT ![e] = Idle, ![f] = x]
    BY <2>1, <2>2
  <2>. HIDE DEF y
  <2>5. x.asOf = y.asOf /\ x.read = y.read /\ x.job = y.job /\ x.new = y.new
    BY <2>3 DEF IsEval
  <2>. HIDE DEF x
  <2>6. OneEvalSound(x, books, obs, day)
    BY <2>3, <2>5 DEF OneEvalSound
  <2>7. EvalsSound'
    BY <1>0, <2>1, <2>4, <2>6 DEF VInv, EvalsSound, market
  <2>. QED  BY <1>1, <1>2, <2>7 DEF VInv
<1>. QED  BY <1>4, <1>5, <1>6, <1>7, <1>8

(* The commit of a transaction whose rows another may have settled since. *)
LEMMA EvalCommitSound ==
  ASSUME IInv, VInv, NEW e \in Evals, EvalCommit(e) PROVE VInv'
<1>. DEFINE x == eval[e]
<1>1. /\ UNCHANGED <<market, scan, scans, faults>>
      /\ DOMAIN obs' = DOMAIN obs /\ OneEvalSound(x, books, obs, day) /\ OneEvalOK(x)
      /\ \A k \in DOMAIN obs : obs'[k] = IF k \in x.held
                                         THEN Written(obs[k], x.read[k], x.new[k]) ELSE obs[k]
  BY DEF EvalCommit, VInv, EvalsSound, IInv, EvalsOK
<1>2. ASSUME NEW k \in DOMAIN obs
      PROVE  Sound(k, obs'[k], books[k[1]]) /\ Keeps(k, obs[k], obs'[k])
  <2>1. Sound(k, obs[k], books[k[1]]) /\ IsRow(obs[k])
    BY <1>2 DEF VInv, RowsSound, IInv, RowsOK
  <2>2. CASE k \notin x.held
    BY <1>1, <2>1, <2>2 DEF Keeps
  <2>3. CASE k \in x.held
    <3>1. k \in DOMAIN x.new /\ k \in DOMAIN x.read
      BY <1>1, <2>3 DEF OneEvalOK
    <3>2. /\ Sound(k, x.new[k], books[k[1]])
          /\ Keeps(k, x.read[k], obs[k]) /\ Keeps(k, x.read[k], x.new[k])
      BY <1>1, <3>1 DEF OneEvalSound
    <3>3. obs'[k] = Written(obs[k], x.read[k], x.new[k])
      BY <1>1, <2>3
    <3>. HIDE DEF x
    <3>. QED  BY <2>1, <3>2, <3>3, WrittenSound
  <2>. QED  BY <2>2, <2>3
<1>3. RowsSound'
  BY <1>1, <1>2 DEF VInv, RowsSound, market
<1>4. EvalsSound'
  <2>1. ASSUME NEW i \in Evals, eval'[i].active PROVE OneEvalSound(eval'[i], books, obs', day)
    <3>1. eval'[i] = eval[i] /\ eval[i].active
      BY <2>1 DEF EvalCommit, IInv, EvalsOK, Idle
    <3>2. OneEvalSound(eval[i], books, obs, day)
      BY <3>1 DEF VInv, EvalsSound
    <3>. QED  BY <1>1, <1>2, <3>1, <3>2, EvalsUndisturbed
  <2>. QED  BY <1>1, <2>1 DEF EvalsSound, market
<1>. QED  BY <1>1, <1>3, <1>4 DEF VInv, BarsOK, ScansFit, CountsOK, market

LEMMA RegimesSound ==
  ASSUME IInv, VInv, ReclassifyRegimes PROVE VInv'
<1>1. /\ UNCHANGED <<market, scan, scans, eval, faults>> /\ DOMAIN obs' = DOMAIN obs
      /\ \A k \in DOMAIN obs : obs'[k] = [obs[k] EXCEPT !.regime = k[3]]
  BY DEF ReclassifyRegimes
<1>2. ASSUME NEW k \in DOMAIN obs
      PROVE  Sound(k, obs'[k], books[k[1]]) /\ Keeps(k, obs[k], obs'[k])
  <2>1. DOMAIN obs[k] = {"status", "regime", "price_1d", "window"}
        /\ Sound(k, obs[k], books[k[1]])
    BY <1>2 DEF IInv, RowsOK, IsRow, VInv, RowsSound
  <2>2. obs'[k].status = obs[k].status /\ obs'[k].price_1d = obs[k].price_1d
        /\ obs'[k].window = obs[k].window
    BY <1>1, <1>2, <2>1
  <2>. QED  BY <2>1, <2>2 DEF Sound, Backed, Keeps
<1>3. RowsSound'
  BY <1>1, <1>2 DEF VInv, RowsSound, market
<1>4. EvalsSound'
  <2>1. ASSUME NEW i \in Evals, eval[i].active PROVE OneEvalSound(eval[i], books, obs', day)
    <3>1. OneEvalSound(eval[i], books, obs, day)
      BY <2>1 DEF VInv, EvalsSound
    <3>. QED  BY <1>1, <1>2, <3>1, EvalsUndisturbed
  <2>. QED  BY <1>1, <2>1 DEF EvalsSound, market
<1>. QED  BY <1>1, <1>3, <1>4 DEF VInv, BarsOK, ScansFit, CountsOK, market

(* Days pass and sessions are written: the history only grows, and nothing  *)
(* sound stands on the table itself.                                        *)
LEMMA MarketSound ==
  ASSUME IInv, VInv, NEW now \in [Symbols -> Sessions], NEW d \in Days, day <= d,
         bar' = now, day' = d, Record(now, d), rewrites' \in 0 .. MaxRewrites,
         UNCHANGED <<obs, scan, scans, eval, faults>>
  PROVE  VInv'
<1>1. /\ books' \in [Symbols -> SUBSET Sessions]
      /\ \A s \in Symbols : books[s] \subseteq books'[s] /\ Past(now[s], d) \in books'[s]
  <2>1. books' = [s \in Symbols |-> books[s] \cup {Past(now[s], d)}]
    BY DEF Record
  <2>2. ASSUME NEW s \in Symbols PROVE books[s] \in SUBSET Sessions /\ Past(now[s], d) \in Sessions
    BY <2>2, PastTyped DEF VInv, BarsOK
  <2>. QED  BY <2>1, <2>2
<1>2. BarsOK'
  BY <1>1 DEF BarsOK
<1>3. ASSUME NEW k \in DOMAIN obs, NEW r, Sound(k, r, books[k[1]]) PROVE Sound(k, r, books'[k[1]])
  <2>1. k[1] \in Symbols
    BY <1>3 DEF VInv, RowsSound, Keys
  <2>. QED  BY <1>1, <1>3, <2>1, SoundKept
<1>4. RowsSound'
  <2>1. \A k \in DOMAIN obs : Sound(k, obs[k], books'[k[1]])
    BY <1>3 DEF VInv, RowsSound
  <2>. QED  BY <2>1 DEF VInv, RowsSound
<1>5. EvalsSound'
  <2>1. ASSUME NEW i \in Evals, eval[i].active PROVE OneEvalSound(eval[i], books', obs, d)
    <3>. DEFINE x == eval[i]
    <3>1. OneEvalSound(x, books, obs, day) /\ DOMAIN x.new \subseteq DOMAIN x.read
      BY <2>1 DEF VInv, EvalsSound, IInv, EvalsOK, OneEvalOK
    <3>. HIDE DEF x
    <3>2. x.asOf \in Days /\ x.asOf <= d
      BY <3>1, OutcomesAssumption DEF OneEvalSound, VInv, CountsOK, Days
    <3>3. OneEvalSound(x, books', obs, d)
      BY <1>3, <3>1, <3>2 DEF OneEvalSound
    <3>. QED  BY <3>3 DEF x
  <2>. QED  BY <2>1 DEF EvalsSound
<1>6. CountsOK'
  BY DEF VInv, CountsOK
<1>. QED  BY <1>2, <1>4, <1>5, <1>6 DEF VInv, ScansFit

LEMMA MidnightSound ==
  ASSUME IInv, VInv, Midnight PROVE VInv'
<1>1. day + 1 \in Days /\ day <= day + 1 /\ bar \in [Symbols -> Sessions]
      /\ rewrites \in 0 .. MaxRewrites
  BY OutcomesAssumption DEF Midnight, VInv, CountsOK, BarsOK, Days
<1>. QED  BY <1>1, MarketSound DEF Midnight

LEMMA PriceCycleSound ==
  ASSUME IInv, VInv, PriceCycle PROVE VInv'
<1>. DEFINE recent == PriceDays \cap (day - DownloadDays + 1 .. day)
<1>1. PICK new \in [Symbols \X recent -> UNION {BarsOf[s] : s \in Symbols}] :
        LET now == [s \in Symbols |-> [d \in Days |->
                     IF d \in recent /\ new[s, d] # None THEN new[s, d] ELSE bar[s][d]]]
        IN  /\ \A s \in Symbols, d \in recent : new[s, d] \in BarsOf[s]
            /\ bar' = now /\ Record(now, day)
            /\ rewrites' = IF \A s \in Symbols : Past(now[s], day) = Past(bar[s], day)
                           THEN rewrites ELSE rewrites + 1
  BY DEF PriceCycle
<1>. DEFINE now == [s \in Symbols |-> [d \in Days |->
                     IF d \in recent /\ new[s, d] # None THEN new[s, d] ELSE bar[s][d]]]
<1>2. now \in [Symbols -> Sessions]
  <2>1. ASSUME NEW s \in Symbols, NEW d \in Days
        PROVE  (IF d \in recent /\ new[s, d] # None THEN new[s, d] ELSE bar[s][d]) \in BarKinds \cup {None}
    <3>1. bar[s][d] \in BarKinds \cup {None}
      BY DEF VInv, BarsOK, Sessions
    <3>2. d \in recent => new[s, d] \in BarKinds \cup {None}
      BY <1>1, OutcomesAssumption
    <3>. QED  BY <3>1, <3>2
  <2>. HIDE DEF recent
  <2>. QED  BY <2>1 DEF Sessions
<1>3. day \in Days /\ day <= day
  BY OutcomesAssumption DEF VInv, CountsOK, Days
<1>4. bar' = now /\ Record(now, day) /\ (rewrites' = rewrites \/ rewrites' = rewrites + 1)
  BY <1>1
<1>. HIDE DEF now, recent
<1>5. rewrites' \in 0 .. MaxRewrites
  <2>1. rewrites \in Nat /\ MaxRewrites \in Nat
    BY OutcomesAssumption DEF VInv, CountsOK
  <2>2. rewrites' <= MaxRewrites
    BY DEF PriceCycle
  <2>. QED  BY <1>4, <2>1, <2>2
<1>6. UNCHANGED <<day, obs, scan, scans, eval, faults>>
  BY DEF PriceCycle
<1>. QED  BY <1>2, <1>3, <1>4, <1>5, <1>6, MarketSound

LEMMA InitSound == Init => VInv
<1>. SUFFICES ASSUME Init PROVE VInv
  OBVIOUS
<1>1. BarsOK
  <2>1. Unwritten \in Sessions /\ Past(Unwritten, 0) = Unwritten
    BY DEF Unwritten, Sessions, Past
  <2>. QED  BY <2>1 DEF Init, BarsOK
<1>2. CountsOK
  BY OutcomesAssumption DEF Init, CountsOK, Days
<1>3. ScansFit /\ EvalsSound
  BY DEF Init, ScansFit, EvalsSound, Idle
<1>4. RowsSound
  BY DEF Init, RowsSound
<1>. QED  BY <1>1, <1>2, <1>3, <1>4 DEF VInv

LEMMA StepSound == IInv /\ VInv /\ [Next]_vars => VInv'
<1>. SUFFICES ASSUME IInv, VInv, [Next]_vars PROVE VInv'
  OBVIOUS
<1>1. ASSUME NEW p \in Scanners, ScanStart(p) \/ ScanStep(p) \/ ScanLost(p) PROVE VInv'
  BY <1>1, ScanStepsSound, ScanEndSound DEF ScanStep
<1>2. ASSUME NEW e \in Evals, EvalStart(e) \/ EvalStep(e) \/ EvalLost(e) PROVE VInv'
  BY <1>2, EvalStepsSound, EvalCommitSound DEF EvalStep
<1>3. CASE Midnight \/ PriceCycle \/ ReclassifyRegimes
  BY <1>3, MidnightSound, PriceCycleSound, RegimesSound
<1>4. CASE UNCHANGED vars
  BY <1>4 DEF vars, VInv, BarsOK, RowsSound, ScansFit, EvalsSound, CountsOK
<1>. QED  BY <1>1, <1>2, <1>3, <1>4 DEF Next

(* Every row has a known status, a date's regime or the sentinel, a bar as     *)
(* first price and, outside pullbacks, a verdict only with a full window of    *)
(* bars; an aborted scan holds no rows, an evaluation locks only rows there    *)
(* are and no bound is exceeded.                                               *)
THEOREM OutcomesTyped == Spec => []TypeOK
<1>1. IInv /\ VInv => TypeOK
  <2>. SUFFICES ASSUME IInv, VInv PROVE TypeOK
    OBVIOUS
  <2>1. ASSUME NEW k \in DOMAIN obs
        PROVE  /\ obs[k].status \in Statuses /\ obs[k].regime \in Days \cup {Unknown}
               /\ obs[k].price_1d \in BarKinds \cup {None}
               /\ obs[k].window = None \/ Len(obs[k].window) = Window
               /\ obs[k].status \in Verdicts /\ k[2] # "entering_pullback" => obs[k].window # None
    <3>1. k[3] \in Days /\ obs[k].regime \in {k[3], Unknown} /\ Sound(k, obs[k], books[k[1]])
      BY <2>1 DEF IInv, RowsOK, Of, VInv, RowsSound, Keys
    <3>2. ASSUME NEW w \in [1 .. Window -> BarKinds] PROVE Len(w) = Window
      BY WindowAssumption
    <3>. QED  BY <3>1, <3>2 DEF Sound, IsPullback
  <2>2. ASSUME NEW e \in Evals, eval[e].active PROVE eval[e].held \subseteq DOMAIN obs
    BY <2>2 DEF IInv, EvalsOK, OneEvalOK, VInv, EvalsSound, OneEvalSound
  <2>. QED  BY <2>1, <2>2 DEF VInv, CountsOK, BarsOK, RowsSound, ScansFit, OneScanFits, TypeOK
<1>. QED  BY InitInv, StepInv, InitSound, StepSound, <1>1, PTL DEF Spec

(* What a pullback shows is what completed sessions have said, for any         *)
(* universe, window and calendar, any number of evaluations and                *)
(* reclassifications at once, rows half written by each, midnights and price   *)
(* cycles between their steps that rewrite or fill in past sessions, and       *)
(* transactions lost or aborted (_evaluate_one, reevaluate_pullback).          *)
THEOREM PullbacksFaithful == Spec => []PullbackFaithful
<1>1. VInv => PullbackFaithful
  BY DEF VInv, RowsSound, Sound, Backed, IsPullback, PullbackFaithful
<1>. QED  BY InitInv, StepInv, InitSound, StepSound, <1>1, PTL DEF Spec

-----------------------------------------------------------------------------
(* The rules, which the run compares at its samples, hold of every input.  *)

(* Whatever the extremes of two paths, the family verdicts are ordered as    *)
(* the paths are (_classify_outcome).                                        *)
THEOREM FamiliesOrderedThroughout == FamiliesOrdered(Extremes) /\ (Spec => []FamilyOrder)
<1>1. SampleExtremes \subseteq Extremes
  BY DEF SampleExtremes, Extremes
<1>2. FamiliesOrdered(SampleExtremes)
  BY <1>1, FamiliesAlwaysOrdered DEF FamiliesOrdered
<1>3. FamilyOrder
  BY <1>2 DEF FamilyOrder
<1>. QED  BY <1>3, FamiliesAlwaysOrdered, PTL

(* Whatever the counts, the baseline and the fresh signals, the descriptor   *)
(* follows its evidence (classify_follow_through, classify_provisional).     *)
THEOREM FollowThroughThroughout ==
  /\ ProvisionalFollows(Int) /\ FollowThroughFollows(Counts, Counts, Nat)
  /\ Spec => []FollowThroughSound
<1>1. SampleMoves \subseteq Int /\ SampleCounts \subseteq Counts /\ SampleBaselines \subseteq Counts
      /\ 0 .. 6 \subseteq Nat
  BY DEF SampleMoves, SampleCounts, SampleBaselines, Counts, Count
<1>2. ProvisionalFollows(SampleMoves)
  BY <1>1, FollowThroughAlwaysFollows DEF ProvisionalFollows
<1>3. FollowThroughFollows(SampleCounts, SampleBaselines, 0 .. 6)
  BY <1>1, FollowThroughAlwaysFollows DEF FollowThroughFollows
<1>4. FollowThroughSound
  BY <1>2, <1>3 DEF FollowThroughSound
<1>. QED  BY <1>4, FollowThroughAlwaysFollows, PTL

(* Whatever numbers a row has or lacks besides its 52-week high, the gate    *)
(* and its breakdown agree (is_quality_leader, evaluate_minervini_criteria). *)
THEOREM GateThroughout == BreakdownIsGate(Rows) /\ (Spec => []GateAndBreakdownAgree)
<1>1. SampleRows \subseteq Rows
  BY DEF SampleRows, Rows
<1>2. BreakdownIsGate(SampleRows)
  BY <1>1, BreakdownIsAlwaysGate DEF BreakdownIsGate
<1>3. GateAndBreakdownAgree
  BY <1>2 DEF GateAndBreakdownAgree
<1>. QED  BY <1>3, BreakdownIsAlwaysGate, PTL
===============================================================================
