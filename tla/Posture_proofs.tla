---------------------------- MODULE Posture_proofs ----------------------------
(***************************************************************************)
(* Posture: types, the ladder of the hysteresis flags and what a replay of *)
(* a moving window may forget, for every choice of thresholds that orders  *)
(* them, every window and every alphabet of sessions.                      *)
(***************************************************************************)
EXTENDS Posture, FiniteSetTheorems, TLAPS

(* What the policy uses of a classified day. *)
IsDay(d) ==
  /\ d.breadth \in Nat /\ d.leaders \in Nat
  /\ d.index_bullish \in BOOLEAN /\ d.index_above_ema200 \in BOOLEAN
  /\ d.index_bullish => d.index_above_ema200

(* The inductive invariant: the flags the window has left obey the ladder too. *)
IInv == TypeOK /\ PolicyLadder /\ Ladder(gone) /\ ForgetsOnly

-----------------------------------------------------------------------------
(* One classified day. *)

(* A classified day is one the policy's lemmas speak of. *)
LEMMA ClassifiedIsDay ==
  ASSUME NEW cur \in Sessions, NEW prev \in Sessions
  PROVE  IsDay(ClassifiedDay(cur, prev))
BY PostureAssumption DEF IsDay, ClassifiedDay, RawSession

(* The entry quality of NORMAL is more than its exit quality, and either keeps *)
(* clear of the defensive bands.                                               *)
LEMMA BandsOrdered ==
  ASSUME NEW d, IsDay(d)
  PROVE  /\ normal_entry(d) => normal_exit(d)
         /\ aggressive_exit(d) => normal_exit(d)
         /\ normal_exit(d) => defensive_exit(d) /\ ~defensive_entry(d)
<1>1. normal_entry(d) => normal_exit(d)
  BY ThresholdAssumption DEF IsDay, normal_entry, normal_exit
<1>2. aggressive_exit(d) => normal_exit(d)
  BY ThresholdAssumption DEF IsDay, aggressive_exit, normal_exit
<1>3. normal_exit(d) => defensive_exit(d) /\ ~defensive_entry(d)
  BY ThresholdAssumption DEF IsDay, normal_exit, defensive_exit, defensive_entry
<1>. QED  BY <1>1, <1>2, <1>3

(* No confirmation without entry quality on the day itself. *)
LEMMA ConfirmedToday ==
  ASSUME NEW s \in PolicyState, NEW d, Streak(s, d) >= T.normal_confirmation_days
  PROVE  normal_entry(d)
BY ThresholdAssumption DEF Streak, PolicyState

(* A turn of the loop keeps the type. *)
LEMMA TurnType ==
  ASSUME NEW s \in PolicyState, NEW d
  PROVE  PolicyDay(s, d) \in PolicyState
<1>1. Streak(s, d) \in Nat
  BY DEF Streak, PolicyState
<1>2. ExceptionalAge(s, d) \in 0 .. T.exceptional_retention_sessions \cup {None}
  BY ThresholdAssumption, NoneAssumption DEF ExceptionalAge, Held, PolicyState
<1>3. /\ DefensiveActive(s, d) \in BOOLEAN /\ NormalActive(s, d) \in BOOLEAN
      /\ AggressiveActive(s, d) \in BOOLEAN
  BY DEF DefensiveActive, NormalActive, AggressiveActive
<1>. QED  BY <1>1, <1>2, <1>3 DEF PolicyDay, PolicyState

(* A turn of the loop keeps the ladder. *)
LEMMA TurnLadder ==
  ASSUME NEW s \in PolicyState, NEW d, IsDay(d), Ladder(s)
  PROVE  Ladder(PolicyDay(s, d))
<1>1. AggressiveActive(s, d) => NormalActive(s, d)
  BY BandsOrdered DEF AggressiveActive, NormalActive, Ladder
<1>2. NormalActive(s, d) => normal_exit(d)
  BY BandsOrdered, ConfirmedToday DEF NormalActive
<1>3. NormalActive(s, d) => ~DefensiveActive(s, d)
  BY <1>2, BandsOrdered DEF DefensiveActive
<1>. QED  BY <1>1, <1>3 DEF Ladder, PolicyDay

(* A turn of the loop is monotone: who knew less knows less afterwards. *)
LEMMA TurnForgets ==
  ASSUME NEW s \in PolicyState, NEW t \in PolicyState, NEW d, Forgets(s, t)
  PROVE  Forgets(PolicyDay(s, d), PolicyDay(t, d))
<1>1. \/ Streak(s, d) <= Streak(t, d)
      \/ Streak(t, d) >= T.normal_confirmation_days
  BY ThresholdAssumption DEF Forgets, Streak, PolicyState
<1>2. Streak(s, d) \in Nat /\ Streak(t, d) \in Nat /\ T.normal_confirmation_days \in Nat
  BY ThresholdAssumption DEF Streak, PolicyState
<1>3. Streak(s, d) >= T.normal_confirmation_days => Streak(t, d) >= T.normal_confirmation_days
  BY <1>1, <1>2
<1>4. NormalActive(s, d) => NormalActive(t, d)
  BY <1>3 DEF NormalActive, Forgets
<1>5. AggressiveActive(s, d) => AggressiveActive(t, d)
  BY <1>4 DEF AggressiveActive, Forgets
<1>6. DefensiveActive(s, d) => DefensiveActive(t, d)
  BY DEF DefensiveActive, Forgets
<1>7. ExceptionalAge(s, d) # None => ExceptionalAge(t, d) = ExceptionalAge(s, d)
  BY DEF ExceptionalAge, Forgets
<1>. QED  BY <1>1, <1>4, <1>5, <1>6, <1>7 DEF Forgets, PolicyDay

(* A turn on which the two differ says nothing of what they differ in. *)
LEMMA TurnSaysNothing ==
  ASSUME NEW s \in PolicyState, NEW t \in PolicyState, NEW d, IsDay(d), Forgets(s, t)
  PROVE  SaysNothing(PolicyDay(s, d), PolicyDay(t, d), d)
<1>1. DefensiveActive(t, d) /\ ~DefensiveActive(s, d) => ~defensive_entry(d) /\ ~defensive_exit(d)
  BY DEF DefensiveActive
<1>2. NormalActive(t, d) => normal_exit(d)
  BY BandsOrdered, ConfirmedToday DEF NormalActive
<1>3. AggressiveActive(t, d) => normal_exit(d)
  BY <1>2, BandsOrdered DEF AggressiveActive
<1>4. ExceptionalAge(t, d) # None => normal_exit(d)
  BY DEF ExceptionalAge, Held
<1>5. Streak(s, d) < Streak(t, d) => normal_entry(d)
  BY DEF Streak
<1>. QED  BY <1>1, <1>2, <1>3, <1>4, <1>5 DEF SaysNothing, PolicyDay

(* Where the two still differ after a turn they differed before, so that the  *)
(* sessions before keep saying nothing.                                       *)
LEMMA TurnStillSaysNothing ==
  ASSUME NEW s \in PolicyState, NEW t \in PolicyState, NEW d, Forgets(s, t),
         NEW e, IsDay(e), SaysNothing(s, t, e)
  PROVE  SaysNothing(PolicyDay(s, d), PolicyDay(t, d), e)
<1>1. DefensiveActive(t, d) /\ ~DefensiveActive(s, d) => ~defensive_entry(e) /\ ~defensive_exit(e)
  BY DEF DefensiveActive, SaysNothing
<1>2. Streak(s, d) < Streak(t, d) => normal_entry(e)
  BY DEF Streak, SaysNothing, PolicyState
<1>3. NormalActive(t, d) /\ ~NormalActive(s, d) => normal_exit(e)
  <2>1. CASE t.normal /\ normal_exit(d)
    BY <2>1 DEF NormalActive, SaysNothing
  <2>2. CASE Streak(t, d) >= T.normal_confirmation_days
    <3>1. ~NormalActive(s, d) => Streak(s, d) < Streak(t, d)
      BY <2>2, ThresholdAssumption DEF NormalActive, Streak, PolicyState
    <3>. QED  BY <1>2, <3>1, BandsOrdered
  <2>. QED  BY <2>1, <2>2 DEF NormalActive
<1>4. AggressiveActive(t, d) /\ ~AggressiveActive(s, d) => normal_exit(e)
  BY <1>3 DEF AggressiveActive, SaysNothing
<1>5. ExceptionalAge(t, d) # None /\ ExceptionalAge(s, d) = None => normal_exit(e)
  BY DEF ExceptionalAge, Forgets, SaysNothing
<1>. QED  BY <1>1, <1>2, <1>3, <1>4, <1>5 DEF SaysNothing, PolicyDay

-----------------------------------------------------------------------------
(* One session of a replay. *)

LEMMA AfterKeeps ==
  ASSUME NEW history \in Seq(Sessions), NEW i \in Lookback + 1 .. Len(history),
         NEW s \in PolicyState, NEW t \in PolicyState
  PROVE  /\ After(s, history, i) \in PolicyState
         /\ Ladder(s) => Ladder(After(s, history, i))
         /\ Forgets(s, t) => Forgets(After(s, history, i), After(t, history, i))
<1>. DEFINE d == ClassifiedDay(history[i], Prev(history, i))
<1>1. history[i] \in Sessions /\ Prev(history, i) \in Sessions
  BY PostureAssumption DEF Prev
<1>2. IsDay(d)
  BY <1>1, ClassifiedIsDay
<1>. HIDE DEF d
<1>3. PolicyDay(s, d) \in PolicyState
  BY TurnType
<1>4. Ladder(s) => Ladder(PolicyDay(s, d))
  BY <1>2, TurnLadder
<1>5. Forgets(s, t) => Forgets(PolicyDay(s, d), PolicyDay(t, d))
  BY TurnForgets
<1>. QED  BY <1>3, <1>4, <1>5 DEF After, d

LEMMA AfterSaysNothing ==
  ASSUME raw \in Seq(Sessions), at \in Lookback + 1 .. Len(raw),
         policy \in PolicyState, twin \in PolicyState, ForgetsOnly,
         NEW i \in Replayed \cup {at}, Classifiable(raw[i], Prev(raw, i))
  PROVE  SaysNothing(After(policy, raw, at), After(twin, raw, at),
                     ClassifiedDay(raw[i], Prev(raw, i)))
<1>. DEFINE e == ClassifiedDay(raw[i], Prev(raw, i))
            d == ClassifiedDay(raw[at], Prev(raw, at))
<1>1. IsDay(e)
  <2>1. raw[i] \in Sessions /\ Prev(raw, i) \in Sessions
    BY PostureAssumption DEF Replayed, Prev
  <2>. QED  BY <2>1, ClassifiedIsDay
<1>2. Forgets(policy, twin) /\ (i \in Replayed => SaysNothing(policy, twin, e))
  BY DEF ForgetsOnly
<1>3. CASE ~Classifiable(raw[at], Prev(raw, at))
  BY <1>2, <1>3 DEF After
<1>4. CASE Classifiable(raw[at], Prev(raw, at))
  <2>1. After(policy, raw, at) = PolicyDay(policy, d) /\ After(twin, raw, at) = PolicyDay(twin, d)
    BY <1>4 DEF After
  <2>2. i = at => e = d
    OBVIOUS
  <2>. HIDE DEF d, e
  <2>3. i = at => SaysNothing(PolicyDay(policy, d), PolicyDay(twin, d), e)
    BY <1>1, <1>2, <2>2, TurnSaysNothing
  <2>4. i \in Replayed => SaysNothing(PolicyDay(policy, d), PolicyDay(twin, d), e)
    BY <1>1, <1>2, TurnStillSaysNothing
  <2>. QED  BY <2>1, <2>3, <2>4 DEF e
<1>. QED  BY <1>3, <1>4

LEMMA SettledKeeps ==
  ASSUME NEW s \in PolicyState
  PROVE  Settled(s) \in PolicyState /\ (Ladder(s) => Ladder(Settled(s)))
BY ThresholdAssumption DEF Settled, PolicyState, Ladder

LEMMA NoMemoryKeeps ==
  /\ NoMemory \in PolicyState /\ Ladder(NoMemory)
  /\ \A t \in PolicyState : Forgets(NoMemory, t)
BY NoneAssumption DEF NoMemory, PolicyState, Ladder, Forgets

-----------------------------------------------------------------------------
(* The verdict. *)

LEMMA LeastType ==
  ASSUME NEW x \in Postures, NEW y \in Postures
  PROVE  Least(x, y) \in Postures
BY DEF Least

LEMMA HealthType == ASSUME NEW severities PROVE compute_health_state(severities) \in HealthStates
BY DEF compute_health_state, HealthStates

LEMMA VerdictType ==
  ASSUME NEW h, NEW health \in HealthStates, NEW p, NEW severe, NEW confirmations,
         NEW exceptional, NEW not_paying
  PROVE  compute_posture(h, health, p, severe, confirmations, exceptional, not_paying)
           \in [state : Postures, base : Postures, health : HealthStates]
<1>. DEFINE base == _base_state(h, p)
<1>1. base \in Postures
  BY DEF _base_state, Postures
<1>2. _HEALTH_CEILING[health] \in Postures
  BY DEF _HEALTH_CEILING, HealthStates, Postures
<1>. HIDE DEF base
<1>3. Capped(base, health) \in Postures
  BY <1>1, <1>2, LeastType DEF Capped, Postures
<1>4. "SELECTIVO" \in Postures
  BY DEF Postures
<1>. QED  BY <1>1, <1>3, <1>4, LeastType DEF compute_posture, base

-----------------------------------------------------------------------------
(* What a verdict may be. *)

LEMMA Ranks ==
  /\ _RANK["FUERA"] = 0 /\ _RANK["DEFENSIVO"] = 1 /\ _RANK["SELECTIVO"] = 2
  /\ _RANK["NORMAL"] = 3 /\ _RANK["AGRESIVO"] = 4
BY DEF _RANK

LEMMA Ceilings ==
  /\ _HEALTH_CEILING["ROBUST"] = "AGRESIVO" /\ _HEALTH_CEILING["UNKNOWN"] = "NORMAL"
  /\ _HEALTH_CEILING["RECOVERING"] = "NORMAL" /\ _HEALTH_CEILING["FRAGILE"] = "SELECTIVO"
  /\ _HEALTH_CEILING["DAMAGED"] = "DEFENSIVO"
BY DEF _HEALTH_CEILING

(* Below a ceiling; only damaged memory makes it FUERA or DEFENSIVO. *)
LEMMA CappedSound ==
  ASSUME NEW base \in Postures \ {"FUERA"}, NEW health \in HealthStates
  PROVE  /\ Capped(base, health) \in Postures
         /\ _RANK[Capped(base, health)] <= _RANK[base]
         /\ Capped(base, health) = "FUERA" <=> base = "DEFENSIVO" /\ health = "DAMAGED"
         /\ health = "DAMAGED" => _RANK[Capped(base, health)] <= 1
         /\ Capped(base, health) \in {"NORMAL", "AGRESIVO"} =>
              base \in {"NORMAL", "AGRESIVO"} /\ health \in {"ROBUST", "RECOVERING", "UNKNOWN"}
<1>1. CASE health = "ROBUST"
  BY <1>1, Ranks, Ceilings DEF Capped, Least, Postures
<1>2. CASE health = "UNKNOWN"
  BY <1>2, Ranks, Ceilings DEF Capped, Least, Postures
<1>3. CASE health = "RECOVERING"
  BY <1>3, Ranks, Ceilings DEF Capped, Least, Postures
<1>4. CASE health = "FRAGILE"
  BY <1>4, Ranks, Ceilings DEF Capped, Least, Postures
<1>5. CASE health = "DAMAGED"
  BY <1>5, Ranks, Ceilings DEF Capped, Least, Postures
<1>. QED  BY <1>1, <1>2, <1>3, <1>4, <1>5 DEF HealthStates

LEMMA VerdictSound ==
  ASSUME NEW h, NEW health \in HealthStates, NEW p, NEW severe, NEW confirmations,
         NEW exceptional, NEW not_paying, NEW v,
         v = compute_posture(h, health, p, severe, confirmations, exceptional, not_paying)
  PROVE  /\ v.base = _base_state(h, p) /\ v.health = health
         /\ _RANK[v.state] <= _RANK[v.base]
         /\ v.state = "FUERA" <=> v.base = "DEFENSIVO" /\ v.health = "DAMAGED"
         /\ v.health = "DAMAGED" => _RANK[v.state] <= _RANK["SELECTIVO"]
         /\ v.state \in {"NORMAL", "AGRESIVO"} =>
              v.base \in {"NORMAL", "AGRESIVO"} /\ v.health \in {"ROBUST", "RECOVERING", "UNKNOWN"}
<1>. DEFINE base == _base_state(h, p)
            capped == Capped(base, health)
            recovers == /\ health = "DAMAGED" /\ capped = "DEFENSIVO"
                        /\ base \notin {"DEFENSIVO", "FUERA"} /\ severe = 0
                        /\ \/ exceptional \/ p.age # None
                           \/ confirmations >= T.normal_confirmation_days
            state == IF recovers THEN "SELECTIVO" ELSE capped
<1>1. base \in Postures \ {"FUERA"}
  BY DEF _base_state, Postures
<1>2. /\ v.state = IF not_paying THEN Least(state, "SELECTIVO") ELSE state
      /\ v.base = base /\ v.health = health
  BY DEF compute_posture
<1>. HIDE DEF base
<1>3. /\ capped \in Postures
      /\ _RANK[capped] <= _RANK[base]
      /\ capped = "FUERA" <=> base = "DEFENSIVO" /\ health = "DAMAGED"
      /\ health = "DAMAGED" => _RANK[capped] <= 1
      /\ capped \in {"NORMAL", "AGRESIVO"} =>
           base \in {"NORMAL", "AGRESIVO"} /\ health \in {"ROBUST", "RECOVERING", "UNKNOWN"}
  BY <1>1, CappedSound
<1>. HIDE DEF capped
<1>4. /\ state \in Postures /\ _RANK[state] <= _RANK[base]
      /\ state = "FUERA" <=> base = "DEFENSIVO" /\ health = "DAMAGED"
      /\ health = "DAMAGED" => _RANK[state] <= 2
      /\ state \in {"NORMAL", "AGRESIVO"} => capped = state
  <2>1. CASE recovers
    BY <1>1, <1>3, <2>1, Ranks DEF Postures
  <2>2. CASE ~recovers
    BY <1>3, <2>2, Ranks DEF Postures
  <2>. QED  BY <2>1, <2>2
<1>. HIDE DEF state
<1>5. /\ v.state \in Postures /\ _RANK[v.state] <= _RANK[state]
      /\ v.state = "FUERA" <=> state = "FUERA"
      /\ v.state \in {"NORMAL", "AGRESIVO"} => v.state = state
  BY <1>2, <1>4, Ranks DEF Least, Postures
<1>6. /\ _RANK[v.state] \in Nat /\ _RANK[state] \in Nat /\ _RANK[base] \in Nat
  BY <1>1, <1>4, <1>5, Ranks DEF Postures
<1>. QED  BY <1>2, <1>3, <1>4, <1>5, <1>6, Ranks DEF base

(* A memory that lets NORMAL through saw no severe session lately, unless it is *)
(* too short to say anything.                                                   *)
LEMMA RepairedMemory ==
  ASSUME NEW severities,
         compute_health_state(severities) \in {"ROBUST", "RECOVERING", "UNKNOWN"}
  PROVE  RecentSevere(severities) = 0 \/ compute_health_state(severities) = "UNKNOWN"
BY DEF compute_health_state, RepairReady

(* Above SELECTIVO, today's own read has a universe and rests on the hysteresis. *)
LEMMA BaseEarned ==
  ASSUME NEW back, NEW climactic, NEW p,
         _base_state(Headline(back, climactic), p) \in {"NORMAL", "AGRESIVO"}
  PROVE  raw[Len(raw)].universe /\ (p.normal \/ p.aggressive)
<1>1. Headline(back, climactic).p # "COLLAPSING" /\ (p.normal \/ p.aggressive)
  BY DEF _base_state
<1>2. _participation(back) # "COLLAPSING"
  BY <1>1 DEF Headline
<1>. QED  BY <1>1, <1>2 DEF _participation, Latest

-----------------------------------------------------------------------------
(* The classified days of the window, numbered. *)

(* How many of them lie before session i. *)
SeenBefore(i) == Cardinality({j \in ClassifiedAt : j < i})

LEMMA ClassifiedFinite ==
  ASSUME raw \in Seq(Sessions)
  PROVE  /\ ClassifiedAt \subseteq Int /\ IsFiniteSet(ClassifiedAt)
         /\ Cardinality(ClassifiedAt) \in Nat
         /\ \A i \in ClassifiedAt : i \in Lookback + 1 .. Len(raw)
<1>1. /\ ClassifiedAt \subseteq Lookback + 1 .. Len(raw)
      /\ Lookback + 1 \in Int /\ Len(raw) \in Int
  BY PostureAssumption DEF ClassifiedAt
<1>2. IsFiniteSet(Lookback + 1 .. Len(raw))
  BY <1>1, FS_Interval
<1>3. IsFiniteSet(ClassifiedAt)
  BY <1>1, <1>2, FS_Subset
<1>. QED  BY <1>1, <1>3, FS_CardinalityType

LEMMA SeenSteps ==
  ASSUME raw \in Seq(Sessions), NEW i \in Int
  PROVE  /\ SeenBefore(i) \in Nat
         /\ i \notin ClassifiedAt => SeenBefore(i + 1) = SeenBefore(i)
         /\ i \in ClassifiedAt => SeenBefore(i + 1) = SeenBefore(i) + 1
         /\ i <= Lookback + 1 => SeenBefore(i) = 0
         /\ i > Len(raw) => SeenBefore(i) = Cardinality(ClassifiedAt)
<1>. DEFINE B == {j \in ClassifiedAt : j < i}
            A == {j \in ClassifiedAt : j < i + 1}
<1>1. ClassifiedAt \subseteq Int /\ IsFiniteSet(ClassifiedAt)
  BY ClassifiedFinite
<1>2. IsFiniteSet(B) /\ Cardinality(B) \in Nat
  BY <1>1, FS_Subset, FS_CardinalityType
<1>3. i \notin B
  BY <1>1
<1>4. A = {j \in ClassifiedAt : j < i \/ j = i}
  <2>. \A j \in ClassifiedAt : j < i + 1 <=> (j < i \/ j = i)
    BY <1>1
  <2>. QED  OBVIOUS
<1>. HIDE DEF A
<1>5. i \notin ClassifiedAt => A = B
  BY <1>4
<1>6. i \in ClassifiedAt => A = B \cup {i} /\ i \notin B
  BY <1>4, <1>3
<1>7. i \in ClassifiedAt => Cardinality(A) = Cardinality(B) + 1
  BY <1>2, <1>6, FS_AddElement
<1>8. i <= Lookback + 1 => Cardinality(B) = 0
  <2>1. i <= Lookback + 1 => B = {}
    BY ClassifiedFinite, PostureAssumption
  <2>. QED  BY <2>1, FS_EmptySet
<1>9. i > Len(raw) => B = ClassifiedAt
  BY ClassifiedFinite, PostureAssumption
<1>. QED  BY <1>2, <1>5, <1>7, <1>8, <1>9 DEF SeenBefore, A

(* No two of them have the same number. *)
LEMMA NumberIsItsOwn ==
  ASSUME raw \in Seq(Sessions), NEW i \in ClassifiedAt, NEW k \in ClassifiedAt,
         Cardinality({j \in ClassifiedAt : j <= k}) = Cardinality({j \in ClassifiedAt : j <= i})
  PROVE  k = i
<1>. DEFINE Upto(n) == {j \in ClassifiedAt : j <= n}
<1>1. ClassifiedAt \subseteq Int /\ IsFiniteSet(ClassifiedAt)
  BY ClassifiedFinite
<1>2. IsFiniteSet(Upto(i)) /\ IsFiniteSet(Upto(k))
  BY <1>1, FS_Subset
<1>3. CASE k <= i
  <2>. \A j \in ClassifiedAt : j <= k => j <= i
    BY <1>1, <1>3
  <2>1. Upto(k) \subseteq Upto(i)
    OBVIOUS
  <2>2. Upto(k) = Upto(i)
    BY <1>2, <2>1, FS_Subset
  <2>3. i \in Upto(k)
    BY <1>1, <2>2
  <2>. QED  BY <1>1, <1>3, <2>3
<1>4. CASE i <= k
  <2>. \A j \in ClassifiedAt : j <= i => j <= k
    BY <1>1, <1>4
  <2>1. Upto(i) \subseteq Upto(k)
    OBVIOUS
  <2>2. Upto(k) = Upto(i)
    BY <1>2, <2>1, FS_Subset
  <2>3. k \in Upto(i)
    BY <1>1, <2>2
  <2>. QED  BY <1>1, <1>4, <2>3
<1>. QED  BY <1>1, <1>3, <1>4

LEMMA DaysShape ==
  ASSUME raw \in Seq(Sessions)
  PROVE  /\ DOMAIN Days = 1 .. Cardinality(ClassifiedAt)
         /\ Len(Days) = Cardinality(ClassifiedAt)
<1>1. Cardinality(ClassifiedAt) \in Nat
  BY ClassifiedFinite
<1>2. DOMAIN Days = 1 .. Cardinality(ClassifiedAt)
  BY DEF Days
<1>. QED  BY <1>1, <1>2 DEF Days

(* The next number belongs to the session the replay stands at. *)
LEMMA DayAt ==
  ASSUME raw \in Seq(Sessions), NEW i \in ClassifiedAt
  PROVE  /\ SeenBefore(i) + 1 \in 1 .. Cardinality(ClassifiedAt)
         /\ Days[SeenBefore(i) + 1] = ClassifiedDay(raw[i], Prev(raw, i))
<1>. DEFINE Upto(n) == {j \in ClassifiedAt : j <= n}
            n0 == SeenBefore(i) + 1
            nth(n) == CHOOSE k \in ClassifiedAt : Cardinality(Upto(k)) = n
<1>1. /\ ClassifiedAt \subseteq Int /\ IsFiniteSet(ClassifiedAt)
      /\ Cardinality(ClassifiedAt) \in Nat
  BY ClassifiedFinite
<1>2. Upto(i) = {j \in ClassifiedAt : j < i + 1}
  <2>. \A j \in ClassifiedAt : j <= i <=> j < i + 1
    BY <1>1
  <2>. QED  OBVIOUS
<1>3. Cardinality(Upto(i)) = n0 /\ SeenBefore(i) \in Nat
  BY <1>1, <1>2, SeenSteps DEF SeenBefore
<1>4. n0 <= Cardinality(ClassifiedAt)
  <2>1. Cardinality(Upto(i)) <= Cardinality(ClassifiedAt)
    BY <1>1, FS_Subset
  <2>. QED  BY <1>3, <2>1
<1>5. nth(n0) = i
  <2>1. nth(n0) \in ClassifiedAt /\ Cardinality(Upto(nth(n0))) = n0
    BY <1>3
  <2>. HIDE DEF nth
  <2>2. Cardinality({j \in ClassifiedAt : j <= nth(n0)}) = Cardinality({j \in ClassifiedAt : j <= i})
    BY <1>3, <2>1
  <2>. QED  BY <2>1, <2>2, NumberIsItsOwn
<1>6. Days = [n \in 1 .. Cardinality(ClassifiedAt) |->
                ClassifiedDay(raw[nth(n)], Prev(raw, nth(n)))]
  BY DEF Days
<1>. HIDE DEF nth
<1>7. n0 \in 1 .. Cardinality(ClassifiedAt)
  BY <1>1, <1>3, <1>4
<1>. QED  BY <1>5, <1>6, <1>7

-----------------------------------------------------------------------------
(* What the replay has earned after n classified days. *)
Earned(s, n) ==
  /\ s.streak <= n
  /\ \A k \in n - s.streak + 1 .. n : normal_entry(Days[k])
  /\ s.normal =>
       \E i \in 1 .. n :
         /\ i >= T.normal_confirmation_days
         /\ \A k \in i - T.normal_confirmation_days + 1 .. i : normal_entry(Days[k])
         /\ \A k \in i .. n : normal_exit(Days[k])

ReplayEarned == at # 0 => Earned(policy, SeenBefore(at))

(* One more classified day. *)
LEMMA TurnEarned ==
  ASSUME NEW s \in PolicyState, NEW n \in Nat, Earned(s, n), IsDay(Days[n + 1])
  PROVE  Earned(PolicyDay(s, Days[n + 1]), n + 1)
<1>. DEFINE d == Days[n + 1]
            t == PolicyDay(s, d)
            conf == T.normal_confirmation_days
<1>1. s.streak \in Nat /\ s.streak <= n /\ conf \in Nat /\ conf > 0
  BY ThresholdAssumption DEF PolicyState, Earned
<1>2. /\ t.streak = IF normal_entry(d) THEN s.streak + 1 ELSE 0
      /\ t.normal = ((s.normal /\ normal_exit(d)) \/ t.streak >= conf)
  BY DEF PolicyDay, NormalActive, Streak
<1>3. normal_entry(d) => normal_exit(d)
  BY BandsOrdered
<1>4. t.streak \in Nat /\ t.streak <= n + 1
  BY <1>1, <1>2
<1>. HIDE DEF t, conf
<1>5. ASSUME NEW k \in n + 1 - t.streak + 1 .. n + 1
      PROVE  normal_entry(Days[k])
  <2>1. CASE normal_entry(d)
    <3>1. k = n + 1 \/ k \in n - s.streak + 1 .. n
      BY <1>1, <1>2, <1>5, <2>1
    <3>. QED  BY <2>1, <3>1 DEF Earned
  <2>2. CASE ~normal_entry(d)
    BY <1>2, <1>5, <2>2
  <2>. QED  BY <2>1, <2>2
<1>6. ASSUME t.normal
      PROVE  \E i \in 1 .. n + 1 :
               /\ i >= conf
               /\ \A k \in i - conf + 1 .. i : normal_entry(Days[k])
               /\ \A k \in i .. n + 1 : normal_exit(Days[k])
  <2>1. CASE t.streak >= conf
    <3>1. PICK m \in 1 .. n + 1 : m = n + 1
      OBVIOUS
    <3>2. m >= conf
      BY <1>1, <1>4, <2>1, <3>1
    <3>3. \A k \in m - conf + 1 .. m : normal_entry(Days[k])
      <4>. SUFFICES ASSUME NEW k \in m - conf + 1 .. m PROVE normal_entry(Days[k])
        OBVIOUS
      <4>1. k \in n + 1 - t.streak + 1 .. n + 1
        BY <1>1, <1>4, <2>1, <3>1
      <4>. QED  BY <4>1, <1>5
    <3>4. normal_exit(Days[m])
      <4>1. m \in m - conf + 1 .. m
        BY <1>1
      <4>2. normal_entry(Days[m])
        BY <4>1, <3>3
      <4>. QED  BY <4>2, <1>3, <3>1
    <3>5. \A k \in m .. n + 1 : normal_exit(Days[k])
      <4>. SUFFICES ASSUME NEW k \in m .. n + 1 PROVE normal_exit(Days[k])
        OBVIOUS
      <4>1. k = m
        BY <3>1
      <4>. QED  BY <4>1, <3>4
    <3>. QED  BY <3>2, <3>3, <3>5
  <2>2. CASE s.normal /\ normal_exit(d)
    <3>1. PICK i \in 1 .. n :
            /\ i >= conf
            /\ \A k \in i - conf + 1 .. i : normal_entry(Days[k])
            /\ \A k \in i .. n : normal_exit(Days[k])
      BY <2>2 DEF Earned, conf
    <3>2. ASSUME NEW k \in i .. n + 1
          PROVE  normal_exit(Days[k])
      <4>1. k = n + 1 \/ k \in i .. n
        BY <3>2
      <4>. QED  BY <4>1, <3>1, <2>2
    <3>3. i \in 1 .. n + 1
      OBVIOUS
    <3>. QED  BY <3>1, <3>2, <3>3
  <2>. QED  BY <1>2, <1>6, <2>1, <2>2
<1>. QED  BY <1>4, <1>5, <1>6 DEF Earned, t, conf

(* The replay starts with nothing earned. *)
LEMMA NoMemoryEarned == Earned(NoMemory, 0)
BY DEF Earned, NoMemory

(* A session of the replay, classified or not. *)
LEMMA AfterEarned ==
  ASSUME raw \in Seq(Sessions), NEW s \in PolicyState,
         NEW i \in Lookback + 1 .. Len(raw), Earned(s, SeenBefore(i))
  PROVE  Earned(After(s, raw, i), SeenBefore(i + 1))
<1>0. i \in Int /\ i \in Lookback + 1 .. Len(raw) /\ SeenBefore(i) \in Nat
  BY PostureAssumption, SeenSteps
<1>1. CASE i \in ClassifiedAt
  <2>1. /\ After(s, raw, i) = PolicyDay(s, ClassifiedDay(raw[i], Prev(raw, i)))
    BY <1>1 DEF After, ClassifiedAt
  <2>2. Days[SeenBefore(i) + 1] = ClassifiedDay(raw[i], Prev(raw, i))
    BY <1>1, DayAt
  <2>3. raw[i] \in Sessions /\ Prev(raw, i) \in Sessions
    BY <1>0, PostureAssumption DEF Prev
  <2>4. IsDay(Days[SeenBefore(i) + 1])
    BY <2>2, <2>3, ClassifiedIsDay
  <2>5. Earned(PolicyDay(s, Days[SeenBefore(i) + 1]), SeenBefore(i) + 1)
    BY <1>0, <2>4, TurnEarned
  <2>. QED  BY <1>0, <1>1, <2>1, <2>2, <2>5, SeenSteps
<1>2. CASE i \notin ClassifiedAt
  <2>1. After(s, raw, i) = s
    BY <1>0, <1>2 DEF After, ClassifiedAt
  <2>. QED  BY <1>0, <1>2, <2>1, SeenSteps
<1>. QED  BY <1>1, <1>2

(* At the end of the window the flag rests on a run of the window's days. *)
LEMMA EarnedAtTheEnd ==
  ASSUME raw \in Seq(Sessions), at \in Int, at > Len(raw),
         NEW s \in PolicyState, Earned(s, SeenBefore(at)), s.normal
  PROVE  EarnedRun(Days)
<1>1. SeenBefore(at) = Cardinality(ClassifiedAt)
  BY SeenSteps
<1>2. DOMAIN Days = 1 .. SeenBefore(at) /\ Len(Days) = SeenBefore(at)
  BY <1>1, DaysShape
<1>. QED  BY <1>2 DEF Earned, EarnedRun

-----------------------------------------------------------------------------
LEMMA InitInv == Init => IInv
<1>. SUFFICES ASSUME Init PROVE IInv
  OBVIOUS
<1>. USE NoMemoryKeeps DEF Init
<1>0. Replayed = {}
  BY PostureAssumption DEF Replayed
<1>1. TypeOK
  BY PostureAssumption DEF TypeOK, Capacity
<1>2. PolicyLadder /\ Ladder(gone)
  BY DEF PolicyLadder
<1>3. ForgetsOnly
  BY <1>0 DEF ForgetsOnly
<1>. QED  BY <1>1, <1>2, <1>3 DEF IInv

LEMMA NextInv == IInv /\ [Next]_vars => IInv'
<1>. SUFFICES ASSUME IInv, [Next]_vars PROVE IInv'
  OBVIOUS
<1>. USE DEF IInv
<1>0. /\ Lookback \in Nat \ {0} /\ Window \in Nat \ {0} /\ Capacity \in Nat
      /\ Lookback + 1 <= Capacity
  BY PostureAssumption DEF Capacity
<1>1. CASE SessionCloses
  <2>1. PICK r \in Sessions :
          IF Len(raw) < Capacity
          THEN raw' = Append(raw, r) /\ UNCHANGED gone
          ELSE /\ raw' = Append(Tail(raw), r)
               /\ gone' = Settled(After(gone, raw, Lookback + 1))
    BY <1>1 DEF SessionCloses
  <2>2. shown' = None /\ UNCHANGED <<policy, twin, at>>
    BY <1>1 DEF SessionCloses
  <2>3. raw \in Seq(Sessions) /\ Len(raw) <= Capacity /\ gone \in PolicyState
    BY DEF TypeOK
  <2>4. /\ raw' \in Seq(Sessions) /\ Len(raw') <= Capacity
        /\ gone' \in PolicyState /\ Ladder(gone)'
    <3>1. CASE Len(raw) < Capacity
      BY <2>1, <2>3, <3>1, <1>0
    <3>2. CASE ~(Len(raw) < Capacity)
      <4>1. Len(raw) = Capacity
        BY <3>2, <2>3, <1>0
      <4>2. raw' \in Seq(Sessions) /\ Len(raw') <= Capacity
        BY <2>1, <2>3, <3>2, <4>1, <1>0
      <4>3. /\ After(gone, raw, Lookback + 1) \in PolicyState
            /\ Ladder(After(gone, raw, Lookback + 1))
        <5>. Lookback + 1 \in Lookback + 1 .. Len(raw)
          BY <4>1, <1>0
        <5>. QED  BY <2>3, AfterKeeps
      <4>. QED  BY <2>1, <3>2, <4>2, <4>3, SettledKeeps
    <3>. QED  BY <3>1, <3>2
  <2>5. TypeOK'
    BY <2>2, <2>4 DEF TypeOK
  <2>6. PolicyLadder' /\ ForgetsOnly'
    <3>1. Replayed' = {}
      BY <1>1, <2>2, <1>0 DEF Replayed, SessionCloses
    <3>. QED  BY <2>2, <3>1 DEF PolicyLadder, ForgetsOnly
  <2>. QED  BY <2>4, <2>5, <2>6
<1>2. CASE AnalysisStarts
  <2>1. /\ policy' = NoMemory /\ twin' = gone /\ at' = Lookback + 1
        /\ UNCHANGED <<raw, gone, shown>>
    BY <1>2 DEF AnalysisStarts
  <2>2. TypeOK'
    BY <2>1, <1>0, NoMemoryKeeps DEF TypeOK
  <2>3. PolicyLadder' /\ Ladder(gone)'
    BY <2>1, NoMemoryKeeps DEF PolicyLadder
  <2>4. ForgetsOnly'
    <3>1. Replayed' = {}
      BY <2>1, <1>0 DEF Replayed
    <3>. QED  BY <2>1, <3>1, NoMemoryKeeps DEF ForgetsOnly, TypeOK
  <2>. QED  BY <2>2, <2>3, <2>4
<1>3. CASE ReplayDay
  <2>1. /\ at # 0 /\ at <= Len(raw) /\ at' = at + 1
        /\ policy' = After(policy, raw, at) /\ twin' = After(twin, raw, at)
        /\ UNCHANGED <<raw, gone, shown>>
    BY <1>3 DEF ReplayDay
  <2>2. /\ at \in Lookback + 1 .. Len(raw) /\ raw \in Seq(Sessions) /\ Len(raw) <= Capacity
        /\ policy \in PolicyState /\ twin \in PolicyState
    BY <2>1, <1>0 DEF TypeOK
  <2>3. /\ policy' \in PolicyState /\ twin' \in PolicyState
        /\ Ladder(policy)' /\ Ladder(twin)' /\ Forgets(policy, twin)'
    <3>1. Ladder(policy) /\ Ladder(twin) /\ Forgets(policy, twin)
      BY DEF PolicyLadder, ForgetsOnly
    <3>. QED  BY <2>1, <2>2, <3>1, AfterKeeps
  <2>4. TypeOK'
    BY <2>1, <2>2, <2>3, <1>0 DEF TypeOK
  <2>5. PolicyLadder' /\ Ladder(gone)'
    BY <2>1, <2>3 DEF PolicyLadder
  <2>6. ForgetsOnly'
    <3>1. Replayed' \subseteq Replayed \cup {at}
      BY <2>1, <2>2, <1>0 DEF Replayed
    <3>2. ASSUME NEW i \in Replayed'
          PROVE  SaysNothing(policy', twin', ClassifiedDay(raw[i], Prev(raw, i)))
      BY <2>1, <2>2, <3>1, <3>2, AfterSaysNothing DEF ForgetsOnly, Replayed
    <3>. QED  BY <2>1, <2>3, <3>2 DEF ForgetsOnly, Prev
  <2>. QED  BY <2>4, <2>5, <2>6
<1>4. CASE AnalysisEnds
  <2>1. /\ at' = 0 /\ policy' = NoMemory /\ twin' = NoMemory
        /\ UNCHANGED <<raw, gone>>
    BY <1>4 DEF AnalysisEnds
  <2>2. shown' \in [state : Postures, base : Postures, health : HealthStates]
    <3>1. PICK back \in HeadlineBacks, climactic \in BOOLEAN, not_paying \in BOOLEAN :
            shown' = compute_posture(
              Headline(back, climactic), compute_health_state(Severity(Days)), policy,
              RecentSevere(Severity(Days)), trailing_confirmation_streak(Confirmations(Days)),
              Days # << >> /\ is_exceptional_recovery_session(Days[Len(Days)]), not_paying)
      BY <1>4 DEF AnalysisEnds
    <3>2. compute_health_state(Severity(Days)) \in HealthStates
      BY HealthType
    <3>. QED  BY <3>1, <3>2, VerdictType
  <2>3. TypeOK'
    BY <2>1, <2>2, NoMemoryKeeps DEF TypeOK
  <2>4. PolicyLadder' /\ Ladder(gone)' /\ ForgetsOnly'
    <3>1. Replayed' = {}
      BY <2>1, <1>0 DEF Replayed
    <3>. QED  BY <2>1, <3>1, NoMemoryKeeps DEF PolicyLadder, ForgetsOnly
  <2>. QED  BY <2>3, <2>4
<1>5. CASE UNCHANGED vars
  BY <1>5 DEF vars, TypeOK, PolicyLadder, ForgetsOnly, Replayed, Prev
<1>. QED  BY <1>1, <1>2, <1>3, <1>4, <1>5 DEF Next

LEMMA Inductive == Spec => []IInv
BY InitInv, NextInv, PTL DEF Spec

-----------------------------------------------------------------------------
(* With what the replay has earned the verdicts are inductive as well. *)
EInv == ReplayEarned /\ EarnedBack /\ NeverAccelerates

LEMMA VerdictEarned ==
  ASSUME IInv, ReplayEarned, AnalysisEnds
  PROVE  EarnedBack' /\ NeverAccelerates'
<1>1. PICK back \in HeadlineBacks, climactic \in BOOLEAN, not_paying \in BOOLEAN :
        shown' = compute_posture(
          Headline(back, climactic), compute_health_state(Severity(Days)), policy,
          RecentSevere(Severity(Days)), trailing_confirmation_streak(Confirmations(Days)),
          Days # << >> /\ is_exceptional_recovery_session(Days[Len(Days)]), not_paying)
  BY DEF AnalysisEnds
<1>2. /\ at # 0 /\ at > Len(raw) /\ raw' = raw
  BY DEF AnalysisEnds
<1>3. /\ raw \in Seq(Sessions) /\ at \in Int /\ policy \in PolicyState
      /\ policy.aggressive => policy.normal
  BY PostureAssumption DEF IInv, TypeOK, PolicyLadder, Ladder, Capacity
<1>. DEFINE health == compute_health_state(Severity(Days))
            base == _base_state(Headline(back, climactic), policy)
<1>4. health \in HealthStates
  BY HealthType
<1>. HIDE DEF health, base
<1>5. /\ shown'.base = base /\ shown'.health = health
      /\ _RANK[shown'.state] <= _RANK[shown'.base]
      /\ shown'.state = "FUERA" <=> shown'.base = "DEFENSIVO" /\ shown'.health = "DAMAGED"
      /\ shown'.health = "DAMAGED" => _RANK[shown'.state] <= _RANK["SELECTIVO"]
      /\ shown'.state \in {"NORMAL", "AGRESIVO"} =>
           /\ shown'.base \in {"NORMAL", "AGRESIVO"}
           /\ shown'.health \in {"ROBUST", "RECOVERING", "UNKNOWN"}
  BY <1>1, <1>4, VerdictSound DEF health, base
<1>6. NeverAccelerates'
  BY <1>5 DEF NeverAccelerates
<1>7. Days' = Days
  BY <1>2 DEF Days, ClassifiedAt, Prev
<1>8. ASSUME shown'.state \in {"NORMAL", "AGRESIVO"}
      PROVE  /\ EarnedRun(Days)
             /\ health \in {"ROBUST", "RECOVERING", "UNKNOWN"}
             /\ RecentSevere(Severity(Days)) = 0 \/ health = "UNKNOWN"
             /\ raw[Len(raw)].universe
  <2>1. base \in {"NORMAL", "AGRESIVO"} /\ health \in {"ROBUST", "RECOVERING", "UNKNOWN"}
    BY <1>5, <1>8
  <2>2. raw[Len(raw)].universe /\ policy.normal
    BY <1>3, <2>1, BaseEarned DEF base
  <2>3. RecentSevere(Severity(Days)) = 0 \/ health = "UNKNOWN"
    BY <2>1, RepairedMemory DEF health
  <2>4. Earned(policy, SeenBefore(at))
    BY <1>2 DEF ReplayEarned
  <2>5. EarnedRun(Days)
    BY <1>2, <1>3, <2>2, <2>4, EarnedAtTheEnd
  <2>. QED  BY <2>1, <2>2, <2>3, <2>5
<1>9. EarnedBack'
  BY <1>2, <1>5, <1>7, <1>8 DEF EarnedBack
<1>. QED  BY <1>6, <1>9

LEMMA VerdictKept ==
  ASSUME EarnedBack, NeverAccelerates, UNCHANGED <<raw, shown>>
  PROVE  EarnedBack' /\ NeverAccelerates'
<1>1. Days' = Days /\ raw' = raw /\ shown' = shown
  BY DEF Days, ClassifiedAt, Prev
<1>. QED  BY <1>1 DEF EarnedBack, NeverAccelerates

LEMMA NextEarned == IInv /\ EInv /\ [Next]_vars => EInv'
<1>. SUFFICES ASSUME IInv, EInv, [Next]_vars PROVE EInv'
  OBVIOUS
<1>. USE DEF EInv
<1>0. /\ raw \in Seq(Sessions) /\ policy \in PolicyState
      /\ at = 0 \/ at \in Lookback + 1 .. Capacity + 1
      /\ Lookback \in Nat \ {0} /\ Window \in Nat \ {0} /\ Capacity \in Nat
  BY PostureAssumption DEF IInv, TypeOK, Capacity
<1>1. CASE SessionCloses
  <2>1. shown' = None /\ at' = 0
    BY <1>1 DEF SessionCloses
  <2>. QED  BY <2>1 DEF ReplayEarned, EarnedBack, NeverAccelerates
<1>2. CASE AnalysisStarts
  <2>1. policy' = NoMemory /\ at' = Lookback + 1 /\ UNCHANGED <<raw, shown>>
    BY <1>2 DEF AnalysisStarts
  <2>2. SeenBefore(Lookback + 1) = 0
    BY <1>0, SeenSteps
  <2>3. Earned(NoMemory, SeenBefore(Lookback + 1))
    BY <2>2, NoMemoryEarned
  <2>4. ReplayEarned'
    <3>1. Earned(policy, SeenBefore(at))' <=> Earned(NoMemory, SeenBefore(Lookback + 1))
      BY <2>1 DEF Earned, SeenBefore, Days, ClassifiedAt, Prev
    <3>. QED  BY <2>3, <3>1 DEF ReplayEarned
  <2>. QED  BY <2>1, <2>4, VerdictKept
<1>3. CASE ReplayDay
  <2>1. /\ at # 0 /\ at <= Len(raw) /\ at' = at + 1
        /\ policy' = After(policy, raw, at) /\ UNCHANGED <<raw, shown>>
    BY <1>3 DEF ReplayDay
  <2>2. at \in Lookback + 1 .. Len(raw) /\ Earned(policy, SeenBefore(at))
    BY <1>0, <2>1 DEF ReplayEarned
  <2>3. Earned(After(policy, raw, at), SeenBefore(at + 1))
    BY <1>0, <2>2, AfterEarned
  <2>4. ReplayEarned'
    <3>1. Earned(policy, SeenBefore(at))' <=> Earned(After(policy, raw, at), SeenBefore(at + 1))
      BY <2>1 DEF Earned, SeenBefore, Days, ClassifiedAt, Prev
    <3>. QED  BY <2>3, <3>1 DEF ReplayEarned
  <2>. QED  BY <2>1, <2>4, VerdictKept
<1>4. CASE AnalysisEnds
  <2>1. EarnedBack' /\ NeverAccelerates'
    BY <1>4, VerdictEarned
  <2>2. at' = 0
    BY <1>4 DEF AnalysisEnds
  <2>. QED  BY <2>1, <2>2 DEF ReplayEarned
<1>5. CASE UNCHANGED vars
  <2>1. UNCHANGED <<raw, gone, policy, twin, at, shown>>
    BY <1>5 DEF vars
  <2>2. ReplayEarned'
    <3>1. Earned(policy, SeenBefore(at))' <=> Earned(policy, SeenBefore(at))
      BY <2>1 DEF Earned, SeenBefore, Days, ClassifiedAt, Prev
    <3>. QED  BY <2>1, <3>1 DEF ReplayEarned
  <2>. QED  BY <2>1, <2>2, VerdictKept
<1>. QED  BY <1>1, <1>2, <1>3, <1>4, <1>5 DEF Next

LEMMA InductiveEarned == Spec => []EInv
<1>1. Init => EInv
  BY DEF Init, EInv, ReplayEarned, EarnedBack, NeverAccelerates
<1>. QED  BY <1>1, NextEarned, Inductive, PTL DEF Spec

-----------------------------------------------------------------------------
(* Every window, whatever its length, holds typed sessions, and the posture is *)
(* always one of the five (market_context_engine.py, _health and _analyze_for). *)
THEOREM PostureTyped == Spec => []TypeOK
BY Inductive, PTL DEF IInv

(* The hysteresis flags rest on one another at every turn of every replay, for *)
(* all thresholds whose exit levels lie below their entry levels and above the *)
(* defensive ones (market_posture_policy.py, evaluate_policy_history).         *)
THEOREM PolicyLadderHolds == Spec => []PolicyLadder
BY Inductive, PTL DEF IInv

(* A replay of the moving window never holds a flag that the policy reduced    *)
(* over the whole history would not, and lacks one only while every session it *)
(* has taken lies inside that flag's band (market_context_engine.py, _health). *)
THEOREM ReplayOnlyForgets == Spec => []ForgetsOnly
BY Inductive, PTL DEF IInv

(* NORMAL and AGRESIVO are earned inside the window, for every window length,  *)
(* confirmation and alphabet of sessions: a full run of entry-quality days,    *)
(* exit quality ever since, and a repaired memory (evaluate_policy_history and *)
(* compute_posture).                                                           *)
THEOREM PostureEarnedBack == Spec => []EarnedBack
BY InductiveEarned, PTL DEF EInv

(* No verdict is above today's own read, and FUERA is exactly a defensive read *)
(* on damaged memory (market_posture.py, compute_posture).                     *)
THEOREM PostureNeverAccelerates == Spec => []NeverAccelerates
BY InductiveEarned, PTL DEF EInv
===============================================================================
