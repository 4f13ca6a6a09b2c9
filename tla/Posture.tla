-------------------------------- MODULE Posture --------------------------------
(***************************************************************************)
(* The posture day after day (services/market_context_engine.py).          *)
(*                                                                         *)
(* The table of metrics grows by a session; an analysis reads its last     *)
(* Window + Lookback sessions, replays the policy over those of them it    *)
(* can classify, from no memory at all, and derives the posture.  A twin   *)
(* replay that starts from what the sessions gone from the window left     *)
(* runs beside it, to compare.                                             *)
(***************************************************************************)
EXTENDS PosturePolicy

CONSTANTS
  Window,        \* _HEALTH_WINDOW, 20 in the code
  Lookback,      \* _HEALTH_DELTA_LOOKBACK, 5 in the code
  HeadlineBacks, \* how many sessions back "seven days ago" may be
  Sessions       \* the raw sessions that may come

ASSUME PostureAssumption ==
  /\ Window \in Nat \ {0} /\ Lookback \in Nat \ {0}
  /\ HeadlineBacks \subseteq Nat
  /\ Sessions \subseteq RawSession
  /\ \A r \in Sessions : r.index_bullish => r.index_above_ema200

VARIABLES
  raw,      \* the last sessions of the table
  gone,     \* history: the policy reduced over the sessions before them
  policy,   \* the state of the replay under way
  twin,     \* history: the same replay started from gone
  at,       \* the session it takes next, 0 between analyses
  shown     \* the last posture derived, None once a session has followed

vars == <<raw, gone, policy, twin, at, shown>>

PolicyState ==
  [ defensive : BOOLEAN, normal : BOOLEAN, aggressive : BOOLEAN, streak : Nat,
    age : 0 .. T.exceptional_retention_sessions \cup {None} ]

Init ==
  /\ raw = << >> /\ gone = NoMemory
  /\ policy = NoMemory /\ twin = NoMemory /\ at = 0
  /\ shown = None

-----------------------------------------------------------------------------
Capacity == Window + Lookback

Prev(history, i) == history[i - Lookback]

\* One turn of the loop: a session that cannot be classified is not in days.
After(s, history, i) ==
  IF Classifiable(history[i], Prev(history, i))
  THEN PolicyDay(s, ClassifiedDay(history[i], Prev(history, i)))
  ELSE s

\* Longer than the confirmation, a streak makes no difference.
Settled(s) ==
  [s EXCEPT !.streak = IF @ > T.normal_confirmation_days THEN T.normal_confirmation_days ELSE @]

\* The metrics of a new session are stored; the window moves on.
SessionCloses ==
  /\ at = 0
  /\ \E r \in Sessions :
       IF Len(raw) < Capacity
       THEN raw' = Append(raw, r) /\ UNCHANGED gone
       ELSE /\ raw' = Append(Tail(raw), r)
            /\ gone' = Settled(After(gone, raw, Lookback + 1))
  /\ shown' = None
  /\ UNCHANGED <<policy, twin, at>>

AnalysisStarts ==
  /\ at = 0 /\ raw # << >>
  /\ policy' = NoMemory /\ twin' = gone
  /\ at' = Lookback + 1
  /\ UNCHANGED <<raw, gone, shown>>

ReplayDay ==
  /\ at # 0 /\ at <= Len(raw)
  /\ policy' = After(policy, raw, at)
  /\ twin' = After(twin, raw, at)
  /\ at' = at + 1
  /\ UNCHANGED <<raw, gone, shown>>

-----------------------------------------------------------------------------
ClassifiedAt ==
  { i \in Lookback + 1 .. Len(raw) : Classifiable(raw[i], Prev(raw, i)) }

\* days, in their order.
Days ==
  LET nth(n) == CHOOSE i \in ClassifiedAt :
                  Cardinality({j \in ClassifiedAt : j <= i}) = n
  IN  [n \in 1 .. Cardinality(ClassifiedAt) |->
         ClassifiedDay(raw[nth(n)], Prev(raw, nth(n)))]

Severity(days) == [i \in DOMAIN days |-> days[i].severity]
Confirmations(days) == [i \in DOMAIN days |-> is_confirmed_recovery_session(days[i])]

\* What the session itself shows is compared with the session seven calendar
\* days back.  If there is none, participation with the session itself,
\* leadership with an empty one.  Climactic leaders are no part of the series.
Latest == raw[Len(raw)]
Known(back) == back < Len(raw)

_participation(back) ==
  LET then == IF Known(back) THEN raw[Len(raw) - back] ELSE Latest
      breadth_then == IF then.universe THEN then.breadth ELSE 0
  IN  IF Latest.universe THEN _participation_descriptor(Latest.breadth - breadth_then)
      ELSE "COLLAPSING"

_leadership(back, climactic) ==
  LET comparable == Known(back) /\ Latest.universe /\ raw[Len(raw) - back].universe
      delta == IF comparable THEN _density_delta_pct(Latest.leaders, raw[Len(raw) - back].leaders)
               ELSE [num |-> 0, den |-> 1]
  IN  _leadership_descriptor(delta,
        Latest.universe /\ Latest.leaders > 0 /\ (Latest.extended \/ climactic))

Headline(back, climactic) ==
  [ p |-> _participation(back), l |-> _leadership(back, climactic),
    breadth |-> IF Latest.universe THEN Latest.breadth ELSE 0,
    leaders |-> IF Latest.universe THEN Latest.leaders ELSE 0 ]

AnalysisEnds ==
  /\ at # 0 /\ at > Len(raw)
  /\ \E back \in HeadlineBacks, climactic \in BOOLEAN, not_paying \in BOOLEAN :
       LET severities == Severity(Days)
       IN  shown' = compute_posture(
             Headline(back, climactic), compute_health_state(severities), policy, RecentSevere(severities),
             trailing_confirmation_streak(Confirmations(Days)),
             Days # << >> /\ is_exceptional_recovery_session(Days[Len(Days)]),
             not_paying)
  /\ at' = 0 /\ policy' = NoMemory /\ twin' = NoMemory
  /\ UNCHANGED <<raw, gone>>

Next == SessionCloses \/ AnalysisStarts \/ ReplayDay \/ AnalysisEnds

Spec == Init /\ [][Next]_vars

-----------------------------------------------------------------------------
TypeOK ==
  /\ raw \in Seq(Sessions) /\ Len(raw) <= Capacity
  /\ gone \in PolicyState /\ policy \in PolicyState /\ twin \in PolicyState
  /\ at = 0 \/ at \in Lookback + 1 .. Capacity + 1
  /\ shown \in [state : Postures, base : Postures, health : HealthStates] \cup {None}

\* The hysteresis flags rest on one another whatever days follow each other:
\* aggressive only inside normal, never while the defensive one holds
\* (market_posture_policy.py: "AGRESIVO activates only from confirmed NORMAL").
Ladder(s) == /\ s.aggressive => s.normal
             /\ s.normal => ~s.defensive
PolicyLadder == Ladder(policy) /\ Ladder(twin)

\* The classified sessions the replay under way has taken.
Replayed == { i \in Lookback + 1 .. at - 1 : Classifiable(raw[i], Prev(raw, i)) }

\* The replay starts from no memory at a session that moves on day by day.
\* What it lacks it can only have forgotten: it holds no flag, and no longer
\* confirmation, than the policy reduced over the whole history, and an
\* exceptional session it remembers is as old as it is.
Forgets(s, t) ==
  /\ s.defensive => t.defensive
  /\ s.normal => t.normal
  /\ s.aggressive => t.aggressive
  /\ s.streak <= t.streak \/ t.streak >= T.normal_confirmation_days
  /\ s.age # None => t.age = s.age

\* And what it lacks it lacks only while no session it has taken says anything
\* about it: d lies between the bands of a flag, or keeps the exit quality.
SaysNothing(s, t, d) ==
  /\ t.defensive /\ ~s.defensive => ~defensive_entry(d) /\ ~defensive_exit(d)
  /\ t.normal /\ ~s.normal => normal_exit(d)
  /\ t.aggressive /\ ~s.aggressive => normal_exit(d)
  /\ t.age # None /\ s.age = None => normal_exit(d)
  /\ s.streak < t.streak => normal_entry(d)

\* The moving window can lose a flag in one way only: every session left in it
\* lies inside the flag's band.  One session outside, and the replay and the
\* policy over the whole history agree on the flag from there on.
ForgetsOnly ==
  /\ Forgets(policy, twin)
  /\ \A i \in Replayed : SaysNothing(policy, twin, ClassifiedDay(raw[i], Prev(raw, i)))

\* An active state persists while its exit band holds: at the end of a replay
\* each flag that the sessions since its entry keep active is active
\* (market_posture_policy.py: "Active states persist while their lower exit
\* bands hold").
ActivePersists ==
  at > Len(raw) => /\ twin.defensive => policy.defensive
                   /\ twin.normal => policy.normal
                   /\ twin.aggressive => policy.aggressive

\* More than SELECTIVO is earned: normal_confirmation_days classified sessions
\* of entry quality in a row, exit quality ever since, no severe session among
\* the last ones and no damaged or fragile memory - one good day, a change of
\* headline, a climactic session or a gap in the data never grants it.
EarnedRun(days) ==
  \E i \in DOMAIN days :
    /\ i >= T.normal_confirmation_days
    /\ \A j \in i - T.normal_confirmation_days + 1 .. i : normal_entry(days[j])
    /\ \A j \in i .. Len(days) : normal_exit(days[j])
EarnedBack ==
  shown # None /\ shown.state \in {"NORMAL", "AGRESIVO"} =>
    /\ EarnedRun(Days)
    /\ shown.health \in {"ROBUST", "RECOVERING", "UNKNOWN"}
    /\ RecentSevere(Severity(Days)) = 0 \/ shown.health = "UNKNOWN"
    /\ raw[Len(raw)].universe

\* The ceilings only brake: whatever health, follow-through and early recovery
\* say, the posture is never above today's own read, FUERA comes from a
\* defensive read on damaged memory only, and early recovery from DAMAGED goes
\* no further than SELECTIVO.
NeverAccelerates ==
  shown # None =>
    /\ _RANK[shown.state] <= _RANK[shown.base]
    /\ (shown.state = "FUERA") <=> (shown.base = "DEFENSIVO" /\ shown.health = "DAMAGED")
    /\ shown.health = "DAMAGED" => _RANK[shown.state] <= _RANK["SELECTIVO"]
===============================================================================
