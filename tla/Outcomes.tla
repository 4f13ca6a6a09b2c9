------------------------------- MODULE Outcomes -------------------------------
(***************************************************************************)
(* Transition observations from detection to verdict.                      *)
(*                                                                         *)
(* Scans walk the universe and insert one row per symbol, transition and   *)
(* day: the scheduler's batch after a SLOW run, the administrator's        *)
(* scan-now, and the live feed, which shares the engine but never commits. *)
(* Evaluations, one task per SLOW run and so possibly two at once, settle  *)
(* the pending rows from the price bars that followed; reclassification    *)
(* settles the settled ones again; each issues the UPDATE of a row before   *)
(* the query of the next and commits at its end.  Days pass between any    *)
(* two steps, and every price cycle writes the last sessions anew: the     *)
(* running one and those before it.                                        *)
(***************************************************************************)
EXTENDS OutcomeRules, TransitionRules

CONSTANTS
  Symbols,
  LabelsOf,      \* the transitions the engine may find in each symbol's metrics
  BarsOf,        \* the bars a download may bring of each symbol, or None
  LastDay,       \* bound: the calendar is 0 .. LastDay
  DetectDays,    \* bound: the days on which scans start
  PriceDays,     \* the days with a session
  DownloadDays,  \* how far back a download reaches, five sessions in the code
  MaxRewrites,   \* bound on the price cycles that change a finished session
  EvalDays,      \* bound: the days on which evaluations start
  WindowDays,    \* calendar days an evaluation looks ahead, 30 in the code
  Patience,      \* calendar days without any price until it gives up, 15
  ScanOrder,     \* [scanner -> order in which it walks the symbols]
  MaxScans,      \* bound on the scans started
  JobsOf,        \* what each evaluation task may do: "evaluate", "reclassify"
  MaxFaults,     \* bound on lost transactions, failed regime detections and
                 \* evaluations out of turn beside another
  Unknown,       \* the regime label of a failed detection
  None

Days == 0 .. LastDay
Evals == DOMAIN JobsOf
Scanners == DOMAIN ScanOrder      \* "batch", "manual", "live"
Processes == {"scheduler", "api"}
ProcessOf(p) == IF p = "batch" THEN "scheduler" ELSE "api"
Labels == (UNION { LabelsOf[s] : s \in Symbols }) \ {"stable"}
Keys == Symbols \X Labels \X Days

ASSUME OutcomesAssumption ==
  /\ LastDay \in Nat /\ WindowDays \in Nat /\ Patience \in Nat
  /\ DownloadDays \in Nat /\ MaxRewrites \in Nat
  /\ MaxScans \in Nat /\ MaxFaults \in Nat
  /\ DetectDays \cup PriceDays \cup EvalDays \subseteq Days
  /\ \A s \in Symbols : LabelsOf[s] \subseteq BULLISH_TRANSITIONS \cup DETERIORATION \cup {"stable"}
  /\ \A s \in Symbols : BarsOf[s] \subseteq BarKinds \cup {None}
  /\ \A p \in Scanners : ScanOrder[p] \in Seq(Symbols)
  /\ None \notin BarKinds /\ None \notin [1 .. Window -> BarKinds]

VARIABLES
  day,        \* date.today()
  bar,        \* stock_prices: [symbol -> [day -> bar or None]]
  obs,        \* transition_observations: the rows by key
  regimes,    \* _regime_cache of each process: its one entry or None
  scan,       \* the scans under way
  scans,      \* how many have started
  eval,       \* the evaluations under way
  faults,
  rewrites,
  books       \* history: what the table has held of the finished sessions

vars == <<day, bar, obs, regimes, scan, scans, eval, faults, rewrites, books>>
market == <<day, bar, rewrites, books>>

Idle == [active |-> FALSE]

\* regime is the date whose market snapshot it names.
NewObservation(regime) ==
  [status |-> "PENDING", regime |-> regime, price_1d |-> None, window |-> None]

Unwritten == [d \in Days |-> None]

Init ==
  /\ day = 0
  /\ bar = [s \in Symbols |-> Unwritten]
  /\ obs = << >>
  /\ regimes = [p \in Processes |-> None]
  /\ scan = [p \in Scanners |-> Idle]
  /\ scans = 0
  /\ eval = [e \in Evals |-> Idle]
  /\ faults = 0
  /\ rewrites = 0
  /\ books = [s \in Symbols |-> {Unwritten}]

-----------------------------------------------------------------------------
(* Prices.                                                                 *)

\* The sessions of a symbol that are over on day d.
Past(sessions, d) == [x \in Days |-> IF x < d THEN sessions[x] ELSE None]

Record(now, d) == books' = [s \in Symbols |-> books[s] \cup {Past(now[s], d)}]

\* A price cycle downloads the last sessions and writes each of them, the
\* running one and those before it: a missing row comes late, a present one is
\* overwritten (prices are adjusted afterwards); a session the download misses
\* (None) keeps the bar it has.
PriceCycle ==
  /\ LET recent == PriceDays \cap (day - DownloadDays + 1 .. day)
     IN  /\ recent # {}
         /\ \E new \in [Symbols \X recent -> UNION {BarsOf[s] : s \in Symbols}] :
              LET now == [s \in Symbols |-> [d \in Days |->
                           IF d \in recent /\ new[s, d] # None THEN new[s, d] ELSE bar[s][d]]]
              IN  /\ \A s \in Symbols, d \in recent : new[s, d] \in BarsOf[s]
                  /\ bar' = now /\ Record(now, day)
                  /\ rewrites' = IF \A s \in Symbols : Past(now[s], day) = Past(bar[s], day)
                                 THEN rewrites ELSE rewrites + 1
  /\ rewrites' <= MaxRewrites
  /\ UNCHANGED <<day, obs, regimes, scan, scans, eval, faults>>

Midnight ==
  /\ day < LastDay
  /\ day' = day + 1
  /\ Record(bar, day + 1)
  /\ UNCHANGED <<bar, obs, regimes, scan, scans, eval, faults, rewrites>>

-----------------------------------------------------------------------------
(* Scans.  A scan holds the rows it has inserted (mine) until it ends; want *)
(* is the row it inserts now, label its regime, broken a transaction the    *)
(* database has aborted.                                                    *)

ScanStart(p) ==
  /\ ~scan[p].active /\ day \in DetectDays
  /\ scans < MaxScans /\ scans' = scans + 1
  /\ scan' = [scan EXCEPT ![p] = [active |-> TRUE, left |-> ScanOrder[p], mine |-> << >>,
                                  want |-> None, label |-> None, broken |-> FALSE]]
  /\ UNCHANGED <<market, obs, regimes, eval, faults>>

Walking(p) == scan[p].active /\ scan[p].left # << >>

\* Mutant: in an aborted transaction the symbol is tried again.
RetryBroken(r) ==
  IF r.broken THEN [r EXCEPT !.want = None, !.label = None]
  ELSE [r EXCEPT !.left = Tail(@), !.want = None, !.label = None]

Following(r) == [r EXCEPT !.left = Tail(@), !.want = None, !.label = None]

\* Mutant: the cache holds the current regime, whatever the day.
UnkeyedRegime(p, d) ==
  IF regimes[ProcessOf(p)] # None THEN regimes[ProcessOf(p)].regime ELSE None

CachedRegime(p, d) ==
  IF regimes[ProcessOf(p)] # None /\ regimes[ProcessOf(p)].key = d
  THEN regimes[ProcessOf(p)].regime ELSE None

Failed(b) == IF b THEN faults < MaxFaults /\ faults' = faults + 1 ELSE UNCHANGED faults

\* The engine finds what the symbol's metrics show; a stable one leaves no row.
\* get_current_regime: the cached label of that day, or a detection, which
\* replaces the cache and may fail; in an aborted transaction it always does.
Detect(p) ==
  /\ Walking(p) /\ scan[p].want = None
  /\ \E t \in LabelsOf[Head(scan[p].left)], fails \in BOOLEAN :
       LET cached == CachedRegime(p, day)
           found == IF cached # None THEN cached
                    ELSE IF fails \/ scan[p].broken THEN Unknown ELSE day
       IN  IF t = "stable"
           THEN /\ ~fails /\ scan' = [scan EXCEPT ![p] = Following(@)]
                /\ UNCHANGED <<regimes, faults>>
           ELSE /\ fails => cached = None /\ ~scan[p].broken
                /\ Failed(fails)
                /\ scan' = [scan EXCEPT ![p].want = <<Head(scan[p].left), t, day>>,
                                         ![p].label = found]
                /\ regimes' = [regimes EXCEPT ![ProcessOf(p)] =
                                 IF cached = None THEN [key |-> day, regime |-> found] ELSE @]
  /\ UNCHANGED <<market, obs, scans, eval>>

\* The row is in another open transaction: the insert waits for its end.
WaitsFor(p, q) ==
  /\ p # q /\ Walking(p) /\ scan[p].label # None /\ ~scan[p].broken
  /\ scan[p].want \notin DOMAIN obs
  /\ scan[q].active /\ scan[p].want \in DOMAIN scan[q].mine

\* record_observation: ON CONFLICT DO NOTHING.  In an aborted transaction the
\* statement fails and the engine goes on.
Insert(p) ==
  /\ Walking(p) /\ scan[p].label # None
  /\ ~ \E q \in Scanners : WaitsFor(p, q)
  /\ LET new == scan[p].want
         held == scan[p].mine
         fresh == ~scan[p].broken /\ new \notin DOMAIN obs \cup DOMAIN held
         more == IF fresh THEN [k \in DOMAIN held \cup {new} |->
                                  IF k = new THEN scan[p].label ELSE held[k]]
                 ELSE held
     IN  scan' = [scan EXCEPT ![p] = [Following(@) EXCEPT !.mine = more]]
  /\ UNCHANGED <<market, obs, regimes, scans, eval, faults>>

Deadlocked(p, q) == WaitsFor(p, q) /\ WaitsFor(q, p)

\* PostgreSQL aborts one of the two: its rows go, the engine swallows the error.
Abort(p) ==
  /\ \E q \in Scanners : Deadlocked(p, q)
  /\ scan' = [scan EXCEPT ![p] = Following([@ EXCEPT !.mine = << >>, !.broken = TRUE])]
  /\ UNCHANGED <<market, obs, regimes, scans, eval, faults>>

\* The batch and scan-now commit; the session of the live feed is closed.
ScanEnd(p) ==
  /\ scan[p].active /\ scan[p].left = << >>
  /\ scan' = [scan EXCEPT ![p] = Idle]
  /\ obs' = IF p = "live" THEN obs
            ELSE [k \in DOMAIN obs \cup DOMAIN scan[p].mine |->
                    IF k \in DOMAIN obs THEN obs[k] ELSE NewObservation(scan[p].mine[k])]
  /\ UNCHANGED <<market, regimes, scans, eval, faults>>

ScanLost(p) ==
  /\ scan[p].active
  /\ faults < MaxFaults /\ faults' = faults + 1
  /\ scan' = [scan EXCEPT ![p] = Idle]
  /\ UNCHANGED <<market, obs, regimes, scans, eval>>

-----------------------------------------------------------------------------
(* Evaluations.  One goes through the rows it has loaded in the order the   *)
(* database gave them; held are the rows whose UPDATE it has issued and     *)
(* that are locked until it ends.                                          *)

\* The prices of a range of days, in their order, up to each day.
BarsUpTo(sessions, range) ==
  LET upTo[d \in Days] ==
        IF d = 0 THEN << >>
        ELSE IF d \in range /\ sessions[d] # None THEN Append(upTo[d - 1], sessions[d])
        ELSE upTo[d - 1]
  IN  upTo

\* The stored bars of a symbol over a range of days.
BarsIn(s, range) == BarsUpTo(bar[s], range)[LastDay]

Earliest(x, y) == IF x < y THEN x ELSE y

\* Mutant: the running day's bar settles pullbacks too.
LookAheadIncludingToday(k, asOf) == k[3] + 1 .. Earliest(k[3] + WindowDays, asOf)

\* Mutant: the days ahead end one short of the window.
LookAheadTooShort(k, asOf) ==
  k[3] + 1 .. Earliest(k[3] + Window - 1, IF k[2] = "entering_pullback" THEN asOf - 1 ELSE asOf)

\* The days an evaluation looks at; a pullback only at days before asOf.
LookAhead(k, asOf) ==
  k[3] + 1 .. Earliest(k[3] + WindowDays,
                       IF k[2] = "entering_pullback" THEN asOf - 1 ELSE asOf)

\* The extremes of a window, as far as its bars tell them apart.
ExtremesOf(bars) ==
  [ broke_ema50 |-> "break" \in ToSet(bars),
    gain        |-> IF \E b \in ToSet(bars) : Resumes(b) THEN 15 ELSE 5,
    drawdown    |-> IF \E b \in ToSet(bars) : Tests(b) THEN -10 ELSE -5,
    pct_5d      |-> 0, gain_pct |-> 10, drawdown_pct |-> -10 ]

\* _evaluate_one on the row r of key k.
Evaluated(k, r, asOf) ==
  LET found == BarsIn(k[1], LookAhead(k, asOf))
      pullback == k[2] = "entering_pullback"
      window == SubSeq(found, 1, Earliest(Window, Len(found)))
      priced == [r EXCEPT !.price_1d = IF @ = None THEN found[1] ELSE @]
  IN  IF found = << >>
      THEN [r EXCEPT !.status = IF asOf - k[3] >= Patience THEN "INSUFFICIENT_DATA" ELSE @]
      ELSE IF pullback /\ "bad" \in ToSet(window)
      THEN [r EXCEPT !.status = "INSUFFICIENT_DATA"]
      ELSE IF Len(found) >= Window /\ r.status = "PENDING"
      THEN [priced EXCEPT
              !.window = window,
              !.status = IF pullback THEN classify_entering_pullback(window)
                         ELSE _classify_outcome(k[2], ExtremesOf(window))]
      ELSE priced

\* Mutant: every row loses its extremes before it is classified again.
ForgetsWindow(k, r, asOf) ==
  LET fresh == [r EXCEPT !.status = "PENDING", !.price_1d = None, !.window = None]
  IN  IF k[2] = "entering_pullback" THEN Evaluated(k, fresh, asOf)
      ELSE [fresh EXCEPT !.status = _classify_outcome(k[2], ExtremesOf(r.window))]

\* reevaluate_pullback starts from a row without outcome; the others are
\* classified again from the extremes they keep.
Reclassified(k, r, asOf) ==
  IF k[2] = "entering_pullback"
  THEN Evaluated(k, [r EXCEPT !.status = "PENDING", !.price_1d = None, !.window = None], asOf)
  ELSE [r EXCEPT !.status = _classify_outcome(k[2], ExtremesOf(r.window))]

\* The rows each of the two jobs loads.
Loaded(job, k, asOf) ==
  IF job = "evaluate" THEN obs[k].status = "PENDING" /\ k[3] <= asOf - 1
  ELSE \/ obs[k].status \in Verdicts
       \/ k[2] = "entering_pullback" /\ obs[k].status = "INSUFFICIENT_DATA"

\* The SLOW runs of startup and of the post-close cycle and the administrator
\* start theirs out of turn, at times beside one that is running.
OutOfTurn(e) == JobsOf[e] # {"evaluate"}

EvalStart(e) ==
  /\ ~eval[e].active /\ day \in EvalDays
  /\ Failed(OutOfTurn(e) /\ \E f \in Evals : eval[f].active)
  /\ \E job \in JobsOf[e] :
       LET rows == {k \in DOMAIN obs : Loaded(job, k, day)}
       IN  /\ rows # {}
           /\ eval' = [eval EXCEPT ![e] = [active |-> TRUE, job |-> job, asOf |-> day,
                         read |-> [k \in rows |-> obs[k]], new |-> << >>, held |-> {}]]
  /\ UNCHANGED <<market, obs, regimes, scan, scans>>

Left(x) == DOMAIN x.read \ DOMAIN x.new

\* The rows whose UPDATE is still to be issued.
Dirty(x) == {k \in DOMAIN x.new : x.new[k] # x.read[k]} \ x.held

\* The prices of a row are read when its turn comes; before that query autoflush
\* issues the UPDATEs of the rows before.  Outcomes that are classified again
\* from their extremes need no query.
EvalRow(e) ==
  /\ eval[e].active
  /\ \E k \in Left(eval[e]) :
       LET x == eval[e]
           queries == x.job = "evaluate" \/ k[2] = "entering_pullback"
           result == IF x.job = "evaluate" THEN Evaluated(k, x.read[k], x.asOf)
                     ELSE Reclassified(k, x.read[k], x.asOf)
       IN  /\ queries => Dirty(x) = {}
           /\ eval' = [eval EXCEPT ![e].new = [j \in DOMAIN @ \cup {k} |->
                                               IF j = k THEN result ELSE @[j]]]
  /\ UNCHANGED <<market, obs, regimes, scan, scans, faults>>

Holds(f, k) == eval[f].active /\ k \in eval[f].held

\* An UPDATE waits for the transaction that has updated the row before.
EvalFlush(e) ==
  /\ eval[e].active
  /\ \E k \in Dirty(eval[e]) :
       /\ ~ \E f \in Evals \ {e} : Holds(f, k)
       /\ eval' = [eval EXCEPT ![e].held = @ \cup {k}]
  /\ UNCHANGED <<market, obs, regimes, scan, scans, faults>>

\* An UPDATE names the attributes that differ from those loaded, no other.
Written(current, read, new) ==
  [f \in DOMAIN current |-> IF new[f] = read[f] THEN current[f] ELSE new[f]]

EvalCommit(e) ==
  /\ eval[e].active /\ Left(eval[e]) = {} /\ Dirty(eval[e]) = {}
  /\ obs' = [k \in DOMAIN obs |-> IF k \in eval[e].held
                                THEN Written(obs[k], eval[e].read[k], eval[e].new[k])
                                ELSE obs[k]]
  /\ eval' = [eval EXCEPT ![e] = Idle]
  /\ UNCHANGED <<market, regimes, scan, scans, faults>>

EvalWaits(e, f) == e # f /\ eval[e].active /\ \E k \in Dirty(eval[e]) : Holds(f, k)

\* Two evaluations that each hold a row of the other: PostgreSQL aborts one,
\* and its error ends the whole of it; the row goes to the one that waits for it.
EvalAbort(e) ==
  /\ \E f \in Evals :
       /\ EvalWaits(e, f) /\ EvalWaits(f, e)
       /\ eval' = [eval EXCEPT ![e] = Idle,
                               ![f].held = @ \cup (Dirty(eval[f]) \cap eval[e].held)]
  /\ UNCHANGED <<market, obs, regimes, scan, scans, faults>>

EvalLost(e) ==
  /\ eval[e].active
  /\ faults < MaxFaults /\ faults' = faults + 1
  /\ eval' = [eval EXCEPT ![e] = Idle]
  /\ UNCHANGED <<market, obs, regimes, scan, scans>>

\* reclassify-regimes rebuilds every label from its own date's snapshot and
\* forgets the cached one of its process.  It waits for the rows it changes.
ReclassifyRegimes ==
  /\ \E k \in DOMAIN obs : obs[k].regime # k[3]
  /\ \A k \in DOMAIN obs, e \in Evals : Holds(e, k) => obs[k].regime = k[3]
  /\ obs' = [k \in DOMAIN obs |-> [obs[k] EXCEPT !.regime = k[3]]]
  /\ regimes' = [regimes EXCEPT !["api"] = None]
  /\ UNCHANGED <<market, scan, scans, eval, faults>>

-----------------------------------------------------------------------------
ScanStep(p) == Detect(p) \/ Insert(p) \/ Abort(p) \/ ScanEnd(p)
EvalStep(e) == EvalRow(e) \/ EvalFlush(e) \/ EvalCommit(e) \/ EvalAbort(e)

Next ==
  \/ Midnight
  \/ PriceCycle
  \/ \E p \in Scanners : ScanStart(p) \/ ScanStep(p) \/ ScanLost(p)
  \/ \E e \in Evals : EvalStart(e) \/ EvalStep(e) \/ EvalLost(e)
  \/ ReclassifyRegimes

(* A running scan or evaluation goes on; the scheduler starts an evaluation *)
(* after every periodic SLOW run, for as long as rows are pending.          *)
Fairness ==
  /\ \A p \in Scanners : WF_vars(ScanStep(p))
  /\ \A e \in Evals : WF_vars(EvalStep(e))
  /\ \A e \in Evals : ~OutOfTurn(e) => WF_vars(EvalStart(e))

Spec == Init /\ [][Next]_vars /\ Fairness

-----------------------------------------------------------------------------
Sessions == [Days -> BarKinds \cup {None}]

TypeOK ==
  /\ day \in Days
  /\ bar \in [Symbols -> Sessions]
  /\ \A s \in Symbols : \A book \in books[s] : book \in Sessions
  /\ DOMAIN obs \subseteq Keys
  /\ \A k \in DOMAIN obs :
       /\ obs[k].status \in Statuses
       /\ obs[k].regime \in Days \cup {Unknown}
       /\ obs[k].price_1d \in BarKinds \cup {None}
       /\ obs[k].window = None \/ Len(obs[k].window) = Window
       /\ obs[k].status \in Verdicts /\ k[2] # "entering_pullback" => obs[k].window # None
  /\ \A p \in Scanners : scan[p].active =>
       DOMAIN scan[p].mine \subseteq Keys /\ (scan[p].broken => scan[p].mine = << >>)
  /\ \A e \in Evals : eval[e].active => eval[e].held \subseteq DOMAIN obs
  /\ scans \in 0 .. MaxScans /\ faults \in 0 .. MaxFaults /\ rewrites \in 0 .. MaxRewrites

\* The sessions that count for k in what the table has held at some moment.
After(book, k) == BarsUpTo(book, k[3] + 1 .. k[3] + WindowDays)[LastDay]

\* What a pullback shows is what completed sessions have said: its first price
\* and its verdict each come from sessions that were over, all of them in the
\* table at one moment, in their order, by the documented condition, whatever
\* evaluations overlap, whenever midnight comes, however the running bar moves
\* and finished ones are adjusted or filled in (outcome_tracker.py: "Only
\* earlier sessions can settle").
PullbackFaithful ==
  \A k \in DOMAIN obs : k[2] = "entering_pullback" =>
    /\ obs[k].price_1d # None =>
         \E book \in books[k[1]] : After(book, k) # << >> /\ obs[k].price_1d = After(book, k)[1]
    /\ obs[k].status \in Verdicts =>
         \E book \in books[k[1]] : /\ Len(After(book, k)) >= Window
                                  /\ obs[k].status = PullbackReference(After(book, k))

\* The regime an observation carries is the one detected for its own date or
\* the sentinel of a failed detection: the one-entry cache of a process never
\* hands one day's regime to another's detection.
RegimeOfOwnDay == \A k \in DOMAIN obs : obs[k].regime \in {k[3], Unknown}

\* Scans of two processes insert the same rows in different orders: whatever
\* waits on whatever, every scan comes to its end.
ScansEnd == []<>(\A p \in Scanners : ~scan[p].active)

\* A pending observation whose window of bars is complete gets its verdict,
\* though evaluations lock rows against each other and lose all their work -
\* provided they stop to begin out of turn: three rows are enough for two
\* evaluations to abort each other for good, each beginning again meanwhile.
Complete(k) ==
  /\ obs[k].status = "PENDING"
  /\ Len(BarsIn(k[1], k[3] + 1 .. Earliest(k[3] + WindowDays, day - 1))) >= Window
EventuallySettled == []<>(\A k \in DOMAIN obs : ~Complete(k))

-----------------------------------------------------------------------------
(* The rules do not depend on the state: they are compared once, before     *)
(* anything has been scanned.                                               *)
Unscanned == day = 0 /\ scans = 0 /\ bar = [s \in Symbols |-> Unwritten]

\* A path that gains more and gives back less is never judged worse, and a
\* breakout never better than a setup below it (_classify_outcome).
FamilyOrder == Unscanned => FamiliesOrdered(SampleExtremes)

\* Fresh signals only ever lower what the settled ones say, and the descriptor
\* follows its evidence (classify_follow_through, classify_provisional).
FollowThroughSound ==
  Unscanned => /\ ProvisionalFollows(SampleMoves)
               /\ FollowThroughFollows(SampleCounts, SampleBaselines, 0 .. 6)

\* Eight passed criteria are the gate, for every row that has its 52-week high
\* (is_quality_leader, evaluate_minervini_criteria).
GateAndBreakdownAgree == Unscanned => BreakdownIsGate(SampleRows)
===============================================================================
