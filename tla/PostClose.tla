------------------------------ MODULE PostClose ------------------------------
(***************************************************************************)
(* The scheduler's post-close cycle: load the closing prices, recompute    *)
(* every metric, derive the market posture and store it, once per session. *)
(*                                                                         *)
(* One scheduler process runs a sequential loop (pc) and, beside it, the   *)
(* SLOW metrics run that its startup launched in the background (asyncio   *)
(* tasks: every await is a point where the other actors move).  The API    *)
(* process serves visitors, and each visit also stores the posture it      *)
(* computed.  Prices, metrics, postures and heartbeats are in PostgreSQL   *)
(* and survive a restart; everything else is lost.                         *)
(*                                                                         *)
(* Time is the calendar day and the phase of the day.  The two 300-second  *)
(* windows of the code are the sets recent and cooling, which any passage  *)
(* of time may empty.                                                      *)
(***************************************************************************)
EXTENDS Naturals, FiniteSets

CONSTANTS
  Symbols,       \* symbols with a price feed
  Visitors,      \* concurrent requests to the API process
  MaxDay,        \* calendar days 1 .. MaxDay
  Weekdays,      \* the days the scheduler takes for sessions
  Trading,       \* the weekdays the market is open (no holiday)
  MinPct,        \* coverage an accepted metrics run needs, in percent
  MaxFaults,     \* bound on crashes, failed writes, failed calculations
  MaxVisits      \* bound on observations made by visitors

Days == 1 .. MaxDay
NoDay == 0
Owners == {"startup", "loop"}      \* who may start a SLOW run

ASSUME ConstantsAssumption ==
  /\ MaxDay \in Nat \ {0}
  /\ IsFiniteSet(Symbols)
  /\ Trading \subseteq Weekdays
  /\ Weekdays \subseteq Days
  /\ MinPct \in Nat
  /\ MaxFaults \in Nat
  /\ MaxVisits \in Nat

VARIABLES
  day, phase,      \* New York calendar day; night, market or evening (>= 16:10)
  price,           \* latest StockPrice date of each symbol
  metric,          \* latest StockMetrics date of each symbol
  recent,          \* symbols whose latest metrics row is under 5 minutes old
  slowRunning,     \* DataScheduler._slow_running
  run,             \* the SLOW run of each owner
  background,      \* the startup quality refresh is still running
  pc,              \* where the scheduler loop is
  target,          \* session of the cycle under way
  contextDay,      \* as_of of the context the cycle computes
  result,          \* symbols the cycle's SLOW run attempted and covered
  held,            \* the observation the cycle is about to store
  outcome,         \* how the cycle ended, for its heartbeat
  completed,       \* PostCloseCycle.completed_date
  cooling,         \* less than RETRY_SECONDS since last_finished_at
  recomputed,      \* history: symbols whose metrics for target were
                   \* recomputed since the cycle loaded its prices
  posture,         \* market_posture_records, one row per session
  clock,           \* number of observations stamped: the order of recorded_at
  visit,           \* the visits to the API process
  beat,            \* heartbeat row of post_close_cycle
  faults, visits   \* how much of the two bounds has been used

timeVars  == <<day, phase>>
dataVars  == <<price, metric, recent>>
slowVars  == <<slowRunning, run, background>>
localVars == <<target, contextDay, result, held, outcome>>
cycleVars == <<pc, localVars, completed, cooling, recomputed>>
tableVars == <<posture, clock, beat>>
visitVars == <<visit, visits>>
vars == <<timeVars, dataVars, slowVars, cycleVars, tableVars, visitVars, faults>>

NoRow == [stamp |-> 0, by |-> "nobody", on |-> NoDay]
NewRun(st, refresh) == [st |-> st, refresh |-> refresh, snapshot |-> NoDay,
                        attempted |-> {}, todo |-> {}, covered |-> {}]
NoRun == NewRun("off", FALSE)
NoResult == [attempted |-> {}, covered |-> {}]
NoVisit == [st |-> "away", asOf |-> NoDay, row |-> NoRow]

Runs == [st : {"off", "pending", "snapshot", "work"}, refresh : BOOLEAN,
         snapshot : Days \cup {NoDay}, attempted : SUBSET Symbols,
         todo : SUBSET Symbols, covered : SUBSET Symbols]
Rows == [stamp : Nat, by : {"nobody", "visitor", "scheduler"},
         on : Days \cup {NoDay}]

(* d is the latest date in a column of dates, NoDay when there is none.    *)
IsLatest(d, column) ==
  /\ d = NoDay \/ \E s \in Symbols : column[s] = d
  /\ \A s \in Symbols : column[s] <= d

(* Daily bars the market has produced so far: those of past sessions, and  *)
(* of today's once it is open.                                             *)
HasBars(d) == d \in Trading /\ (d < day \/ (d = day /\ phase # "night"))
LastBar(d) == HasBars(d) /\ \A e \in Trading : HasBars(e) => e <= d

Fault == faults < MaxFaults /\ faults' = faults + 1

------------------------------------------------------------------------------
(* Time.  The last day never ends, so that "in time" has a meaning.        *)

PhaseChange ==
  /\ \/ phase = "night" /\ phase' = "market" /\ day' = day
     \/ phase = "market" /\ phase' = "evening" /\ day' = day
     \/ /\ phase = "evening" /\ day < MaxDay
        /\ phase' = "night" /\ day' = day + 1
  /\ UNCHANGED <<dataVars, slowVars, cycleVars, tableVars, visitVars, faults>>

(* Five minutes pass since the metrics row of s was written.               *)
RowAges(s) ==
  /\ s \in recent
  /\ recent' = recent \ {s}
  /\ UNCHANGED <<timeVars, price, metric, slowVars, cycleVars, tableVars,
                 visitVars, faults>>

(* RETRY_SECONDS pass since the cycle last finished.                       *)
CooldownEnds ==
  /\ cooling
  /\ cooling' = FALSE
  /\ UNCHANGED <<timeVars, dataVars, slowVars, pc, localVars, completed,
                 recomputed, tableVars, visitVars, faults>>

------------------------------------------------------------------------------
(* Prices and metrics written outside the SLOW run: the market-hours       *)
(* price, quality and FAST cycles of the loop (one begun before the close  *)
(* may end after it), and the quality refresh that startup leaves running  *)
(* in the background.                                                      *)

OtherWriters == background \/ (pc = "idle" /\ phase # "night")

PriceArrives(s) ==
  /\ OtherWriters
  /\ \E d \in Days :
       /\ LastBar(d) /\ price[s] < d
       /\ price' = [price EXCEPT ![s] = d]
  /\ UNCHANGED <<timeVars, metric, recent, slowVars, cycleVars, tableVars,
                 visitVars, faults>>

(* calculate_metrics_for_symbol writes the row of the latest price date.   *)
Calculate(s) ==
  /\ metric' = [metric EXCEPT ![s] = price[s]]
  /\ recent' = recent \cup {s}
  /\ recomputed' = IF price[s] = target THEN recomputed \cup {s}
                                        ELSE recomputed

QuickMetrics(s) ==
  /\ OtherWriters
  /\ price[s] # NoDay
  /\ Calculate(s)
  /\ UNCHANGED <<timeVars, price, slowVars, pc, localVars, completed, cooling,
                 tableVars, visitVars, faults>>

QualityRefreshEnds ==
  /\ background
  /\ background' = FALSE
  /\ UNCHANGED <<timeVars, dataVars, slowRunning, run, cycleVars, tableVars,
                 visitVars, faults>>

------------------------------------------------------------------------------
(* The SLOW metrics run, DataScheduler._trigger_metrics_run.               *)

(* The guard and the flag are read and set with no await between them.     *)
SlowStart(o, refresh) ==
  /\ ~slowRunning
  /\ slowRunning' = TRUE
  /\ run' = [run EXCEPT ![o] = NewRun("snapshot", refresh)]

(* Mutant: a run that ends without giving the flag back.                   *)
SlowReleaseKeepsFlag(o) ==
  /\ run' = [run EXCEPT ![o] = NoRun]
  /\ UNCHANGED slowRunning

(* The finally clause: the run is over, whichever way it ended.            *)
SlowRelease(o) ==
  /\ slowRunning' = FALSE
  /\ run' = [run EXCEPT ![o] = NoRun]

(* The background run of startup begins, unless another one is active.     *)
StartupSlow ==
  /\ run["startup"].st = "pending"
  /\ \/ SlowStart("startup", FALSE)
     \/ /\ slowRunning
        /\ run' = [run EXCEPT !["startup"] = NoRun]
        /\ UNCHANGED slowRunning
  /\ UNCHANGED <<timeVars, dataVars, background, cycleVars, tableVars,
                 visitVars, faults>>

(* The 30-minute SLOW cycle of market hours, awaited by the loop; when a   *)
(* run is active it is skipped and nothing changes.                        *)
PeriodicSlow ==
  /\ pc = "idle" /\ phase = "market"
  /\ SlowStart("loop", FALSE)
  /\ pc' = "periodic"
  /\ UNCHANGED <<timeVars, dataVars, background, localVars, completed, cooling,
                 recomputed, tableVars, visitVars, faults>>

(* The required share of the symbols (0.95 in the code).                   *)
Enough(part, whole) ==
  100 * Cardinality(part) >= MinPct * Cardinality(whole)

(* The conditions run_if_due puts on the result of its metrics run.        *)
Qualifies(r) ==
  /\ r.attempted # {} /\ r.covered # {}
  /\ Enough(r.covered, r.attempted)
  /\ r.snapshot = target

(* Mutant: the daily attempt is marked as made even when it failed.        *)
CycleFailsForGood ==
  /\ pc' = "report"
  /\ outcome' = "failed"
  /\ cooling' = TRUE
  /\ completed' = target
  /\ UNCHANGED <<target, contextDay, held>>

(* except and finally of run_if_due, for a cycle that did not capture.     *)
CycleFails ==
  /\ pc' = "report"
  /\ outcome' = "failed"
  /\ cooling' = TRUE
  /\ UNCHANGED <<target, contextDay, held, completed>>

(* The result r of a run reaches its caller: nobody waits for startup's,   *)
(* the periodic one gives the loop back, the cycle judges its own.         *)
AfterSlow(o, r) ==
  \/ o = "startup" /\ UNCHANGED cycleVars
  \/ /\ o = "loop" /\ pc = "periodic"
     /\ pc' = "idle"
     /\ UNCHANGED <<localVars, completed, cooling, recomputed>>
  \/ /\ o = "loop" /\ pc = "slow"
     /\ result' = [attempted |-> r.attempted, covered |-> r.covered]
     /\ UNCHANGED recomputed
     /\ \/ /\ Qualifies(r)
           /\ pc' = "analyze"
           /\ UNCHANGED <<target, contextDay, held, outcome, completed, cooling>>
        \/ ~Qualifies(r) /\ CycleFails

(* _get_slow_symbols_and_date: the latest price date and who has a price   *)
(* for it.  With no price at all the run ends there.                       *)
SlowSnapshot(o) ==
  /\ run[o].st = "snapshot"
  /\ \E d \in Days \cup {NoDay} :
       /\ IsLatest(d, price)
       /\ \/ d = NoDay /\ SlowRelease(o) /\ AfterSlow(o, NoRun)
          \/ /\ d # NoDay
             /\ LET symbols == {s \in Symbols : price[s] = d}
                IN  run' = [run EXCEPT ![o] =
                              [st |-> "work", refresh |-> run[o].refresh,
                               snapshot |-> d, attempted |-> symbols,
                               todo |-> symbols, covered |-> {}]]
             /\ UNCHANGED <<slowRunning, cycleVars>>
  /\ UNCHANGED <<timeVars, dataVars, background, tableVars, visitVars, faults>>

(* A row of the snapshot date under five minutes old is left as it is,     *)
(* except by the run of the post-close cycle.                              *)
Protected(o, s) ==
  /\ ~run[o].refresh
  /\ metric[s] = run[o].snapshot
  /\ s \in recent

SlowSymbol(o, s) ==
  /\ run[o].st = "work" /\ s \in run[o].todo
  /\ \/ /\ Protected(o, s)
        /\ run' = [run EXCEPT ![o].todo = @ \ {s}, ![o].covered = @ \cup {s}]
        /\ UNCHANGED <<metric, recent, recomputed>>
     \/ /\ ~Protected(o, s)
        /\ Calculate(s)
        /\ run' = [run EXCEPT
                    ![o].todo = @ \ {s},
                    ![o].covered = IF price[s] = run[o].snapshot
                                   THEN @ \cup {s} ELSE @]
  /\ UNCHANGED <<timeVars, price, slowRunning, background, pc, localVars,
                 completed, cooling, tableVars, visitVars, faults>>

(* Too short a price history, or an exception: the symbol is not covered.  *)
SlowSymbolFails(o, s) ==
  /\ run[o].st = "work" /\ s \in run[o].todo
  /\ Fault
  /\ run' = [run EXCEPT ![o].todo = @ \ {s}]
  /\ UNCHANGED <<timeVars, dataVars, slowRunning, background, cycleVars,
                 tableVars, visitVars>>

SlowFinish(o) ==
  /\ run[o].st = "work" /\ run[o].todo = {}
  /\ SlowRelease(o)
  /\ AfterSlow(o, run[o])
  /\ UNCHANGED <<timeVars, dataVars, background, tableVars, visitVars, faults>>

------------------------------------------------------------------------------
(* The post-close cycle, PostCloseCycle.run_if_due.                        *)

Due ==
  /\ phase = "evening" /\ day \in Weekdays
  /\ completed # day
  /\ ~cooling

(* Mutant: the session taken from the UTC date, a day ahead in the evening.*)
SessionOfUTC == day + 1

(* The session of a cycle is the New York date.                            *)
SessionOfClock == day

RunIfDue ==
  /\ pc = "idle" /\ Due
  /\ pc' = "prices"
  /\ target' = SessionOfClock
  /\ result' = NoResult
  /\ UNCHANGED <<timeVars, dataVars, slowVars, contextDay, held, outcome,
                 completed, cooling, recomputed, tableVars, visitVars, faults>>

(* Polygon's daily bars, or yfinance when they are missing: some symbols   *)
(* get the last bar there is, all of them unless the feed is at fault.     *)
FeedDelivers ==
  \/ \E d \in Days, got \in SUBSET Symbols :
       /\ LastBar(d)
       /\ price' = [s \in Symbols |-> IF s \in got THEN d ELSE price[s]]
       /\ IF got = Symbols THEN UNCHANGED faults ELSE Fault
  \/ /\ \A d \in Days : ~HasBars(d)
     /\ UNCHANGED <<price, faults>>

(* Mutant: the closing run honours the five-minute write protection.       *)
NoRefresh == FALSE

(* _trigger_metrics_run(refresh=True).                                     *)
PostCloseRefresh == TRUE

(* Prices are in; the metrics run starts in the same step, or is skipped   *)
(* when one is active and the cycle fails.                                 *)
LoadPrices ==
  /\ pc = "prices"
  /\ FeedDelivers
  /\ recomputed' = {}
  /\ \/ /\ SlowStart("loop", PostCloseRefresh)
        /\ pc' = "slow"
        /\ UNCHANGED <<localVars, completed, cooling>>
     \/ /\ slowRunning
        /\ CycleFails
        /\ UNCHANGED <<slowRunning, run, result>>
  /\ UNCHANGED <<timeVars, metric, recent, background, tableVars, visitVars>>

(* MarketContextEngine.analyze without its cache: first the context date.  *)
Analyze ==
  /\ pc = "analyze"
  /\ \E d \in Days \cup {NoDay} : IsLatest(d, metric) /\ contextDay' = d
  /\ pc' = "context"
  /\ UNCHANGED <<timeVars, dataVars, slowVars, target, result, held, outcome,
                 completed, cooling, recomputed, tableVars, visitVars, faults>>

(* Mutant: nobody asks whether midnight has passed.                        *)
AnySession == TRUE

(* Then the rest of the computation.  The checks that follow it and the    *)
(* timestamp of observe are one step: no await lies between them.          *)
SessionStillOpen == day = target

Observed(who) == [stamp |-> clock + 1, by |-> who, on |-> day]

Capture ==
  /\ pc = "context"
  /\ UNCHANGED <<result, recomputed>>
  /\ \/ /\ contextDay = target /\ SessionStillOpen
        /\ held' = Observed("scheduler")
        /\ clock' = clock + 1
        /\ pc' = "write"
        /\ UNCHANGED <<target, contextDay, outcome, completed, cooling>>
     \/ /\ contextDay # target \/ ~SessionStillOpen
        /\ CycleFails
        /\ UNCHANGED clock
  /\ UNCHANGED <<timeVars, dataVars, slowVars, posture, beat, visitVars, faults>>

(* The query raised, the quality universe is empty or the posture invalid. *)
AnalysisFails ==
  /\ pc \in {"analyze", "context"}
  /\ Fault
  /\ CycleFails
  /\ UNCHANGED <<timeVars, dataVars, slowVars, result, recomputed, tableVars,
                 visitVars>>

(* Mutant: the last write wins, whenever it was observed.                  *)
LastWriteWins(row, old) == TRUE

(* The upsert: an existing row gives way to a later recorded_at only.      *)
Newer(row, old) == row.stamp > old.stamp

Upsert(d, row) ==
  posture' = IF Newer(row, posture[d]) THEN [posture EXCEPT ![d] = row]
                                       ELSE posture

WriteRow ==
  /\ pc = "write"
  /\ Upsert(target, held)
  /\ completed' = target
  /\ cooling' = TRUE
  /\ outcome' = "ok"
  /\ pc' = "report"
  /\ UNCHANGED <<timeVars, dataVars, slowVars, target, contextDay, result,
                 held, recomputed, clock, beat, visitVars, faults>>

(* Mutant: the False that observe returns is taken for success.            *)
WriteFailsUnnoticed ==
  /\ pc = "write"
  /\ Fault
  /\ pc' = "report" /\ outcome' = "ok"
  /\ cooling' = TRUE /\ completed' = target
  /\ UNCHANGED <<timeVars, dataVars, slowVars, target, contextDay, held, result,
                 recomputed, tableVars, visitVars>>

(* SQLAlchemyError: rolled back, observe returns False, the cycle fails.   *)
WriteFails ==
  /\ pc = "write"
  /\ Fault
  /\ CycleFails
  /\ UNCHANGED <<timeVars, dataVars, slowVars, result, recomputed, tableVars,
                 visitVars>>

(* record_cycle: last_success_at moves with an ok outcome only; a failed   *)
(* heartbeat write is logged and forgotten.                                *)
Report ==
  /\ pc = "report"
  /\ pc' = "idle"
  /\ \/ /\ beat' = [status |-> outcome,
                    success |-> IF outcome = "ok" THEN target ELSE beat.success]
        /\ UNCHANGED faults
     \/ Fault /\ UNCHANGED beat
  /\ UNCHANGED <<timeVars, dataVars, slowVars, localVars, completed, cooling,
                 recomputed, posture, clock, visitVars>>

------------------------------------------------------------------------------
(* Start, crash and restart of the scheduler process.                      *)

(* _scheduler_loop before its loop: prices first, then SLOW and the        *)
(* quality refresh in the background.                                      *)
Boot ==
  /\ pc = "boot"
  /\ FeedDelivers
  /\ pc' = "idle"
  /\ run' = [run EXCEPT !["startup"] = NewRun("pending", FALSE)]
  /\ background' = TRUE
  /\ UNCHANGED <<timeVars, metric, recent, slowRunning, localVars, completed,
                 cooling, recomputed, tableVars, visitVars>>

Crash ==
  /\ Fault
  /\ slowRunning' = FALSE /\ background' = FALSE
  /\ run' = [o \in Owners |-> NoRun]
  /\ pc' = "boot"
  /\ target' = NoDay /\ contextDay' = NoDay /\ held' = NoRow
  /\ result' = NoResult /\ outcome' = "none"
  /\ completed' = NoDay /\ cooling' = FALSE
  /\ recomputed' = {}
  /\ UNCHANGED <<timeVars, dataVars, tableVars, visitVars>>

(* The snapshot query raises.  The flag is released and startup's task     *)
(* ends; the cycle fails; in the periodic run nothing catches it, the loop *)
(* and its process end (that is Crash).                                    *)
SlowSnapshotFails(o) ==
  /\ run[o].st = "snapshot"
  /\ Fault
  /\ SlowRelease(o)
  /\ \/ o = "startup" /\ UNCHANGED cycleVars
     \/ o = "loop" /\ pc = "slow" /\ CycleFails /\ UNCHANGED <<result, recomputed>>
  /\ UNCHANGED <<timeVars, dataVars, background, tableVars, visitVars>>

------------------------------------------------------------------------------
(* A visit to the API: the context of the latest metrics date is computed  *)
(* (or taken from the five-minute cache), then observed and stored.        *)

VisitAnalyze(v) ==
  /\ visit[v].st = "away" /\ visits < MaxVisits
  /\ \E d \in Days :
       /\ IsLatest(d, metric)
       /\ visit' = [visit EXCEPT ![v] =
                      [st |-> "context", asOf |-> d, row |-> NoRow]]
  /\ visits' = visits + 1
  /\ UNCHANGED <<timeVars, dataVars, slowVars, cycleVars, tableVars, faults>>

VisitObserve(v) ==
  /\ visit[v].st = "context"
  /\ visit' = [visit EXCEPT ![v] = [st |-> "write", asOf |-> visit[v].asOf,
                                    row |-> Observed("visitor")]]
  /\ clock' = clock + 1
  /\ UNCHANGED <<timeVars, dataVars, slowVars, cycleVars, posture, beat, visits,
                 faults>>

VisitWrite(v) ==
  /\ visit[v].st = "write"
  /\ Upsert(visit[v].asOf, visit[v].row)
  /\ visit' = [visit EXCEPT ![v] = NoVisit]
  /\ UNCHANGED <<timeVars, dataVars, slowVars, cycleVars, clock, beat, visits,
                 faults>>

VisitFails(v) ==
  /\ visit[v].st = "write"
  /\ Fault
  /\ visit' = [visit EXCEPT ![v] = NoVisit]
  /\ UNCHANGED <<timeVars, dataVars, slowVars, cycleVars, tableVars, visits>>

------------------------------------------------------------------------------
Init ==
  /\ day = 1 /\ phase \in {"night", "market", "evening"}
  /\ price = [s \in Symbols |-> NoDay]
  /\ metric = [s \in Symbols |-> NoDay]
  /\ recent = {}
  /\ slowRunning = FALSE /\ background = FALSE
  /\ run = [o \in Owners |-> NoRun]
  /\ pc = "boot"
  /\ target = NoDay /\ contextDay = NoDay /\ held = NoRow
  /\ result = NoResult /\ outcome = "none"
  /\ completed = NoDay /\ cooling = FALSE
  /\ recomputed = {}
  /\ posture = [d \in Days |-> NoRow]
  /\ clock = 0
  /\ beat = [status |-> "none", success |-> NoDay]
  /\ visit = [v \in Visitors |-> NoVisit]
  /\ visits = 0
  /\ faults = 0

SlowStep(o) ==
  \/ SlowSnapshot(o) \/ SlowFinish(o)
  \/ \E s \in Symbols : SlowSymbol(o, s)

CycleStep ==
  \/ RunIfDue \/ LoadPrices \/ Analyze \/ Capture \/ WriteRow \/ Report \/ Boot

Next ==
  \/ PhaseChange \/ CooldownEnds \/ QualityRefreshEnds
  \/ \E s \in Symbols : RowAges(s) \/ PriceArrives(s) \/ QuickMetrics(s)
  \/ StartupSlow \/ PeriodicSlow
  \/ \E o \in Owners : SlowStep(o) \/ SlowSnapshotFails(o)
  \/ \E o \in Owners, s \in Symbols : SlowSymbolFails(o, s)
  \/ CycleStep
  \/ AnalysisFails \/ WriteFails \/ Crash
  \/ \E v \in Visitors :
       VisitAnalyze(v) \/ VisitObserve(v) \/ VisitWrite(v) \/ VisitFails(v)

Spec == Init /\ [][Next]_vars

(* Time passes, and a task of the event loop that can move does.           *)
Fairness ==
  /\ WF_vars(PhaseChange) /\ WF_vars(CooldownEnds)
  /\ WF_vars(StartupSlow) /\ WF_vars(CycleStep)
  /\ \A o \in Owners : WF_vars(SlowStep(o))

FairSpec == Spec /\ Fairness

------------------------------------------------------------------------------
(***************************************************************************)
(* Properties.                                                             *)
(***************************************************************************)

(* Every variable keeps its type, whatever the order of the tasks.         *)
FlagsTyped == slowRunning \in BOOLEAN /\ background \in BOOLEAN /\ cooling \in BOOLEAN

DataTyped ==
  /\ day \in Days /\ phase \in {"night", "market", "evening"}
  /\ price \in [Symbols -> Days \cup {NoDay}]
  /\ metric \in [Symbols -> Days \cup {NoDay}]
  /\ recent \subseteq Symbols
  /\ faults \in Nat /\ visits \in Nat

CycleTyped ==
  /\ run \in [Owners -> Runs]
  /\ pc \in {"boot", "idle", "periodic", "prices", "slow", "analyze",
             "context", "write", "report"}
  /\ target \in Days \cup {NoDay} /\ contextDay \in Days \cup {NoDay}
  /\ result \in [attempted : SUBSET Symbols, covered : SUBSET Symbols]
  /\ held \in Rows
  /\ outcome \in {"none", "ok", "failed"}
  /\ completed \in Days \cup {NoDay}
  /\ recomputed \subseteq Symbols

TablesTyped ==
  /\ posture \in [Days -> Rows]
  /\ clock \in Nat
  /\ beat \in [status : {"none", "ok", "failed"}, success : Days \cup {NoDay}]
  /\ visit \in [Visitors -> [st : {"away", "context", "write"},
                             asOf : Days \cup {NoDay}, row : Rows]]

TypeOK == FlagsTyped /\ DataTyped /\ CycleTyped /\ TablesTyped

(* One SLOW run at a time, and _slow_running says exactly whether there is *)
(* one: a flag left behind by a failed run would stop metrics for good.    *)
Active(o) == run[o].st \in {"snapshot", "work"}

SlowExclusive ==
  /\ ~(Active("startup") /\ Active("loop"))
  /\ slowRunning <=> \E o \in Owners : Active(o)

(* A posture the cycle is about to store stands on metrics recomputed      *)
(* after the cycle loaded its prices, for the required share of the        *)
(* symbols its run attempted; rows written before the closing prices came  *)
(* do not count.                                                           *)
CaptureEvidence ==
  pc \in {"analyze", "context", "write"} =>
    /\ recomputed # {}
    /\ Enough(recomputed \cap result.attempted, result.attempted)

(* What the scheduler recorded it observed on the session's own day, and   *)
(* only for days the market traded: no backfill after midnight, no record  *)
(* for a holiday, although the scheduler knows nothing of holidays.        *)
CapturedInSession ==
  \A d \in Days : posture[d].by = "scheduler" => /\ posture[d].on = d
                                                 /\ d \in Trading

(* A session reported complete, in memory or in the heartbeat, has its row:*)
(* neither a failed write nor a crash between the steps leaves a success   *)
(* without a record.                                                       *)
CompletionDurable ==
  \A d \in Days : d \in {completed, beat.success} => posture[d].stamp > 0

(* The record table behaves as PostureLedger says, with visitors and the   *)
(* scheduler writing side by side, their upserts in any order.             *)
Ledger == INSTANCE PostureLedger
            WITH Sessions <- Days, ledger <- posture, done <- completed
ImplementsLedger == Ledger!LedgerSpec

(* Failures do not lose the session: once they stop, the last day's        *)
(* session is captured and stays complete.                                 *)
EventuallyCaptured ==
  <>[](completed = MaxDay /\ posture[MaxDay].stamp > 0)
=============================================================================
