# Verification of the stock analysis platform

TLA+ models of the platform's own core logic, TLC runs over small instances of
them, and proofs checked by TLAPS. `PROJECT.json` lists the components, the
runs, one mutation of the code per property, the source lines behind every
definition, the hazards and the theorems. Paths are relative to the repository
(`src/backend/app/...`, shortened to `app/...`).

* [The system](#the-system)
* [Inventory](#inventory)
* [Modules and how they correspond to the code](#modules-and-how-they-correspond-to-the-code)
* [Runs](#runs)
* [Disagreements between the code and its comments](#disagreements-between-the-code-and-its-comments)
* [Proofs](#proofs)
* [Plan](#plan)
* [Running the checks](#running-the-checks)

## The system

The backend is a Python service over PostgreSQL (TimescaleDB) and Redis, in two
processes:

* the **API process** (`app/main.py`): FastAPI handlers, each request a
  coroutine with its own database session; the trading journal, accounts,
  market context and websocket clients live here;
* the **scheduler process** (`app/data/scheduler.py`): one sequential asyncio
  loop that loads prices, computes metrics and runs the post-close and nightly
  jobs, plus background tasks the loop launches and does not wait for.

They share no memory: they meet in the database tables (`stock_prices`,
`stock_metrics`, `market_posture_records`, `journal_trades`,
`pipeline_heartbeats`, `transition_observations`, ...), in Redis, and in the caches
each keeps of what it read there. Within a process nothing is preemptive: a
handler or a job runs undisturbed from one `await` to the next, and every
`await` is a point where all the others may move. That is the grain of the
models: one action is the code between two awaits that matter.

The hard parts are therefore interleavings at awaits, row locks and transaction
boundaries, restarts that lose what is only in memory, calls that fail half
way, clocks (New York dates, midnight, intervals, time corrections) and long
sequences of legal edits to one journal trade.

## Inventory

For each component: the state it keeps, its operations, whom it meets, what is
hard, and what makes it correct. The status of each is in `PROJECT.json`.

| Component | Status | State | Operations | Interacts with |
|---|---|---|---|---|
| Post-close cycle and posture records (`data/post_close_cycle.py`, `services/market_posture_capture.py`, `services/market_posture_record_service.py`, `repositories/market_posture_record_repository.py`, `data/pipeline_heartbeat.py`) | modelled | `completed_date`, `last_finished_at`; one posture row per session; a heartbeat row | `run_if_due`, `capture`, `observe`, `upsert`, `record_cycle` | the SLOW run, the price feed, visitors of the API that upsert the same row |
| Scheduler loop and metrics cycles (`data/scheduler.py`, `data/ingestors/metrics_calculator.py`) | partly | a marker per job, `_slow_running`, launched tasks | the loop's iteration, `_trigger_metrics_run`, quality and FAST cycles, recovery from a jumping clock | every job it calls, the system clock |
| Price ingestion (`data/ingestors/*`) | partly | `stock_prices` | daily bars, the yfinance fallback, batched downloads in worker threads | the loop, SLOW |
| Trading journal (`services/journal_application.py`, `services/journal_decisions.py`, `repositories/journal_repository.py`) | partly | `journal_trades` with stored outcomes and parent links, `journal_stop_events` | create, close, patch, delete, statistics, DCA split, export | concurrent requests of one owner |
| Journal import (`services/journal_importer.py`) | partly | the owner's rows | FIFO matching of fills, replacement | the journal tables |
| Market posture policy and health (`services/market_posture*.py`, `market_health.py`, `market_context_engine.py`) | modelled | policy flags replayed over the stored sessions | classify a session, replay, derive, brake | the table of metrics, the posture records |
| Setup transitions and outcomes (`services/transition_engine.py`, `batch_transition_scanner.py`, `live_transition_service.py`, `outcome_tracker.py`, `pullback_outcome.py`, `follow_through.py`, `quality_leader_gate.py`) | partly | `transition_observations`, a cached regime per process | scan, detect, deduplicate, evaluate, reclassify | every SLOW run starts a scan and an evaluation; the administrator scans too; requests detect live |
| Accounts and sessions (`services/auth_service.py`, `api/v1/endpoints/auth.py`, `services/auth_rate_limiter.py`) | partly | users, sessions, one-time tokens, windows of attempts | register, resend, verify, log in and out, reset, limit | every authenticated request |
| Realtime prices (`services/realtime_price_service.py`, `services/websocket_manager.py`, `market_data/strategies/*`) | not modelled | active source and mode, subscriptions, connections | connect, subscribe, broadcast, fail over, recover | the market's stream, websocket clients |
| Universe and tiers (`universe/*`) | not modelled | tiers in memory and in the table, lifecycle rows | discover, re-evaluate, promote, demote | the nightly jobs |
| Event buses, caches, recalculation (`market_data/events`, `cache`, `recalculation`, `lifecycle`, `state`, `core/cache.py`, `core/redis.py`) | not modelled | queues, cached values | publish, subscribe, recompute | mostly tests; some by the realtime service |
| Queue, setups, rankings; indicators and engines | not modelled | none of their own | computations over tables | the API |
| HTTP API, mail, frontend, deployment | not modelled | | routing, output, presentation, operations | |

What is hard in each, and what correctness means there:

* **Post-close cycle.** The scheduler loads closing prices, awaits a metrics
  run, computes the market posture and files it under the session. Its run may
  be skipped because another one is active; rows may be "covered" by metrics
  computed before the close; midnight or a holiday may make the result belong
  to another day; visitors upsert the same row in any order; writes fail and
  processes restart between any two steps. Correct: one SLOW run at a time and
  no flag left behind; a posture stands on metrics computed from that evening's
  prices; it is filed only in its own session; a row never gives way to an
  older observation; whatever is reported done is in the table; and after
  failures stop, the session is captured.
* **Scheduler loop.** Cadence is a marker per job compared with a wall clock
  that may be corrected; jobs take as long as their own interval. Correct: no
  job freezes, none starves another, the cycle is always tried again.
* **Journal.** Two requests edit one trade; a purchase relinks rows that others
  hold; a create is two transactions; a trade lives through a long sequence of
  trails, partial closes, corrections and reopenings, with outcomes stored in
  the row. Correct: no share lost or sold twice, stored outcomes are those of
  the row, the planned risk never moves, the stop log tells the whole story,
  legs are grouped by unbroken holding and links stay flat.
* **Transitions and outcomes.** Scans of two processes insert the same rows in
  different orders; evaluations overlap each other and a reclassification; the
  bar of the running day moves, and every download writes the sessions before it
  anew; a batch runs past midnight. Correct: every scan ends, a verdict comes from
  sessions that are over, as they were in the table together, and comes in the end,
  and an observation carries the regime of its own day.
* **Posture.** Flags with entry and exit bands, a streak and a retained event,
  replayed from nothing over a window that moves. Correct: the flags rest on
  one another, the window only makes the policy forget, better postures are
  earned over consecutive sessions, and every ceiling brakes.
* **Accounts.** Links opened twice, overlapping requests for links, two
  registrations at once, transactions that wait for each other. Correct: a
  token serves once, the password is that of the last reset, a success sweeps
  the tokens and a reset the sessions that were there, registrations of one email
  make one account, and every request ends.
* **Import and export.** Fills matched first in first out, decisions written as
  one purchase. Correct: the matching is that of the definition, the sheet of
  an ordered journal restores its decisions.
* **Realtime.** The stream ends, another source is chosen, clients come and go
  during a broadcast. Correct: subscribers keep receiving from the active
  source; a leaving client harms no other.
* **Universe.** A decision compared with tiers in memory that its own result
  does not update. Correct: a promotion is decided once.

## Modules and how they correspond to the code

```
PostureLedger          what the posture table promises (abstract)
   ^ implemented by
PostClose              SLOW runs, post-close cycle, visitors, time, crashes
   ^ MCPostClose       instances            ^ PostClose_proofs   theorems

MarketHealth           descriptors, damage memory, recovery sessions (pure)
   ^ extended by
PosturePolicy          one day of the policy, the posture derived (pure)
   ^ extended by
Posture                sessions, the moving window, the replay
   ^ MCPosture         instance             ^ Posture_proofs     theorems

OutcomeRules           verdicts, follow-through, with their references (pure)
TransitionRules        detection, the leader gate, with theirs (pure)
   ^ both extended by
Outcomes               scans, evaluations, reclassification, regime cache
   ^ MCOutcomes        instance             ^ Outcomes_proofs    theorems of the three

JournalDecisions       grouping of legs, naming of stop changes (pure)
   ^ extended by
Journal                trades, stop log, concurrent requests
   ^ extended by                            ^ Journal_proofs     theorems
JournalBook            the sheet, its FIFO matching, the backup
   ^ extended by
JournalScore           the two scoreboards
   ^ MCJournal         instances            ^ JournalBook_proofs theorems of the two

Accounts               accounts, tokens, sessions, rate windows
   ^ MCAccounts        instance             ^ Accounts_proofs    theorems

SchedulerLoop          the loop's cadence and its clock
   ^ MCSchedulerLoop   instance             ^ SchedulerLoop_proofs theorems

Induction_proofs       induction, courses of loops and sums over finite sets,
                       in the form the provers can use; the proofs extend it
```

`PostClose` takes the content of a posture for granted, `Posture` what a day
makes of it; they meet in `market_posture_records`, whose rows `Posture` does
not need: the policy is replayed from metrics, never from rows.

### PostClose and PostureLedger

`PostureLedger` is the contract of `market_posture_records`: at most one row
per session, a row is replaced only by a later observation, a scheduler's row
was observed on its own day, and a session is held done only with its row
there. `PostClose` is everything that could break it.

| Model | Code |
|---|---|
| `pc` | where the scheduler's single coroutine is: startup, idle in the loop, in a periodic SLOW run, or in a step of `run_if_due` |
| `run[o]`, `slowRunning` | a call of `_trigger_metrics_run` by startup's background task or by the loop, and `_slow_running` |
| `price`, `metric` | the latest date each symbol has in `stock_prices` and `stock_metrics` |
| `recent` | the symbols the five-minute write protection of the SLOW run would skip |
| `completed`, `cooling` | `completed_date`; less than 300 s since `last_finished_at` |
| `posture`, `clock` | the table; `clock` orders `recorded_at` |
| `visit` | a request to the market-context endpoint: context computed, observed, upserted |
| `beat` | the heartbeat row of the cycle |
| `recomputed` | history, read by `CaptureEvidence` only |

Prices are dates: what the properties tell apart is which session a row is of.
The day has three phases: night, market, evening (from 16:10 New York). The two
300-second windows are sets that any passage of time may empty, so every ratio
of their length to everything else is covered. `Weekdays` is what the scheduler
takes for a session, `Trading` the days the market is open: they differ on
holidays. Price, quality and FAST writers of the loop and of startup's
background refresh are `PriceArrives` and `QuickMetrics`, active whenever one
of them may be. The content of a posture is not modelled, only when and on what
evidence it was made. The exit paths of `run_if_due` (its `except` and
`finally`) are part of every action that can raise.

### JournalDecisions and Journal

One owner and one symbol: every query of the code that matters here is
restricted to them. Prices, stops, quantities and dates are small naturals;
`None` is the database's null.

| Model | Code |
|---|---|
| `trade`, `nextId` | committed rows of `journal_trades`; the id sequence, which a rollback does not rewind |
| `events` | `journal_stop_events` of each trade |
| `req[c]` | one request: `insert` and `link` are the two steps of a create before its commit, with its uncommitted row; `log` is the time between its two transactions; `edit` is a close or a patch that has read its row `FOR UPDATE` |
| `Locked` | the row lock held from that read to the commit |
| `born`, `lot`, `bought`, `lost` | histories the properties compare the tables with; `lost` are the purchases whose request ended between its two commits |

A close, a patch or a delete reads, computes and commits under one row lock and
awaits nothing that changes other rows, so it is two actions: `Lock` and the
rest. A create takes no lock: it reads the committed legs, computes links, and
writes the rows whose link changed, waiting for locked ones (`CommitTrade`); an
update of a single vanished row raises in the ORM and aborts the request, one of
several rows - the new row's own link counts (`OwnLink`) - does not.
`Abort` ends any request before its next commit. `ComputeOutcomes` keeps the stale
R the code keeps when the risk is not positive: `OutcomesCurrent` asks R to be
that of the present data only where the trade has a planned risk, and elsewhere
that it was measured over one; that it should be null there is a disagreement
listed below. R is the pair of its numerator and denominator, so no rounding hides
a difference; commission is left out of the profit. `AssignDecisionLinks` states
the sweep of `assign_decision_links` declaratively: an episode starts at a leg
before which every earlier leg has ended.

### SchedulerLoop

Real time and a clock that is `ahead` of it by `Skew` or not at all. One
iteration is `Top` (read the clock, recover from future-dated markers) and then
one action per job in the order of the code; `now` is the reading the due-checks
use, while markers are stamped with whatever the code stamps them: the end of
the job for most, the start of the iteration for the nightly ones. Discovery is
launched and not awaited. The cycle reads the clock itself and keeps its own
marker. The four nightly jobs have one action, since they are gated and stamped
alike and nothing tells them apart. A unit of time is coarse (about five minutes),
the order of the intervals is that of the code; `began`, `settled`, `ran` and
`priced` are histories.

### JournalBook and JournalScore

`JournalBook` is the sheet a user downloads and uploads: `ExportCsv` (one
purchase per decision, one sale per closed leg), `Parse` (first in, first out) and
`ImportCsv` with the links the import assigns, each against a reference definition: FIFO by
cumulative quantities, and the decisions of the journal the sheet came from.
The sheet is a set of rows and their order (`SheetRows`, `Ahead`): the row at a
place is the one that so many rows are ahead of, which is what sorting by a key
without ties gives. `JournalScore` is the two scoreboards, one over trades and one over
decisions, with their weights, classes and break-even rule. Both are evaluated in the
states of `Journal`; the two comparisons that do not depend on a state are made
in its initial state only (`Untouched`): `FifoMatches` on every sheet of up to five
rows and three shares each (`SampleSheets`), `ScoreboardsAgree` on decisions of
one and two legs (`SampleBooks`).

An R is a fraction and its mean is taken over a common denominator, so that the
band of a tenth of R is met exactly; the code computes the same in floating point. The
sample has legs of one share, so that the commission alone can turn a gain into a
loss. Then the two scoreboards part: buy two shares at 10 with the stop at 3, sell
one at 11 and one at 8: both legs lose, the mean R of -1/14 is a scratch. `VerdictsAgree`
says so: legs that all lose make a loser, or a scratch if their mean R is within the band.

`BackupRestores` asks two things of the journal. `Ordered`: decisions are the episodes
through which the symbol was held, sales have a price and none comes before the
purchase of the leg its decision stands for. `RatedAlike`: a sale without R belongs to
a decision bought without risk. The second is needed because an imported sale has the
stop of its purchase: where the exported one had none (a chunk sold after the stop
was taken to break-even or above), the import derives an R that was not there. The run's
instance has no stops; larger ones with stops were checked once, and the theorem covers
them.

### OutcomeRules, TransitionRules and Outcomes

| Model | Code |
|---|---|
| `scan[p]` | a batch after a SLOW run, the administrator's scan-now, or the live feed; `mine` are the rows of its open transaction, `broken` a transaction the database has aborted |
| `obs` | committed `transition_observations`, one per symbol, transition and day |
| `regimes` | `_regime_cache` of each process: one date and its label |
| `bar`, `day` | the stored bar of each symbol and day, `date.today()` |
| `eval[e]` | an evaluation or a reclassification: the rows `read`, what became of them (`new`), the rows it has updated and so locked (`held`) |
| `books` | history: what the table has held of the finished sessions |

A bar is what the classification tells apart in it (flat, dip, rally, swing,
break, bad); the other families are judged by extremes of the window that the
bars determine. A regime is named by the date of the snapshot it was detected
from. An insert waits for a row of another open transaction, which is how two
scans in opposite orders deadlock; PostgreSQL aborts one (`Abort`), the engine
swallows the error and the transaction stays unusable to its end. An UPDATE of
the ORM names only the attributes that differ from those loaded (`Written`).
Autoflush issues the UPDATE of a row before the query of the next one, so an
evaluation collects locks in the order the database gave it its rows, and two of
them can deadlock (`EvalAbort`, which ends the whole of one; the row goes to the one
that waits). `OutOfTurn` evaluations, of startup's and the post-close cycle's SLOW
runs or of the administrator, may begin beside another, each time at the expense of
`MaxFaults`.

`PriceCycle` writes all the sessions a download brings (`DownloadDays`, five in the
code), overwriting or filling in those that are over. A stored verdict may thus differ
from what the table says now; what holds is that its bars were in the table
together at some moment (`PullbackFaithful`). The administrator's relabelling is one
step (`ReclassifyRegimes`): it waits for the rows it changes. `TransitionRules` has the
priorities of `_determine_operational_transition` and the leader gate of
`is_quality_leader` beside `evaluate_minervini_criteria`.

### MarketHealth, PosturePolicy and Posture

| Model | Code |
|---|---|
| `raw` | the last sessions in `stock_metrics`, as many as an analysis reads |
| `policy`, `at` | the state of the replay under way and the session it takes next |
| `shown` | the last posture derived, with the read before its ceilings and the health it stood on |
| `gone`, `twin` | histories: the policy reduced over the sessions that left the window, and the same replay started from it |
| `T` | the thresholds of `market_posture_policy.py`, with `ThresholdAssumption` on their order |

A session is its breadth, its leaders, its index flags and whether a universe
was stored; the descriptors are computed from pairs of sessions as the code
does, percentages by cross-multiplication. Follow-through enters `AnalysisEnds`
as a free choice; its rule is in `OutcomeRules`.

### Accounts

| Model | Code |
|---|---|
| `users`, `tokens`, `sessions` | the committed rows; both token tables are one sequence |
| `req[r]` | a request: its `stage` is the next statement, `held` the token rows it has locked or updated, `owner` whether it has written the account's row |
| `todo`, `stored`, `open` | the rows its UPDATE has still to take; the tokens stored, and the sessions open, when it locked its token |
| `revoke` | the sessions its last UPDATE finds and has still to take |
| `mailed` | links that reached their reader: the mail leaves after the commit and may be lost |
| `counters` | the windows of the limiter in Redis |
| `done`, `registered` | histories: the successful uses of a token, the registrations committed |

Read committed: a statement sees what is committed when it starts, waits for
rows others have changed, and reads them again. An UPDATE of several rows takes
them one by one in an order PostgreSQL chooses, so two resets can wait for each
other; the database aborts one. A request whose mail fails answers an error though
its commit stands; the mail is lost. `password` is the token whose reset set it, so
that "the last reset wins" can be said.

## Runs

A passing run checks its properties in every reachable state of its instance;
each property has a mutation of the code, in `PROJECT.json`, under which the
same run finds it violated. All bounds are guards of actions or `CONSTANTS` of
the `.cfg`; no state is cut off by a constraint.

| Run | States | What it shows |
|---|---|---|
| `post_close` | 3.0 M | Startup run, periodic run, cycle, visitor, midnight, a holiday, two faults at any point: `SlowExclusive`, `CaptureEvidence`, `CapturedInSession`, `CompletionDurable`, and that the whole implements `PostureLedger` (`ImplementsLedger`). |
| `post_close_live` | 0.25 M | `EventuallyCaptured`: once failures stop, the last day's session is captured and stays so. |
| `journal` | 0.96 M | Two concurrent requests: `EditsAreCurrent`, `QuantityKept`, `OutcomesCurrent`, `StopLogChains`, `InitialIsFirstStop`. |
| `journal_decisions` | 1.9 M | Three legs over three days, closed, split, corrected, reopened: links stay flat (`FlatDecisions`), each purchase regroups legs by unbroken holding (`PurchaseRegroups`), a sheet in order restores the decisions (`BackupRestores`). Compared once: FIFO with its reference (`FifoMatches`), the two scoreboards (`ScoreboardsAgree`). |
| `scheduler_loop` | 8.2 M | A session with a clock that jumps ahead and back: no market-hours job freezes (`CadenceKept`), slow price downloads starve nothing (`NoStarvation`). |
| `outcomes` | 2.5 M | A batch that may run past midnight, two evaluations or one beside a reclassification, a finished session rewritten, two faults: `PullbackFaithful`, `RegimeOfOwnDay`. Compared once: `FamilyOrder`, `FollowThroughSound`, `GateAndBreakdownAgree`. |
| `outcomes_live` | 0.09 M | A batch and the live feed in opposite orders, two evaluations at once on up to four rows: `ScansEnd`, `EventuallySettled`. |
| `posture` | 1.8 M | Every sequence of six kinds of session, of any length: `PolicyLadder`, `ForgetsOnly`, `EarnedBack`, `NeverAccelerates`. |
| `accounts` | 0.46 M | Five requests, two at a time, on one email, with a lost request or mail: `SpentOnce`, `SuccessSweeps`, `ResetSignsOut`, `RegisteredOnce`, `EveryRequestEnds`. |
| `journal_backup`, `posture_persists`, `accounts_sessions` | | violations, see below |

Every module's `TypeOK` is checked by its first run.

**Bounds and why they are enough.**

* *post_close*: two days give a midnight and a change of session; the second
  is a holiday, so that an evening with nothing to capture follows a real one.
  Two symbols with `MinPct = 50` allow a run that qualifies although a symbol is
  missing, and one that does not (all of one, half of two, none of two). Two
  faults allow a failure and a crash in its retry. One visitor with one visit
  is enough to be overtaken by, or to overtake, one capture.
* *post_close_live*: the order of days is swapped, the holiday first, so that the
  last day has something to capture; no visitor, because the property is about
  the scheduler alone.
* *journal*: two requests are what it takes to race; two ids are a trade and its
  chunk, or two purchases; a stop below, a stop at entry and none cover every
  kind of stop change but a trail below entry; two events allow a patch between a
  create's transactions and one after.
* *journal_decisions*: three legs are what it takes for a leg inside a longer
  one to precede a third, and for a link to a link; three days, for legs that
  touch, overlap or lie apart. One request at a time: with two concurrent
  purchases the grouping may be wrong until the next one (hazard
  `journal_application.py:1121`), which nothing in the code claims to exclude.
* *scheduler_loop*: 17 units hold a session of 12 with time before and after;
  durations are nothing or the whole price interval; the skew is longer than an
  iteration; two jumps are ahead and back.

* *outcomes*: a pullback and a breakout are the two kinds of verdict; two
  sessions make a window whose first and last day differ; a batch begun on the first
  day and its regime can be overtaken by midnight; verdicts come on the last two
  days, the first of them with its own session running. Downloads reach two sessions
  back and one finished session is rewritten or filled in, before, between and after
  the two evaluations. The two faults are a lost transaction, a failed detection or
  an overlap out of turn. The pure rules are compared around every
  threshold of theirs, in the initial state only since no state enters them. Each
  comparison is an operator over a set of inputs (`FamiliesOrdered`,
  `BreakdownIsGate`, ...), which the run evaluates on a sample and the theorems
  state of all inputs.
* *outcomes_live*: two scans deadlock in two steps, and so do two evaluations; the
  batch may spread its rows over days, so that there are more than two. One kind of
  bar and no rewriting: which verdict it is makes no difference to whether it comes.
* *posture*: unbounded in time. Four classified days with a confirmation of two
  give a window that loses an entry, a confirmation and a severe session; the
  six kinds of session are a low one, one between the defensive bands, one inside
  the normal band, one of entry quality, a strong one at a new high, and one
  without a universe.
* *accounts*: two places and five requests allow two overlapping requests for
  links and then both links opened at once; a reset link lives one tick, a
  verification link two, the window of the limiter one. One email: rows of
  different emails never meet.

**Fairness.**

* `post_close_live`: weak fairness of the passage of time and of the cooldown;
  of startup's SLOW task, the steps of a SLOW run and the steps of the cycle.
  All are coroutines of one event loop, which resumes whatever is ready, and
  each step completes or raises (a failing call is `Fault`); the code never
  blocks the loop on a condition another step could withdraw. Crashes and
  failures are not fair: they may never happen, and `MaxFaults` bounds them,
  which is what "once failures stop" means. The feed is expected to deliver: a
  missing bar counts as a fault. The last day does not end; otherwise a cycle
  could always be outrun by midnight, which the code accepts by design (no
  backfill).
* `outcomes_live`: weak fairness of the steps of a scan and of an evaluation, for
  the same reason, and of starting the evaluation that follows each periodic SLOW
  run: the scheduler runs SLOW for as long as the process lives. Evaluations out of
  turn begin beside another only so often (`MaxFaults`): periodic ones are half an
  hour apart, and one takes minutes. Without that bound the property fails with
  three rows: two evaluations abort each other in turn, each beginning again
  while the other still holds the rest. The administrator's jobs, days and prices
  are not fair. The abort of a deadlock is part of the step of a scan or of an
  evaluation: PostgreSQL looks for one after a second.
* `accounts`: weak fairness of the steps of a request the server has begun.
  Nobody has to begin one.

**Deadlock** is checked in `posture`, which has no bound on time. In the others
real time, ids, visits, requests or faults are bounded, and a run that used them
up stops.

## Disagreements between the code and its comments

Three runs check one sentence of the repository each and find it violated.

* `journal_backup`: the docstring of `export_csv` (`journal_application.py:802`)
  says the sheet is "round-trip compatible with POST /journal/import". It writes
  one purchase per decision, dated by the representative
  (`journal_application.py:820`), which may be a later re-buy; a sale dated
  before it is skipped by the import (`journal_importer.py:268`): sell part on
  day 1, the rest on day 2 and buy again that day; the sale of day 1 is lost.
* `posture_persists`: the docstring of `evaluate_policy_history`
  (`market_posture_policy.py:154`) says "Active states persist while their lower
  exit bands hold", and the defensive floors that "exiting that zone requires a
  small positive buffer" (`market_posture_policy.py:16`). `_health` replays the
  policy from no memory over the last classified days
  (`market_context_engine.py:758`): a low session makes it defensive, the sessions
  after it stay between the two bands, and when the low session leaves the window
  the flag is gone. `ForgetsOnly` is what remains true: the replay lacks a flag
  only while every session in the window lies inside that flag's band.
* `accounts_sessions`: "The system SHALL revoke all sessions belonging to a user
  after a successful password reset" (`openspec/changes/add-multi-user-auth-and-journal-ownership/specs/user-authentication/spec.md:51`).
  A login that has verified the old password, without a lock, may commit its session
  after the reset's UPDATE (`auth_service.py:241`). `ResetSignsOut` is what holds:
  every session that was open when the reset locked its token is revoked.

**Further disagreements.** Each has a property and a configuration in this directory
(`tlc -config X.cfg MCM` shows the trace), though it is not among the runs of `PROJECT.json`.

* `JournalStaleR.cfg` (`NoRWithoutStop`): `openspec/changes/add-journal-stop-history/specs/journal-tracking/spec.md:78`
  says that without any stop `r_multiple` SHALL be null. `_compute_outcomes`
  (`journal_application.py:1150`) assigns R only where there is a stop below the
  entry: sell a part, remove the stop of the sold part, and its former R stays.
* `JournalInitial.cfg` (`InitialLogged`): spec.md:46 of the same change demands
  exactly one `initial` event for a trade created with a stop. It is logged in a
  second transaction (`journal_application.py:1128`) and missing for good when
  the request is lost in between. `StopLogChains` has it exactly once otherwise.
* `AccountsLinks.cfg` (`OneVerificationLink`): the docstring of
  `issue_verification_token` (`auth_service.py:301`) says it invalidates older
  tokens. Two overlapping requests each leave a usable one.
* `JournalHonestR.cfg` (`HonestR`): `models/stock.py:229` says the initial stop "preserves
  planned risk for honest R-multiple computation across the trade's lifetime".
  The row a partial close splits off gets the current stop and no initial stop
  (`journal_application.py:1198`): open at 2 with the stop at 1, move it to
  break-even, sell half; the chunk has no R.
* `JournalOrphan.cfg` (`RepresentativeExists`): `models/stock.py:234` says a non-null `parent_trade_id`
  names the representative of the decision. Deleting the representative
  (`journal_application.py:1341`) leaves its legs' links as they were.
* `SchedulerLoopSkew.cfg` (`CycleRecovers`): `scheduler.py:550` says any future-dated marker resets
  the cadence. The post-close cycle's `last_finished_at` is not among the ones
  looked at: an attempt that fails while the clock is ahead blocks the retries
  after its correction.

## Proofs

The `_proofs` modules prove the following for every value of the constants that
satisfies the named assumptions of their modules: `ConstantsAssumption`
(finitely many symbols, `Trading \subseteq Weekdays \subseteq Days`, bounds are
naturals); `JournalAssumption` (prices and quantities positive, `None` neither a
number nor the name of a kind of stop change, patches carry values of the right sets)
and `NullIsNoRow` (`None` is no row either); `HealthAssumption`,
`ThresholdAssumption` (every exit band is looser than its entry band, the normal
and the defensive bands do not overlap), `NoneAssumption` and
`PostureAssumption`; `OutcomesAssumption` and `WindowAssumption` (bounds and
windows are positive, the null is no value of a column) and `NoNumberAssumption` (a
missing number is no number); `AccountsAssumption` (lifetimes, window and limits are
positive); `LoopAssumption` and `PauseAssumption` (the loop sleeps less than the
price interval). TLC evaluates all of them on every run of their modules.

| Theorem | Says | Rests on |
|---|---|---|
| `PostClose_proofs!TypeCorrect` | `[]TypeOK` | one lemma per part: `FlagsTyped`, `DataTyped`, `CycleTyped`, `TablesTyped` |
| `OneSlowRun` | `[]SlowExclusive` | `SlowExclusive /\ BootQuiet`: while the process starts no run is under way, without which `Boot` could launch a second one |
| `RecordsInSession` | `[]CapturedInSession` | `SessionInv`: prices are of days that had bars; the cycle has a target; what it holds was observed on the target's day, a trading day; visitors sign as visitors |
| `CompletionHasRow` | `[]CompletionDurable` | `CompletionInv`: a cycle about to report success has written its row; rows never vanish (`RowsStay`) |
| `EvidenceOfCapture` | `[]CaptureEvidence` | `RunCovers`: what the closing run has covered so far was recomputed since the prices came; `Enough` is monotone in its first argument |
| `RefinesLedger` | `Spec => ImplementsLedger` | the two invariants above: each step maps to a ledger step or a stutter |
| `Journal_proofs!TypeCorrect` | `[]TypeOK` | one lemma per part, and lemmas on every helper (`LinksTyped`, `OutcomesTyped`, `ChunkTyped`, `PatchedTyped`, `RecordedTyped`) |
| `OutcomesAreCurrent` | `[]OutcomesCurrent`: dollars are those of the present row, R is wherever there is a planned risk, and every stored R was measured over a positive risk | `PendingOpen`: a trade being inserted is open, so that its commit owes no outcome |
| `NoStaleEdit` | `[]EditsAreCurrent` | `IdsFresh`: pending ids are below `nextId`, distinct, and not in the table, so that no commit overwrites a locked row |
| `PlanIsKept` | `[][PlanStays]_vars`: no step changes the planned risk of a row that keeps existing | both invariants above |
| `SharesAreKept` | `[]QuantityKept` | `LotsKnown`: an id not yet given is of no purchase but its own, and a row pending is the first of its own; the sum of a purchase's shares changes by what one leg changes (`SharesAdd`, `SharesChange`) |
| `StopsAreLogged` | `[]StopLogChains`, with the initial event exactly once unless its request was lost | `StopsLogged`: an id without a row has no log; a trade whose initial event is still to come is not among the `lost` ones and has, without it, a log that leads from the stop of its insertion to the one it has; each log grows at its end (`ChainsGoOn`) or by the late event (`TracedLate`) |
| `PlanIsFirstStop` | `[]InitialIsFirstStop` | `PendingPlanned` and `FirstStopKept`: a trade without a plan has no stop, so that the patch which gives it one is logged and makes the plan; an event appended never changes the first stop (`FirstStopGoesOn`) |
| `DecisionsAreFlat`, `PurchasesRegroup` | `[]FlatDecisions` and `PurchaseRegroups`, when one request runs at a time and none deletes (`Alone`) | `LinksCurrent`: the links a purchase is about to commit are those of the table's legs with its own; `EpisodesAreHeld`: two legs have one representative exactly when a chain of overlapping legs joins them |
| `PostureTyped`, `PolicyLadderHolds`, `ReplayOnlyForgets` | `[]TypeOK`, `[]PolicyLadder`, `[]ForgetsOnly`: the replay never holds what the whole history does not, and lacks a flag only while every session in the window lies inside that flag's band | one inductive invariant: types, the ladder of both replays and of `gone`, and the comparison of the replays. `TurnForgets`: a day of the policy is monotone in its memory - who knew less holds less afterwards |
| `PostureEarnedBack`, `PostureNeverAccelerates` | `[]EarnedBack`, `[]NeverAccelerates` | `EInv`, with `ReplayEarned`: at every day of the replay the streak counts entry-quality days that end there, and a normal flag has its full confirmation and exit quality ever since (`TurnEarned`). `DayAt` finds the day a session was classified as among those of the window |
| `LoopTyped` | `[]TypeOK` of `SchedulerLoop` | |
| `NoJobFreezes` | `[]CadenceKept` | `MarkersNear`: with the clock steady, a marker the loop watches lies at most the tolerance ahead of what happened since; `Passed(pc)`: every job the iteration has got past is on time |
| `UpdatesStarveNothing` | `[]NoStarvation` | `StarveInv`: after a price update without a full iteration its marker is too recent for another one, until the iteration has got past the price job |
| `AccountsTyped` | `[]TypeOK` of `Accounts` | one invariant for the five: `SpenderOK` (who spends a token has its row from the lock on and the account's from the write on), `SweepOK` (what is stored and not consumed is held or still to be swept), `RegistersOK` (accounts, committed registrations and the one that holds the email agree), `Exclusive` (row locks), `UsesOK`, `PasswordsOK` |
| `TokensServeOnce` | `[]SpentOnce` | a held row is not consumed, so that the token of a commit was never used before |
| `SuccessSweepsAll` | `[]SuccessSweeps` | `SweepOK` at the commit |
| `ResetsSignOut` | `[]ResetSignsOut` | `UsesOK`: a session that was open when the reset locked its token is revoked, or is among those its last UPDATE has still to take |
| `AccountsRegisteredOnce` | `[]RegisteredOnce` | `RegistersOK` |
| `RegimesOfOwnDay` | `[]RegimeOfOwnDay` | `CacheOK` (the cached label is that of its key), `ScansOK` (a label found is for the date in the key of the row), `EvalsOK` (an UPDATE never names the regime: what is computed from a row keeps its regime) |
| `OutcomesTyped`, `PullbacksFaithful` | `[]TypeOK`, `[]PullbackFaithful` | `VInv`: every row, loaded or computed or stored, shows only what a book of finished sessions says that the table held at one moment (`Sound`, `Backed`); books are only added (`books`), so that a download takes nothing away from a verdict; whatever has a window keeps one while an evaluation holds it (`Keeps`) |
| `PullbackRuleMeetsReference` | the loop over the bars of a pullback reaches the verdict of the documented condition, for every sequence of bars | `ReadingMeans`: what the loop holds after `n` bars, over the course of the fold |
| `FamiliesOrderedThroughout`, `FollowThroughThroughout`, `GateThroughout` | three comparisons of rules, for all extremes, counts and rows, and hence `[]FamilyOrder`, `[]FollowThroughSound`, `[]GateAndBreakdownAgree` | one theorem each about the rule alone |
| `DeteriorationAlwaysWins` | for all readings: a deteriorating stock is told to whatever setup it shows besides, and still is when one more of its numbers worsens; no run compares it | `EarlyConditionNames`: the first condition that holds is one of the first three |
| `ImportIsFirstInFirstOut` | the import closes of every purchase what first in, first out gives, for sheets of any length and quantities (`FirstInFirstOut(Sheets)`), and hence `[]FifoMatches` | `Level`: after each row the queue lies on the line of the shares from what was sold to what was bought, each leg within its purchase, and the closed trades from nothing to what was sold, each within its purchase and its sale; `Selling`, the same within a sale, leg by leg; `PiecesShare`: what the pieces inside a stretch of the line add up to |
| `BackupIsRestored` | `[]BackupRestores`, for any number of trades, dates, prices and stops | `Restored`: after each row of the sheet at most one purchase is queued, that of the row's decision with what is unsold of it, and each sale read so far has made one trade with its own quantity, profit and R (`Enumerates`). It holds because decisions follow one another (`DecisionsInTurn`), and hence their rows (`AheadByDecision`); the sheet has each row once (`SheetInOrder`). `RowsTogether`: imported rows have one representative exactly when they come from one decision; `CopyMirrors`: the decisions of both books are paired off with their profiles |
| `VerdictsFollow` | both scoreboards agree (`VerdictsAgree`) on every finite decision of closed legs of which none made money with a negative R (`GainsAbove`) | `SumScaled`, `ExactQuotient`: the mean R as a sum over a common denominator; `BeyondAtWhole`, `BandOfOne`: a leg that wins or loses by itself does so by more than its band; `ScratchOfDecision`; `DerivedGains`: the premise holds of legs whose R is computed from their prices, whatever the commission |

The split matters: type correctness apart, hardly any of these invariants is
inductive alone. Each was checked by TLC before it was proved; the strengthenings
were found by reading the steps at which the proof of the bare invariant fails.
Two counterexamples of TLC corrected what we believed of the code: with two purchases at once the links are not
flat, so that the theorems about decisions need `Alone` (it is the hazard at
`journal_application.py:1121`); and two evaluations that begin again out of turn
can abort each other for good.

**Induction over data.** The induction theorems of the library take an operator
for the claim, which the provers installed cannot instantiate. `Induction_proofs`
states what we need about sets instead: a set of naturals has a smallest
member, what holds of 0 and of each successor holds throughout
(`UpwardInduction`), what holds of a finite set whenever it holds of its proper
subsets holds of it (`SubsetInduction`), a loop has a course (`CourseExists`), and
folds and sums over a finite set exist, and sums do not depend on the order of
the elements and add up. The claim is the set of the numbers, or of the sets, it holds for.

**Only model-checked.**

* Liveness, which is beyond the prover: `EventuallyCaptured`, `ScansEnd`,
  `EventuallySettled`, `EveryRequestEnds`.
* `ScoreboardsAgree`, on samples: `VerdictsFollow` is about every decision.

Every other invariant and every action property that a passing run checks is proved. The
hypotheses are those the formulas state: `FlatDecisions` and `PurchaseRegroups` need
`Alone`, `BackupRestores` is about ordered journals, and `VerdictsFollow` needs
`GainsAbove`. An imported or a stale R may break that premise: it is stored beside a
profit it was not computed with.

## What the models leave out

**Abstractions inside the modelled parts.**

* *Outcomes*: `MaxRewrites` bounds the downloads that change a finished session,
  and `DownloadDays` how far back they reach; a reclassification writes its rows
  in one step. Calibration statistics, stage changes, lifecycle and invalidation
  texts are left out.
* *Posture*: the wording of regimes, sector rotation and the metrics that are only
  displayed.
* *Accounts*: session lookup and expiry, the CSRF proof, roles, disabled accounts
  and what the limiter does without Redis. One counter stands for the source's
  and the email's; attempts beyond the limit change nothing and end there.
* *Import*: the replace flag, linking to observations within three days, setups and
  contexts, parsing of numbers and dates.
* *Numbers*: arithmetic is exact where the code rounds or computes in floating point.
* *Scheduler and ingestion*: the content of prices, worker threads, state tracking
  (`_track_state_changes`), FAST and quality cycles beyond their cadence and the
  rows they write.

**Behaviours of the code met while modelling that no run is about.** We found no
sentence in the repository that denies them, or they follow from one function
without any interleaving.

* Outcomes: an observation settled at its tenth bar never gets its 20-day price;
  one with one to nine bars within its window stays pending for good; the live
  feed's insertions are never committed; a scan on a weekend is filed under that
  date; the label `unknown` of one failed detection is cached for the whole day; a
  scan aborted by a deadlock loses all of its rows and still reports them
  recorded; the empirical probabilities are cached per process and cleared in one;
  families other than pullbacks may be settled by the running day's bar.
* Posture: when the reference session has no universe its breadth counts as zero and
  participation reads EXPANDING. Sessions that cannot be classified are skipped, so
  "consecutive" sessions need not be adjacent.
* Accounts: the links of two resends may verify an account twice, to no effect.
* Import: a sale of more than is open is matched as far as that goes; legs bought
  at different prices are exported at the representative's; an import beside existing
  rows does not link the two; a sale that had no R may have one afterwards (`RatedAlike`).
* Scheduler: two overlapping state-tracking tasks may leave two open entries.

**Components not modelled.** Realtime prices: what can go wrong there (nobody
reads from the source after a failover, a set that changes during an iteration)
is visible within one function and no interleaving is needed. Universe and tiers:
most nightly jobs have no effect as the code stands - the discovery scans are
given no data, the re-evaluation raises on the rows it reads, the health check
calls a method that does not exist
(`universe/monitoring/health_monitor.py:356`) - and lifecycle tracking is one
commit. Event buses and recalculation are mostly instantiated by tests only.
Indicators, structure scores, queue and rankings are floating-point formulas
over price series: there is no state for TLC to explore and no exact reference to
compare with. HTTP routing, mail, security events, deployment and the frontend
are input and output around the parts modelled.

## Plan

Done: the modules above, with their proofs. Next, most important first:

1. **StateLog** (`_track_state_changes`): overlapping tracking tasks, entries opened
   and closed; it shares its trigger with `PostClose`'s SLOW runs.
2. **PriceDownload** (`scheduler.py:778` on): worker threads, the batch timeout its
   docstring promises, the executor's exit.
3. **Realtime** (`data_source_manager`, `realtime_price_service`,
   `websocket_manager`), once a failover is followed by a reader of the new
   source. Abstract specification: each connected client sees the prices of its
   subscriptions in order.
4. **Universe** (`tier_manager`, nightly re-evaluation), likewise.

## Running the checks

In this directory, `tlc -config X.cfg MCM` for each run of `PROJECT.json` and each
configuration under "Further disagreements", and
`tlapm M.tla` for each module whose name ends in `_proofs`. The longest run takes
about two minutes with two workers; the proofs take about two minutes a module,
`Journal_proofs`, `JournalBook_proofs` and `Outcomes_proofs` more.
