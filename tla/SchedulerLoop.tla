----------------------------- MODULE SchedulerLoop -----------------------------
(***************************************************************************)
(* The cadence of the scheduler loop (DataScheduler._scheduler_loop): one  *)
(* iteration after another reads the clock, runs the jobs whose interval   *)
(* has passed since their marker, and sleeps.  The jobs take time, and the *)
(* clock may jump ahead (time correction, sleep and wake) and back again.  *)
(*                                                                         *)
(* Time is counted in coarse units; time is the real one, Clock what the   *)
(* process reads.                                                          *)
(***************************************************************************)
EXTENDS Integers, FiniteSetsExt

CONSTANTS
  Interval,      \* least time between two runs of a job
  Tolerance,     \* _CLOCK_SKEW_TOLERANCE_S
  MarketHours,   \* clock readings of the session
  CloseCut,      \* first clock reading at which the post-close cycle is due
  Durations,     \* times a job may take
  Pauses,        \* times the sleep between iterations may take
  Skew,          \* how far the clock jumps
  Horizon,       \* bound on real time
  MaxJumps,      \* bound on the jumps
  None

\* In the order of the loop.  "cycle" is PostCloseCycle, "nightly" any one of
\* discovery scans, tier re-evaluation, health check and lifecycle tracking.
MarketJobs == {"quality", "price", "fast", "slow", "discovery"}
NightJobs == {"cycle", "nightly"}
Jobs == MarketJobs \cup NightJobs

ASSUME LoopAssumption ==
  /\ Interval \in [Jobs -> Nat \ {0}]
  /\ Tolerance \in Nat /\ Skew \in Nat /\ Horizon \in Nat /\ MaxJumps \in Nat
  /\ CloseCut \in Nat
  /\ Durations \subseteq Nat
  /\ Pauses \subseteq Nat
  /\ None \notin Int

\* The loop sleeps a minute, prices are updated every quarter of an hour.
ASSUME PauseAssumption == \A p \in Pauses : p < Interval["price"]

VARIABLES
  time,      \* real time
  ahead,     \* how far the clock is ahead of it: 0 or Skew
  jumps,     \* how often it has jumped
  pc,        \* the job the loop considers next; top, sleep
  now,       \* the clock as read at the top of the iteration
  marker,    \* last_price_update and the like, last_finished_at for the cycle
  captured,  \* PostCloseCycle.completed_date is today
  began,     \* history: real time at which the iteration began
  settled,   \* history: the first such time since the clock last jumped
  ran,       \* history: real time at which each job last ended
  priced     \* history: price iterations since a full one, with a steady clock

vars == <<time, ahead, jumps, pc, now, marker, captured, began, settled, ran, priced>>

Clock == time + ahead

\* Startup loads prices and launches the first SLOW and quality runs.
AtStartup == {"price", "slow", "quality"}

Init ==
  /\ time \in 0 .. Horizon \div 2
  /\ ahead = 0 /\ jumps = 0
  /\ pc = "top" /\ now = time
  /\ marker = [j \in Jobs |-> IF j \in AtStartup THEN time ELSE None]
  /\ captured = FALSE
  /\ began = time
  /\ settled = None
  /\ ran = [j \in Jobs |-> time]
  /\ priced = 0

Due(j) == marker[j] # None => now - marker[j] >= Interval[j]

\* Mutant: the recovery forgets the SLOW marker.
WatchedButSlow == MarketJobs \ {"slow"}

\* The markers the clock-skew recovery looks at and resets.
Watched == MarketJobs

FutureDated(reading) ==
  { j \in Watched : marker[j] # None /\ marker[j] > reading + Tolerance }

\* The loop reads the clock; markers from the future reset the cadence.
Top ==
  /\ pc = "top"
  /\ now' = Clock
  /\ began' = time
  /\ settled' = IF settled = None THEN time ELSE settled
  /\ marker' = [j \in Jobs |-> IF j \in Watched /\ FutureDated(Clock) # {}
                               THEN None ELSE marker[j]]
  /\ pc' = IF Clock \in MarketHours THEN "quality" ELSE "cycle"
  /\ priced' = IF FutureDated(Clock) = {} /\ Clock \in MarketHours THEN priced ELSE 0
  /\ UNCHANGED <<time, ahead, jumps, captured, ran>>

\* The job or jobs end after d, at clock reading mark.
Run(jobs, d, mark) ==
  /\ time + d <= Horizon
  /\ time' = time + d
  /\ marker' = [j \in Jobs |-> IF j \in jobs THEN mark ELSE marker[j]]
  /\ ran' = [j \in Jobs |-> IF j \in jobs THEN time + d ELSE ran[j]]

Follows == [quality |-> "price", price |-> "fast", fast |-> "slow",
            slow |-> "discovery", discovery |-> "sleep",
            cycle |-> "nightly", nightly |-> "sleep"]

Skip ==
  /\ pc \in Jobs \ {"cycle"}
  /\ ~Due(pc)
  /\ pc' = Follows[pc]
  /\ priced' = IF pc = "price" THEN 0 ELSE priced
  /\ UNCHANGED <<time, ahead, jumps, now, marker, captured, began, settled, ran>>

\* Quality refresh, FAST and SLOW are awaited and stamped when they end.
AwaitedJob ==
  /\ pc \in {"quality", "fast", "slow"}
  /\ Due(pc)
  /\ \E d \in Durations : Run({pc}, d, Clock + d)
  /\ pc' = Follows[pc]
  /\ UNCHANGED <<ahead, jumps, now, captured, began, settled, priced>>

\* Mutant: the price marker is the time the iteration began.
StampedAtStart(d) == now

\* Mutant: the price marker is the time the next update is due.
StampedWhenDue(d) == Clock + d + Interval["price"]

\* The markers of price and FAST are taken once both are done.
Stamped(d) == Clock + d

\* A price update, FAST chained to it, and the rest is left to the next
\* iteration.
PriceUpdate ==
  /\ pc = "price"
  /\ Due("price")
  /\ \E d \in Durations : Run({"price", "fast"}, d, Stamped(d))
  /\ pc' = "sleep"
  /\ priced' = priced + 1
  /\ UNCHANGED <<ahead, jumps, now, captured, began, settled>>

\* Realtime discovery is a task of its own.
LaunchDiscovery ==
  /\ pc = "discovery"
  /\ Due("discovery")
  /\ Run({"discovery"}, 0, Clock)
  /\ pc' = "sleep"
  /\ UNCHANGED <<ahead, jumps, now, captured, began, settled, priced>>

\* PostCloseCycle.run_if_due, which reads the clock itself.
CycleDue ==
  /\ ~captured
  /\ Clock >= CloseCut
  /\ marker["cycle"] # None => Clock - marker["cycle"] >= Interval["cycle"]

\* A cycle that captures the session has loaded prices and run SLOW.
PostCloseCycle ==
  /\ pc = "cycle"
  /\ IF CycleDue
     THEN \E d \in Durations :
            \/ Run({"cycle"}, d, Clock + d) /\ captured' = captured
            \/ Run({"cycle", "price", "slow"}, d, Clock + d) /\ captured' = TRUE
     ELSE UNCHANGED <<time, marker, ran, captured>>
  /\ pc' = "nightly"
  /\ UNCHANGED <<ahead, jumps, now, began, settled, priced>>

\* The nightly jobs are stamped with the start of the iteration.
NightlyJob ==
  /\ pc = "nightly"
  /\ Due("nightly")
  /\ \E d \in Durations : Run({"nightly"}, d, now)
  /\ pc' = "sleep"
  /\ UNCHANGED <<ahead, jumps, now, captured, began, settled, priced>>

Sleep ==
  /\ pc = "sleep"
  /\ \E p \in Pauses :
       /\ time + p <= Horizon
       /\ time' = time + p
  /\ pc' = "top"
  /\ UNCHANGED <<ahead, jumps, now, marker, captured, began, settled, ran, priced>>

\* The system clock jumps ahead, or is corrected.
ClockJumps ==
  /\ jumps < MaxJumps
  /\ jumps' = jumps + 1
  /\ ahead' = Skew - ahead
  /\ priced' = 0
  /\ settled' = None
  /\ UNCHANGED <<time, pc, now, marker, captured, began, ran>>

Next ==
  \/ Top \/ Skip \/ AwaitedJob \/ PriceUpdate \/ LaunchDiscovery
  \/ PostCloseCycle \/ NightlyJob \/ Sleep \/ ClockJumps

Spec == Init /\ [][Next]_vars

-----------------------------------------------------------------------------
(* Properties *)

\* Every variable has its type.
TypeOK ==
  /\ time \in 0 .. Horizon /\ ahead \in {0, Skew} /\ jumps \in 0 .. MaxJumps
  /\ pc \in Jobs \cup {"top", "sleep"}
  /\ now \in 0 .. Horizon + Skew
  /\ marker \in [Jobs -> (0 .. Horizon + Skew) \cup {None}]
  /\ captured \in BOOLEAN
  /\ began \in 0 .. Horizon
  /\ settled \in (0 .. Horizon) \cup {None}
  /\ ran \in [Jobs -> 0 .. Horizon]
  /\ priced \in Nat

\* Job j, to be run from time first on, is on time: it has run in this
\* iteration, or its interval, but for the tolerance, has not passed in real
\* time since it last ran, since first, or since the loop first read the clock
\* after its last jump.
OnTime(j, first) ==
  settled # None =>
    \/ ran[j] >= began
    \/ began - Max({ran[j], settled, first}) < Interval[j] + Tolerance

\* No job of the market hours freezes: whatever the clock did before, every
\* iteration that gets through them finds each one on time ("every cycle
\* silently freezes until real time catches up", scheduler.py).
CadenceKept == pc = "discovery" => \A j \in MarketJobs \ {"discovery"} : OnTime(j, 0)

\* A slow price download does not starve the rest: with the clock steady, no
\* second price update comes before FAST, SLOW and discovery had their turn.
NoStarvation == priced <= 1

\* "Detect any future-dated marker and reset the cadence so the loop
\* re-establishes cycles from the corrected clock at once" (scheduler.py): the
\* post-close cycle, too, is tried on time until it has captured the session.
CycleRecovers ==
  pc = "nightly" /\ now >= CloseCut /\ ~captured => OnTime("cycle", CloseCut)
=============================================================================
