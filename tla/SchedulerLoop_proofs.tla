-------------------------- MODULE SchedulerLoop_proofs --------------------------
(***************************************************************************)
(* SchedulerLoop: types, the cadence of the market-hours jobs under a       *)
(* jumping clock, and that price updates starve nothing - for all           *)
(* intervals, tolerances, skews and durations.                             *)
(***************************************************************************)
EXTENDS SchedulerLoop, TLAPS

(* The jobs an iteration has gone through when it comes to job p. *)
Passed(p) ==
  CASE p = "price" -> {"quality"}
    [] p = "fast" -> {"quality", "price"}
    [] p = "slow" -> {"quality", "price", "fast"}
    [] p = "discovery" -> {"quality", "price", "fast", "slow"}
    [] OTHER -> {}

Later(x, y) == IF x >= y THEN x ELSE y

(* With the clock steady, no watched marker lies further ahead than the     *)
(* tolerance of what has happened since.                                    *)
MarkersNear ==
  settled # None =>
    /\ now = began + ahead
    /\ \A j \in Watched :
         marker[j] # None => marker[j] <= Later(ran[j], settled) + ahead + Tolerance

CadenceInv ==
  /\ began <= time
  /\ MarkersNear
  /\ \A j \in Passed(pc) : OnTime(j, 0)

(* A price update that was not followed by a full iteration is recent. *)
StarveInv ==
  /\ priced \in {0, 1}
  /\ priced = 1 =>
       /\ pc \in {"sleep", "top", "quality", "price"}
       /\ marker["price"] # None
       /\ pc = "sleep" => marker["price"] = Clock
       /\ pc = "top" => Clock - marker["price"] < Interval["price"]
       /\ pc \in {"quality", "price"} => now - marker["price"] < Interval["price"]

-----------------------------------------------------------------------------
(* Types. *)

(* What a run of jobs leaves behind is well typed. *)
LEMMA RunTyped ==
  ASSUME TypeOK, NEW jobs \in SUBSET Jobs, NEW d \in Durations,
         NEW mark \in Int, Run(jobs, d, mark), mark \in 0 .. Horizon + Skew
  PROVE  /\ time' \in 0 .. Horizon
         /\ marker' \in [Jobs -> (0 .. Horizon + Skew) \cup {None}]
         /\ ran' \in [Jobs -> 0 .. Horizon]
<1>1. d \in Nat /\ Horizon \in Nat
  BY LoopAssumption
<1>2. time + d \in 0 .. Horizon
  BY <1>1 DEF TypeOK, Run
<1>. QED  BY <1>2 DEF TypeOK, Run

(* A reading of the clock, now or after a job that fits the horizon. *)
LEMMA ReadingTyped ==
  ASSUME TypeOK, NEW d \in Nat, time + d <= Horizon
  PROVE  Clock + d \in 0 .. Horizon + Skew
<1>1. Horizon \in Nat /\ Skew \in Nat /\ ahead \in {0, Skew} /\ time \in 0 .. Horizon
  BY LoopAssumption DEF TypeOK
<1>. QED  BY <1>1 DEF Clock

LEMMA InitTyped == Init => TypeOK
<1>. SUFFICES ASSUME Init PROVE TypeOK
  OBVIOUS
<1>1. Horizon \in Nat /\ Skew \in Nat /\ MaxJumps \in Nat
  BY LoopAssumption
<1>2. Horizon \div 2 <= Horizon /\ Horizon \div 2 \in Nat
  BY <1>1
<1>3. time \in 0 .. Horizon
  BY <1>1, <1>2 DEF Init
<1>4. time \in 0 .. Horizon + Skew
  BY <1>1, <1>3
<1>5. marker \in [Jobs -> (0 .. Horizon + Skew) \cup {None}]
  BY <1>4 DEF Init
<1>6. ran \in [Jobs -> 0 .. Horizon]
  BY <1>3 DEF Init
<1>7. pc \in Jobs \cup {"top", "sleep"} /\ captured \in BOOLEAN
  BY DEF Init
<1>8. /\ ahead \in {0, Skew} /\ jumps \in 0 .. MaxJumps /\ priced \in Nat
      /\ now \in 0 .. Horizon + Skew /\ began \in 0 .. Horizon
      /\ settled \in (0 .. Horizon) \cup {None}
  BY <1>1, <1>3, <1>4 DEF Init
<1>. QED  BY <1>3, <1>5, <1>6, <1>7, <1>8 DEF TypeOK

LEMMA NextTyped == TypeOK /\ [Next]_vars => TypeOK'
<1>. SUFFICES ASSUME TypeOK, [Next]_vars PROVE TypeOK'
  OBVIOUS
<1>0. /\ Horizon \in Nat /\ Skew \in Nat /\ MaxJumps \in Nat
      /\ Durations \subseteq Nat /\ Pauses \subseteq Nat
  BY LoopAssumption
<1>1. CASE Top
  <2>1. Clock \in 0 .. Horizon + Skew
    BY <1>0, ReadingTyped DEF TypeOK, Clock
  <2>2. marker' \in [Jobs -> (0 .. Horizon + Skew) \cup {None}]
    BY <1>1 DEF Top, TypeOK
  <2>. QED  BY <1>1, <2>1, <2>2 DEF Top, TypeOK, Jobs, MarketJobs, NightJobs
<1>2. CASE Skip
  <2>1. pc' \in Jobs \cup {"top", "sleep"}
    BY <1>2 DEF Skip, Follows, Jobs, MarketJobs, NightJobs
  <2>. QED  BY <1>2, <2>1 DEF Skip, TypeOK
<1>3. CASE AwaitedJob
  <2>1. PICK job \in {"quality", "fast", "slow"}, d \in Durations :
          pc = job /\ Run({job}, d, Clock + d)
    BY <1>3 DEF AwaitedJob
  <2>2. Clock + d \in 0 .. Horizon + Skew
    BY <1>0, <2>1, ReadingTyped DEF Run
  <2>3. {job} \in SUBSET Jobs
    BY DEF Jobs, MarketJobs
  <2>4. pc' \in Jobs \cup {"top", "sleep"}
    BY <1>3 DEF AwaitedJob, Follows, Jobs, MarketJobs
  <2>5. /\ time' \in 0 .. Horizon
        /\ marker' \in [Jobs -> (0 .. Horizon + Skew) \cup {None}]
        /\ ran' \in [Jobs -> 0 .. Horizon]
    BY <1>0, <2>1, <2>2, <2>3, RunTyped
  <2>. QED  BY <1>3, <2>4, <2>5 DEF AwaitedJob, TypeOK
<1>4. CASE PriceUpdate
  <2>1. PICK d \in Durations : Run({"price", "fast"}, d, Stamped(d))
    BY <1>4 DEF PriceUpdate
  <2>2. Stamped(d) \in 0 .. Horizon + Skew
    BY <1>0, <2>1, ReadingTyped DEF Run, Stamped
  <2>3. {"price", "fast"} \in SUBSET Jobs
    BY DEF Jobs, MarketJobs
  <2>5. /\ time' \in 0 .. Horizon
        /\ marker' \in [Jobs -> (0 .. Horizon + Skew) \cup {None}]
        /\ ran' \in [Jobs -> 0 .. Horizon]
    BY <1>0, <2>1, <2>2, <2>3, RunTyped
  <2>. QED  BY <1>4, <2>5 DEF PriceUpdate, TypeOK
<1>5. CASE LaunchDiscovery
  <2>1. Run({"discovery"}, 0, Clock) /\ 0 \in Nat
    BY <1>5 DEF LaunchDiscovery
  <2>2. Clock + 0 \in 0 .. Horizon + Skew
    BY <1>0, ReadingTyped DEF TypeOK
  <2>3. /\ time' \in 0 .. Horizon
        /\ marker' \in [Jobs -> (0 .. Horizon + Skew) \cup {None}]
        /\ ran' \in [Jobs -> 0 .. Horizon]
    <3>1. Clock \in 0 .. Horizon + Skew
      BY <1>0, <2>2 DEF Clock, TypeOK
    <3>. QED  BY <1>0, <2>1, <3>1 DEF Run, TypeOK
  <2>. QED  BY <1>5, <2>3 DEF LaunchDiscovery, TypeOK
<1>6. CASE PostCloseCycle
  <2>1. CASE CycleDue
    <3>1. PICK d \in Durations, jobs \in {{"cycle"}, {"cycle", "price", "slow"}} :
            Run(jobs, d, Clock + d)
      BY <1>6, <2>1 DEF PostCloseCycle
    <3>2. jobs \in SUBSET Jobs
      BY DEF Jobs, MarketJobs, NightJobs
    <3>3. Clock + d \in 0 .. Horizon + Skew
      BY <1>0, <3>1, ReadingTyped DEF Run
    <3>4. /\ time' \in 0 .. Horizon
          /\ marker' \in [Jobs -> (0 .. Horizon + Skew) \cup {None}]
          /\ ran' \in [Jobs -> 0 .. Horizon]
      BY <1>0, <3>1, <3>2, <3>3, RunTyped
    <3>5. captured' \in BOOLEAN
      BY <1>6, <2>1 DEF PostCloseCycle, TypeOK
    <3>. QED  BY <1>6, <3>4, <3>5 DEF PostCloseCycle, TypeOK, Jobs, NightJobs
  <2>2. CASE ~CycleDue
    BY <1>6, <2>2 DEF PostCloseCycle, TypeOK, Jobs, NightJobs
  <2>. QED  BY <2>1, <2>2
<1>7. CASE NightlyJob
  <2>1. PICK d \in Durations : Run({"nightly"}, d, now)
    BY <1>7 DEF NightlyJob
  <2>2. now \in 0 .. Horizon + Skew /\ now \in Int
    BY <1>0 DEF TypeOK
  <2>3. {"nightly"} \in SUBSET Jobs
    BY DEF Jobs, NightJobs
  <2>4. /\ time' \in 0 .. Horizon
        /\ marker' \in [Jobs -> (0 .. Horizon + Skew) \cup {None}]
        /\ ran' \in [Jobs -> 0 .. Horizon]
    BY <2>1, <2>2, <2>3, RunTyped
  <2>. QED  BY <1>7, <2>4 DEF NightlyJob, TypeOK
<1>8. CASE Sleep
  BY <1>0, <1>8 DEF Sleep, TypeOK
<1>9. CASE ClockJumps
  BY <1>0, <1>9 DEF ClockJumps, TypeOK
<1>10. CASE UNCHANGED vars
  BY <1>10 DEF vars, TypeOK
<1>. QED  BY <1>1, <1>2, <1>3, <1>4, <1>5, <1>6, <1>7, <1>8, <1>9, <1>10 DEF Next

(* Every variable keeps its type, whatever the intervals and the clock. *)
THEOREM LoopTyped == Spec => []TypeOK
<1>1. Init => TypeOK
  BY InitTyped
<1>2. TypeOK /\ [Next]_vars => TypeOK'
  BY NextTyped
<1>. QED  BY <1>1, <1>2, PTL DEF Spec

-----------------------------------------------------------------------------
(* The cadence of the market-hours jobs. *)

(* The latest of three times, the last of which is the least. *)
LEMMA LatestOf ==
  ASSUME NEW x \in Nat, NEW y \in Nat
  PROVE  Max({x, y, 0}) = Later(x, y)
<1>. DEFINE S == {x, y, 0}
<1>1. Later(x, y) \in S /\ \A z \in S : Later(x, y) >= z
  BY DEF Later
<1>2. \A m \in S : (\A z \in S : m >= z) => m = Later(x, y)
  BY DEF Later
<1>. QED  BY <1>1, <1>2 DEF Max

(* What OnTime says of a job that may run from midnight on. *)
LEMMA OnTimeMeans ==
  ASSUME TypeOK, NEW j \in Jobs
  PROVE  OnTime(j, 0) <=>
           (settled # None =>
              ran[j] >= began \/ began - Later(ran[j], settled) < Interval[j] + Tolerance)
<1>1. CASE settled # None
  <2>1. ran[j] \in Nat /\ settled \in Nat
    BY <1>1, LoopAssumption DEF TypeOK
  <2>2. Max({ran[j], settled, 0}) = Later(ran[j], settled)
    BY <2>1, LatestOf
  <2>. QED  BY <2>2 DEF OnTime
<1>2. CASE settled = None
  BY <1>2 DEF OnTime
<1>. QED  BY <1>1, <1>2

(* A job the iteration passes over is on time: its marker is near. *)
LEMMA SkippedOnTime ==
  ASSUME TypeOK, MarkersNear, NEW j \in Watched, ~Due(j)
  PROVE  OnTime(j, 0)
<1>1. j \in Jobs
  BY DEF Watched, Jobs
<1>2. SUFFICES ASSUME settled # None
               PROVE  began - Later(ran[j], settled) < Interval[j] + Tolerance
  BY <1>1, OnTimeMeans
<1>3. /\ marker[j] # None /\ now - marker[j] < Interval[j]
      /\ marker[j] <= Later(ran[j], settled) + ahead + Tolerance
      /\ now = began + ahead
  <2>1. /\ now \in Int /\ Interval[j] \in Int /\ marker[j] \in Int \cup {None}
    BY <1>1, LoopAssumption DEF TypeOK
  <2>. QED  BY <1>2, <2>1 DEF MarkersNear, Due
<1>4. /\ began \in Int /\ ran[j] \in Int /\ settled \in Int /\ ahead \in Int
      /\ Interval[j] \in Int /\ Tolerance \in Int /\ marker[j] \in Int
  BY <1>1, <1>2, <1>3, LoopAssumption DEF TypeOK
<1>5. Later(ran[j], settled) \in Int
  BY <1>4 DEF Later
<1>. QED  BY <1>3, <1>4, <1>5

(* A run keeps the markers near, if it stamps with the clock of its end. *)
LEMMA RunKeepsNear ==
  ASSUME TypeOK, MarkersNear, NEW jobs \in SUBSET Jobs, NEW d \in Nat,
         NEW mark \in Int, Run(jobs, d, mark),
         jobs \cap Watched # {} => mark = Clock + d,
         UNCHANGED <<ahead, now, began, settled>>
  PROVE  MarkersNear'
<1>. SUFFICES ASSUME settled # None, NEW j \in Watched, marker'[j] # None
              PROVE  marker'[j] <= Later(ran'[j], settled) + ahead + Tolerance
  BY DEF MarkersNear
<1>1. j \in Jobs
  BY DEF Watched, Jobs
<1>2. CASE j \in jobs
  <2>1. marker'[j] = time + ahead + d /\ ran'[j] = time + d
    BY <1>1, <1>2 DEF Run, Clock
  <2>2. /\ time \in Int /\ ahead \in Int /\ settled \in Int /\ Tolerance \in Nat
    BY LoopAssumption DEF TypeOK
  <2>. QED  BY <2>1, <2>2 DEF Later
<1>3. CASE j \notin jobs
  BY <1>1, <1>3 DEF Run, MarkersNear
<1>. QED  BY <1>2, <1>3

(* Nor does it make a job late that was on time, and its own jobs are on time. *)
LEMMA RunKeepsOnTime ==
  ASSUME TypeOK, TypeOK', NEW jobs \in SUBSET Jobs, NEW d \in Nat,
         NEW mark, Run(jobs, d, mark), began <= time, UNCHANGED <<began, settled>>,
         NEW j \in Jobs, j \in jobs \/ OnTime(j, 0)
  PROVE  OnTime(j, 0)'
<1>1. OnTime(j, 0)' <=>
        (settled # None =>
           ran'[j] >= began \/ began - Later(ran'[j], settled) < Interval[j] + Tolerance)
  <2>1. CASE settled # None
    <3>1. ran'[j] \in Nat /\ settled' \in Nat /\ settled' = settled
      BY <2>1, LoopAssumption DEF TypeOK
    <3>2. Max({ran'[j], settled', 0}) = Later(ran'[j], settled')
      BY <3>1, LatestOf
    <3>. QED  BY <3>1, <3>2 DEF OnTime
  <2>2. CASE settled = None
    BY <2>2 DEF OnTime
  <2>. QED  BY <2>1, <2>2
<1>2. CASE j \in jobs
  <2>1. ran'[j] = time + d
    BY <1>2 DEF Run
  <2>2. time \in Int /\ began \in Int
    BY LoopAssumption DEF TypeOK
  <2>. QED  BY <1>1, <2>1, <2>2
<1>3. CASE j \notin jobs
  <2>1. ran'[j] = ran[j]
    BY <1>3 DEF Run
  <2>. QED  BY <1>1, <1>3, <2>1, OnTimeMeans
<1>. QED  BY <1>2, <1>3

(* OnTime speaks of three variables only. *)
LEMMA OnTimeStays ==
  ASSUME NEW j, UNCHANGED <<ran, began, settled>>, OnTime(j, 0)
  PROVE  OnTime(j, 0)'
BY DEF OnTime

LEMMA PassedGrows ==
  /\ \A p \in MarketJobs : Passed(Follows[p]) \subseteq Passed(p) \cup {p}
  /\ \A p \in {"top", "sleep", "cycle", "nightly", "quality"} : Passed(p) = {}
  /\ \A p \in Jobs : Passed(p) \subseteq MarketJobs
BY DEF Passed, Follows, MarketJobs, NightJobs, Jobs

(* The reading of the clock at the top: what is left of the markers is near. *)
LEMMA TopNear ==
  ASSUME TypeOK, MarkersNear, Top
  PROVE  MarkersNear'
<1>1. time \in Int /\ ahead \in Int /\ Tolerance \in Nat
  BY LoopAssumption DEF TypeOK
<1>2. now' = began' + ahead' /\ ahead' = ahead
  BY DEF Top, Clock
<1>3. ASSUME NEW j \in Watched, marker'[j] # None
      PROVE  marker'[j] <= Later(ran'[j], settled') + ahead' + Tolerance
  <2>1. j \in Jobs
    BY DEF Watched, Jobs
  <2>2. FutureDated(Clock) = {} /\ marker'[j] = marker[j]
    BY <1>3, <2>1 DEF Top
  <2>3. ran[j] \in Int /\ marker[j] \in Int
    BY <1>3, <2>1, <2>2, LoopAssumption DEF TypeOK
  <2>4. CASE settled = None
    <3>1. marker[j] <= Clock + Tolerance
      BY <1>1, <1>3, <2>2, <2>3 DEF FutureDated, Clock
    <3>2. settled' = time
      BY <2>4 DEF Top
    <3>. QED  BY <1>1, <1>2, <2>2, <2>3, <3>1, <3>2 DEF Later, Clock, Top
  <2>5. CASE settled # None
    <3>1. settled' = settled /\ ran' = ran
      BY <2>5 DEF Top
    <3>. QED  BY <1>2, <1>3, <2>2, <2>5, <3>1 DEF MarkersNear
  <2>. QED  BY <2>4, <2>5
<1>. QED  BY <1>2, <1>3 DEF MarkersNear

LEMMA CadenceStep == TypeOK /\ TypeOK' /\ CadenceInv /\ [Next]_vars => CadenceInv'
<1>. SUFFICES ASSUME TypeOK, TypeOK', CadenceInv, [Next]_vars PROVE CadenceInv'
  OBVIOUS
<1>0. /\ Durations \subseteq Nat /\ Pauses \subseteq Nat /\ time \in Int /\ began \in Int
      /\ ahead \in Int /\ now \in Int /\ MarkersNear /\ began <= time
  BY LoopAssumption DEF TypeOK, CadenceInv
<1>1. CASE Top
  <2>1. MarkersNear'
    BY <1>0, <1>1, TopNear
  <2>2. pc' \in {"quality", "cycle"} /\ began' = time /\ time' = time
    BY <1>1 DEF Top
  <2>3. Passed(pc') = {}
    BY <2>2, PassedGrows
  <2>. QED  BY <1>0, <2>1, <2>2, <2>3 DEF CadenceInv
<1>2. CASE Skip
  <2>1. UNCHANGED <<time, ahead, now, marker, began, settled, ran>>
    BY <1>2 DEF Skip
  <2>2. MarkersNear'
    BY <1>0, <2>1 DEF MarkersNear, Watched
  <2>3. ASSUME NEW j \in Passed(pc') PROVE OnTime(j, 0)'
    <3>1. pc' = Follows[pc] /\ pc \in Jobs \ {"cycle"} /\ ~Due(pc)
      BY <1>2 DEF Skip
    <3>2. pc \in MarketJobs
      <4>1. pc = "nightly" => pc' = "sleep"
        BY <3>1 DEF Follows
      <4>. QED  BY <2>3, <3>1, <4>1, PassedGrows DEF Jobs, NightJobs
    <3>3. j = pc \/ OnTime(j, 0)
      BY <2>3, <3>1, <3>2, PassedGrows DEF CadenceInv
    <3>4. OnTime(j, 0)
      BY <1>0, <3>1, <3>2, <3>3, SkippedOnTime DEF Watched
    <3>. QED  BY <2>1, <3>4, OnTimeStays
  <2>. QED  BY <1>0, <2>1, <2>2, <2>3 DEF CadenceInv
<1>3. CASE AwaitedJob
  <2>1. PICK job \in {"quality", "fast", "slow"}, d \in Durations :
          pc = job /\ Run({job}, d, Clock + d)
    BY <1>3 DEF AwaitedJob
  <2>2. /\ {job} \in SUBSET Jobs /\ d \in Nat /\ Clock + d \in Int
        /\ UNCHANGED <<ahead, now, began, settled>> /\ pc' = Follows[job]
    BY <1>0, <1>3, <2>1 DEF AwaitedJob, Jobs, MarketJobs, Clock
  <2>3. MarkersNear'
    BY <1>0, <2>1, <2>2, RunKeepsNear
  <2>4. ASSUME NEW j \in Passed(pc') PROVE OnTime(j, 0)'
    <3>1. j = job \/ OnTime(j, 0)
      BY <2>1, <2>2, <2>4, PassedGrows DEF MarketJobs, CadenceInv
    <3>2. j \in Jobs
      BY <2>1, <2>2, <2>4, PassedGrows DEF MarketJobs, Jobs, Follows
    <3>. QED  BY <1>0, <2>1, <2>2, <3>1, <3>2, RunKeepsOnTime
  <2>5. began' <= time'
    BY <1>0, <2>1, <2>2 DEF Run
  <2>. QED  BY <2>3, <2>4, <2>5 DEF CadenceInv
<1>4. CASE PriceUpdate
  <2>1. PICK d \in Durations : Run({"price", "fast"}, d, Clock + d)
    BY <1>4 DEF PriceUpdate, Stamped
  <2>2. /\ {"price", "fast"} \in SUBSET Jobs /\ d \in Nat /\ Clock + d \in Int
        /\ UNCHANGED <<ahead, now, began, settled>> /\ pc' = "sleep"
    BY <1>0, <1>4, <2>1 DEF PriceUpdate, Jobs, MarketJobs, Clock
  <2>3. MarkersNear'
    BY <1>0, <2>1, <2>2, RunKeepsNear
  <2>4. Passed(pc') = {} /\ began' <= time'
    BY <1>0, <2>1, <2>2, PassedGrows DEF Run
  <2>. QED  BY <2>3, <2>4 DEF CadenceInv
<1>5. CASE LaunchDiscovery
  <2>1. Run({"discovery"}, 0, Clock)
    BY <1>5 DEF LaunchDiscovery
  <2>2. /\ {"discovery"} \in SUBSET Jobs /\ 0 \in Nat /\ Clock \in Int /\ Clock = Clock + 0
        /\ UNCHANGED <<ahead, now, began, settled>> /\ pc' = "sleep"
    BY <1>0, <1>5 DEF LaunchDiscovery, Jobs, MarketJobs, Clock
  <2>3. MarkersNear'
    BY <1>0, <2>1, <2>2, RunKeepsNear
  <2>4. Passed(pc') = {} /\ began' <= time'
    BY <1>0, <2>1, <2>2, PassedGrows DEF Run
  <2>. QED  BY <2>3, <2>4 DEF CadenceInv
<1>6. CASE PostCloseCycle
  <2>1. Passed(pc') = {} /\ UNCHANGED <<ahead, now, began, settled>>
    BY <1>6, PassedGrows DEF PostCloseCycle
  <2>2. CASE CycleDue
    <3>1. PICK d \in Durations, jobs \in {{"cycle"}, {"cycle", "price", "slow"}} :
            Run(jobs, d, Clock + d)
      BY <1>6, <2>2 DEF PostCloseCycle
    <3>2. jobs \in SUBSET Jobs /\ d \in Nat /\ Clock + d \in Int
      BY <1>0 DEF Jobs, MarketJobs, NightJobs, Clock
    <3>3. MarkersNear'
      BY <1>0, <2>1, <3>1, <3>2, RunKeepsNear
    <3>4. began' <= time'
      BY <1>0, <2>1, <3>1, <3>2 DEF Run
    <3>. QED  BY <2>1, <3>3, <3>4 DEF CadenceInv
  <2>3. CASE ~CycleDue
    <3>1. UNCHANGED <<time, marker, ran>>
      BY <1>6, <2>3 DEF PostCloseCycle
    <3>2. MarkersNear'
      BY <1>0, <2>1, <3>1 DEF MarkersNear, Watched
    <3>. QED  BY <1>0, <2>1, <3>1, <3>2 DEF CadenceInv
  <2>. QED  BY <2>2, <2>3
<1>7. CASE NightlyJob
  <2>1. PICK d \in Durations : Run({"nightly"}, d, now)
    BY <1>7 DEF NightlyJob
  <2>2. /\ {"nightly"} \in SUBSET Jobs /\ d \in Nat /\ {"nightly"} \cap Watched = {}
        /\ UNCHANGED <<ahead, now, began, settled>> /\ pc' = "sleep"
    BY <1>0, <1>7 DEF NightlyJob, Jobs, MarketJobs, NightJobs, Watched
  <2>3. MarkersNear'
    BY <1>0, <2>1, <2>2, RunKeepsNear
  <2>4. Passed(pc') = {} /\ began' <= time'
    BY <1>0, <2>1, <2>2, PassedGrows DEF Run
  <2>. QED  BY <2>3, <2>4 DEF CadenceInv
<1>8. CASE Sleep
  <2>1. PICK p \in Pauses : time' = time + p
    BY <1>8 DEF Sleep
  <2>2. pc' = "top" /\ UNCHANGED <<ahead, now, marker, began, settled, ran>>
    BY <1>8 DEF Sleep
  <2>3. MarkersNear' /\ Passed(pc') = {}
    BY <1>0, <2>2, PassedGrows DEF MarkersNear, Watched
  <2>. QED  BY <1>0, <2>1, <2>2, <2>3 DEF CadenceInv
<1>9. CASE ClockJumps
  <2>1. settled' = None /\ UNCHANGED <<time, began>>
    BY <1>9 DEF ClockJumps
  <2>. QED  BY <1>0, <2>1 DEF CadenceInv, MarkersNear, OnTime
<1>10. CASE UNCHANGED vars
  <2>1. MarkersNear'
    BY <1>0, <1>10 DEF vars, MarkersNear, Watched
  <2>2. \A j \in Passed(pc') : OnTime(j, 0)'
    BY <1>10, OnTimeStays DEF vars, CadenceInv
  <2>. QED  BY <1>0, <1>10, <2>1, <2>2 DEF vars, CadenceInv
<1>. QED  BY <1>1, <1>2, <1>3, <1>4, <1>5, <1>6, <1>7, <1>8, <1>9, <1>10 DEF Next

(* No job of the market hours freezes, whatever the clock did before: every  *)
(* iteration finds each of them on time, by its interval and the tolerance.  *)
THEOREM NoJobFreezes == Spec => []CadenceKept
<1>1. Init => CadenceInv
  <2>1. ASSUME Init PROVE time \in Int /\ began = time /\ settled = None /\ Passed(pc) = {}
    BY <2>1, LoopAssumption, PassedGrows DEF Init
  <2>. QED  BY <2>1 DEF CadenceInv, MarkersNear
<1>2. TypeOK /\ TypeOK' /\ CadenceInv /\ [Next]_vars => CadenceInv'
  BY CadenceStep
<1>3. CadenceInv => CadenceKept
  BY DEF CadenceInv, CadenceKept, Passed, MarketJobs
<1>. QED  BY <1>1, <1>2, <1>3, LoopTyped, PTL DEF Spec

-----------------------------------------------------------------------------
(* Price updates starve nothing. *)

LEMMA StarveStep == TypeOK /\ StarveInv /\ [Next]_vars => StarveInv'
<1>. SUFFICES ASSUME TypeOK, StarveInv, [Next]_vars PROVE StarveInv'
  OBVIOUS
<1>0. /\ Durations \subseteq Nat /\ Pauses \subseteq Nat /\ time \in Int /\ ahead \in Int
      /\ now \in Int /\ Interval["price"] \in Int
      /\ marker["price"] # None => marker["price"] \in Int
  BY LoopAssumption DEF TypeOK, Jobs, MarketJobs
<1>1. CASE Top
  <2>1. CASE FutureDated(Clock) = {} /\ Clock \in MarketHours
    <3>1. /\ priced' = priced /\ pc = "top" /\ pc' = "quality" /\ now' = Clock
          /\ marker'["price"] = marker["price"]
      BY <1>1, <2>1 DEF Top, Jobs, MarketJobs
    <3>. QED  BY <3>1 DEF StarveInv
  <2>2. CASE ~(FutureDated(Clock) = {} /\ Clock \in MarketHours)
    BY <1>1, <2>2 DEF Top, StarveInv
  <2>. QED  BY <2>1, <2>2
<1>2. CASE Skip
  <2>1. CASE pc = "quality"
    BY <1>2, <2>1 DEF Skip, StarveInv, Follows
  <2>2. CASE pc # "quality"
    BY <1>2, <2>2 DEF Skip, StarveInv, Jobs, MarketJobs, NightJobs
  <2>. QED  BY <2>1, <2>2
<1>3. CASE AwaitedJob
  <2>1. PICK job \in {"quality", "fast", "slow"}, d \in Durations :
          pc = job /\ Run({job}, d, Clock + d)
    BY <1>3 DEF AwaitedJob
  <2>2. CASE job = "quality"
    <3>1. marker'["price"] = marker["price"]
      BY <2>1, <2>2 DEF Run, Jobs, MarketJobs
    <3>2. pc' = "price" /\ priced' = priced /\ now' = now
      BY <1>3, <2>1, <2>2 DEF AwaitedJob, Follows
    <3>. QED  BY <2>1, <2>2, <3>1, <3>2 DEF StarveInv
  <2>3. CASE job # "quality"
    BY <1>3, <2>1, <2>3 DEF AwaitedJob, StarveInv
  <2>. QED  BY <2>2, <2>3
<1>4. CASE PriceUpdate
  <2>1. PICK d \in Durations : Run({"price", "fast"}, d, Clock + d)
    BY <1>4 DEF PriceUpdate, Stamped
  <2>2. priced = 0
    BY <1>0, <1>4 DEF PriceUpdate, Due, StarveInv
  <2>3. marker'["price"] = Clock + d /\ time' = time + d
    BY <2>1 DEF Run, Jobs, MarketJobs
  <2>4. priced' = 1 /\ pc' = "sleep" /\ ahead' = ahead
    BY <1>4, <2>2 DEF PriceUpdate
  <2>5. marker'["price"] = Clock' /\ marker'["price"] # None
    BY <1>0, <2>3, <2>4, LoopAssumption DEF Clock
  <2>. QED  BY <2>4, <2>5 DEF StarveInv
<1>5. CASE LaunchDiscovery
  BY <1>5 DEF LaunchDiscovery, StarveInv
<1>6. CASE PostCloseCycle
  BY <1>6 DEF PostCloseCycle, StarveInv
<1>7. CASE NightlyJob
  BY <1>7 DEF NightlyJob, StarveInv
<1>8. CASE Sleep
  <2>1. PICK p \in Pauses : time' = time + p
    BY <1>8 DEF Sleep
  <2>2. pc = "sleep" /\ pc' = "top" /\ UNCHANGED <<ahead, marker, priced>>
    BY <1>8 DEF Sleep
  <2>3. marker["price"] = Clock => Clock' - marker["price"] < Interval["price"]
    BY <1>0, <2>1, <2>2, PauseAssumption DEF Clock
  <2>. QED  BY <2>2, <2>3 DEF StarveInv
<1>9. CASE ClockJumps
  BY <1>9 DEF ClockJumps, StarveInv
<1>10. CASE UNCHANGED vars
  BY <1>10 DEF vars, StarveInv, Clock
<1>. QED  BY <1>1, <1>2, <1>3, <1>4, <1>5, <1>6, <1>7, <1>8, <1>9, <1>10 DEF Next

(* With the clock steady, no second price update comes before FAST, SLOW and *)
(* discovery had their turn, however long the downloads take.                *)
THEOREM UpdatesStarveNothing == Spec => []NoStarvation
<1>1. Init => StarveInv
  BY DEF Init, StarveInv
<1>2. TypeOK /\ StarveInv /\ [Next]_vars => StarveInv'
  BY StarveStep
<1>3. StarveInv => NoStarvation
  BY DEF StarveInv, NoStarvation
<1>. QED  BY <1>1, <1>2, <1>3, LoopTyped, PTL DEF Spec
===============================================================================
