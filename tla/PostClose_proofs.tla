--------------------------- MODULE PostClose_proofs ---------------------------
(***************************************************************************)
(* Proofs about PostClose, for any set of symbols and visitors, any        *)
(* calendar, any required share and any number of faults.                  *)
(*                                                                         *)
(* The invariants are proved in layers, each one assuming those before it: *)
(* TypeOK; the flag of the SLOW run (SlowExclusive); the session of what   *)
(* is held and stored (SessionInv, CapturedInSession); what completion     *)
(* means (CompletionInv); the evidence of a capture (EvidenceInv).  The    *)
(* refinement of PostureLedger follows from the same layers.               *)
(***************************************************************************)
EXTENDS PostClose, FiniteSetTheorems, TLAPS

USE DEF timeVars, dataVars, slowVars, localVars, cycleVars, tableVars, visitVars, vars

------------------------------------------------------------------------------
(* Types.                                                                  *)

LEMMA FlagsStep == FlagsTyped /\ [Next]_vars => FlagsTyped'
<1> SUFFICES ASSUME FlagsTyped, [Next]_vars PROVE FlagsTyped'
  OBVIOUS
<1>1. CASE PhaseChange
  BY <1>1, Zenon DEF FlagsTyped, PhaseChange
<1>2. CASE CooldownEnds
  BY <1>2, Zenon DEF FlagsTyped, CooldownEnds
<1>3. CASE QualityRefreshEnds
  BY <1>3, Zenon DEF FlagsTyped, QualityRefreshEnds
<1>4. ASSUME NEW s \in Symbols, RowAges(s) PROVE FlagsTyped'
  BY <1>4, Zenon DEF FlagsTyped, RowAges
<1>5. ASSUME NEW s \in Symbols, PriceArrives(s) PROVE FlagsTyped'
  BY <1>5, Zenon DEF FlagsTyped, PriceArrives
<1>6. ASSUME NEW s \in Symbols, QuickMetrics(s) PROVE FlagsTyped'
  BY <1>6, Zenon DEF FlagsTyped, QuickMetrics, Calculate
<1>7. CASE StartupSlow
  BY <1>7, Zenon DEF FlagsTyped, StartupSlow, SlowStart
<1>8. CASE PeriodicSlow
  BY <1>8, Zenon DEF FlagsTyped, PeriodicSlow, SlowStart
<1>9. ASSUME NEW o \in Owners, SlowSnapshot(o) PROVE FlagsTyped'
  BY <1>9, Zenon DEF FlagsTyped, SlowSnapshot, SlowRelease, AfterSlow,
     CycleFails
<1>10. ASSUME NEW o \in Owners, SlowFinish(o) PROVE FlagsTyped'
  BY <1>10, Zenon DEF FlagsTyped, SlowFinish, SlowRelease, AfterSlow,
     CycleFails
<1>11. ASSUME NEW o \in Owners, NEW s \in Symbols, SlowSymbol(o, s) PROVE FlagsTyped'
  BY <1>11, Zenon DEF FlagsTyped, SlowSymbol, Calculate
<1>12. ASSUME NEW o \in Owners, SlowSnapshotFails(o) PROVE FlagsTyped'
  BY <1>12, Zenon DEF FlagsTyped, SlowSnapshotFails, SlowRelease, CycleFails
<1>13. ASSUME NEW o \in Owners, NEW s \in Symbols, SlowSymbolFails(o, s) PROVE FlagsTyped'
  BY <1>13, Zenon DEF FlagsTyped, SlowSymbolFails
<1>14. CASE RunIfDue
  BY <1>14, Zenon DEF FlagsTyped, RunIfDue
<1>15. CASE LoadPrices
  BY <1>15, Zenon DEF FlagsTyped, LoadPrices, SlowStart, CycleFails
<1>16. CASE Analyze
  BY <1>16, Zenon DEF FlagsTyped, Analyze
<1>17. CASE Capture
  BY <1>17, Zenon DEF FlagsTyped, Capture, CycleFails
<1>18. CASE WriteRow
  BY <1>18, Zenon DEF FlagsTyped, WriteRow
<1>19. CASE Report
  BY <1>19, Zenon DEF FlagsTyped, Report
<1>20. CASE Boot
  BY <1>20, Zenon DEF FlagsTyped, Boot
<1>21. CASE AnalysisFails
  BY <1>21, Zenon DEF FlagsTyped, AnalysisFails, CycleFails
<1>22. CASE WriteFails
  BY <1>22, Zenon DEF FlagsTyped, WriteFails, CycleFails
<1>23. CASE Crash
  BY <1>23, Zenon DEF FlagsTyped, Crash
<1>24. ASSUME NEW v \in Visitors, VisitAnalyze(v) PROVE FlagsTyped'
  BY <1>24, Zenon DEF FlagsTyped, VisitAnalyze
<1>25. ASSUME NEW v \in Visitors, VisitObserve(v) PROVE FlagsTyped'
  BY <1>25, Zenon DEF FlagsTyped, VisitObserve
<1>26. ASSUME NEW v \in Visitors, VisitWrite(v) PROVE FlagsTyped'
  BY <1>26, Zenon DEF FlagsTyped, VisitWrite
<1>27. ASSUME NEW v \in Visitors, VisitFails(v) PROVE FlagsTyped'
  BY <1>27, Zenon DEF FlagsTyped, VisitFails
<1>28. CASE UNCHANGED vars
  BY <1>28, Zenon DEF FlagsTyped
<1>29. QED
  BY <1>1, <1>2, <1>3, <1>4, <1>5, <1>6, <1>7, <1>8, <1>9, <1>10, <1>11,
     <1>12, <1>13, <1>14, <1>15, <1>16, <1>17, <1>18, <1>19, <1>20, <1>21,
     <1>22, <1>23, <1>24, <1>25, <1>26, <1>27, <1>28 DEF Next, SlowStep,
     CycleStep

LEMMA DataStep == DataTyped /\ [Next]_vars => DataTyped'
<1> SUFFICES ASSUME DataTyped, [Next]_vars PROVE DataTyped'
  OBVIOUS
<1> USE ConstantsAssumption
<1>1. CASE PhaseChange
  BY <1>1 DEF DataTyped, PhaseChange, Days
<1>2. CASE CooldownEnds
  BY <1>2 DEF DataTyped, CooldownEnds
<1>3. CASE QualityRefreshEnds
  BY <1>3 DEF DataTyped, QualityRefreshEnds
<1>4. ASSUME NEW s \in Symbols, RowAges(s) PROVE DataTyped'
  BY <1>4 DEF DataTyped, RowAges
<1>5. ASSUME NEW s \in Symbols, PriceArrives(s) PROVE DataTyped'
  BY <1>5 DEF DataTyped, PriceArrives
<1>6. ASSUME NEW s \in Symbols, QuickMetrics(s) PROVE DataTyped'
  BY <1>6 DEF DataTyped, QuickMetrics, Calculate
<1>7. CASE StartupSlow
  BY <1>7 DEF DataTyped, StartupSlow
<1>8. CASE PeriodicSlow
  BY <1>8 DEF DataTyped, PeriodicSlow
<1>9. ASSUME NEW o \in Owners, SlowSnapshot(o) PROVE DataTyped'
  BY <1>9 DEF DataTyped, SlowSnapshot
<1>10. ASSUME NEW o \in Owners, SlowFinish(o) PROVE DataTyped'
  BY <1>10 DEF DataTyped, SlowFinish
<1>11. ASSUME NEW o \in Owners, NEW s \in Symbols, SlowSymbol(o, s) PROVE DataTyped'
  BY <1>11 DEF DataTyped, SlowSymbol, Calculate
<1>12. ASSUME NEW o \in Owners, SlowSnapshotFails(o) PROVE DataTyped'
  BY <1>12 DEF DataTyped, SlowSnapshotFails, Fault
<1>13. ASSUME NEW o \in Owners, NEW s \in Symbols, SlowSymbolFails(o, s) PROVE DataTyped'
  BY <1>13 DEF DataTyped, SlowSymbolFails, Fault
<1>14. CASE RunIfDue
  BY <1>14 DEF DataTyped, RunIfDue
<1>15. CASE LoadPrices
  BY <1>15 DEF DataTyped, LoadPrices, FeedDelivers, Fault
<1>16. CASE Analyze
  BY <1>16 DEF DataTyped, Analyze
<1>17. CASE Capture
  BY <1>17 DEF DataTyped, Capture
<1>18. CASE WriteRow
  BY <1>18 DEF DataTyped, WriteRow
<1>19. CASE Report
  BY <1>19 DEF DataTyped, Report, Fault
<1>20. CASE Boot
  BY <1>20 DEF DataTyped, Boot, FeedDelivers, Fault
<1>21. CASE AnalysisFails
  BY <1>21 DEF DataTyped, AnalysisFails, Fault
<1>22. CASE WriteFails
  BY <1>22 DEF DataTyped, WriteFails, Fault
<1>23. CASE Crash
  BY <1>23 DEF DataTyped, Crash, Fault
<1>24. ASSUME NEW v \in Visitors, VisitAnalyze(v) PROVE DataTyped'
  BY <1>24 DEF DataTyped, VisitAnalyze
<1>25. ASSUME NEW v \in Visitors, VisitObserve(v) PROVE DataTyped'
  BY <1>25 DEF DataTyped, VisitObserve
<1>26. ASSUME NEW v \in Visitors, VisitWrite(v) PROVE DataTyped'
  BY <1>26 DEF DataTyped, VisitWrite
<1>27. ASSUME NEW v \in Visitors, VisitFails(v) PROVE DataTyped'
  BY <1>27 DEF DataTyped, VisitFails, Fault
<1>28. CASE UNCHANGED vars
  BY <1>28 DEF DataTyped
<1>29. QED
  BY <1>1, <1>2, <1>3, <1>4, <1>5, <1>6, <1>7, <1>8, <1>9, <1>10, <1>11,
     <1>12, <1>13, <1>14, <1>15, <1>16, <1>17, <1>18, <1>19, <1>20, <1>21,
     <1>22, <1>23, <1>24, <1>25, <1>26, <1>27, <1>28 DEF Next, SlowStep,
     CycleStep

LEMMA TablesStep ==
  DataTyped /\ CycleTyped /\ TablesTyped /\ [Next]_vars => TablesTyped'
<1> SUFFICES ASSUME DataTyped, CycleTyped, TablesTyped, [Next]_vars
             PROVE  TablesTyped'
  OBVIOUS
<1>1. CASE PhaseChange
  BY <1>1 DEF TablesTyped, PhaseChange
<1>2. CASE CooldownEnds
  BY <1>2 DEF TablesTyped, CooldownEnds
<1>3. CASE QualityRefreshEnds
  BY <1>3 DEF TablesTyped, QualityRefreshEnds
<1>4. ASSUME NEW s \in Symbols, RowAges(s) PROVE TablesTyped'
  BY <1>4 DEF TablesTyped, RowAges
<1>5. ASSUME NEW s \in Symbols, PriceArrives(s) PROVE TablesTyped'
  BY <1>5 DEF TablesTyped, PriceArrives
<1>6. ASSUME NEW s \in Symbols, QuickMetrics(s) PROVE TablesTyped'
  BY <1>6 DEF TablesTyped, QuickMetrics
<1>7. CASE StartupSlow
  BY <1>7 DEF TablesTyped, StartupSlow
<1>8. CASE PeriodicSlow
  BY <1>8 DEF TablesTyped, PeriodicSlow
<1>9. ASSUME NEW o \in Owners, SlowSnapshot(o) PROVE TablesTyped'
  BY <1>9 DEF TablesTyped, SlowSnapshot
<1>10. ASSUME NEW o \in Owners, SlowFinish(o) PROVE TablesTyped'
  BY <1>10 DEF TablesTyped, SlowFinish
<1>11. ASSUME NEW o \in Owners, NEW s \in Symbols, SlowSymbol(o, s) PROVE TablesTyped'
  BY <1>11 DEF TablesTyped, SlowSymbol
<1>12. ASSUME NEW o \in Owners, SlowSnapshotFails(o) PROVE TablesTyped'
  BY <1>12 DEF TablesTyped, SlowSnapshotFails
<1>13. ASSUME NEW o \in Owners, NEW s \in Symbols, SlowSymbolFails(o, s) PROVE TablesTyped'
  BY <1>13 DEF TablesTyped, SlowSymbolFails
<1>14. CASE RunIfDue
  BY <1>14 DEF TablesTyped, RunIfDue
<1>15. CASE LoadPrices
  BY <1>15 DEF TablesTyped, LoadPrices
<1>16. CASE Analyze
  BY <1>16 DEF TablesTyped, Analyze
<1>17. CASE Capture
  BY <1>17 DEF TablesTyped, Capture, Observed, Rows
<1>18. CASE WriteRow
  BY <1>18 DEF TablesTyped, WriteRow, Upsert, CycleTyped
<1>19. CASE Report
  BY <1>19 DEF TablesTyped, Report, CycleTyped
<1>20. CASE Boot
  BY <1>20 DEF TablesTyped, Boot
<1>21. CASE AnalysisFails
  BY <1>21 DEF TablesTyped, AnalysisFails
<1>22. CASE WriteFails
  BY <1>22 DEF TablesTyped, WriteFails
<1>23. CASE Crash
  BY <1>23 DEF TablesTyped, Crash
<1>24. ASSUME NEW v \in Visitors, VisitAnalyze(v) PROVE TablesTyped'
  BY <1>24 DEF TablesTyped, VisitAnalyze, NoRow, NoDay, Rows
<1>25. ASSUME NEW v \in Visitors, VisitObserve(v) PROVE TablesTyped'
  BY <1>25 DEF TablesTyped, VisitObserve, Observed, Rows, DataTyped
<1>26. ASSUME NEW v \in Visitors, VisitWrite(v) PROVE TablesTyped'
  BY <1>26 DEF TablesTyped, VisitWrite, Upsert, NoVisit, NoRow, Rows
<1>27. ASSUME NEW v \in Visitors, VisitFails(v) PROVE TablesTyped'
  BY <1>27 DEF TablesTyped, VisitFails, NoVisit, NoRow, Rows, NoDay
<1>28. CASE UNCHANGED vars
  BY <1>28 DEF TablesTyped
<1>29. QED
  BY <1>1, <1>2, <1>3, <1>4, <1>5, <1>6, <1>7, <1>8, <1>9, <1>10, <1>11,
     <1>12, <1>13, <1>14, <1>15, <1>16, <1>17, <1>18, <1>19, <1>20, <1>21,
     <1>22, <1>23, <1>24, <1>25, <1>26, <1>27, <1>28 DEF Next, SlowStep,
     CycleStep

(* What the helpers of the SLOW run do to the types.                       *)
LEMMA SlowStartTyped ==
  ASSUME run \in [Owners -> Runs], NEW o \in Owners, NEW refresh \in BOOLEAN,
         SlowStart(o, refresh)
  PROVE  run' \in [Owners -> Runs]
BY DEF SlowStart, Runs, NewRun, NoDay

LEMMA SlowReleaseTyped ==
  ASSUME run \in [Owners -> Runs], NEW o \in Owners, SlowRelease(o)
  PROVE  run' \in [Owners -> Runs]
BY DEF SlowRelease, Runs, NewRun, NoRun, NoDay

LEMMA AfterSlowTyped ==
  ASSUME CycleTyped, NEW o \in Owners, NEW r \in Runs, AfterSlow(o, r),
         run' \in [Owners -> Runs]
  PROVE  CycleTyped'
BY DEF CycleTyped, AfterSlow, CycleFails, Runs

LEMMA StartupSlowTyped == CycleTyped /\ StartupSlow => CycleTyped'
<1> SUFFICES ASSUME CycleTyped, StartupSlow PROVE CycleTyped'
  OBVIOUS
<1>1. CASE SlowStart("startup", FALSE)
  <2>1. run' \in [Owners -> Runs]
    BY <1>1, SlowStartTyped DEF Owners, CycleTyped
  <2>2. QED
    BY <1>1, <2>1 DEF StartupSlow, CycleTyped
<1>2. CASE run' = [run EXCEPT !["startup"] = NoRun]
  BY <1>2 DEF StartupSlow, CycleTyped, NoRun, NewRun, Runs, NoDay, Owners
<1>3. QED
  BY <1>1, <1>2 DEF StartupSlow

LEMMA SlowSnapshotTyped ==
  ASSUME CycleTyped, NEW o \in Owners, SlowSnapshot(o)
  PROVE  CycleTyped'
<1>1. PICK d \in Days \cup {NoDay} :
        \/ SlowRelease(o) /\ AfterSlow(o, NoRun)
        \/ /\ LET symbols == {s \in Symbols : price[s] = d}
              IN  run' = [run EXCEPT ![o] =
                            [st |-> "work", refresh |-> run[o].refresh,
                             snapshot |-> d, attempted |-> symbols,
                             todo |-> symbols, covered |-> {}]]
           /\ UNCHANGED <<slowRunning, cycleVars>>
  BY DEF SlowSnapshot
<1>2. CASE SlowRelease(o) /\ AfterSlow(o, NoRun)
  <2>1. NoRun \in Runs
    BY DEF NoRun, NewRun, Runs, NoDay
  <2>2. QED
    BY <1>2, <2>1, AfterSlowTyped, SlowReleaseTyped DEF CycleTyped
<1>3. CASE ~(SlowRelease(o) /\ AfterSlow(o, NoRun))
  <2>1. run' \in [Owners -> Runs]
    BY <1>1, <1>3 DEF CycleTyped, Runs
  <2>2. UNCHANGED cycleVars
    BY <1>1, <1>3
  <2>3. QED
    BY <2>1, <2>2 DEF CycleTyped
<1>4. QED
  BY <1>2, <1>3

LEMMA LoadPricesTyped == CycleTyped /\ LoadPrices => CycleTyped'
<1> SUFFICES ASSUME CycleTyped, LoadPrices PROVE CycleTyped'
  OBVIOUS
<1>1. recomputed' = {}
  BY Zenon DEF LoadPrices
<1>2. CASE /\ SlowStart("loop", PostCloseRefresh)
           /\ pc' = "slow"
           /\ UNCHANGED <<localVars, completed>>
  <2>1. run' \in [Owners -> Runs]
    BY <1>2, SlowStartTyped DEF Owners, PostCloseRefresh, CycleTyped
  <2>2. QED
    BY <1>1, <1>2, <2>1 DEF CycleTyped
<1>3. CASE CycleFails /\ UNCHANGED <<run, result>>
  BY <1>1, <1>3 DEF CycleTyped, CycleFails
<1>4. QED
  BY <1>2, <1>3, Zenon DEF LoadPrices

LEMMA CycleTypedStep ==
  DataTyped /\ CycleTyped /\ TablesTyped /\ [Next]_vars => CycleTyped'
<1> SUFFICES ASSUME DataTyped, CycleTyped, TablesTyped, [Next]_vars
             PROVE  CycleTyped'
  OBVIOUS
<1> USE DEF Owners
<1>1. CASE PhaseChange
  BY <1>1 DEF CycleTyped, PhaseChange
<1>2. CASE CooldownEnds
  BY <1>2 DEF CycleTyped, CooldownEnds
<1>3. CASE QualityRefreshEnds
  BY <1>3 DEF CycleTyped, QualityRefreshEnds
<1>4. ASSUME NEW s \in Symbols, RowAges(s) PROVE CycleTyped'
  BY <1>4 DEF CycleTyped, RowAges
<1>5. ASSUME NEW s \in Symbols, PriceArrives(s) PROVE CycleTyped'
  BY <1>5 DEF CycleTyped, PriceArrives
<1>6. ASSUME NEW s \in Symbols, QuickMetrics(s) PROVE CycleTyped'
  BY <1>6 DEF CycleTyped, QuickMetrics, Calculate
<1>7. CASE StartupSlow
  BY <1>7, StartupSlowTyped
<1>8. CASE PeriodicSlow
  BY <1>8 DEF CycleTyped, PeriodicSlow, SlowStart, Runs, NewRun, NoRun, NoDay
<1>9. ASSUME NEW o \in Owners, SlowSnapshot(o) PROVE CycleTyped'
  BY <1>9, SlowSnapshotTyped
<1>10. ASSUME NEW o \in Owners, SlowFinish(o) PROVE CycleTyped'
  BY <1>10 DEF CycleTyped, SlowFinish, SlowRelease, AfterSlow, CycleFails,
     Runs, NewRun, NoRun, NoDay
<1>11. ASSUME NEW o \in Owners, NEW s \in Symbols, SlowSymbol(o, s) PROVE CycleTyped'
  BY <1>11 DEF CycleTyped, SlowSymbol, Calculate, Runs
<1>12. ASSUME NEW o \in Owners, SlowSnapshotFails(o) PROVE CycleTyped'
  BY <1>12 DEF CycleTyped, SlowSnapshotFails, SlowRelease, CycleFails, Runs,
     NewRun, NoRun, NoDay
<1>13. ASSUME NEW o \in Owners, NEW s \in Symbols, SlowSymbolFails(o, s) PROVE CycleTyped'
  BY <1>13 DEF CycleTyped, SlowSymbolFails, Runs
<1>14. CASE RunIfDue
  BY <1>14 DEF CycleTyped, RunIfDue, SessionOfClock, DataTyped, NoResult
<1>15. CASE LoadPrices
  BY <1>15, LoadPricesTyped
<1>16. CASE Analyze
  BY <1>16 DEF CycleTyped, Analyze
<1>17. CASE Capture
  BY <1>17 DEF CycleTyped, Capture, CycleFails, Observed, Rows, TablesTyped,
     DataTyped
<1>18. CASE WriteRow
  BY <1>18 DEF CycleTyped, WriteRow
<1>19. CASE Report
  BY <1>19 DEF CycleTyped, Report
<1>20. CASE Boot
  BY <1>20 DEF CycleTyped, Boot, Runs, NewRun, NoDay
<1>21. CASE AnalysisFails
  BY <1>21 DEF CycleTyped, AnalysisFails, CycleFails
<1>22. CASE WriteFails
  BY <1>22 DEF CycleTyped, WriteFails, CycleFails
<1>23. CASE Crash
  BY <1>23 DEF CycleTyped, Crash, NewRun, NoRun, NoResult, NoRow, Runs, Rows,
     NoDay
<1>24. ASSUME NEW v \in Visitors, VisitAnalyze(v) PROVE CycleTyped'
  BY <1>24 DEF CycleTyped, VisitAnalyze
<1>25. ASSUME NEW v \in Visitors, VisitObserve(v) PROVE CycleTyped'
  BY <1>25 DEF CycleTyped, VisitObserve
<1>26. ASSUME NEW v \in Visitors, VisitWrite(v) PROVE CycleTyped'
  BY <1>26 DEF CycleTyped, VisitWrite
<1>27. ASSUME NEW v \in Visitors, VisitFails(v) PROVE CycleTyped'
  BY <1>27 DEF CycleTyped, VisitFails
<1>28. CASE UNCHANGED vars
  BY <1>28 DEF CycleTyped
<1>29. QED
  BY <1>1, <1>2, <1>3, <1>4, <1>5, <1>6, <1>7, <1>8, <1>9, <1>10, <1>11,
     <1>12, <1>13, <1>14, <1>15, <1>16, <1>17, <1>18, <1>19, <1>20, <1>21,
     <1>22, <1>23, <1>24, <1>25, <1>26, <1>27, <1>28 DEF Next, SlowStep,
     CycleStep

LEMMA TypeInit == Init => TypeOK
<1> SUFFICES ASSUME Init PROVE TypeOK
  OBVIOUS
<1> USE ConstantsAssumption DEF Init, NoDay, NoRow
<1>1. FlagsTyped
  BY Zenon DEF FlagsTyped
<1>2. DataTyped
  BY DEF DataTyped, Days
<1>3. CycleTyped
  BY DEF CycleTyped, Owners, Runs, Rows, NewRun, NoRun, NoResult
<1>4. TablesTyped
  BY DEF TablesTyped, Rows, NoVisit
<1>5. QED
  BY <1>1, <1>2, <1>3, <1>4 DEF TypeOK

LEMMA TypeStep == TypeOK /\ [Next]_vars => TypeOK'
BY FlagsStep, DataStep, CycleTypedStep, TablesStep DEF TypeOK

(* Every reachable state is well typed.                                    *)
THEOREM TypeCorrect == Spec => []TypeOK
<1>1. Init => TypeOK
  BY TypeInit
<1>2. TypeOK /\ [Next]_vars => TypeOK'
  BY TypeStep
<1>3. QED
  BY <1>1, <1>2, PTL DEF Spec

------------------------------------------------------------------------------
(* The SLOW run and its flag.  Boot overwrites the run of startup, so one  *)
(* has to know that nothing runs while the process boots.                  *)

BootQuiet == pc = "boot" => \A o \in Owners : run[o].st = "off"
SlowInv == SlowExclusive /\ BootQuiet

LEMMA SlowInvStep == TypeOK /\ SlowInv /\ [Next]_vars => SlowInv'
<1> SUFFICES ASSUME TypeOK, SlowInv, [Next]_vars PROVE SlowInv'
  OBVIOUS
<1> USE DEF TypeOK, CycleTyped, FlagsTyped, Owners, Active
<1>1. CASE PhaseChange
  BY <1>1 DEF SlowInv, SlowExclusive, BootQuiet, PhaseChange
<1>2. CASE CooldownEnds
  BY <1>2 DEF SlowInv, SlowExclusive, BootQuiet, CooldownEnds
<1>3. CASE QualityRefreshEnds
  BY <1>3 DEF SlowInv, SlowExclusive, BootQuiet, QualityRefreshEnds
<1>4. ASSUME NEW s \in Symbols, RowAges(s) PROVE SlowInv'
  BY <1>4 DEF SlowInv, SlowExclusive, BootQuiet, RowAges
<1>5. ASSUME NEW s \in Symbols, PriceArrives(s) PROVE SlowInv'
  BY <1>5 DEF SlowInv, SlowExclusive, BootQuiet, PriceArrives
<1>6. ASSUME NEW s \in Symbols, QuickMetrics(s) PROVE SlowInv'
  BY <1>6 DEF SlowInv, SlowExclusive, BootQuiet, QuickMetrics, Calculate
<1>7. CASE StartupSlow
  BY <1>7 DEF SlowInv, SlowExclusive, BootQuiet, StartupSlow, SlowStart,
     NewRun, NoRun
<1>8. CASE PeriodicSlow
  BY <1>8 DEF SlowInv, SlowExclusive, BootQuiet, PeriodicSlow, SlowStart,
     NewRun, NoRun
<1>9. ASSUME NEW o \in Owners, SlowSnapshot(o) PROVE SlowInv'
  BY <1>9 DEF SlowInv, SlowExclusive, BootQuiet, SlowSnapshot, SlowRelease,
     AfterSlow, CycleFails, NewRun, NoRun
<1>10. ASSUME NEW o \in Owners, SlowFinish(o) PROVE SlowInv'
  BY <1>10 DEF SlowInv, SlowExclusive, BootQuiet, SlowFinish, SlowRelease,
     AfterSlow, CycleFails, NewRun, NoRun
<1>11. ASSUME NEW o \in Owners, NEW s \in Symbols, SlowSymbol(o, s) PROVE SlowInv'
  BY <1>11 DEF SlowInv, SlowExclusive, BootQuiet, SlowSymbol, Calculate, Runs
<1>12. ASSUME NEW o \in Owners, SlowSnapshotFails(o) PROVE SlowInv'
  BY <1>12 DEF SlowInv, SlowExclusive, BootQuiet, SlowSnapshotFails,
     SlowRelease, CycleFails, NewRun, NoRun
<1>13. ASSUME NEW o \in Owners, NEW s \in Symbols, SlowSymbolFails(o, s) PROVE SlowInv'
  BY <1>13 DEF SlowInv, SlowExclusive, BootQuiet, SlowSymbolFails, Runs
<1>14. CASE RunIfDue
  BY <1>14 DEF SlowInv, SlowExclusive, BootQuiet, RunIfDue
<1>15. CASE LoadPrices
  BY <1>15 DEF SlowInv, SlowExclusive, BootQuiet, LoadPrices, SlowStart,
     CycleFails, PostCloseRefresh, NewRun, NoRun
<1>16. CASE Analyze
  BY <1>16 DEF SlowInv, SlowExclusive, BootQuiet, Analyze
<1>17. CASE Capture
  BY <1>17 DEF SlowInv, SlowExclusive, BootQuiet, Capture, CycleFails
<1>18. CASE WriteRow
  BY <1>18 DEF SlowInv, SlowExclusive, BootQuiet, WriteRow
<1>19. CASE Report
  BY <1>19 DEF SlowInv, SlowExclusive, BootQuiet, Report
<1>20. CASE Boot
  BY <1>20 DEF SlowInv, SlowExclusive, BootQuiet, Boot, NewRun, NoRun
<1>21. CASE AnalysisFails
  BY <1>21 DEF SlowInv, SlowExclusive, BootQuiet, AnalysisFails, CycleFails
<1>22. CASE WriteFails
  BY <1>22 DEF SlowInv, SlowExclusive, BootQuiet, WriteFails, CycleFails
<1>23. CASE Crash
  BY <1>23 DEF SlowInv, SlowExclusive, BootQuiet, Crash, NewRun, NoRun
<1>24. ASSUME NEW v \in Visitors, VisitAnalyze(v) PROVE SlowInv'
  BY <1>24 DEF SlowInv, SlowExclusive, BootQuiet, VisitAnalyze
<1>25. ASSUME NEW v \in Visitors, VisitObserve(v) PROVE SlowInv'
  BY <1>25 DEF SlowInv, SlowExclusive, BootQuiet, VisitObserve
<1>26. ASSUME NEW v \in Visitors, VisitWrite(v) PROVE SlowInv'
  BY <1>26 DEF SlowInv, SlowExclusive, BootQuiet, VisitWrite
<1>27. ASSUME NEW v \in Visitors, VisitFails(v) PROVE SlowInv'
  BY <1>27 DEF SlowInv, SlowExclusive, BootQuiet, VisitFails
<1>28. CASE UNCHANGED vars
  BY <1>28 DEF SlowInv, SlowExclusive, BootQuiet
<1>29. QED
  BY <1>1, <1>2, <1>3, <1>4, <1>5, <1>6, <1>7, <1>8, <1>9, <1>10, <1>11,
     <1>12, <1>13, <1>14, <1>15, <1>16, <1>17, <1>18, <1>19, <1>20, <1>21,
     <1>22, <1>23, <1>24, <1>25, <1>26, <1>27, <1>28 DEF Next, SlowStep,
     CycleStep

(* Whatever tasks, failures and restarts do, at most one SLOW run is under *)
(* way and _slow_running tells exactly whether one is.                     *)
THEOREM OneSlowRun == Spec => []SlowExclusive
<1>1. Init => SlowInv
  BY DEF Init, SlowInv, SlowExclusive, BootQuiet, Active, NoRun, NewRun, Owners
<1>2. TypeOK /\ SlowInv /\ [Next]_vars => SlowInv'
  BY SlowInvStep
<1>3. SlowInv => SlowExclusive
  BY DEF SlowInv
<1>4. QED
  BY <1>1, <1>2, <1>3, TypeCorrect, PTL DEF Spec

------------------------------------------------------------------------------
(* The session of what is held and stored.  Prices, hence metrics, hence   *)
(* the context date, are dates of trading sessions; what the cycle holds   *)
(* was observed on the session it will be stored under.                    *)

PricesOfSessions ==
  /\ \A s \in Symbols : /\ price[s] \in Trading \cup {NoDay}
                        /\ metric[s] \in Trading \cup {NoDay}
  /\ contextDay \in Trading \cup {NoDay}

CycleHasTarget ==
  pc \in {"prices", "slow", "analyze", "context", "write", "report"} =>
    target \in Days

HeldInSession ==
  pc = "write" => /\ held.by = "scheduler" /\ held.on = target
                  /\ target \in Trading /\ held.stamp > 0

VisitorsSign ==
  \A v \in Visitors :
    /\ visit[v].st # "away" => visit[v].asOf \in Days
    /\ visit[v].st = "write" => visit[v].row.by = "visitor"

SessionInv ==
  PricesOfSessions /\ CycleHasTarget /\ HeldInSession /\ VisitorsSign

LEMMA SessionStep == TypeOK /\ SessionInv /\ [Next]_vars => SessionInv'
<1> SUFFICES ASSUME TypeOK, SessionInv, [Next]_vars PROVE SessionInv'
  OBVIOUS
<1> USE DEF TypeOK, CycleTyped, TablesTyped, DataTyped
<1>1. CASE PhaseChange
  BY <1>1 DEF SessionInv, PricesOfSessions, CycleHasTarget,
         HeldInSession, VisitorsSign, PhaseChange
<1>2. CASE CooldownEnds
  BY <1>2 DEF SessionInv, PricesOfSessions, CycleHasTarget,
         HeldInSession, VisitorsSign, CooldownEnds
<1>3. CASE QualityRefreshEnds
  BY <1>3 DEF SessionInv, PricesOfSessions, CycleHasTarget,
         HeldInSession, VisitorsSign, QualityRefreshEnds
<1>4. ASSUME NEW s \in Symbols, RowAges(s) PROVE SessionInv'
  BY <1>4 DEF SessionInv, PricesOfSessions, CycleHasTarget,
         HeldInSession, VisitorsSign, RowAges
<1>5. ASSUME NEW s \in Symbols, PriceArrives(s) PROVE SessionInv'
  BY <1>5 DEF SessionInv, PricesOfSessions, CycleHasTarget,
         HeldInSession, VisitorsSign, PriceArrives, LastBar, HasBars
<1>6. ASSUME NEW s \in Symbols, QuickMetrics(s) PROVE SessionInv'
  BY <1>6 DEF SessionInv, PricesOfSessions, CycleHasTarget,
         HeldInSession, VisitorsSign, QuickMetrics, Calculate
<1>7. CASE StartupSlow
  BY <1>7 DEF SessionInv, PricesOfSessions, CycleHasTarget,
         HeldInSession, VisitorsSign, StartupSlow
<1>8. CASE PeriodicSlow
  BY <1>8 DEF SessionInv, PricesOfSessions, CycleHasTarget,
         HeldInSession, VisitorsSign, PeriodicSlow
<1>9. ASSUME NEW o \in Owners, SlowSnapshot(o) PROVE SessionInv'
  BY <1>9 DEF SessionInv, PricesOfSessions, CycleHasTarget,
         HeldInSession, VisitorsSign, SlowSnapshot, AfterSlow, CycleFails
<1>10. ASSUME NEW o \in Owners, SlowFinish(o) PROVE SessionInv'
  BY <1>10 DEF SessionInv, PricesOfSessions, CycleHasTarget,
         HeldInSession, VisitorsSign, SlowFinish, AfterSlow, CycleFails
<1>11. ASSUME NEW o \in Owners, NEW s \in Symbols, SlowSymbol(o, s) PROVE SessionInv'
  BY <1>11 DEF SessionInv, PricesOfSessions, CycleHasTarget,
         HeldInSession, VisitorsSign, SlowSymbol, Calculate
<1>12. ASSUME NEW o \in Owners, SlowSnapshotFails(o) PROVE SessionInv'
  BY <1>12 DEF SessionInv, PricesOfSessions, CycleHasTarget,
         HeldInSession, VisitorsSign, SlowSnapshotFails, CycleFails
<1>13. ASSUME NEW o \in Owners, NEW s \in Symbols, SlowSymbolFails(o, s) PROVE SessionInv'
  BY <1>13 DEF SessionInv, PricesOfSessions, CycleHasTarget,
         HeldInSession, VisitorsSign, SlowSymbolFails
<1>14. CASE RunIfDue
  BY <1>14 DEF SessionInv, PricesOfSessions, CycleHasTarget,
         HeldInSession, VisitorsSign, RunIfDue, SessionOfClock
<1>15. CASE LoadPrices
  BY <1>15 DEF SessionInv, PricesOfSessions, CycleHasTarget,
         HeldInSession, VisitorsSign, LoadPrices, CycleFails, FeedDelivers, LastBar, HasBars
<1>16. CASE Analyze
  BY <1>16 DEF SessionInv, PricesOfSessions, CycleHasTarget,
         HeldInSession, VisitorsSign, Analyze, IsLatest
<1>17. CASE Capture
  BY <1>17, ConstantsAssumption
  DEF SessionInv, PricesOfSessions, CycleHasTarget, HeldInSession,
      VisitorsSign, Capture, CycleFails, Observed, SessionStillOpen, NoDay, Days
<1>18. CASE WriteRow
  BY <1>18 DEF SessionInv, PricesOfSessions, CycleHasTarget,
         HeldInSession, VisitorsSign, WriteRow
<1>19. CASE Report
  BY <1>19 DEF SessionInv, PricesOfSessions, CycleHasTarget,
         HeldInSession, VisitorsSign, Report
<1>20. CASE Boot
  BY <1>20 DEF SessionInv, PricesOfSessions, CycleHasTarget,
         HeldInSession, VisitorsSign, Boot, FeedDelivers, LastBar, HasBars
<1>21. CASE AnalysisFails
  BY <1>21 DEF SessionInv, PricesOfSessions, CycleHasTarget,
         HeldInSession, VisitorsSign, AnalysisFails, CycleFails
<1>22. CASE WriteFails
  BY <1>22 DEF SessionInv, PricesOfSessions, CycleHasTarget,
         HeldInSession, VisitorsSign, WriteFails, CycleFails
<1>23. CASE Crash
  BY <1>23 DEF SessionInv, PricesOfSessions, CycleHasTarget,
         HeldInSession, VisitorsSign, Crash
<1>24. ASSUME NEW v \in Visitors, VisitAnalyze(v) PROVE SessionInv'
  BY <1>24 DEF SessionInv, PricesOfSessions, CycleHasTarget,
         HeldInSession, VisitorsSign, VisitAnalyze
<1>25. ASSUME NEW v \in Visitors, VisitObserve(v) PROVE SessionInv'
  BY <1>25 DEF SessionInv, PricesOfSessions, CycleHasTarget,
         HeldInSession, VisitorsSign, VisitObserve, Observed
<1>26. ASSUME NEW v \in Visitors, VisitWrite(v) PROVE SessionInv'
  BY <1>26 DEF SessionInv, PricesOfSessions, CycleHasTarget,
         HeldInSession, VisitorsSign, VisitWrite, NoVisit
<1>27. ASSUME NEW v \in Visitors, VisitFails(v) PROVE SessionInv'
  BY <1>27 DEF SessionInv, PricesOfSessions, CycleHasTarget,
         HeldInSession, VisitorsSign, VisitFails, NoVisit
<1>28. CASE UNCHANGED vars
  BY <1>28 DEF SessionInv, PricesOfSessions, CycleHasTarget,
         HeldInSession, VisitorsSign
<1>29. QED
  BY <1>1, <1>2, <1>3, <1>4, <1>5, <1>6, <1>7, <1>8, <1>9, <1>10, <1>11,
     <1>12, <1>13, <1>14, <1>15, <1>16, <1>17, <1>18, <1>19, <1>20, <1>21,
     <1>22, <1>23, <1>24, <1>25, <1>26, <1>27, <1>28 DEF Next, SlowStep,
     CycleStep

LEMMA SessionInvariant == Spec => []SessionInv
<1>1. Init => SessionInv
  BY DEF Init, SessionInv, PricesOfSessions, CycleHasTarget, HeldInSession,
         VisitorsSign, NoVisit
<1>2. TypeOK /\ SessionInv /\ [Next]_vars => SessionInv'
  BY SessionStep
<1>3. QED
  BY <1>1, <1>2, TypeCorrect, PTL DEF Spec

(* Only three actions write the table or the completion mark.              *)
LEMMA Footprint ==
  [Next]_vars => \/ UNCHANGED <<posture, completed>>
                 \/ WriteRow
                 \/ Crash
                 \/ \E v \in Visitors : VisitWrite(v)
<1> DEFINE Goal == \/ UNCHANGED <<posture, completed>> \/ WriteRow \/ Crash
                   \/ \E v \in Visitors : VisitWrite(v)
<1> SUFFICES ASSUME [Next]_vars PROVE Goal
  OBVIOUS
<1>0. UNCHANGED <<posture, completed>> => Goal
  OBVIOUS
<1> HIDE DEF Goal
<1>1. CASE PhaseChange
  BY <1>0, <1>1 DEF PhaseChange
<1>2. CASE CooldownEnds
  BY <1>0, <1>2 DEF CooldownEnds
<1>3. CASE QualityRefreshEnds
  BY <1>0, <1>3 DEF QualityRefreshEnds
<1>4. ASSUME NEW s \in Symbols, RowAges(s) PROVE Goal
  BY <1>0, <1>4 DEF RowAges
<1>5. ASSUME NEW s \in Symbols, PriceArrives(s) PROVE Goal
  BY <1>0, <1>5 DEF PriceArrives
<1>6. ASSUME NEW s \in Symbols, QuickMetrics(s) PROVE Goal
  BY <1>0, <1>6 DEF QuickMetrics
<1>7. CASE StartupSlow
  BY <1>0, <1>7 DEF StartupSlow
<1>8. CASE PeriodicSlow
  BY <1>0, <1>8 DEF PeriodicSlow
<1>9. ASSUME NEW o \in Owners, SlowSnapshot(o) PROVE Goal
  BY <1>0, <1>9 DEF SlowSnapshot, AfterSlow, CycleFails
<1>10. ASSUME NEW o \in Owners, SlowFinish(o) PROVE Goal
  BY <1>0, <1>10 DEF SlowFinish, AfterSlow, CycleFails
<1>11. ASSUME NEW o \in Owners, NEW s \in Symbols, SlowSymbol(o, s) PROVE Goal
  BY <1>0, <1>11 DEF SlowSymbol
<1>12. ASSUME NEW o \in Owners, SlowSnapshotFails(o) PROVE Goal
  BY <1>0, <1>12 DEF SlowSnapshotFails, CycleFails
<1>13. ASSUME NEW o \in Owners, NEW s \in Symbols, SlowSymbolFails(o, s) PROVE Goal
  BY <1>0, <1>13 DEF SlowSymbolFails
<1>14. CASE RunIfDue
  BY <1>0, <1>14 DEF RunIfDue
<1>15. CASE LoadPrices
  BY <1>0, <1>15 DEF LoadPrices, CycleFails
<1>16. CASE Analyze
  BY <1>0, <1>16 DEF Analyze
<1>17. CASE Capture
  BY <1>0, <1>17 DEF Capture, CycleFails
<1>18. CASE WriteRow
  BY <1>18 DEF Goal
<1>19. CASE Report
  BY <1>0, <1>19 DEF Report
<1>20. CASE Boot
  BY <1>0, <1>20 DEF Boot
<1>21. CASE AnalysisFails
  BY <1>0, <1>21 DEF AnalysisFails, CycleFails
<1>22. CASE WriteFails
  BY <1>0, <1>22 DEF WriteFails, CycleFails
<1>23. CASE Crash
  BY <1>23 DEF Goal
<1>24. ASSUME NEW v \in Visitors, VisitAnalyze(v) PROVE Goal
  BY <1>0, <1>24 DEF VisitAnalyze
<1>25. ASSUME NEW v \in Visitors, VisitObserve(v) PROVE Goal
  BY <1>0, <1>25 DEF VisitObserve
<1>26. ASSUME NEW v \in Visitors, VisitWrite(v) PROVE Goal
  BY <1>26 DEF Goal
<1>27. ASSUME NEW v \in Visitors, VisitFails(v) PROVE Goal
  BY <1>0, <1>27 DEF VisitFails
<1>28. CASE UNCHANGED vars
  BY <1>0, <1>28
<1>29. QED
  BY <1>1, <1>2, <1>3, <1>4, <1>5, <1>6, <1>7, <1>8, <1>9, <1>10, <1>11,
     <1>12, <1>13, <1>14, <1>15, <1>16, <1>17, <1>18, <1>19, <1>20, <1>21,
     <1>22, <1>23, <1>24, <1>25, <1>26, <1>27, <1>28 DEF Next, SlowStep,
     CycleStep

LEMMA UpsertEffect ==
  ASSUME TypeOK, NEW d \in Days, NEW row \in Rows, Upsert(d, row)
  PROVE  /\ posture' \in [Days -> Rows]
         /\ \A e \in Days : e # d => posture'[e] = posture[e]
         /\ posture'[d] \in {row, posture[d]}
         /\ posture'[d] # posture[d] => row.stamp > posture[d].stamp
         /\ posture'[d].stamp >= row.stamp
         /\ posture'[d].stamp >= posture[d].stamp
BY DEF Upsert, Newer, TypeOK, TablesTyped, Rows

(* The two writers of the table, as upserts of well-typed rows.            *)
LEMMA CycleUpserts ==
  TypeOK /\ SessionInv /\ WriteRow =>
    /\ target \in Days /\ held \in Rows /\ Upsert(target, held)
    /\ held.by = "scheduler" /\ held.on = target
    /\ target \in Trading /\ held.stamp > 0
    /\ completed' = target
BY DEF TypeOK, CycleTyped, SessionInv, HeldInSession, CycleHasTarget, WriteRow

LEMMA VisitUpserts ==
  ASSUME TypeOK, SessionInv, NEW v \in Visitors, VisitWrite(v)
  PROVE  /\ visit[v].asOf \in Days /\ visit[v].row \in Rows
         /\ Upsert(visit[v].asOf, visit[v].row)
         /\ visit[v].row.by = "visitor"
         /\ completed' = completed /\ beat' = beat
BY DEF TypeOK, TablesTyped, SessionInv, VisitorsSign, VisitWrite

(* What the scheduler recorded it observed during the session itself, on a *)
(* day the market traded.                                                  *)
THEOREM RecordsInSession == Spec => []CapturedInSession
<1>1. Init => CapturedInSession
  BY DEF Init, CapturedInSession, NoRow
<1>2. TypeOK /\ SessionInv /\ CapturedInSession /\ [Next]_vars => CapturedInSession'
  <2> SUFFICES ASSUME TypeOK, SessionInv, CapturedInSession, [Next]_vars
               PROVE  CapturedInSession'
    OBVIOUS
  <2>1. CASE posture' = posture
    BY <2>1 DEF CapturedInSession
  <2>2. CASE WriteRow
    BY <2>2, CycleUpserts, UpsertEffect DEF CapturedInSession
  <2>3. ASSUME NEW v \in Visitors, VisitWrite(v) PROVE CapturedInSession'
    BY <2>3, VisitUpserts, UpsertEffect DEF CapturedInSession
  <2>4. QED
    BY <2>1, <2>2, <2>3, Footprint DEF Crash
<1>3. QED
  BY <1>1, <1>2, TypeCorrect, SessionInvariant, PTL DEF Spec

------------------------------------------------------------------------------
(* Completion.  Between the write and the heartbeat the cycle remembers a  *)
(* success that the table must already show.                               *)

ReportDurable == pc = "report" /\ outcome = "ok" => posture[target].stamp > 0
CompletionInv == CompletionDurable /\ ReportDurable

(* No step takes the row of a session away.                                *)
LEMMA RowsStay ==
  TypeOK /\ SessionInv /\ [Next]_vars =>
    \A d \in Days : posture[d].stamp > 0 => posture'[d].stamp > 0
<1> SUFFICES ASSUME TypeOK, SessionInv, [Next]_vars, NEW d \in Days,
                    posture[d].stamp > 0
             PROVE  posture'[d].stamp > 0
  OBVIOUS
<1>1. CASE posture' = posture
  BY <1>1
<1>2. CASE WriteRow
  BY <1>2, CycleUpserts, UpsertEffect DEF TypeOK, TablesTyped, Rows
<1>3. ASSUME NEW v \in Visitors, VisitWrite(v) PROVE posture'[d].stamp > 0
  BY <1>3, VisitUpserts, UpsertEffect DEF TypeOK, TablesTyped, Rows
<1>4. QED
  BY <1>1, <1>2, <1>3, Footprint DEF Crash

LEMMA WriteRowDurable ==
  TypeOK /\ SessionInv /\ WriteRow => posture'[target].stamp > 0
BY CycleUpserts, UpsertEffect DEF Rows

LEMMA CompletionStep ==
  TypeOK /\ SessionInv /\ CompletionInv /\ [Next]_vars => CompletionInv'
<1> SUFFICES ASSUME TypeOK, SessionInv, CompletionInv, [Next]_vars
             PROVE  CompletionInv'
  OBVIOUS
<1>0. \A d \in Days : posture[d].stamp > 0 => posture'[d].stamp > 0
  BY RowsStay
<1> USE <1>0 DEF TypeOK, CycleTyped, DataTyped, CompletionInv,
                 CompletionDurable, ReportDurable
<1>1. CASE PhaseChange
  BY <1>1 DEF PhaseChange
<1>2. CASE CooldownEnds
  BY <1>2 DEF CooldownEnds
<1>3. CASE QualityRefreshEnds
  BY <1>3 DEF QualityRefreshEnds
<1>4. ASSUME NEW s \in Symbols, RowAges(s) PROVE CompletionInv'
  BY <1>4 DEF RowAges
<1>5. ASSUME NEW s \in Symbols, PriceArrives(s) PROVE CompletionInv'
  BY <1>5 DEF PriceArrives
<1>6. ASSUME NEW s \in Symbols, QuickMetrics(s) PROVE CompletionInv'
  BY <1>6 DEF QuickMetrics
<1>7. CASE StartupSlow
  BY <1>7 DEF StartupSlow
<1>8. CASE PeriodicSlow
  BY <1>8 DEF PeriodicSlow
<1>9. ASSUME NEW o \in Owners, SlowSnapshot(o) PROVE CompletionInv'
  BY <1>9 DEF SlowSnapshot, AfterSlow, CycleFails
<1>10. ASSUME NEW o \in Owners, SlowFinish(o) PROVE CompletionInv'
  BY <1>10 DEF SlowFinish, AfterSlow, CycleFails
<1>11. ASSUME NEW o \in Owners, NEW s \in Symbols, SlowSymbol(o, s) PROVE CompletionInv'
  BY <1>11 DEF SlowSymbol
<1>12. ASSUME NEW o \in Owners, SlowSnapshotFails(o) PROVE CompletionInv'
  BY <1>12 DEF SlowSnapshotFails, CycleFails
<1>13. ASSUME NEW o \in Owners, NEW s \in Symbols, SlowSymbolFails(o, s) PROVE CompletionInv'
  BY <1>13 DEF SlowSymbolFails
<1>14. CASE RunIfDue
  BY <1>14 DEF RunIfDue
<1>15. CASE LoadPrices
  BY <1>15 DEF LoadPrices, CycleFails
<1>16. CASE Analyze
  BY <1>16 DEF Analyze
<1>17. CASE Capture
  BY <1>17 DEF Capture, CycleFails
<1>18. CASE WriteRow
  BY <1>18, WriteRowDurable DEF WriteRow
<1>19. CASE Report
  BY <1>19 DEF Report, SessionInv, CycleHasTarget
<1>20. CASE Boot
  BY <1>20 DEF Boot
<1>21. CASE AnalysisFails
  BY <1>21 DEF AnalysisFails, CycleFails
<1>22. CASE WriteFails
  BY <1>22 DEF WriteFails, CycleFails
<1>23. CASE Crash
  BY <1>23 DEF Crash, NoDay, Days
<1>24. ASSUME NEW v \in Visitors, VisitAnalyze(v) PROVE CompletionInv'
  BY <1>24 DEF VisitAnalyze
<1>25. ASSUME NEW v \in Visitors, VisitObserve(v) PROVE CompletionInv'
  BY <1>25 DEF VisitObserve
<1>26. ASSUME NEW v \in Visitors, VisitWrite(v) PROVE CompletionInv'
  BY <1>26, VisitUpserts DEF VisitWrite, SessionInv, CycleHasTarget
<1>27. ASSUME NEW v \in Visitors, VisitFails(v) PROVE CompletionInv'
  BY <1>27 DEF VisitFails
<1>28. CASE UNCHANGED vars
  BY <1>28
<1>29. QED
  BY <1>1, <1>2, <1>3, <1>4, <1>5, <1>6, <1>7, <1>8, <1>9, <1>10, <1>11,
     <1>12, <1>13, <1>14, <1>15, <1>16, <1>17, <1>18, <1>19, <1>20, <1>21,
     <1>22, <1>23, <1>24, <1>25, <1>26, <1>27, <1>28 DEF Next, SlowStep,
     CycleStep

LEMMA CompletionInvariant == Spec => []CompletionInv
<1>1. Init => CompletionInv
  BY DEF Init, CompletionInv, CompletionDurable, ReportDurable, Days, NoDay
<1>2. TypeOK /\ SessionInv /\ CompletionInv /\ [Next]_vars => CompletionInv'
  BY CompletionStep
<1>3. QED
  BY <1>1, <1>2, TypeCorrect, SessionInvariant, PTL DEF Spec

(* A session held complete, or reported as the last success, has its row.  *)
THEOREM CompletionHasRow == Spec => []CompletionDurable
<1>1. CompletionInv => CompletionDurable
  BY DEF CompletionInv
<1>2. QED
  BY <1>1, CompletionInvariant, PTL

------------------------------------------------------------------------------
(* Refinement: every step of the scheduler and its visitors is a step of   *)
(* the ledger, or leaves it alone.                                         *)

LEMMA LedgerStep ==
  TypeOK /\ SessionInv /\ CompletionInv /\ [Next]_vars =>
    [Ledger!LedgerNext]_(Ledger!ledgerVars)
<1> SUFFICES ASSUME TypeOK, SessionInv, CompletionInv, [Next]_vars
             PROVE  [Ledger!LedgerNext]_(Ledger!ledgerVars)
  OBVIOUS
<1> USE DEF Ledger!ledgerVars, Ledger!LedgerNext, Ledger!Replaces, Ledger!DoneStep
<1>1. CASE UNCHANGED <<posture, completed>>
  BY <1>1
<1>2. CASE WriteRow
  BY <1>2, CycleUpserts, UpsertEffect, WriteRowDurable
<1>3. CASE Crash
  BY <1>3 DEF Crash, NoDay
<1>4. ASSUME NEW v \in Visitors, VisitWrite(v)
      PROVE  [Ledger!LedgerNext]_(Ledger!ledgerVars)
  BY <1>4, VisitUpserts, UpsertEffect
<1>5. QED
  BY <1>1, <1>2, <1>3, <1>4, Footprint

(* The detailed specification implements the abstract record table.        *)
THEOREM RefinesLedger == Spec => ImplementsLedger
<1>1. Init => Ledger!LedgerInit
  BY DEF Init, Ledger!LedgerInit, Ledger!NoRow, NoRow, NoDay
<1>2. TypeOK /\ SessionInv /\ CompletionInv /\ [Next]_vars =>
        [Ledger!LedgerNext]_(Ledger!ledgerVars)
  BY LedgerStep
<1>3. QED
  BY <1>1, <1>2, TypeCorrect, SessionInvariant, CompletionInvariant, PTL
  DEF Spec, ImplementsLedger, Ledger!LedgerSpec

------------------------------------------------------------------------------
(* The evidence of a capture.  While the closing run works, what it has    *)
(* covered for the target session it has recomputed since prices were      *)
(* loaded, because refresh switches the write protection off.              *)

RunCovers ==
  pc = "slow" =>
    /\ run["loop"].refresh
    /\ run["loop"].todo \subseteq run["loop"].attempted
    /\ run["loop"].covered \subseteq run["loop"].attempted
    /\ run["loop"].snapshot = target => run["loop"].covered \subseteq recomputed
EvidenceInv == RunCovers /\ CaptureEvidence

(* More symbols are enough when fewer were.                                *)
LEMMA EnoughMonotone ==
  ASSUME NEW w \in SUBSET Symbols, NEW q \in SUBSET Symbols, NEW p \in SUBSET q,
         Enough(p, w)
  PROVE  Enough(q, w)
<1>1. IsFiniteSet(q) /\ IsFiniteSet(w)
  BY ConstantsAssumption, FS_Subset
<1>2. /\ Cardinality(p) \in Nat /\ Cardinality(q) \in Nat
      /\ Cardinality(p) <= Cardinality(q)
  BY <1>1, FS_Subset, FS_CardinalityType
<1>3. MinPct * Cardinality(w) \in Nat
  BY <1>1, FS_CardinalityType, ConstantsAssumption
<1>4. QED
  BY <1>2, <1>3 DEF Enough

LEMMA EvidenceKept ==
  ASSUME TypeOK, TypeOK', CaptureEvidence,
         result' = result, recomputed \subseteq recomputed',
         pc' \in {"analyze", "context", "write"} =>
           pc \in {"analyze", "context", "write"}
  PROVE  CaptureEvidence'
<1> SUFFICES ASSUME pc' \in {"analyze", "context", "write"}
             PROVE  /\ recomputed' # {}
                    /\ Enough(recomputed' \cap result.attempted, result.attempted)
  BY DEF CaptureEvidence
<1>1. /\ recomputed # {}
      /\ Enough(recomputed \cap result.attempted, result.attempted)
  BY DEF CaptureEvidence
<1>2. recomputed' \subseteq Symbols /\ result.attempted \subseteq Symbols
  BY DEF TypeOK, CycleTyped
<1>3. QED
  BY <1>1, <1>2, EnoughMonotone

(* The step at which the cycle accepts the result of its run.              *)
LEMMA EvidenceGained ==
  ASSUME TypeOK, EvidenceInv, pc = "slow", Qualifies(run["loop"]),
         result' = [attempted |-> run["loop"].attempted,
                    covered |-> run["loop"].covered],
         recomputed' = recomputed
  PROVE  CaptureEvidence'
<1>1. /\ run["loop"].attempted \subseteq Symbols
      /\ run["loop"].covered \subseteq recomputed \cap run["loop"].attempted
  BY DEF EvidenceInv, RunCovers, Qualifies, TypeOK, CycleTyped, Owners, Runs
<1>2. Enough(recomputed \cap run["loop"].attempted, run["loop"].attempted)
  BY <1>1, EnoughMonotone DEF Qualifies
<1>3. recomputed # {}
  BY <1>1 DEF Qualifies
<1>4. QED
  BY <1>2, <1>3 DEF CaptureEvidence

LEMMA RunCoversStep == TypeOK /\ RunCovers /\ [Next]_vars => RunCovers'
<1> SUFFICES ASSUME TypeOK, RunCovers, [Next]_vars PROVE RunCovers'
  OBVIOUS
<1> USE DEF TypeOK, CycleTyped, Runs, Owners
<1>1. CASE PhaseChange
  BY <1>1 DEF RunCovers, PhaseChange
<1>2. CASE CooldownEnds
  BY <1>2 DEF RunCovers, CooldownEnds
<1>3. CASE QualityRefreshEnds
  BY <1>3 DEF RunCovers, QualityRefreshEnds
<1>4. ASSUME NEW s \in Symbols, RowAges(s) PROVE RunCovers'
  BY <1>4 DEF RunCovers, RowAges
<1>5. ASSUME NEW s \in Symbols, PriceArrives(s) PROVE RunCovers'
  BY <1>5 DEF RunCovers, PriceArrives
<1>6. ASSUME NEW s \in Symbols, QuickMetrics(s) PROVE RunCovers'
  BY <1>6 DEF RunCovers, QuickMetrics, Calculate
<1>7. CASE StartupSlow
  BY <1>7 DEF RunCovers, StartupSlow, SlowStart
<1>8. CASE PeriodicSlow
  BY <1>8 DEF RunCovers, PeriodicSlow
<1>9. ASSUME NEW o \in Owners, SlowSnapshot(o) PROVE RunCovers'
  BY <1>9 DEF RunCovers, SlowSnapshot, SlowRelease, AfterSlow, CycleFails
<1>10. ASSUME NEW o \in Owners, SlowFinish(o) PROVE RunCovers'
  BY <1>10 DEF RunCovers, SlowFinish, SlowRelease, AfterSlow, CycleFails
<1>11. ASSUME NEW o \in Owners, NEW s \in Symbols, SlowSymbol(o, s) PROVE RunCovers'
  BY <1>11 DEF RunCovers, SlowSymbol, Calculate, Protected
<1>12. ASSUME NEW o \in Owners, SlowSnapshotFails(o) PROVE RunCovers'
  BY <1>12 DEF RunCovers, SlowSnapshotFails, SlowRelease, CycleFails
<1>13. ASSUME NEW o \in Owners, NEW s \in Symbols, SlowSymbolFails(o, s) PROVE RunCovers'
  BY <1>13 DEF RunCovers, SlowSymbolFails
<1>14. CASE RunIfDue
  BY <1>14 DEF RunCovers, RunIfDue
<1>15. CASE LoadPrices
  BY <1>15 DEF RunCovers, LoadPrices, SlowStart, CycleFails, PostCloseRefresh,
     NewRun, NoDay, Days
<1>16. CASE Analyze
  BY <1>16 DEF RunCovers, Analyze
<1>17. CASE Capture
  BY <1>17 DEF RunCovers, Capture, CycleFails
<1>18. CASE WriteRow
  BY <1>18 DEF RunCovers, WriteRow
<1>19. CASE Report
  BY <1>19 DEF RunCovers, Report
<1>20. CASE Boot
  BY <1>20 DEF RunCovers, Boot, NewRun, NoRun
<1>21. CASE AnalysisFails
  BY <1>21 DEF RunCovers, AnalysisFails, CycleFails
<1>22. CASE WriteFails
  BY <1>22 DEF RunCovers, WriteFails, CycleFails
<1>23. CASE Crash
  BY <1>23 DEF RunCovers, Crash
<1>24. ASSUME NEW v \in Visitors, VisitAnalyze(v) PROVE RunCovers'
  BY <1>24 DEF RunCovers, VisitAnalyze
<1>25. ASSUME NEW v \in Visitors, VisitObserve(v) PROVE RunCovers'
  BY <1>25 DEF RunCovers, VisitObserve
<1>26. ASSUME NEW v \in Visitors, VisitWrite(v) PROVE RunCovers'
  BY <1>26 DEF RunCovers, VisitWrite
<1>27. ASSUME NEW v \in Visitors, VisitFails(v) PROVE RunCovers'
  BY <1>27 DEF RunCovers, VisitFails
<1>28. CASE UNCHANGED vars
  BY <1>28 DEF RunCovers
<1>29. QED
  BY <1>1, <1>2, <1>3, <1>4, <1>5, <1>6, <1>7, <1>8, <1>9, <1>10, <1>11,
     <1>12, <1>13, <1>14, <1>15, <1>16, <1>17, <1>18, <1>19, <1>20, <1>21,
     <1>22, <1>23, <1>24, <1>25, <1>26, <1>27, <1>28 DEF Next, SlowStep,
     CycleStep

LEMMA SlowFinishEvidence ==
  ASSUME TypeOK, TypeOK', EvidenceInv, NEW o \in Owners, SlowFinish(o)
  PROVE  CaptureEvidence'
<1>1. recomputed' = recomputed
  BY DEF SlowFinish, AfterSlow
<1>2. CASE result' = result /\ (pc' = pc \/ pc' \in {"idle", "report"})
  BY <1>1, <1>2, EvidenceKept DEF EvidenceInv
<1>3. CASE /\ o = "loop" /\ pc = "slow" /\ Qualifies(run["loop"])
           /\ result' = [attempted |-> run["loop"].attempted,
                         covered |-> run["loop"].covered]
  BY <1>1, <1>3, EvidenceGained
<1>4. CASE pc' = "report"
  BY <1>4 DEF CaptureEvidence
<1>5. QED
  BY <1>2, <1>3, <1>4 DEF SlowFinish, AfterSlow, CycleFails

LEMMA SlowSnapshotEvidence ==
  ASSUME TypeOK, TypeOK', EvidenceInv, NEW o \in Owners, SlowSnapshot(o)
  PROVE  CaptureEvidence'
<1>1. CASE result' = result /\ recomputed' = recomputed /\ pc' \in {pc, "idle"}
  BY <1>1, EvidenceKept DEF EvidenceInv
<1>2. CASE pc' = "report"
  BY <1>2 DEF CaptureEvidence
<1>3. ~Qualifies(NoRun)
  BY DEF Qualifies, NoRun, NewRun
<1>4. QED
  BY <1>1, <1>2, <1>3 DEF SlowSnapshot, AfterSlow, CycleFails

LEMMA EvidenceStep == TypeOK /\ TypeOK' /\ EvidenceInv /\ [Next]_vars => CaptureEvidence'
<1> SUFFICES ASSUME TypeOK, TypeOK', EvidenceInv, [Next]_vars PROVE CaptureEvidence'
  OBVIOUS
<1> USE DEF EvidenceInv
<1>1. CASE PhaseChange
  BY <1>1, EvidenceKept DEF PhaseChange
<1>2. CASE CooldownEnds
  BY <1>2, EvidenceKept DEF CooldownEnds
<1>3. CASE QualityRefreshEnds
  BY <1>3, EvidenceKept DEF QualityRefreshEnds
<1>4. ASSUME NEW s \in Symbols, RowAges(s) PROVE CaptureEvidence'
  BY <1>4, EvidenceKept DEF RowAges
<1>5. ASSUME NEW s \in Symbols, PriceArrives(s) PROVE CaptureEvidence'
  BY <1>5, EvidenceKept DEF PriceArrives
<1>6. ASSUME NEW s \in Symbols, QuickMetrics(s) PROVE CaptureEvidence'
  BY <1>6, EvidenceKept DEF QuickMetrics, Calculate
<1>7. CASE StartupSlow
  BY <1>7, EvidenceKept DEF StartupSlow
<1>8. CASE PeriodicSlow
  BY <1>8, EvidenceKept DEF PeriodicSlow
<1>9. ASSUME NEW o \in Owners, SlowSnapshot(o) PROVE CaptureEvidence'
  BY <1>9, SlowSnapshotEvidence
<1>10. ASSUME NEW o \in Owners, SlowFinish(o) PROVE CaptureEvidence'
  BY <1>10, SlowFinishEvidence
<1>11. ASSUME NEW o \in Owners, NEW s \in Symbols, SlowSymbol(o, s) PROVE CaptureEvidence'
  BY <1>11, EvidenceKept DEF SlowSymbol, Calculate
<1>12. ASSUME NEW o \in Owners, SlowSnapshotFails(o) PROVE CaptureEvidence'
  BY <1>12, EvidenceKept DEF SlowSnapshotFails, CycleFails, CaptureEvidence
<1>13. ASSUME NEW o \in Owners, NEW s \in Symbols, SlowSymbolFails(o, s) PROVE CaptureEvidence'
  BY <1>13, EvidenceKept DEF SlowSymbolFails
<1>14. CASE RunIfDue
  BY <1>14, EvidenceKept DEF RunIfDue, CaptureEvidence
<1>15. CASE LoadPrices
  BY <1>15, EvidenceKept DEF LoadPrices, CycleFails, CaptureEvidence
<1>16. CASE Analyze
  BY <1>16, EvidenceKept DEF Analyze
<1>17. CASE Capture
  BY <1>17, EvidenceKept DEF Capture, CycleFails
<1>18. CASE WriteRow
  BY <1>18, EvidenceKept DEF WriteRow
<1>19. CASE Report
  BY <1>19, EvidenceKept DEF Report
<1>20. CASE Boot
  BY <1>20, EvidenceKept DEF Boot
<1>21. CASE AnalysisFails
  BY <1>21, EvidenceKept DEF AnalysisFails, CycleFails, CaptureEvidence
<1>22. CASE WriteFails
  BY <1>22, EvidenceKept DEF WriteFails, CycleFails, CaptureEvidence
<1>23. CASE Crash
  BY <1>23, EvidenceKept DEF Crash, CaptureEvidence
<1>24. ASSUME NEW v \in Visitors, VisitAnalyze(v) PROVE CaptureEvidence'
  BY <1>24, EvidenceKept DEF VisitAnalyze
<1>25. ASSUME NEW v \in Visitors, VisitObserve(v) PROVE CaptureEvidence'
  BY <1>25, EvidenceKept DEF VisitObserve
<1>26. ASSUME NEW v \in Visitors, VisitWrite(v) PROVE CaptureEvidence'
  BY <1>26, EvidenceKept DEF VisitWrite
<1>27. ASSUME NEW v \in Visitors, VisitFails(v) PROVE CaptureEvidence'
  BY <1>27, EvidenceKept DEF VisitFails
<1>28. CASE UNCHANGED vars
  BY <1>28, EvidenceKept
<1>29. QED
  BY <1>1, <1>2, <1>3, <1>4, <1>5, <1>6, <1>7, <1>8, <1>9, <1>10, <1>11,
     <1>12, <1>13, <1>14, <1>15, <1>16, <1>17, <1>18, <1>19, <1>20, <1>21,
     <1>22, <1>23, <1>24, <1>25, <1>26, <1>27, <1>28 DEF Next, SlowStep,
     CycleStep

(* A posture about to be stored stands on metrics the cycle recomputed     *)
(* after loading its prices, for the required share of its symbols.        *)
THEOREM EvidenceOfCapture == Spec => []CaptureEvidence
<1>1. Init => EvidenceInv
  BY DEF Init, EvidenceInv, RunCovers, CaptureEvidence
<1>2. TypeOK /\ TypeOK' /\ EvidenceInv /\ [Next]_vars => EvidenceInv'
  BY RunCoversStep, EvidenceStep DEF EvidenceInv
<1>3. EvidenceInv => CaptureEvidence
  BY DEF EvidenceInv
<1>4. QED
  BY <1>1, <1>2, <1>3, TypeCorrect, PTL DEF Spec
===============================================================================
