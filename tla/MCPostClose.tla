----------------------------- MODULE MCPostClose -----------------------------
(* Small instances of PostClose.  The safety run ends on a market holiday  *)
(* that the scheduler takes for a session; the liveness run starts on one, *)
(* so that its last day has a session to capture.                          *)
EXTENDS PostClose, TLC

MCWeekdays == {1, 2}
MCFirstDay == {1}
MCSecondDay == {2}
MCSymmetry == Permutations(Symbols)
=============================================================================
