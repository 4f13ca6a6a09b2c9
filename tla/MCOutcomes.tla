------------------------------ MODULE MCOutcomes ------------------------------
(* Two symbols, an outcome needing two sessions: one shows pullbacks, the   *)
(* other breakouts.  In the run of the verdicts one batch finds them and     *)
(* evaluations overlap each other and reclassifications; in the one of what *)
(* happens in the end the live feed walks them the other way round beside   *)
(* the batch, and two evaluations meet.                                     *)
EXTENDS Outcomes

MCLabelsOf == [a |-> {"entering_pullback"}, b |-> {"breakout"}]
MCBarsOf == [a |-> {"dip", "rally"}, b |-> {"rally"}]
MCOneBar == [a |-> {"rally"}, b |-> {"rally"}]
MCScanOrder == [batch |-> <<"a", "b">>, live |-> <<"b", "a">>]
MCBatch == [batch |-> <<"a", "b">>]
MCJobsOf == [slow |-> {"evaluate"}, other |-> {"evaluate", "reclassify"}]
===============================================================================
