------------------------------ MODULE MCPosture ------------------------------
(* The code's thresholds per mille over a short window: one session of      *)
(* lookback, four classified days, a confirmation of two, one session of    *)
(* retention.                                                               *)
EXTENDS Posture

MCT ==
  [ defensive_breadth_entry |-> 400, defensive_breadth_exit |-> 430,
    defensive_leaders_entry |-> 50, defensive_leaders_exit |-> 60,
    normal_breadth_entry |-> 600, normal_breadth_exit |-> 550,
    normal_leaders_entry |-> 100, normal_leaders_exit |-> 80,
    normal_confirmation_days |-> 2,
    aggressive_breadth_entry |-> 700, aggressive_breadth_exit |-> 650,
    aggressive_leaders_entry |-> 150, aggressive_leaders_exit |-> 120,
    exceptional_breadth_entry |-> 650, exceptional_breadth_delta |-> 200,
    exceptional_leaders_entry |-> 120, exceptional_leaders_delta_pct |-> 50,
    exceptional_retention_sessions |-> 1 ]

Of(breadth, leaders, high) ==
  [ universe |-> TRUE, breadth |-> breadth, leaders |-> leaders, extended |-> FALSE,
    index_bullish |-> breadth > 500, index_above_ema200 |-> breadth > 400,
    index_new_high |-> high ]

\* A low session, one between the defensive bands, one inside the normal band,
\* entry quality, a strong new high, one without data.
MCSessions ==
  { Of(300, 40, FALSE), Of(420, 95, FALSE), Of(560, 110, FALSE),
    Of(620, 120, FALSE), Of(720, 160, TRUE),
    [Of(0, 0, FALSE) EXCEPT !.universe = FALSE] }
\* Every session has its universe: only the moving window makes a difference.
MCFullSessions == { r \in MCSessions : r.universe }

MCBacks == {1, 2}
===============================================================================
