--------------------------- MODULE MCSchedulerLoop ---------------------------
(* A small instance of SchedulerLoop: a unit stands for five minutes, the  *)
(* intervals keep the order they have in the code, and the session is      *)
(* short.  The clock jumps further than an iteration lasts.                *)
EXTENDS SchedulerLoop

MCInterval == [quality |-> 1, price |-> 3, fast |-> 1, slow |-> 5, discovery |-> 2,
               cycle |-> 1, nightly |-> 12]
MCMarketHours == 3 .. 14
=============================================================================
