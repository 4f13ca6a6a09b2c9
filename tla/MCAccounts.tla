------------------------------ MODULE MCAccounts ------------------------------
(* One email, not yet registered, waiting for its verification or active;   *)
(* two requests at a time, links valid for one tick.                        *)
EXTENDS Accounts

MCFirstUsers == [Emails -> {None, [state |-> "active", password |-> 0]}]
MCLimits == [registration |-> 2, login |-> 1, verification_resend |-> 2, recovery |-> 2]
===============================================================================
