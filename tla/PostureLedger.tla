---------------------------- MODULE PostureLedger ----------------------------
(***************************************************************************)
(* What the table market_posture_records promises, whoever writes to it    *)
(* and whatever runs beside it: at most one row per session, rows never go *)
(* back to an earlier observation, a row the scheduler emitted was         *)
(* observed during its own session, and a session is reported done only    *)
(* when its row is there.  PostClose is shown to implement it.             *)
(***************************************************************************)
EXTENDS Naturals

CONSTANTS Sessions      \* the calendar days, as numbers from 1

VARIABLES
  ledger,   \* [Sessions -> row]; a row with stamp 0 is a session without a row
  done      \* the session the scheduler holds complete, 0 for none

ledgerVars == <<ledger, done>>

(* stamp orders the observations (recorded_at), by says who observed and   *)
(* on is the calendar day the observation was made.                        *)
NoRow == [stamp |-> 0, by |-> "nobody", on |-> 0]

LedgerInit ==
  /\ ledger = [d \in Sessions |-> NoRow]
  /\ done = 0

(* A row that may replace the row of session d: a later observation, made  *)
(* on day d itself when the scheduler is the observer.                     *)
Replaces(row, d) ==
  /\ row.stamp > ledger[d].stamp
  /\ row.by = "scheduler" => row.on = d

(* The scheduler forgets (a restart), or holds complete a session that has *)
(* a row once the step is taken.                                           *)
DoneStep ==
  \/ done' \in {0, done}
  \/ done' \in Sessions /\ ledger'[done'].stamp > 0

LedgerNext ==
  /\ \A d \in Sessions : ledger'[d] = ledger[d] \/ Replaces(ledger'[d], d)
  /\ DoneStep

LedgerSpec == LedgerInit /\ [][LedgerNext]_ledgerVars
=============================================================================
