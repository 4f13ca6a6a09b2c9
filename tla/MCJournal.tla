------------------------------ MODULE MCJournal ------------------------------
(* Small instances of Journal.  Entries are at 2, so that a stop of 1 is   *)
(* below entry, one of 2 at break-even, and an exit of 3 a win.            *)
EXTENDS JournalScore

Just(field, value) == [f \in {field} |-> value]

\* Move the stop, to break-even too, take it away, reopen the trade.
MCPatches == { Just("stop_price", 1), Just("stop_price", 2), Just("stop_price", None),
               Just("exit_date", None) }

\* Move the stop to break-even.
MCTrails == { Just("stop_price", 2) }

\* Correct a purchase, reopen a trade, end it without closing it.
MCCorrections == { Just("entry_date", 1), Just("qty", 1), Just("exit_date", None),
                   Just("exit_date", 2) }

MCSymmetry == Permutations(Clients)
=============================================================================
