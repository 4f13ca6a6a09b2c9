--------------------------- MODULE JournalDecisions ---------------------------
(***************************************************************************)
(* The pure part of the trading journal: how the legs of one owner in one  *)
(* symbol (DCA legs apart) are grouped into position episodes, and which   *)
(* leg stands for each episode (services/journal_decisions.py), and how a  *)
(* change of stop is named (services/journal_application.py).              *)
(*                                                                         *)
(* legs is a function from trade ids to records with an entry_date and an  *)
(* exit_date, None while the leg is held.                                  *)
(***************************************************************************)
EXTENDS Integers, FiniteSetsExt

CONSTANT None      \* the null of the database

Open(leg) == leg.exit_date = None
EndedBefore(leg, day) == ~Open(leg) /\ leg.exit_date < day

\* The order of the sweep: by entry date, then by id.
Precedes(legs, a, b) ==
  \/ legs[a].entry_date < legs[b].entry_date
  \/ legs[a].entry_date = legs[b].entry_date /\ a < b

\* Mutant: only the leg just before t has to have ended.
StartsAfterLast(legs, t) ==
  \A e \in DOMAIN legs :
    /\ Precedes(legs, e, t)
    /\ \A x \in DOMAIN legs : Precedes(legs, x, t) => x = e \/ Precedes(legs, x, e)
    => EndedBefore(legs[e], legs[t].entry_date)

\* The sweep opens an episode at t when every leg before it has ended.
StartsEpisode(legs, t) ==
  \A e \in DOMAIN legs : Precedes(legs, e, t) => EndedBefore(legs[e], legs[t].entry_date)

\* The leg that opened the episode of t.
EpisodeStart(legs, t) ==
  CHOOSE s \in DOMAIN legs :
    /\ StartsEpisode(legs, s)
    /\ s = t \/ Precedes(legs, s, t)
    /\ \A x \in DOMAIN legs :
         StartsEpisode(legs, x) /\ Precedes(legs, s, x) => Precedes(legs, t, x)

Episode(legs, t) ==
  { e \in DOMAIN legs : EpisodeStart(legs, e) = EpisodeStart(legs, t) }

\* The oldest leg still held, or the oldest leg of an episode all closed.
Representative(legs, t) ==
  LET held == { e \in Episode(legs, t) : Open(legs[e]) }
  IN  Min(IF held # {} THEN held ELSE Episode(legs, t))

\* parent_trade_id of each leg; None marks the representative.
AssignDecisionLinks(legs) ==
  [t \in DOMAIN legs |-> LET rep == Representative(legs, t)
                         IN  IF rep = t THEN None ELSE rep]

-----------------------------------------------------------------------------
(* Stop changes.  None: nothing changed. *)

StopChanges == {"initial", "removed", "moved_to_be", "trailed_up", "widened"}

ClassifyStopChange(old, new, entry_price) ==
  IF old = new THEN None
  ELSE IF old = None THEN "initial"
  ELSE IF new = None THEN "removed"
  ELSE IF new >= entry_price THEN "moved_to_be"
  ELSE IF new > old THEN "trailed_up" ELSE "widened"
=============================================================================
