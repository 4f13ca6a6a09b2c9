---------------------------- MODULE Journal_proofs ----------------------------
(***************************************************************************)
(* Proofs about Journal, for any number of requests, trades, dates, prices *)
(* and quantities and any set of patches: types, locks, outcomes, plans,   *)
(* the shares of a purchase, the log of the stops and the first stop; and, *)
(* for one request at a time, that decisions are what was held unbroken.   *)
(***************************************************************************)
EXTENDS Journal, Induction_proofs, SequenceTheorems

USE DEF vars

-----------------------------------------------------------------------------
(* What the operators return. *)

\* A set of naturals that is not empty has a least element, and Min is one.
LEMMA MinExists ==
  ASSUME NEW S, S \subseteq Nat, S # {}
  PROVE  Min(S) \in S
<1>1. PICK x \in S : \A y \in S : x <= y
  BY SmallestMember
<1>. QED  BY <1>1 DEF Min

\* Every link computed for a set of legs names one of them, or none.
LEMMA LinksTyped ==
  ASSUME NEW legs, DOMAIN legs \subseteq Nat, NEW t \in DOMAIN legs
  PROVE  AssignDecisionLinks(legs)[t] \in DOMAIN legs \cup {None}
<1>1. t \in Episode(legs, t) /\ Episode(legs, t) \subseteq DOMAIN legs
  BY DEF Episode
<1> DEFINE held == { e \in Episode(legs, t) : Open(legs[e]) }
<1>2. Min(Episode(legs, t)) \in DOMAIN legs
  BY <1>1, MinExists
<1>3. held # {} => Min(held) \in DOMAIN legs
  BY <1>1, MinExists
<1>4. Representative(legs, t) \in DOMAIN legs
  BY <1>2, <1>3 DEF Representative
<1>5. QED
  BY <1>4 DEF AssignDecisionLinks

LEMMA OutcomesTyped ==
  ASSUME NEW row \in Trade
  PROVE  ComputeOutcomes(row) \in Trade
<1> USE JournalAssumption
<1>1. CASE ~Closed(row)
  BY <1>1 DEF ComputeOutcomes
<1>2. CASE Closed(row)
  <2>1. row.exit_price \in Int /\ row.entry_price \in Int /\ row.qty \in Int
    BY <1>2 DEF Closed, Trade
  <2>2. PnL(row) \in Int
    BY <2>1 DEF PnL
  <2>3. AtRisk(row) => RMultiple(row.exit_price, row.entry_price, StopForR(row)) \in Int \X Int
    BY <2>1 DEF AtRisk, StopForR, RMultiple, Trade
  <2>4. \A p \in Int, r \in (Int \X Int) \cup {None} :
          [row EXCEPT !.pnl_dollars = p, !.r_multiple = r] \in Trade
    BY DEF Trade
  <2>5. row.r_multiple \in (Int \X Int) \cup {None}
    BY DEF Trade
  <2>6. QED
    BY <1>2, <2>2, <2>3, <2>4, <2>5 DEF ComputeOutcomes
<1>3. QED
  BY <1>1, <1>2

\* What _compute_outcomes leaves is current, whatever the row was.
LEMMA OutcomesOfRow ==
  ASSUME NEW row \in Trade, Measured(row)
  PROVE  OutcomeIsCurrent(ComputeOutcomes(row))
<1>1. CASE ~Closed(row)
  BY <1>1 DEF OutcomeIsCurrent, ComputeOutcomes
<1>2. CASE Closed(row)
  <2>. DEFINE r == IF AtRisk(row) THEN RMultiple(row.exit_price, row.entry_price, StopForR(row))
                   ELSE row.r_multiple
              new == ComputeOutcomes(row)
  <2>1. new = [row EXCEPT !.pnl_dollars = PnL(row), !.r_multiple = r]
    BY <1>2 DEF ComputeOutcomes
  <2>2. new.r_multiple = r /\ new.pnl_dollars = PnL(row)
    BY <2>1 DEF Trade
  <2>3. PnL(new) = PnL(row) /\ StopForR(new) = StopForR(row) /\ (AtRisk(new) <=> AtRisk(row))
        /\ new.exit_price = row.exit_price /\ new.entry_price = row.entry_price
    BY <2>1 DEF PnL, AtRisk, StopForR, Trade
  <2>4. r # None => r[2] > 0
    <3>1. CASE AtRisk(row)
      <4>1. StopForR(row) \in Stops /\ row.entry_price \in Int
        BY <3>1, JournalAssumption DEF AtRisk, StopForR, Trade
      <4>2. row.entry_price - StopForR(row) > 0
        BY <3>1, <4>1, JournalAssumption DEF AtRisk
      <4>. QED  BY <3>1, <4>2 DEF RMultiple
    <3>2. CASE ~AtRisk(row)
      BY <3>2 DEF Measured
    <3>. QED  BY <3>1, <3>2
  <2>. HIDE DEF r, new
  <2>5. AtRisk(row) => r = RMultiple(row.exit_price, row.entry_price, StopForR(row))
    BY DEF r
  <2>6. OutcomeIsCurrent(new)
    BY <2>2, <2>3, <2>4, <2>5 DEF OutcomeIsCurrent, Measured
  <2>. QED  BY <2>6 DEF new
<1>. QED  BY <1>1, <1>2

LEMMA ChunkTyped ==
  ASSUME NEW t \in Ids, NEW row \in Trade, NEW qty \in Quantities,
         NEW date \in Dates, NEW price \in ExitPrices
  PROVE  Chunk(t, row, qty, date, price) \in Trade
  BY JournalAssumption, OutcomesTyped DEF Chunk, Trade

LEMMA PatchedTyped ==
  ASSUME NEW row \in Trade, NEW u \in Patches
  PROVE  Patched(row, u) \in Trade
  BY JournalAssumption DEF Patched, Updated, InitialStop, Trade

LEMMA UpdatedQty ==
  ASSUME NEW row \in Trade, NEW u \in Patches
  PROVE  Updated(row, u, "qty") \in Int
<1>1. CASE "qty" \in DOMAIN u
  <2>1. u["qty"] \in Quantities
    BY <1>1, JournalAssumption, Zenon
  <2>2. Quantities \subseteq Int
    BY JournalAssumption
  <2>3. Updated(row, u, "qty") = u["qty"]
    BY <1>1, Zenon DEF Updated
  <2>4. QED
    BY <2>1, <2>2, <2>3, Zenon
<1>2. CASE "qty" \notin DOMAIN u
  BY <1>2 DEF Updated, Trade
<1>3. QED
  BY <1>1, <1>2

LEMMA RecordedTyped ==
  ASSUME NEW row \in Trade, NEW u \in Patches
  PROVE  Recorded(row, u) \in Seq(Event)
<1> DEFINE new == Patched(row, u)
           kind == ClassifyStopChange(row.stop_price, new.stop_price, new.entry_price)
<1>1. row.stop_price \in Stops \cup {None} /\ new.stop_price \in Stops \cup {None}
  BY PatchedTyped DEF Trade
<1>2. kind \in {None, "initial", "removed", "moved_to_be", "trailed_up", "widened"}
  BY DEF ClassifyStopChange
<1>3. kind # None => StopEvent(row.stop_price, new.stop_price, kind) \in Event
  BY <1>1, <1>2 DEF StopEvent, Event, StopChanges
<1>4. QED
  BY <1>3 DEF Recorded

-----------------------------------------------------------------------------
(* Types *)

LEMMA RequestBusy ==
  ASSUME RequestsTyped, NEW c \in Clients, req[c].op # "idle"
  PROVE  /\ req[c].id \in Ids /\ req[c].row \in Trade
         /\ req[c].links \in [Ids -> Ids \cup {Keep, None}]
  BY DEF RequestsTyped, Request, Idle

LEMMA TradesStep == TradesTyped /\ RequestsTyped /\ [Next]_vars => TradesTyped'
<1> SUFFICES ASSUME TradesTyped, RequestsTyped, [Next]_vars PROVE TradesTyped'
  OBVIOUS
<1> USE JournalAssumption
<1>1. ASSUME NEW c \in Clients, Insert(c) PROVE TradesTyped'
  BY <1>1 DEF Insert, TradesTyped, Ids
<1>2. ASSUME NEW c \in Clients, Link(c) PROVE TradesTyped'
  BY <1>2 DEF Link, TradesTyped, Ids
<1>3. ASSUME NEW c \in Clients, CommitTrade(c) PROVE TradesTyped'
  <2>1. req[c].op # "idle" /\ req[c].id \in Ids /\ req[c].row \in Trade
    BY <1>3, RequestBusy DEF CommitTrade
  <2>2. \A t \in Relinked(c) \ Orphaned(c) : trade[t] \in Trade /\ req[c].links[t] \in Ids \cup {None}
    BY <2>1, RequestBusy DEF Relinked, Orphaned, Rows, TradesTyped
  <2>3. \A row \in Trade, p \in Ids \cup {None} : [row EXCEPT !.parent_trade_id = p] \in Trade
    BY DEF Trade
  <2>4. QED
    BY <1>3, <2>1, <2>2, <2>3 DEF CommitTrade, TradesTyped
<1>4. ASSUME NEW c \in Clients, LogInitialStop(c) PROVE TradesTyped'
  BY <1>4 DEF LogInitialStop, TradesTyped, Ids
<1>5. ASSUME NEW c \in Clients, Abort(c) PROVE TradesTyped'
  BY <1>5 DEF Abort, TradesTyped, Ids
<1>6. ASSUME NEW c \in Clients, Lock(c) PROVE TradesTyped'
  BY <1>6 DEF Lock, TradesTyped, Ids
<1>7. ASSUME NEW c \in Clients, PartialClose(c) PROVE TradesTyped'
  <2>1. req[c].op # "idle" /\ req[c].id \in Ids /\ req[c].row \in Trade
    BY <1>7, RequestBusy DEF PartialClose
  <2>2. ASSUME NEW qty \in Quantities, IsPartial(req[c].row, qty)
        PROVE  [req[c].row EXCEPT !.qty = req[c].row.qty - qty] \in Trade
    BY <2>1, <2>2 DEF IsPartial, Trade
  <2>3. QED
    BY <1>7, <2>1, <2>2, ChunkTyped DEF PartialClose, TradesTyped, Ids
<1>8. ASSUME NEW c \in Clients, FullClose(c) PROVE TradesTyped'
  <2>1. req[c].op # "idle" /\ req[c].id \in Ids /\ req[c].row \in Trade
    BY <1>8, RequestBusy DEF FullClose
  <2>2. ASSUME NEW date \in Dates, NEW price \in ExitPrices
        PROVE  [req[c].row EXCEPT !.exit_date = date, !.exit_price = price] \in Trade
    BY <2>1 DEF Trade
  <2>3. PICK date \in Dates, price \in ExitPrices :
          trade' = [trade EXCEPT ![req[c].id] = ComputeOutcomes(
                      [req[c].row EXCEPT !.exit_date = date, !.exit_price = price])]
    BY <1>8 DEF FullClose
  <2>4. ComputeOutcomes([req[c].row EXCEPT !.exit_date = date, !.exit_price = price]) \in Trade
    BY <2>2, OutcomesTyped
  <2>5. QED
    BY <1>8, <2>1, <2>3, <2>4 DEF FullClose, TradesTyped
<1>9. ASSUME NEW c \in Clients, Patch(c) PROVE TradesTyped'
  <2>1. req[c].op # "idle" /\ req[c].id \in Ids /\ req[c].row \in Trade
    BY <1>9, RequestBusy DEF Patch
  <2>2. QED
    BY <1>9, <2>1, PatchedTyped, OutcomesTyped DEF Patch, TradesTyped
<1>10. ASSUME NEW c \in Clients, Delete(c) PROVE TradesTyped'
  BY <1>10 DEF Delete, TradesTyped, Rows
<1>11. CASE UNCHANGED vars
  BY <1>11 DEF TradesTyped
<1>12. QED
  BY <1>1, <1>2, <1>3, <1>4, <1>5, <1>6, <1>7, <1>8, <1>9, <1>10, <1>11 DEF Next

LEMMA RequestsStep == RequestsTyped /\ TradesTyped /\ [Next]_vars => RequestsTyped'
<1> SUFFICES ASSUME RequestsTyped, TradesTyped, [Next]_vars PROVE RequestsTyped'
  OBVIOUS
<1> USE JournalAssumption
<1>1. ASSUME NEW c \in Clients, Insert(c) PROVE RequestsTyped'
  <2>1. NoLinks \in [Ids -> Ids \cup {Keep, None}]
    BY DEF NoLinks
  <2>2. \A date \in Dates, price \in EntryPrices, qty \in Quantities, stop \in Stops \cup {None} :
          NewTrade(date, price, qty, stop) \in Trade
    BY DEF NewTrade, Trade
  <2>3. QED
    BY <1>1, <2>1, <2>2 DEF Insert, RequestsTyped, Request
<1>2. ASSUME NEW c \in Clients, Link(c) PROVE RequestsTyped'
  <2>1. req[c].op # "idle" /\ req[c].id \in Ids /\ req[c].row \in Trade
    BY <1>2, RequestBusy DEF Link
  <2> DEFINE legs == Visible(c)
             target == AssignDecisionLinks(legs)
  <2>2. DOMAIN legs = Rows \cup {req[c].id} /\ DOMAIN legs \subseteq Ids
    BY <2>1 DEF Visible, Rows
  <2>3. \A t \in DOMAIN legs : target[t] \in Ids \cup {None}
    BY <2>2, LinksTyped DEF Ids
  <2>4. [req[c].row EXCEPT !.parent_trade_id = target[req[c].id]] \in Trade
    <3>1. target[req[c].id] \in Ids \cup {None}
      BY <2>2, <2>3
    <3>2. QED
      BY <2>1, <3>1 DEF Trade
  <2>5. [t \in Ids |-> IF t \in Rows /\ target[t] # trade[t].parent_trade_id
                       THEN target[t] ELSE Keep] \in [Ids -> Ids \cup {Keep, None}]
    BY <2>2, <2>3
  <2>6. QED
    BY <1>2, <2>1, <2>4, <2>5 DEF Link, RequestsTyped, Request
<1>3. ASSUME NEW c \in Clients, CommitTrade(c) PROVE RequestsTyped'
  <2>1. NoLinks \in [Ids -> Ids \cup {Keep, None}]
    BY DEF NoLinks
  <2>2. req[c].op # "idle" /\ req[c].id \in Ids /\ req[c].row \in Trade
    BY <1>3, RequestBusy DEF CommitTrade
  <2>3. QED
    BY <1>3, <2>1, <2>2 DEF CommitTrade, RequestsTyped, Request
<1>4. ASSUME NEW c \in Clients, LogInitialStop(c) PROVE RequestsTyped'
  BY <1>4 DEF LogInitialStop, RequestsTyped, Request
<1>5. ASSUME NEW c \in Clients, Abort(c) PROVE RequestsTyped'
  BY <1>5 DEF Abort, RequestsTyped, Request
<1>6. ASSUME NEW c \in Clients, Lock(c) PROVE RequestsTyped'
  <2>1. NoLinks \in [Ids -> Ids \cup {Keep, None}]
    BY DEF NoLinks
  <2>2. QED
    BY <1>6, <2>1 DEF Lock, RequestsTyped, Request, TradesTyped, Rows
<1>7. ASSUME NEW c \in Clients, PartialClose(c) PROVE RequestsTyped'
  BY <1>7 DEF PartialClose, RequestsTyped, Request
<1>8. ASSUME NEW c \in Clients, FullClose(c) PROVE RequestsTyped'
  BY <1>8 DEF FullClose, RequestsTyped, Request
<1>9. ASSUME NEW c \in Clients, Patch(c) PROVE RequestsTyped'
  BY <1>9 DEF Patch, RequestsTyped, Request
<1>10. ASSUME NEW c \in Clients, Delete(c) PROVE RequestsTyped'
  BY <1>10 DEF Delete, RequestsTyped, Request
<1>11. CASE UNCHANGED vars
  BY <1>11 DEF RequestsTyped
<1>12. QED
  BY <1>1, <1>2, <1>3, <1>4, <1>5, <1>6, <1>7, <1>8, <1>9, <1>10, <1>11 DEF Next

LEMMA EventsStep == EventsTyped /\ RequestsTyped /\ [Next]_vars => EventsTyped'
<1> SUFFICES ASSUME EventsTyped, RequestsTyped, [Next]_vars PROVE EventsTyped'
  OBVIOUS
<1> USE JournalAssumption
<1>1. ASSUME NEW c \in Clients, Insert(c) PROVE EventsTyped'
  BY <1>1 DEF Insert, EventsTyped
<1>2. ASSUME NEW c \in Clients, Link(c) PROVE EventsTyped'
  BY <1>2 DEF Link, EventsTyped
<1>3. ASSUME NEW c \in Clients, CommitTrade(c) PROVE EventsTyped'
  BY <1>3 DEF CommitTrade, EventsTyped
<1>4. ASSUME NEW c \in Clients, LogInitialStop(c) PROVE EventsTyped'
  <2>1. req[c].op # "idle" /\ req[c].id \in Ids /\ req[c].row \in Trade
    BY <1>4, RequestBusy DEF LogInitialStop
  <2>2. StopEvent(None, req[c].row.stop_price, "initial") \in Event
    BY <2>1 DEF StopEvent, Event, StopChanges, Trade
  <2>3. QED
    BY <1>4, <2>1, <2>2 DEF LogInitialStop, EventsTyped
<1>5. ASSUME NEW c \in Clients, Abort(c) PROVE EventsTyped'
  BY <1>5 DEF Abort, EventsTyped
<1>6. ASSUME NEW c \in Clients, Lock(c) PROVE EventsTyped'
  BY <1>6 DEF Lock, EventsTyped
<1>7. ASSUME NEW c \in Clients, PartialClose(c) PROVE EventsTyped'
  BY <1>7 DEF PartialClose, EventsTyped
<1>8. ASSUME NEW c \in Clients, FullClose(c) PROVE EventsTyped'
  BY <1>8 DEF FullClose, EventsTyped
<1>9. ASSUME NEW c \in Clients, Patch(c) PROVE EventsTyped'
  <2>1. req[c].op # "idle" /\ req[c].id \in Ids /\ req[c].row \in Trade
    BY <1>9, RequestBusy DEF Patch
  <2>2. \A u \in Patches : events[req[c].id] \o Recorded(req[c].row, u) \in Seq(Event)
    BY <2>1, RecordedTyped DEF EventsTyped
  <2>3. QED
    BY <1>9, <2>1, <2>2 DEF Patch, EventsTyped
<1>10. ASSUME NEW c \in Clients, Delete(c) PROVE EventsTyped'
  <2>1. <<>> \in Seq(Event)
    OBVIOUS
  <2>2. QED
    BY <1>10, <2>1 DEF Delete, EventsTyped
<1>11. CASE UNCHANGED vars
  BY <1>11 DEF EventsTyped
<1>12. QED
  BY <1>1, <1>2, <1>3, <1>4, <1>5, <1>6, <1>7, <1>8, <1>9, <1>10, <1>11 DEF Next

LEMMA HistoryStep == HistoryTyped /\ TradesTyped /\ RequestsTyped /\ [Next]_vars => HistoryTyped'
<1> SUFFICES ASSUME HistoryTyped, TradesTyped, RequestsTyped, [Next]_vars PROVE HistoryTyped'
  OBVIOUS
<1> USE JournalAssumption
<1>1. ASSUME NEW c \in Clients, Insert(c) PROVE HistoryTyped'
  BY <1>1 DEF Insert, HistoryTyped
<1>2. ASSUME NEW c \in Clients, Link(c) PROVE HistoryTyped'
  BY <1>2 DEF Link, HistoryTyped
<1>3. ASSUME NEW c \in Clients, CommitTrade(c) PROVE HistoryTyped'
  <2>1. req[c].op # "idle" /\ req[c].id \in Ids /\ req[c].row \in Trade
    BY <1>3, RequestBusy DEF CommitTrade
  <2>2. req[c].row.stop_price \in Stops \cup {None} /\ req[c].row.qty \in Int
    BY <2>1 DEF Trade
  <2>3. QED
    BY <1>3, <2>1, <2>2 DEF CommitTrade, HistoryTyped
<1>4. ASSUME NEW c \in Clients, LogInitialStop(c) PROVE HistoryTyped'
  BY <1>4 DEF LogInitialStop, HistoryTyped
<1>5. ASSUME NEW c \in Clients, Abort(c) PROVE HistoryTyped'
  BY <1>5, RequestBusy DEF Abort, HistoryTyped
<1>6. ASSUME NEW c \in Clients, Lock(c) PROVE HistoryTyped'
  BY <1>6 DEF Lock, HistoryTyped
<1>7. ASSUME NEW c \in Clients, PartialClose(c) PROVE HistoryTyped'
  <2>1. req[c].op # "idle" /\ req[c].id \in Ids /\ req[c].row \in Trade
    BY <1>7, RequestBusy DEF PartialClose
  <2>2. ASSUME NEW qty \in Quantities, NEW date \in Dates, NEW price \in ExitPrices
        PROVE  Chunk(req[c].id, req[c].row, qty, date, price).stop_price \in Stops \cup {None}
    BY <2>1, ChunkTyped DEF Trade
  <2>3. QED
    BY <1>7, <2>1, <2>2 DEF PartialClose, HistoryTyped
<1>8. ASSUME NEW c \in Clients, FullClose(c) PROVE HistoryTyped'
  BY <1>8 DEF FullClose, HistoryTyped
<1>9. ASSUME NEW c \in Clients, Patch(c) PROVE HistoryTyped'
  <2>1. req[c].op # "idle" /\ req[c].id \in Ids /\ req[c].row \in Trade
    BY <1>9, RequestBusy DEF Patch
  <2>2. req[c].row.qty \in Int
    BY <2>1 DEF Trade
  <2>3. \A u \in Patches : Updated(req[c].row, u, "qty") \in Int
    BY <2>1, UpdatedQty
  <2>4. QED
    BY <1>9, <2>1, <2>2, <2>3 DEF Patch, HistoryTyped
<1>10. ASSUME NEW c \in Clients, Delete(c) PROVE HistoryTyped'
  <2>1. \A t \in Rows : trade[t].qty \in Int
    BY DEF Rows, TradesTyped, Trade
  <2>2. QED
    BY <1>10, <2>1 DEF Delete, HistoryTyped, Rows
<1>11. CASE UNCHANGED vars
  BY <1>11 DEF HistoryTyped
<1>12. QED
  BY <1>1, <1>2, <1>3, <1>4, <1>5, <1>6, <1>7, <1>8, <1>9, <1>10, <1>11 DEF Next

\* Rows, requests, logs and links keep their types, whatever the requests
\* interleave: in particular no close leaves an open trade without shares,
\* and every link that is stored is a trade id or null.
THEOREM TypeCorrect == Spec => []TypeOK
<1>1. Init => TypeOK
  <2>1. Init => TradesTyped /\ EventsTyped /\ HistoryTyped
    BY JournalAssumption DEF Init, TradesTyped, EventsTyped, HistoryTyped, Ids
  <2>2. Init => RequestsTyped
    BY DEF Init, RequestsTyped, Request
  <2>3. QED
    BY <2>1, <2>2 DEF TypeOK
<1>2. TypeOK /\ [Next]_vars => TypeOK'
  BY TradesStep, RequestsStep, EventsStep, HistoryStep DEF TypeOK
<1>3. QED
  BY <1>1, <1>2, PTL DEF Spec

-----------------------------------------------------------------------------
(* Outcomes *)

\* A purchase that is not committed has no exit.
PendingOpen == \A c \in Clients : req[c].op \in {"insert", "link"} => Open(req[c].row)

LEMMA PendingStep == PendingOpen /\ RequestsTyped /\ [Next]_vars => PendingOpen'
<1> SUFFICES ASSUME PendingOpen, RequestsTyped, [Next]_vars PROVE PendingOpen'
  OBVIOUS
<1> USE JournalAssumption
<1>1. ASSUME NEW c \in Clients, Insert(c) PROVE PendingOpen'
  BY <1>1 DEF Insert, PendingOpen, RequestsTyped, NewTrade, Open
<1>2. ASSUME NEW c \in Clients, Link(c) PROVE PendingOpen'
  <2>1. req[c].op # "idle" /\ req[c].row \in Trade /\ Open(req[c].row)
    BY <1>2, RequestBusy DEF Link, PendingOpen
  <2>2. \A p : Open([req[c].row EXCEPT !.parent_trade_id = p])
    BY <2>1 DEF Open, Trade
  <2>3. QED
    BY <1>2, <2>2 DEF Link, PendingOpen, RequestsTyped
<1>3. ASSUME NEW c \in Clients, CommitTrade(c) PROVE PendingOpen'
  BY <1>3 DEF CommitTrade, PendingOpen, RequestsTyped, Idle
<1>4. ASSUME NEW c \in Clients, LogInitialStop(c) PROVE PendingOpen'
  BY <1>4 DEF LogInitialStop, PendingOpen, RequestsTyped, Idle
<1>5. ASSUME NEW c \in Clients, Abort(c) PROVE PendingOpen'
  BY <1>5 DEF Abort, PendingOpen, RequestsTyped, Idle
<1>6. ASSUME NEW c \in Clients, Lock(c) PROVE PendingOpen'
  BY <1>6 DEF Lock, PendingOpen, RequestsTyped, Idle
<1>7. ASSUME NEW c \in Clients, PartialClose(c) PROVE PendingOpen'
  BY <1>7 DEF PartialClose, PendingOpen, RequestsTyped, Idle
<1>8. ASSUME NEW c \in Clients, FullClose(c) PROVE PendingOpen'
  BY <1>8 DEF FullClose, PendingOpen, RequestsTyped, Idle
<1>9. ASSUME NEW c \in Clients, Patch(c) PROVE PendingOpen'
  BY <1>9 DEF Patch, PendingOpen, RequestsTyped, Idle
<1>10. ASSUME NEW c \in Clients, Delete(c) PROVE PendingOpen'
  BY <1>10 DEF Delete, PendingOpen, RequestsTyped, Idle
<1>11. CASE UNCHANGED vars
  BY <1>11 DEF PendingOpen
<1>12. QED
  BY <1>1, <1>2, <1>3, <1>4, <1>5, <1>6, <1>7, <1>8, <1>9, <1>10, <1>11 DEF Next

\* A row without exit has no outcome to be current, and the link of a row
\* is no part of its outcome.
LEMMA OpenIsCurrent ==
  ASSUME NEW row, Open(row), Measured(row) PROVE OutcomeIsCurrent(row)
  BY DEF Open, Closed, OutcomeIsCurrent

LEMMA LinkIsNoOutcome ==
  ASSUME NEW row \in Trade, NEW p, OutcomeIsCurrent(row)
  PROVE  OutcomeIsCurrent([row EXCEPT !.parent_trade_id = p])
  BY DEF OutcomeIsCurrent, Measured, Closed, PnL, AtRisk, RMultiple, StopForR, Trade

\* The row a request works on has an R over a risk, as its copy in the table.
PendingMeasured == \A c \in Clients : req[c].op # "idle" => Measured(req[c].row)

LEMMA MeasuredStep == PendingMeasured /\ OutcomesCurrent /\ RequestsTyped /\ [Next]_vars => PendingMeasured'
<1> SUFFICES ASSUME PendingMeasured, OutcomesCurrent, RequestsTyped, [Next]_vars PROVE PendingMeasured'
  OBVIOUS
<1>1. ASSUME NEW c \in Clients, Insert(c) PROVE PendingMeasured'
  <2>1. \A date, price, qty, stop : Measured(NewTrade(date, price, qty, stop))
    BY DEF NewTrade, Measured
  <2>. QED  BY <1>1, <2>1 DEF Insert, PendingMeasured, RequestsTyped
<1>2. ASSUME NEW c \in Clients, Link(c) PROVE PendingMeasured'
  <2>1. req[c].row \in Trade /\ Measured(req[c].row)
    BY <1>2, RequestBusy DEF Link, PendingMeasured
  <2>2. \A p : Measured([req[c].row EXCEPT !.parent_trade_id = p])
    BY <2>1 DEF Measured, Trade
  <2>. QED  BY <1>2, <2>2 DEF Link, PendingMeasured, RequestsTyped
<1>3. ASSUME NEW c \in Clients, CommitTrade(c) PROVE PendingMeasured'
  BY <1>3 DEF CommitTrade, PendingMeasured, RequestsTyped, Idle
<1>4. ASSUME NEW c \in Clients, LogInitialStop(c) PROVE PendingMeasured'
  BY <1>4 DEF LogInitialStop, PendingMeasured, RequestsTyped, Idle
<1>5. ASSUME NEW c \in Clients, Abort(c) PROVE PendingMeasured'
  BY <1>5 DEF Abort, PendingMeasured, RequestsTyped, Idle
<1>6. ASSUME NEW c \in Clients, Lock(c) PROVE PendingMeasured'
  <2>1. \A t \in Rows : Measured(trade[t])
    BY DEF OutcomesCurrent, OutcomeIsCurrent
  <2>. QED  BY <1>6, <2>1 DEF Lock, PendingMeasured, RequestsTyped
<1>7. ASSUME NEW c \in Clients, PartialClose(c) PROVE PendingMeasured'
  BY <1>7 DEF PartialClose, PendingMeasured, RequestsTyped, Idle
<1>8. ASSUME NEW c \in Clients, FullClose(c) PROVE PendingMeasured'
  BY <1>8 DEF FullClose, PendingMeasured, RequestsTyped, Idle
<1>9. ASSUME NEW c \in Clients, Patch(c) PROVE PendingMeasured'
  BY <1>9 DEF Patch, PendingMeasured, RequestsTyped, Idle
<1>10. ASSUME NEW c \in Clients, Delete(c) PROVE PendingMeasured'
  BY <1>10 DEF Delete, PendingMeasured
<1>11. CASE UNCHANGED vars
  BY <1>11 DEF vars, PendingMeasured
<1>12. QED
  BY <1>1, <1>2, <1>3, <1>4, <1>5, <1>6, <1>7, <1>8, <1>9, <1>10, <1>11 DEF Next

LEMMA OutcomesStep == OutcomesCurrent /\ TradesTyped /\ RequestsTyped /\ PendingOpen /\ PendingMeasured /\ [Next]_vars => OutcomesCurrent'
<1> SUFFICES ASSUME OutcomesCurrent, TradesTyped, RequestsTyped, PendingOpen, PendingMeasured, [Next]_vars PROVE OutcomesCurrent'
  OBVIOUS
<1> USE JournalAssumption
<1>1. ASSUME NEW c \in Clients, Insert(c) PROVE OutcomesCurrent'
  BY <1>1 DEF Insert, OutcomesCurrent, Rows, TradesTyped
<1>2. ASSUME NEW c \in Clients, Link(c) PROVE OutcomesCurrent'
  BY <1>2 DEF Link, OutcomesCurrent, Rows, TradesTyped
<1>3. ASSUME NEW c \in Clients, CommitTrade(c) PROVE OutcomesCurrent'
  <2>1. OutcomeIsCurrent(req[c].row)
    BY <1>3, OpenIsCurrent DEF CommitTrade, PendingOpen, PendingMeasured
  <2>2. ASSUME NEW t \in Relinked(c) \ Orphaned(c)
        PROVE  OutcomeIsCurrent([trade[t] EXCEPT !.parent_trade_id = req[c].links[t]])
    <3>1. t \in Rows /\ trade[t] \in Trade
      BY DEF Relinked, Orphaned, Rows, TradesTyped
    <3>2. QED
      BY <3>1, LinkIsNoOutcome DEF OutcomesCurrent
  <2>3. QED
    BY <1>3, <2>1, <2>2 DEF CommitTrade, OutcomesCurrent, Rows, TradesTyped
<1>4. ASSUME NEW c \in Clients, LogInitialStop(c) PROVE OutcomesCurrent'
  BY <1>4 DEF LogInitialStop, OutcomesCurrent, Rows, TradesTyped
<1>5. ASSUME NEW c \in Clients, Abort(c) PROVE OutcomesCurrent'
  BY <1>5 DEF Abort, OutcomesCurrent, Rows, TradesTyped
<1>6. ASSUME NEW c \in Clients, Lock(c) PROVE OutcomesCurrent'
  BY <1>6 DEF Lock, OutcomesCurrent, Rows, TradesTyped
<1>7. ASSUME NEW c \in Clients, PartialClose(c) PROVE OutcomesCurrent'
  <2>1. req[c].op # "idle" /\ req[c].id \in Ids /\ req[c].row \in Trade
    BY <1>7, RequestBusy DEF PartialClose
  <2>2. PICK qty \in Quantities, date \in Dates, price \in ExitPrices :
          trade' = [trade EXCEPT ![nextId] = Chunk(req[c].id, req[c].row, qty, date, price),
                                 ![req[c].id] = [req[c].row EXCEPT !.qty = req[c].row.qty - qty]]
    BY <1>7 DEF PartialClose
  <2>3. OutcomeIsCurrent(Chunk(req[c].id, req[c].row, qty, date, price))
    <3>. DEFINE row == req[c].row
                bare == [entry_date |-> row.entry_date, entry_price |-> row.entry_price, qty |-> qty,
                  stop_price |-> row.stop_price, initial_stop_price |-> None,
                  exit_date |-> date, exit_price |-> price,
                  parent_trade_id |-> IF row.parent_trade_id # None THEN row.parent_trade_id ELSE req[c].id,
                  pnl_dollars |-> None, r_multiple |-> None]
    <3>1. bare \in Trade
      BY <2>1, JournalAssumption DEF Trade
    <3>2. Measured(bare)
      BY DEF Measured
    <3>3. Chunk(req[c].id, row, qty, date, price) = ComputeOutcomes(bare)
      BY DEF Chunk
    <3>. HIDE DEF bare
    <3>. QED  BY <3>1, <3>2, <3>3, OutcomesOfRow
  <2>4. OutcomeIsCurrent([req[c].row EXCEPT !.qty = req[c].row.qty - qty])
    <3>1. Open(req[c].row) /\ Measured(req[c].row)
      BY <1>7 DEF PartialClose, PendingMeasured
    <3>2. /\ Open([req[c].row EXCEPT !.qty = req[c].row.qty - qty])
          /\ Measured([req[c].row EXCEPT !.qty = req[c].row.qty - qty])
      BY <2>1, <3>1 DEF Open, Measured, Trade
    <3>. QED  BY <3>2, OpenIsCurrent
  <2>5. QED
    BY <2>1, <2>2, <2>3, <2>4 DEF OutcomesCurrent, Rows, TradesTyped
<1>8. ASSUME NEW c \in Clients, FullClose(c) PROVE OutcomesCurrent'
  <2>1. req[c].op # "idle" /\ req[c].id \in Ids /\ req[c].row \in Trade
    BY <1>8, RequestBusy DEF FullClose
  <2>2. PICK date \in Dates, price \in ExitPrices :
          trade' = [trade EXCEPT ![req[c].id] = ComputeOutcomes(
                      [req[c].row EXCEPT !.exit_date = date, !.exit_price = price])]
    BY <1>8 DEF FullClose
  <2>3. /\ [req[c].row EXCEPT !.exit_date = date, !.exit_price = price] \in Trade
        /\ Measured([req[c].row EXCEPT !.exit_date = date, !.exit_price = price])
    BY <1>8, <2>1 DEF FullClose, PendingMeasured, Measured, Trade
  <2>4. QED
    BY <2>1, <2>2, <2>3, OutcomesOfRow DEF OutcomesCurrent, Rows, TradesTyped
<1>9. ASSUME NEW c \in Clients, Patch(c) PROVE OutcomesCurrent'
  <2>1. req[c].op # "idle" /\ req[c].id \in Ids /\ req[c].row \in Trade
    BY <1>9, RequestBusy DEF Patch
  <2>2. PICK u \in Patches :
          trade' = [trade EXCEPT ![req[c].id] = ComputeOutcomes(Patched(req[c].row, u))]
    BY <1>9 DEF Patch
  <2>3. OutcomeIsCurrent(ComputeOutcomes(Patched(req[c].row, u)))
    <3>1. Measured(Patched(req[c].row, u))
      BY <1>9 DEF Patch, PendingMeasured, Measured, Patched
    <3>. QED  BY <2>1, <3>1, PatchedTyped, OutcomesOfRow
  <2>4. QED
    BY <2>1, <2>2, <2>3 DEF OutcomesCurrent, Rows, TradesTyped
<1>10. ASSUME NEW c \in Clients, Delete(c) PROVE OutcomesCurrent'
  BY <1>10 DEF Delete, OutcomesCurrent, Rows, TradesTyped
<1>11. CASE UNCHANGED vars
  BY <1>11 DEF OutcomesCurrent, Rows
<1>12. QED
  BY <1>1, <1>2, <1>3, <1>4, <1>5, <1>6, <1>7, <1>8, <1>9, <1>10, <1>11 DEF Next

\* The dollars of every closed trade are current, and so is its R wherever it has
\* a risk; an R that stays behind was measured over one.  For all prices,
\* quantities and patches.  Inductive with the types, PendingOpen and
\* PendingMeasured: each write of a row goes through ComputeOutcomes, leaves the
\* row open or touches its link only.
THEOREM OutcomesAreCurrent == Spec => []OutcomesCurrent
<1>1. Init => PendingOpen /\ PendingMeasured /\ OutcomesCurrent
  BY DEF Init, PendingOpen, PendingMeasured, OutcomesCurrent, Rows, Idle
<1>2. TypeOK /\ PendingOpen /\ PendingMeasured /\ OutcomesCurrent /\ [Next]_vars
        => PendingOpen' /\ PendingMeasured' /\ OutcomesCurrent'
  BY PendingStep, MeasuredStep, OutcomesStep DEF TypeOK
<1>3. QED
  BY <1>1, <1>2, TypeCorrect, PTL DEF Spec

-----------------------------------------------------------------------------
(* Locks *)

\* Ids are handed out in order: that of a stored row is used up, that of a
\* pending purchase too, and belongs to no stored row and no other purchase.
\* The row of an edit is stored.
Pending(c) == req[c].op \in {"insert", "link"}

IdsFresh ==
  /\ \A t \in Rows : t < nextId
  /\ \A c \in Clients : Pending(c) =>
       /\ req[c].id < nextId
       /\ req[c].id \notin Rows
       /\ \A d \in Clients \ {c} : Pending(d) => req[d].id # req[c].id
  /\ \A c \in Clients : req[c].op = "edit" => req[c].id \in Rows

LEMMA IdsStep == IdsFresh /\ TradesTyped /\ RequestsTyped /\ EditsAreCurrent /\ [Next]_vars => IdsFresh'
<1> SUFFICES ASSUME IdsFresh, TradesTyped, RequestsTyped, EditsAreCurrent, [Next]_vars PROVE IdsFresh'
  OBVIOUS
<1> USE JournalAssumption
<1>1. ASSUME NEW c \in Clients, Insert(c) PROVE IdsFresh'
  BY <1>1, RequestBusy DEF Insert, IdsFresh, Pending, Rows, Ids,
     RequestsTyped, TradesTyped, Idle
<1>2. ASSUME NEW c \in Clients, Link(c) PROVE IdsFresh'
  BY <1>2, RequestBusy DEF Link, IdsFresh, Pending, Rows, Ids, RequestsTyped,
     TradesTyped, Idle
<1>3. ASSUME NEW c \in Clients, CommitTrade(c) PROVE IdsFresh'
  <2>1. req[c].id \in Ids /\ Pending(c)
    BY <1>3, RequestBusy DEF CommitTrade, Pending
  <2>2. req'[c].op \notin {"insert", "link", "edit"} /\ \A d \in Clients \ {c} : req'[d] = req[d]
    BY <1>3 DEF CommitTrade, RequestsTyped, Idle
  <2>3. Rows' \subseteq Rows \cup {req[c].id}
    BY <1>3 DEF CommitTrade, Rows, Orphaned
  <2>4. ASSUME NEW t \in Rows, Locked(t) PROVE t \in Rows'
    BY <1>3, <2>4, <2>1 DEF CommitTrade, IdsFresh, Rows
  <2>5. QED
    BY <1>3, <2>1, <2>2, <2>3, <2>4 DEF CommitTrade, IdsFresh, Pending, Locked
<1>4. ASSUME NEW c \in Clients, LogInitialStop(c) PROVE IdsFresh'
  BY <1>4, RequestBusy DEF LogInitialStop, IdsFresh, Pending, Rows, Ids,
     RequestsTyped, TradesTyped, Idle
<1>5. ASSUME NEW c \in Clients, Abort(c) PROVE IdsFresh'
  BY <1>5, RequestBusy DEF Abort, IdsFresh, Pending, Rows, Ids, RequestsTyped,
     TradesTyped, Idle
<1>6. ASSUME NEW c \in Clients, Lock(c) PROVE IdsFresh'
  BY <1>6, RequestBusy DEF Lock, IdsFresh, Pending, Rows, Ids, RequestsTyped,
     TradesTyped, Idle
<1>7. ASSUME NEW c \in Clients, PartialClose(c) PROVE IdsFresh'
  <2>1. req[c].id \in Rows /\ nextId \in Ids /\ nextId' = nextId + 1
    BY <1>7 DEF PartialClose, IdsFresh
  <2>2. req'[c].op \notin {"insert", "link", "edit"} /\ \A d \in Clients \ {c} : req'[d] = req[d]
    BY <1>7 DEF PartialClose, RequestsTyped, Idle
  <2>3. Rows' \subseteq Rows \cup {nextId} /\ Rows \ {req[c].id} \subseteq Rows' \cup {nextId}
    BY <1>7, <2>1 DEF PartialClose, Rows, TradesTyped
  <2>4. \A t \in Rows : t \in Int /\ t < nextId
    BY DEF IdsFresh, Rows, Ids
  <2>5. \A d \in Clients : Pending(d) => req[d].id \in Int /\ req[d].id < nextId /\ req[d].id \notin Rows
    BY RequestBusy DEF IdsFresh, Pending, Ids
  <2>6. nextId \in Int /\ nextId \notin Rows
    BY <2>1, <2>4 DEF Ids
  <2>7. \A t \in Rows' : t < nextId'
    BY <2>1, <2>3, <2>4, <2>6
  <2>8. ASSUME NEW d \in Clients, Pending(d)'
        PROVE  /\ req'[d].id < nextId' /\ req'[d].id \notin Rows'
               /\ \A e \in Clients \ {d} : Pending(e)' => req'[e].id # req'[d].id
    <3>1. d # c /\ Pending(d) /\ req'[d] = req[d]
      BY <2>2, <2>8 DEF Pending
    <3>2. req[d].id < nextId' /\ req[d].id \notin Rows'
      BY <3>1, <2>1, <2>3, <2>5, <2>6
    <3>3. QED
      BY <3>1, <3>2, <2>2 DEF IdsFresh, Pending
  <2>9. ASSUME NEW d \in Clients, req'[d].op = "edit" PROVE req'[d].id \in Rows'
    <3>1. d # c /\ req[d].op = "edit" /\ req'[d] = req[d]
      BY <2>2, <2>9
    <3>2. req[d].id \in Rows \ {req[c].id}
      BY <1>7, <3>1 DEF PartialClose, IdsFresh, EditsAreCurrent
    <3>3. QED
      BY <3>1, <3>2, <2>3, <2>6
  <2>10. QED
    BY <2>7, <2>8, <2>9 DEF IdsFresh, Pending
<1>8. ASSUME NEW c \in Clients, FullClose(c) PROVE IdsFresh'
  <2>1. req[c].id \in Rows
    BY <1>8 DEF FullClose, IdsFresh
  <2>2. req'[c].op \notin {"insert", "link", "edit"} /\ \A d \in Clients \ {c} : req'[d] = req[d]
    BY <1>8 DEF FullClose, RequestsTyped, Idle
  <2>3. Rows' \subseteq Rows /\ Rows \ {req[c].id} \subseteq Rows'
    BY <1>8, <2>1 DEF FullClose, Rows, TradesTyped
  <2>4. QED
    BY <1>8, <2>1, <2>2, <2>3 DEF FullClose, IdsFresh, Pending, EditsAreCurrent
<1>9. ASSUME NEW c \in Clients, Patch(c) PROVE IdsFresh'
  <2>1. req[c].id \in Rows
    BY <1>9 DEF Patch, IdsFresh
  <2>2. req'[c].op \notin {"insert", "link", "edit"} /\ \A d \in Clients \ {c} : req'[d] = req[d]
    BY <1>9 DEF Patch, RequestsTyped, Idle
  <2>3. Rows' \subseteq Rows /\ Rows \ {req[c].id} \subseteq Rows'
    BY <1>9, <2>1 DEF Patch, Rows, TradesTyped
  <2>4. QED
    BY <1>9, <2>1, <2>2, <2>3 DEF Patch, IdsFresh, Pending, EditsAreCurrent
<1>10. ASSUME NEW c \in Clients, Delete(c) PROVE IdsFresh'
  <2>1. PICK t \in Rows : ~Locked(t) /\ trade' = [trade EXCEPT ![t] = None]
    BY <1>10 DEF Delete
  <2>2. Rows' = Rows \ {t}
    BY <2>1 DEF Rows, TradesTyped
  <2>3. QED
    BY <1>10, <2>1, <2>2 DEF Delete, IdsFresh, Pending, Locked
<1>11. CASE UNCHANGED vars
  BY <1>11 DEF IdsFresh, Pending, Rows
<1>12. QED
  BY <1>1, <1>2, <1>3, <1>4, <1>5, <1>6, <1>7, <1>8, <1>9, <1>10, <1>11 DEF Next

LEMMA EditsStep == EditsAreCurrent /\ TradesTyped /\ RequestsTyped /\ IdsFresh /\ [Next]_vars => EditsAreCurrent'
<1> SUFFICES ASSUME EditsAreCurrent, TradesTyped, RequestsTyped, IdsFresh, [Next]_vars PROVE EditsAreCurrent'
  OBVIOUS
<1> USE JournalAssumption
<1>1. ASSUME NEW c \in Clients, Insert(c) PROVE EditsAreCurrent'
  BY <1>1, RequestBusy DEF Insert, EditsAreCurrent, IdsFresh, Pending, Locked,
     Rows, Ids, RequestsTyped, TradesTyped, Idle
<1>2. ASSUME NEW c \in Clients, Link(c) PROVE EditsAreCurrent'
  BY <1>2, RequestBusy DEF Link, EditsAreCurrent, IdsFresh, Pending, Locked,
     Rows, Ids, RequestsTyped, TradesTyped, Idle
<1>3. ASSUME NEW c \in Clients, CommitTrade(c) PROVE EditsAreCurrent'
  BY <1>3, RequestBusy DEF CommitTrade, EditsAreCurrent, IdsFresh, Pending,
     Locked, Rows, Ids, RequestsTyped, TradesTyped, Idle
<1>4. ASSUME NEW c \in Clients, LogInitialStop(c) PROVE EditsAreCurrent'
  BY <1>4, RequestBusy DEF LogInitialStop, EditsAreCurrent, IdsFresh, Pending,
     Locked, Rows, Ids, RequestsTyped, TradesTyped, Idle
<1>5. ASSUME NEW c \in Clients, Abort(c) PROVE EditsAreCurrent'
  BY <1>5, RequestBusy DEF Abort, EditsAreCurrent, IdsFresh, Pending, Locked,
     Rows, Ids, RequestsTyped, TradesTyped, Idle
<1>6. ASSUME NEW c \in Clients, Lock(c) PROVE EditsAreCurrent'
  BY <1>6, RequestBusy DEF Lock, EditsAreCurrent, IdsFresh, Pending, Locked,
     Rows, Ids, RequestsTyped, TradesTyped, Idle
<1>7. ASSUME NEW c \in Clients, PartialClose(c) PROVE EditsAreCurrent'
  BY <1>7, RequestBusy DEF PartialClose, EditsAreCurrent, IdsFresh, Pending,
     Locked, Rows, Ids, RequestsTyped, TradesTyped, Idle
<1>8. ASSUME NEW c \in Clients, FullClose(c) PROVE EditsAreCurrent'
  BY <1>8, RequestBusy DEF FullClose, EditsAreCurrent, IdsFresh, Pending,
     Locked, Rows, Ids, RequestsTyped, TradesTyped, Idle
<1>9. ASSUME NEW c \in Clients, Patch(c) PROVE EditsAreCurrent'
  BY <1>9, RequestBusy DEF Patch, EditsAreCurrent, IdsFresh, Pending, Locked,
     Rows, Ids, RequestsTyped, TradesTyped, Idle
<1>10. ASSUME NEW c \in Clients, Delete(c) PROVE EditsAreCurrent'
  BY <1>10, RequestBusy DEF Delete, EditsAreCurrent, IdsFresh, Pending,
     Locked, Rows, Ids, RequestsTyped, TradesTyped, Idle
<1>11. CASE UNCHANGED vars
  BY <1>11 DEF EditsAreCurrent
<1>12. QED
  BY <1>1, <1>2, <1>3, <1>4, <1>5, <1>6, <1>7, <1>8, <1>9, <1>10, <1>11 DEF Next

\* Inductive together: the new rows of creates and partial closes take ids
\* that no request has read, relinking and deleting wait for the lock.
LEMMA LocksHold == Spec => [](IdsFresh /\ EditsAreCurrent)
<1>1. Init => IdsFresh /\ EditsAreCurrent
  BY DEF Init, IdsFresh, EditsAreCurrent, Pending, Rows, Idle
<1>2. TypeOK /\ IdsFresh /\ EditsAreCurrent /\ [Next]_vars => IdsFresh' /\ EditsAreCurrent'
  BY IdsStep, EditsStep DEF TypeOK
<1>3. QED
  BY <1>1, <1>2, TypeCorrect, PTL DEF Spec

\* No close or patch writes from a stale row, for any number of requests.
THEOREM NoStaleEdit == Spec => []EditsAreCurrent
  BY LocksHold, PTL

-----------------------------------------------------------------------------
(* The planned risk *)

Plan(t) == trade[t].initial_stop_price

\* Once a trade has a planned risk, nothing but its deletion takes it away
\* or replaces it: models/stock.py calls it "Immutable after first set".
PlanStays == \A t \in Rows \cap Rows' : Plan(t) # None => Plan(t)' = Plan(t)
PlanKept == [][PlanStays]_vars

LEMMA OutcomesKeepPlan ==
  ASSUME NEW row \in Trade
  PROVE  ComputeOutcomes(row).initial_stop_price = row.initial_stop_price
  BY DEF ComputeOutcomes, Trade

LEMMA PatchKeepsPlan ==
  ASSUME NEW row \in Trade, NEW u \in Patches, row.initial_stop_price # None
  PROVE  ComputeOutcomes(Patched(row, u)).initial_stop_price = row.initial_stop_price
<1>1. Patched(row, u).initial_stop_price = row.initial_stop_price
  BY DEF Patched, InitialStop
<1>2. QED
  BY <1>1, PatchedTyped, OutcomesKeepPlan

LEMMA PlanStep == TradesTyped /\ RequestsTyped /\ IdsFresh /\ EditsAreCurrent /\ [Next]_vars
        => PlanStays
<1> SUFFICES ASSUME TradesTyped, RequestsTyped, IdsFresh, EditsAreCurrent, [Next]_vars PROVE PlanStays
  OBVIOUS
<1> USE JournalAssumption
<1>1. ASSUME NEW c \in Clients, Insert(c) PROVE PlanStays
  BY <1>1 DEF Insert, Plan, PlanStays, Rows, TradesTyped
<1>2. ASSUME NEW c \in Clients, Link(c) PROVE PlanStays
  BY <1>2 DEF Link, Plan, PlanStays, Rows, TradesTyped
<1>3. ASSUME NEW c \in Clients, CommitTrade(c) PROVE PlanStays
  <2>1. req[c].id \notin Rows
    BY <1>3 DEF CommitTrade, IdsFresh, Pending
  <2>2. \A t \in Rows : \A p : [trade[t] EXCEPT !.parent_trade_id = p].initial_stop_price = Plan(t)
    BY DEF Rows, TradesTyped, Trade, Plan, PlanStays
  <2>3. \A t \in Rows : \/ trade'[t] = trade[t]
                         \/ trade'[t] = [trade[t] EXCEPT !.parent_trade_id = req[c].links[t]]
    BY <1>3, <2>1 DEF CommitTrade, Rows
  <2>4. QED
    BY <2>2, <2>3 DEF Plan, PlanStays
<1>4. ASSUME NEW c \in Clients, LogInitialStop(c) PROVE PlanStays
  BY <1>4 DEF LogInitialStop, Plan, PlanStays, Rows, TradesTyped
<1>5. ASSUME NEW c \in Clients, Abort(c) PROVE PlanStays
  BY <1>5 DEF Abort, Plan, PlanStays, Rows, TradesTyped
<1>6. ASSUME NEW c \in Clients, Lock(c) PROVE PlanStays
  BY <1>6 DEF Lock, Plan, PlanStays, Rows, TradesTyped
<1>7. ASSUME NEW c \in Clients, PartialClose(c) PROVE PlanStays
  <2>1. req[c].op # "idle" /\ req[c].id \in Ids /\ req[c].row \in Trade
    BY <1>7, RequestBusy DEF PartialClose
  <2>2. trade[req[c].id] = req[c].row
    BY <1>7 DEF PartialClose, EditsAreCurrent
  <2>3. PICK qty \in Quantities, date \in Dates, price \in ExitPrices :
          trade' = [trade EXCEPT ![nextId] = Chunk(req[c].id, req[c].row, qty, date, price),
                                 ![req[c].id] = [req[c].row EXCEPT !.qty = req[c].row.qty - qty]]
    BY <1>7 DEF PartialClose
  <2>4. nextId \notin Rows
    BY DEF IdsFresh, Rows, Ids
  <2>5. [req[c].row EXCEPT !.qty = req[c].row.qty - qty].initial_stop_price = req[c].row.initial_stop_price
    BY <2>1 DEF Trade
  <2>6. \A t \in Rows : trade'[t] = IF t = req[c].id
                                     THEN [req[c].row EXCEPT !.qty = req[c].row.qty - qty]
                                     ELSE trade[t]
    BY <2>3, <2>4 DEF Rows, TradesTyped
  <2>7. QED
    BY <2>2, <2>5, <2>6 DEF Plan, PlanStays
<1>8. ASSUME NEW c \in Clients, FullClose(c) PROVE PlanStays
  <2>1. req[c].op # "idle" /\ req[c].id \in Ids /\ req[c].row \in Trade
    BY <1>8, RequestBusy DEF FullClose
  <2>2. trade[req[c].id] = req[c].row
    BY <1>8 DEF FullClose, EditsAreCurrent
  <2>3. PICK date \in Dates, price \in ExitPrices :
          trade' = [trade EXCEPT ![req[c].id] = ComputeOutcomes(
                      [req[c].row EXCEPT !.exit_date = date, !.exit_price = price])]
    BY <1>8 DEF FullClose
  <2> DEFINE closed == [req[c].row EXCEPT !.exit_date = date, !.exit_price = price]
  <2>4. closed \in Trade /\ closed.initial_stop_price = req[c].row.initial_stop_price
    BY <2>1 DEF Trade
  <2>5. ComputeOutcomes(closed).initial_stop_price = req[c].row.initial_stop_price
    BY <2>4, OutcomesKeepPlan
  <2> HIDE DEF closed
  <2>6. \A t \in Rows : trade'[t] = IF t = req[c].id THEN ComputeOutcomes(closed) ELSE trade[t]
    BY <2>3 DEF Rows, TradesTyped, closed
  <2>7. QED
    BY <2>2, <2>5, <2>6 DEF Plan, PlanStays
<1>9. ASSUME NEW c \in Clients, Patch(c) PROVE PlanStays
  <2>1. req[c].op # "idle" /\ req[c].id \in Ids /\ req[c].row \in Trade
    BY <1>9, RequestBusy DEF Patch
  <2>2. trade[req[c].id] = req[c].row
    BY <1>9 DEF Patch, EditsAreCurrent
  <2>3. PICK u \in Patches :
          trade' = [trade EXCEPT ![req[c].id] = ComputeOutcomes(Patched(req[c].row, u))]
    BY <1>9 DEF Patch
  <2>4. \A t \in Rows : trade'[t] = IF t = req[c].id THEN ComputeOutcomes(Patched(req[c].row, u))
                                     ELSE trade[t]
    BY <2>3 DEF Rows, TradesTyped
  <2>5. QED
    BY <2>1, <2>2, <2>4, PatchKeepsPlan DEF Plan, PlanStays
<1>10. ASSUME NEW c \in Clients, Delete(c) PROVE PlanStays
  BY <1>10 DEF Delete, Plan, PlanStays, Rows, TradesTyped
<1>11. CASE UNCHANGED vars
  BY <1>11 DEF Plan, PlanStays, Rows
<1>12. QED
  BY <1>1, <1>2, <1>3, <1>4, <1>5, <1>6, <1>7, <1>8, <1>9, <1>10, <1>11 DEF Next

\* The planned risk of a trade never changes once set, whatever closes,
\* patches and relinkings run beside each other.
THEOREM PlanIsKept == Spec => PlanKept
<1>1. TypeOK /\ IdsFresh /\ EditsAreCurrent /\ [Next]_vars
        => [PlanStays]_vars
  BY PlanStep DEF TypeOK
<1>2. QED
  BY <1>1, TypeCorrect, LocksHold, PTL DEF Spec, PlanKept

-----------------------------------------------------------------------------
(* The shares of a purchase *)

\* Shares is the sum of the quantities of the rows.
LEMMA SharesSummed ==
  ASSUME NEW rows, NEW ids, IsFiniteSet(ids), \A t \in ids : rows[t].qty \in Int
  PROVE  \E sum : /\ SumsOver(sum, ids, [t \in ids |-> rows[t].qty])
                  /\ Shares(rows, ids) = sum[ids]
<1>. DEFINE qty == [t \in ids |-> rows[t].qty]
            IsSum(sum) == sum = [T \in SUBSET ids |->
              IF T = {} THEN 0 ELSE rows[Some(T)].qty + sum[T \ {Some(T)}]]
<1>1. qty \in [ids -> Int]
  OBVIOUS
<1>2. \A T \in SUBSET ids : T # {} => qty[Some(T)] = rows[Some(T)].qty
  BY DEF Some
<1>3. ASSUME NEW sum PROVE SumsOver(sum, ids, qty) <=> IsSum(sum)
  <2>. DEFINE mine(T) == IF T = {} THEN 0 ELSE qty[Some(T)] + sum[T \ {Some(T)}]
              its(T) == IF T = {} THEN 0 ELSE rows[Some(T)].qty + sum[T \ {Some(T)}]
  <2>1. \A T \in SUBSET ids : mine(T) = its(T)
    <3>. HIDE DEF qty
    <3>. QED  BY <1>2
  <2>2. [T \in SUBSET ids |-> mine(T)] = [T \in SUBSET ids |-> its(T)]
    <3>. HIDE DEF mine, its
    <3>. QED  BY <2>1
  <2>3. SumsOver(sum, ids, qty) <=> sum = [T \in SUBSET ids |-> mine(T)]
    BY DEF SumsOver
  <2>4. IsSum(sum) <=> sum = [T \in SUBSET ids |-> its(T)]
    OBVIOUS
  <2>. HIDE DEF mine, its, IsSum, qty
  <2>. QED  BY <2>2, <2>3, <2>4
<1>4. \E sum : IsSum(sum)
  <2>. HIDE DEF qty, IsSum
  <2>. QED  BY <1>1, <1>3, SumsExist
<1>5. Shares(rows, ids) = (CHOOSE sum : IsSum(sum))[ids]
  BY Zenon DEF Shares, MapThenSumSet, MapThenFoldSet, Some
<1>6. IsSum(CHOOSE sum : IsSum(sum))
  <2>. HIDE DEF IsSum
  <2>. QED  BY <1>4
<1>. HIDE DEF IsSum
<1>. QED  BY <1>3, <1>5, <1>6

LEMMA SharesEmpty ==
  ASSUME NEW rows
  PROVE  Shares(rows, {}) = 0
<1>1. PICK sum : SumsOver(sum, {}, [t \in {} |-> rows[t].qty]) /\ Shares(rows, {}) = sum[{}]
  BY FS_EmptySet, SharesSummed
<1>. QED  BY <1>1 DEF SumsOver

\* The sum depends on nothing but the quantities.
LEMMA SharesSame ==
  ASSUME NEW rows, NEW ids, IsFiniteSet(ids), \A t \in ids : rows[t].qty \in Int,
         NEW others, \A t \in ids : others[t].qty = rows[t].qty
  PROVE  Shares(others, ids) = Shares(rows, ids)
<1>. DEFINE qty == [t \in ids |-> rows[t].qty]
            other == [t \in ids |-> others[t].qty]
<1>1. PICK sum : SumsOver(sum, ids, qty) /\ Shares(rows, ids) = sum[ids]
  BY SharesSummed
<1>2. PICK that : SumsOver(that, ids, other) /\ Shares(others, ids) = that[ids]
  BY SharesSummed
<1>3. qty \in [ids -> Int] /\ other \in [ids -> Int] /\ \A x \in ids : qty[x] = other[x]
  OBVIOUS
<1>. HIDE DEF qty, other
<1>4. sum[ids] = that[ids]
  BY <1>1, <1>2, <1>3, SumsAgree
<1>. QED  BY <1>1, <1>2, <1>4

\* A row more adds its quantity.
LEMMA SharesAdd ==
  ASSUME NEW rows, NEW ids, IsFiniteSet(ids), \A t \in ids : rows[t].qty \in Int,
         NEW x, x \notin ids, rows[x].qty \in Int
  PROVE  Shares(rows, ids \cup {x}) = Shares(rows, ids) + rows[x].qty /\ Shares(rows, ids) \in Int
<1>. DEFINE more == ids \cup {x}
            qty == [t \in ids |-> rows[t].qty]
            wide == [t \in more |-> rows[t].qty]
<1>1. PICK sum : SumsOver(sum, ids, qty) /\ Shares(rows, ids) = sum[ids]
  BY SharesSummed
<1>2. IsFiniteSet(more) /\ \A t \in more : rows[t].qty \in Int
  BY FS_AddElement
<1>3. PICK that : SumsOver(that, more, wide) /\ Shares(rows, more) = that[more]
  <2>. HIDE DEF more
  <2>. QED  BY <1>2, SharesSummed
<1>4. /\ qty \in [ids -> Int] /\ wide \in [more -> Int]
      /\ \A t \in ids : qty[t] = wide[t]
      /\ wide[x] = rows[x].qty
  BY <1>2
<1>5. ids \subseteq more /\ x \in more /\ more \ {x} = ids
  OBVIOUS
<1>. HIDE DEF more, qty, wide
<1>6. sum[ids] = that[ids]
  BY <1>1, <1>2, <1>3, <1>4, <1>5, SumsAgree
<1>7. that[more] = wide[x] + that[more \ {x}]
  BY <1>2, <1>3, <1>4, <1>5, SumsAnyFirst
<1>8. sum[ids] \in Int
  <2>1. sum \in [SUBSET ids -> Int]
    BY <1>1, <1>4, SumsTyped
  <2>. QED  BY <2>1
<1>9. Shares(rows, more) = Shares(rows, ids) + rows[x].qty /\ Shares(rows, ids) \in Int
  <2>1. that[more \ {x}] = sum[ids]
    BY <1>5, <1>6
  <2>2. that[more] = rows[x].qty + sum[ids]
    BY <1>4, <1>7, <2>1
  <2>. QED  BY <1>1, <1>3, <1>8, <2>2
<1>. QED  BY <1>9 DEF more

\* A row that changes its quantity changes the sum by the difference.
LEMMA SharesChange ==
  ASSUME NEW rows, NEW ids, IsFiniteSet(ids), \A t \in ids : rows[t].qty \in Int,
         NEW x \in ids, NEW others, others[x].qty \in Int,
         \A t \in ids \ {x} : others[t].qty = rows[t].qty
  PROVE  Shares(others, ids) = (Shares(rows, ids) - rows[x].qty) + others[x].qty
<1>. DEFINE rest == ids \ {x}
<1>1. IsFiniteSet(rest) /\ x \notin rest /\ rest \cup {x} = ids
  BY FS_RemoveElement
<1>2. \A t \in rest : rows[t].qty \in Int /\ others[t].qty \in Int /\ others[t].qty = rows[t].qty
  OBVIOUS
<1>. HIDE DEF rest
<1>3. Shares(rows, rest \cup {x}) = Shares(rows, rest) + rows[x].qty /\ Shares(rows, rest) \in Int
  BY <1>1, <1>2, SharesAdd
<1>4. Shares(others, rest \cup {x}) = Shares(others, rest) + others[x].qty
  BY <1>1, <1>2, SharesAdd
<1>5. Shares(others, rest) = Shares(rows, rest)
  <2>1. \A t \in rest : rows[t].qty \in Int
    BY <1>2
  <2>2. \A t \in rest : others[t].qty = rows[t].qty
    BY <1>2
  <2>. QED  BY ONLY <1>1, <2>1, <2>2, SharesSame
<1>6. Shares(rows, ids) = Shares(rows, rest) + rows[x].qty
  BY <1>1, <1>3
<1>7. Shares(others, ids) = Shares(rows, rest) + others[x].qty
  BY <1>1, <1>4, <1>5
<1>8. rows[x].qty \in Int
  OBVIOUS
<1>. QED  BY ONLY <1>3, <1>6, <1>7, <1>8, others[x].qty \in Int

-----------------------------------------------------------------------------
(* What each write does to the rows. *)

Steady == TypeOK /\ IdsFresh /\ EditsAreCurrent

\* Quantity, stop and plan of a row are as they were.
Kept(t) ==
  /\ trade'[t].qty = trade[t].qty
  /\ trade'[t].stop_price = trade[t].stop_price
  /\ trade'[t].initial_stop_price = trade[t].initial_stop_price

LEMMA OutcomesKeep ==
  ASSUME NEW row \in Trade
  PROVE  /\ ComputeOutcomes(row).qty = row.qty
         /\ ComputeOutcomes(row).stop_price = row.stop_price
         /\ ComputeOutcomes(row).initial_stop_price = row.initial_stop_price
  BY DEF ComputeOutcomes, Trade

LEMMA CommitEffect ==
  ASSUME Steady, NEW c \in Clients, CommitTrade(c)
  PROVE  /\ req[c].id \in Ids \ Rows /\ req[c].row \in Trade
         /\ Rows' = Rows \cup {req[c].id}
         /\ trade'[req[c].id] = req[c].row
         /\ \A t \in Rows : Kept(t)
<1>1. Pending(c) /\ req[c].id \in Ids /\ req[c].row \in Trade
  BY RequestBusy DEF Steady, TypeOK, CommitTrade, Pending
<1>2. req[c].id \notin Rows
  BY <1>1 DEF Steady, IdsFresh
<1>3. trade'[req[c].id] = req[c].row /\ req[c].row # None
  BY <1>1, NullIsNoRow DEF CommitTrade
<1>4. ASSUME NEW t \in Ids, t # req[c].id
      PROVE  trade'[t] = IF t \in Relinked(c) \ Orphaned(c)
                         THEN [trade[t] EXCEPT !.parent_trade_id = req[c].links[t]] ELSE trade[t]
  BY <1>4 DEF CommitTrade
<1>5. ASSUME NEW t \in Rows PROVE Kept(t) /\ trade'[t] # None
  <2>1. t \in Ids /\ trade[t] \in Trade /\ t # req[c].id
    BY <1>2 DEF Rows, Steady, TypeOK, TradesTyped
  <2>2. CASE t \in Relinked(c) \ Orphaned(c)
    <3>1. req[c].links[t] \in Ids \cup {None}
      BY <1>1, <2>1, <2>2, RequestBusy DEF Steady, TypeOK, CommitTrade, Relinked
    <3>2. trade'[t] = [trade[t] EXCEPT !.parent_trade_id = req[c].links[t]]
      BY <1>4, <2>1, <2>2
    <3>3. trade'[t] \in Trade
      BY <2>1, <3>1, <3>2 DEF Trade
    <3>. QED  BY <2>1, <3>2, <3>3, NullIsNoRow DEF Kept, Trade
  <2>3. CASE ~(t \in Relinked(c) \ Orphaned(c))
    BY <1>4, <2>1, <2>3 DEF Kept, Rows
  <2>. QED  BY <2>2, <2>3
<1>6. ASSUME NEW t \in Ids \ Rows, t # req[c].id PROVE trade'[t] = None
  <2>1. t \notin Relinked(c) \ Orphaned(c)
    BY <1>6 DEF Orphaned
  <2>. QED  BY <1>4, <1>6, <2>1 DEF Rows
<1>7. Rows' = Rows \cup {req[c].id}
  BY <1>1, <1>3, <1>5, <1>6 DEF Rows
<1>. QED  BY <1>1, <1>2, <1>3, <1>5, <1>7

\* A partial close takes from one row what it gives to a new one.
Split(t) ==
  /\ t # nextId /\ nextId \in Ids \ Rows
  /\ Rows' = Rows \cup {nextId}
  /\ \A x \in Rows \ {t} : trade'[x] = trade[x]
  /\ trade'[t].stop_price = trade[t].stop_price
  /\ trade'[t].initial_stop_price = trade[t].initial_stop_price
  /\ trade'[t].qty \in Int /\ trade'[nextId].qty \in Int
  /\ trade'[t].qty + trade'[nextId].qty = trade[t].qty
  /\ trade'[nextId].stop_price \in Stops \cup {None}
  /\ born' = [born EXCEPT ![nextId] = trade'[nextId].stop_price]
  /\ lot' = [lot EXCEPT ![nextId] = lot[t]]

LEMMA SplitEffect ==
  ASSUME Steady, NEW c \in Clients, PartialClose(c)
  PROVE  \E t \in Rows : Split(t)
<1>1. req[c].id \in Ids /\ req[c].row \in Trade /\ req[c].id \in Rows /\ trade[req[c].id] = req[c].row
  BY RequestBusy DEF Steady, TypeOK, PartialClose, IdsFresh, EditsAreCurrent
<1>2. nextId \in Ids /\ nextId \notin Rows
  BY DEF Steady, IdsFresh, PartialClose, Ids
<1>. DEFINE t == req[c].id
            row == req[c].row
<1>3. PICK qty \in Quantities, date \in Dates, price \in ExitPrices :
        /\ trade' = [trade EXCEPT ![nextId] = Chunk(t, row, qty, date, price),
                                  ![t] = [row EXCEPT !.qty = row.qty - qty]]
        /\ born' = [born EXCEPT ![nextId] = Chunk(t, row, qty, date, price).stop_price]
        /\ lot' = [lot EXCEPT ![nextId] = lot[t]]
        /\ IsPartial(row, qty)
  BY DEF PartialClose
<1>. DEFINE chunk == Chunk(t, row, qty, date, price)
            less == [row EXCEPT !.qty = row.qty - qty]
<1>4. qty \in Nat \ {0} /\ row.qty \in Nat
  BY <1>1, JournalAssumption DEF Trade
<1>5. /\ less \in Trade /\ less.qty = row.qty - qty
      /\ less.stop_price = row.stop_price /\ less.initial_stop_price = row.initial_stop_price
  BY <1>1, <1>3, <1>4 DEF IsPartial, Trade
<1>6. chunk \in Trade
  BY <1>1, ChunkTyped
<1>7. chunk.qty = qty
  <2>. DEFINE bare == [entry_date |-> row.entry_date, entry_price |-> row.entry_price, qty |-> qty,
     stop_price |-> row.stop_price, initial_stop_price |-> None,
     exit_date |-> date, exit_price |-> price,
     parent_trade_id |-> IF row.parent_trade_id # None THEN row.parent_trade_id ELSE t,
     pnl_dollars |-> None, r_multiple |-> None]
  <2>1. bare \in Trade
    BY <1>1, <1>4 DEF Trade
  <2>2. bare.qty = qty
    OBVIOUS
  <2>3. chunk = ComputeOutcomes(bare)
    BY DEF Chunk
  <2>. HIDE DEF bare
  <2>. QED  BY <2>1, <2>2, <2>3, OutcomesKeep
<1>. HIDE DEF chunk, less
<1>8. trade' = [trade EXCEPT ![nextId] = chunk, ![t] = less]
  BY <1>3 DEF chunk, less
<1>9. DOMAIN trade = Ids /\ t # nextId
  BY <1>1, <1>2 DEF Steady, TypeOK, TradesTyped
<1>10. \A x \in Ids : trade'[x] = IF x = t THEN less ELSE IF x = nextId THEN chunk ELSE trade[x]
  BY <1>1, <1>2, <1>8, <1>9
<1>11. Rows' = Rows \cup {nextId}
  BY <1>1, <1>2, <1>5, <1>6, <1>10, NullIsNoRow DEF Rows
<1>12. chunk.qty \in Int /\ less.qty \in Int /\ less.qty + chunk.qty = row.qty
  BY <1>4, <1>5, <1>7
<1>13. chunk.stop_price \in Stops \cup {None}
  BY <1>6 DEF Trade
<1>14. born' = [born EXCEPT ![nextId] = chunk.stop_price] /\ lot' = [lot EXCEPT ![nextId] = lot[t]]
  BY <1>3 DEF chunk
<1>15. trade'[t] = less /\ trade'[nextId] = chunk /\ \A x \in Rows \ {t} : trade'[x] = trade[x]
  BY <1>1, <1>2, <1>9, <1>10 DEF Rows
<1>. HIDE DEF t, row
<1>16. Split(t)
  BY <1>1, <1>2, <1>5, <1>9, <1>11, <1>12, <1>13, <1>14, <1>15 DEF Split, t, row
<1>. QED  BY <1>1, <1>16 DEF t

LEMMA CloseEffect ==
  ASSUME Steady, NEW c \in Clients, FullClose(c)
  PROVE  Rows' = Rows /\ \A t \in Rows : Kept(t)
<1>1. req[c].id \in Ids /\ req[c].row \in Trade /\ req[c].id \in Rows /\ trade[req[c].id] = req[c].row
  BY RequestBusy DEF Steady, TypeOK, FullClose, IdsFresh, EditsAreCurrent
<1>2. PICK date \in Dates, price \in ExitPrices :
        trade' = [trade EXCEPT ![req[c].id] = ComputeOutcomes(
                    [req[c].row EXCEPT !.exit_date = date, !.exit_price = price])]
  BY DEF FullClose
<1>. DEFINE sold == [req[c].row EXCEPT !.exit_date = date, !.exit_price = price]
<1>3. /\ sold \in Trade /\ sold.qty = req[c].row.qty /\ sold.stop_price = req[c].row.stop_price
      /\ sold.initial_stop_price = req[c].row.initial_stop_price
  BY <1>1 DEF Trade
<1>4. DOMAIN trade = Ids
  BY DEF Steady, TypeOK, TradesTyped
<1>5. trade' = [trade EXCEPT ![req[c].id] = ComputeOutcomes(sold)]
  BY <1>2
<1>. HIDE DEF sold
<1>6. ComputeOutcomes(sold) \in Trade
  BY <1>3, OutcomesTyped
<1>7. Rows' = Rows
  BY <1>1, <1>4, <1>5, <1>6, NullIsNoRow DEF Rows
<1>8. ASSUME NEW t \in Rows PROVE Kept(t)
  BY <1>1, <1>3, <1>4, <1>5, OutcomesKeep DEF Rows, Kept
<1>. QED  BY <1>7, <1>8

\* A patch u changes row t as it says and logs the change of stop.
Edited(t, u) ==
  /\ Rows' = Rows
  /\ \A x \in Rows \ {t} : trade'[x] = trade[x]
  /\ trade'[t].qty = Updated(trade[t], u, "qty")
  /\ trade'[t].stop_price = Updated(trade[t], u, "stop_price")
  /\ trade'[t].initial_stop_price = InitialStop(trade[t], u)
  /\ events' = [events EXCEPT ![t] = @ \o Recorded(trade[t], u)]
  /\ bought' = [bought EXCEPT ![lot[t]] = (@ - trade[t].qty) + Updated(trade[t], u, "qty")]

LEMMA PatchEffect ==
  ASSUME Steady, NEW c \in Clients, Patch(c)
  PROVE  \E t \in Rows, u \in Patches : Edited(t, u)
<1>1. req[c].id \in Ids /\ req[c].row \in Trade /\ req[c].id \in Rows /\ trade[req[c].id] = req[c].row
  BY RequestBusy DEF Steady, TypeOK, Patch, IdsFresh, EditsAreCurrent
<1>. DEFINE t == req[c].id
            row == req[c].row
<1>2. PICK u \in Patches :
        /\ trade' = [trade EXCEPT ![t] = ComputeOutcomes(Patched(row, u))]
        /\ events' = [events EXCEPT ![t] = @ \o Recorded(row, u)]
        /\ bought' = [bought EXCEPT ![lot[t]] = (@ - row.qty) + Updated(row, u, "qty")]
  BY DEF Patch
<1>. DEFINE new == Patched(row, u)
<1>3. /\ new \in Trade /\ new.qty = Updated(row, u, "qty")
      /\ new.stop_price = Updated(row, u, "stop_price")
      /\ new.initial_stop_price = InitialStop(row, u)
  <2>1. new \in Trade
    BY <1>1, PatchedTyped
  <2>. QED  BY <2>1 DEF Patched
<1>4. DOMAIN trade = Ids
  BY DEF Steady, TypeOK, TradesTyped
<1>5. trade' = [trade EXCEPT ![t] = ComputeOutcomes(new)]
  BY <1>2
<1>. HIDE DEF new
<1>6. ComputeOutcomes(new) \in Trade
  BY <1>3, OutcomesTyped
<1>7. trade'[t] = ComputeOutcomes(new) /\ \A x \in Rows \ {t} : trade'[x] = trade[x]
  BY <1>1, <1>4, <1>5 DEF Rows
<1>8. Rows' = Rows
  BY <1>1, <1>4, <1>5, <1>6, NullIsNoRow DEF Rows
<1>9. /\ trade'[t].qty = Updated(row, u, "qty")
      /\ trade'[t].stop_price = Updated(row, u, "stop_price")
      /\ trade'[t].initial_stop_price = InitialStop(row, u)
  BY <1>3, <1>7, OutcomesKeep
<1>. HIDE DEF t, row
<1>10. row = trade[t]
  BY <1>1 DEF t, row
<1>11. Edited(t, u)
  BY <1>2, <1>7, <1>8, <1>9, <1>10 DEF Edited
<1>. QED  BY <1>1, <1>11 DEF t

-----------------------------------------------------------------------------
(* The shares of a purchase *)

\* A row belongs to a purchase made before, a pending purchase to itself.
LotsKnown ==
  /\ \A t \in Ids : t >= nextId => lot[t] = t
  /\ \A t \in Rows : lot[t] < nextId
  /\ \A c \in Clients : Pending(c) =>
       /\ lot[req[c].id] = req[c].id
       /\ \A t \in Rows : lot[t] # req[c].id

LEMMA LotsStep == Steady /\ LotsKnown /\ [Next]_vars => LotsKnown'
<1> SUFFICES ASSUME Steady, LotsKnown, [Next]_vars PROVE LotsKnown'
  OBVIOUS
<1>0. /\ nextId \in Nat \ {0} /\ lot \in [Ids -> Ids] /\ Ids \subseteq Nat /\ Rows \subseteq Ids
      /\ \A c \in Clients : req[c].op # "idle" => req[c].id \in Ids
      /\ DOMAIN req = Clients
  BY JournalAssumption, RequestBusy DEF Steady, TypeOK, TradesTyped, HistoryTyped, RequestsTyped, Rows, Ids
<1>1. ASSUME NEW c \in Clients, Insert(c) PROVE LotsKnown'
  <2>1. /\ nextId' = nextId + 1 /\ lot' = lot /\ Rows' = Rows /\ nextId \in Ids
        /\ req'[c].id = nextId /\ \A d \in Clients \ {c} : req'[d] = req[d]
    BY <1>0, <1>1 DEF Insert, Rows
  <2>2. ASSUME NEW d \in Clients, Pending(d)'
        PROVE  lot'[req'[d].id] = req'[d].id /\ \A t \in Rows' : lot'[t] # req'[d].id
    <3>1. CASE d = c
      <4>1. lot[nextId] = nextId
        <5>1. nextId >= nextId
          BY <1>0
        <5>. QED  BY <2>1, <5>1 DEF LotsKnown
      <4>2. ASSUME NEW t \in Rows PROVE lot[t] # nextId
        <5>1. lot[t] \in Nat
          BY <1>0
        <5>2. lot[t] < nextId
          BY DEF LotsKnown
        <5>. QED  BY <1>0, <5>1, <5>2
      <4>. QED  BY <2>1, <3>1, <4>1, <4>2
    <3>2. CASE d # c
      <4>1. req'[d] = req[d] /\ Pending(d)
        BY <2>1, <2>2, <3>2 DEF Pending
      <4>. QED  BY <2>1, <4>1 DEF LotsKnown
    <3>. QED  BY <3>1, <3>2
  <2>3. ASSUME NEW t \in Ids, t >= nextId' PROVE lot'[t] = t
    <3>1. t >= nextId
      BY <1>0, <2>1, <2>3
    <3>. QED  BY <2>1, <3>1 DEF LotsKnown
  <2>4. ASSUME NEW t \in Rows' PROVE lot'[t] < nextId'
    <3>1. lot[t] \in Nat /\ lot[t] < nextId
      BY <1>0, <2>1, <2>4 DEF LotsKnown
    <3>. QED  BY <1>0, <2>1, <3>1
  <2>. QED  BY <2>2, <2>3, <2>4 DEF LotsKnown
<1>2. ASSUME NEW c \in Clients, Link(c) PROVE LotsKnown'
  <2>1. /\ nextId' = nextId /\ lot' = lot /\ Rows' = Rows
        /\ \A d \in Clients : req'[d].id = req[d].id /\ (Pending(d)' => Pending(d))
    BY <1>0, <1>2 DEF Link, Rows, Pending
  <2>. QED  BY <2>1 DEF LotsKnown
<1>3. ASSUME NEW c \in Clients, CommitTrade(c) PROVE LotsKnown'
  <2>1. /\ nextId' = nextId /\ lot' = lot /\ Rows' = Rows \cup {req[c].id} /\ Pending(c)
        /\ req[c].id < nextId
    BY <1>3, CommitEffect DEF CommitTrade, Pending, Steady, IdsFresh
  <2>2. \A d \in Clients : Pending(d)' => d # c /\ Pending(d) /\ req'[d] = req[d] /\ req[d].id # req[c].id
    <3>1. \A d \in Clients \ {c} : req'[d] = req[d]
      BY <1>0, <1>3 DEF CommitTrade
    <3>2. ~ Pending(c)'
      BY <1>0, <1>3 DEF CommitTrade, Pending, Idle
    <3>. QED  BY <2>1, <3>1, <3>2 DEF Pending, Steady, IdsFresh
  <2>. QED  BY <2>1, <2>2 DEF LotsKnown
<1>4. ASSUME NEW c \in Clients, LogInitialStop(c) \/ Abort(c) \/ Lock(c) PROVE LotsKnown'
  <2>1. /\ nextId' = nextId /\ lot' = lot /\ Rows' = Rows
        /\ \A d \in Clients \ {c} : req'[d] = req[d]
        /\ ~ Pending(c)'
    BY <1>0, <1>4 DEF LogInitialStop, Abort, Lock, Rows, Pending, Idle
  <2>. QED  BY <2>1 DEF LotsKnown, Pending
<1>5. ASSUME NEW c \in Clients, PartialClose(c) PROVE LotsKnown'
  <2>1. PICK t \in Rows : Split(t)
    BY <1>5, SplitEffect
  <2>2. /\ nextId' = nextId + 1 /\ nextId \in Ids
        /\ \A x \in Ids : lot'[x] = IF x = nextId THEN lot[t] ELSE lot[x]
    BY <1>0, <1>5, <2>1 DEF PartialClose, Split
  <2>3. \A d \in Clients : Pending(d)' => Pending(d) /\ req'[d] = req[d] /\ req[d].id < nextId
    <3>1. \A d \in Clients \ {c} : req'[d] = req[d]
      BY <1>0, <1>5 DEF PartialClose
    <3>2. ~ Pending(c)'
      BY <1>0, <1>5 DEF PartialClose, Pending, Idle
    <3>. QED  BY <3>1, <3>2 DEF Pending, Steady, IdsFresh
  <2>4. Rows' = Rows \cup {nextId}
    BY <2>1 DEF Split
  <2>5. \A x \in Ids : x >= nextId' => lot'[x] = x
    BY <1>0, <2>2 DEF LotsKnown
  <2>6. ASSUME NEW x \in Rows' PROVE lot'[x] < nextId'
    <3>1. \A y \in Rows : lot[y] \in Nat /\ lot[y] < nextId
      BY <1>0 DEF LotsKnown
    <3>2. lot'[x] \in Nat /\ lot'[x] < nextId
      BY <1>0, <2>2, <2>4, <2>6, <3>1
    <3>. QED  BY <1>0, <2>2, <3>2
  <2>7. ASSUME NEW d \in Clients, Pending(d)'
        PROVE  lot'[req'[d].id] = req'[d].id /\ \A x \in Rows' : lot'[x] # req'[d].id
    <3>1. Pending(d) /\ req'[d] = req[d] /\ req[d].id < nextId /\ req[d].id \in Ids
      BY <1>0, <2>3, <2>7 DEF Pending
    <3>2. lot[req[d].id] = req[d].id /\ \A x \in Rows : lot[x] # req[d].id
      BY <3>1 DEF LotsKnown
    <3>3. req[d].id # nextId
      BY <1>0, <3>1
    <3>4. lot'[req[d].id] = req[d].id
      BY <2>2, <3>1, <3>2, <3>3
    <3>5. ASSUME NEW x \in Rows' PROVE lot'[x] # req[d].id
      BY <1>0, <2>2, <2>4, <3>2, <3>5
    <3>. QED  BY <3>1, <3>4, <3>5
  <2>. QED  BY <2>5, <2>6, <2>7 DEF LotsKnown
<1>6. ASSUME NEW c \in Clients, FullClose(c) PROVE LotsKnown'
  <2>1. /\ nextId' = nextId /\ lot' = lot /\ Rows' = Rows
        /\ \A d \in Clients \ {c} : req'[d] = req[d]
        /\ ~ Pending(c)'
    BY <1>0, <1>6, CloseEffect DEF FullClose, Pending, Idle
  <2>. QED  BY <2>1 DEF LotsKnown, Pending
<1>7. ASSUME NEW c \in Clients, Patch(c) PROVE LotsKnown'
  <2>1. /\ nextId' = nextId /\ lot' = lot /\ Rows' = Rows
        /\ \A d \in Clients \ {c} : req'[d] = req[d]
        /\ ~ Pending(c)'
    BY <1>0, <1>7, PatchEffect DEF Edited, Patch, Pending, Idle
  <2>. QED  BY <2>1 DEF LotsKnown, Pending
<1>8. ASSUME NEW c \in Clients, Delete(c) PROVE LotsKnown'
  <2>1. nextId' = nextId /\ lot' = lot /\ req' = req /\ Rows' \subseteq Rows
    BY <1>8 DEF Delete, Rows, Steady, TypeOK, TradesTyped
  <2>. QED  BY <2>1 DEF LotsKnown, Pending
<1>9. CASE UNCHANGED vars
  BY <1>9 DEF LotsKnown, Pending, Rows
<1>. QED
  BY <1>1, <1>2, <1>3, <1>4, <1>5, <1>6, <1>7, <1>8, <1>9 DEF Next

Part(l) == { t \in Rows : lot[t] = l }

LEMMA PartFinite ==
  ASSUME TradesTyped, NEW l
  PROVE  IsFiniteSet(Part(l)) /\ \A t \in Part(l) : trade[t].qty \in Int
<1>1. IsFiniteSet(Ids)
  BY JournalAssumption, FS_Interval DEF Ids
<1>2. Part(l) \subseteq Ids
  BY DEF Part, Rows
<1>3. \A t \in Part(l) : trade[t] \in Trade
  BY DEF Part, Rows, TradesTyped
<1>4. \A t \in Part(l) : trade[t].qty \in Int
  BY <1>3 DEF Trade
<1>. QED  BY <1>1, <1>2, <1>4, FS_Subset

QuantityOf(l) == Shares(trade, Part(l)) = bought[l]

LEMMA QuantityStep == Steady /\ LotsKnown /\ QuantityKept /\ [Next]_vars => QuantityKept'
<1> SUFFICES ASSUME Steady, LotsKnown, QuantityKept, [Next]_vars, NEW l \in Ids PROVE QuantityOf(l)'
  BY DEF QuantityKept, QuantityOf, Part
<1>0. /\ Shares(trade, Part(l)) = bought[l] /\ bought[l] \in Int
      /\ IsFiniteSet(Part(l)) /\ \A t \in Part(l) : trade[t] \in Trade /\ trade[t].qty \in Int
      /\ lot \in [Ids -> Ids] /\ bought \in [Ids -> Int] /\ Rows \subseteq Ids
      /\ Part(l) \subseteq Rows
  BY PartFinite DEF QuantityKept, Part, Rows, Steady, TypeOK, TradesTyped, HistoryTyped
<1>1. ASSUME Rows' = Rows, lot' = lot, bought' = bought, \A t \in Rows : trade'[t].qty = trade[t].qty
      PROVE  QuantityOf(l)'
  <2>1. Part(l)' = Part(l)
    BY <1>1 DEF Part
  <2>2. \A t \in Part(l) : trade'[t].qty = trade[t].qty
    BY <1>0, <1>1
  <2>3. Shares(trade', Part(l)) = Shares(trade, Part(l))
    BY <1>0, <2>2, SharesSame
  <2>. QED  BY <1>0, <1>1, <2>1, <2>3 DEF QuantityOf
<1>2. ASSUME NEW c \in Clients, CommitTrade(c) PROVE QuantityOf(l)'
  <2>. DEFINE n == req[c].id
  <2>1. /\ n \in Ids \ Rows /\ req[c].row \in Trade /\ Rows' = Rows \cup {n}
        /\ trade'[n] = req[c].row /\ \A t \in Rows : Kept(t)
        /\ lot' = lot /\ bought' = [bought EXCEPT ![n] = req[c].row.qty]
    BY <1>2, CommitEffect DEF CommitTrade
  <2>2. lot[n] = n /\ \A t \in Rows : lot[t] # n
    BY <1>2 DEF CommitTrade, LotsKnown, Pending
  <2>. HIDE DEF n
  <2>3. CASE l = n
    <3>1. Part(l)' = {} \cup {n}
      BY <2>1, <2>2, <2>3 DEF Part
    <3>2. trade'[n].qty \in Int
      BY <2>1 DEF Trade
    <3>3. Shares(trade', {} \cup {n}) = Shares(trade', {}) + trade'[n].qty
      <4>1. n \notin {} /\ IsFiniteSet({}) /\ \A t \in {} : trade'[t].qty \in Int
        BY FS_EmptySet
      <4>. QED  BY <3>2, <4>1, SharesAdd
    <3>4. Shares(trade', Part(l)') = trade'[n].qty
      BY <3>1, <3>2, <3>3, SharesEmpty
    <3>. QED  BY <1>0, <2>1, <2>3, <3>4 DEF QuantityOf
  <2>4. CASE l # n
    <3>1. Part(l)' = Part(l)
      BY <2>1, <2>2, <2>4 DEF Part
    <3>2. \A t \in Part(l) : trade'[t].qty = trade[t].qty
      BY <1>0, <2>1 DEF Kept
    <3>3. Shares(trade', Part(l)) = Shares(trade, Part(l))
      BY <1>0, <3>2, SharesSame
    <3>4. bought'[l] = bought[l]
      BY <1>0, <2>1, <2>4
    <3>. QED  BY <1>0, <3>1, <3>3, <3>4 DEF QuantityOf
  <2>. QED  BY <2>3, <2>4
<1>3. ASSUME NEW c \in Clients, PartialClose(c) PROVE QuantityOf(l)'
  <2>1. PICK t \in Rows : Split(t)
    BY <1>3, SplitEffect
  <2>2. bought' = bought
    BY <1>3 DEF PartialClose
  <2>3. \A x \in Ids : lot'[x] = IF x = nextId THEN lot[t] ELSE lot[x]
    BY <1>0, <2>1 DEF Split
  <2>4. CASE l # lot[t]
    <3>1. Part(l)' = Part(l)
      BY <1>0, <2>1, <2>3, <2>4 DEF Part, Split
    <3>2. \A x \in Part(l) : trade'[x].qty = trade[x].qty
      BY <2>1, <2>4 DEF Part, Split
    <3>3. Shares(trade', Part(l)) = Shares(trade, Part(l))
      BY <1>0, <3>2, SharesSame
    <3>. QED  BY <1>0, <2>2, <3>1, <3>3 DEF QuantityOf
  <2>5. CASE l = lot[t]
    <3>1. Part(l)' = Part(l) \cup {nextId} /\ t \in Part(l) /\ nextId \notin Part(l)
      BY <1>0, <2>1, <2>3, <2>5 DEF Part, Split
    <3>2. \A x \in Part(l) \ {t} : trade'[x].qty = trade[x].qty
      BY <2>1 DEF Part, Split
    <3>3. /\ trade'[t].qty \in Int /\ trade'[nextId].qty \in Int /\ trade[t].qty \in Int
          /\ trade'[t].qty + trade'[nextId].qty = trade[t].qty
      BY <1>0, <2>1, <3>1 DEF Split
    <3>4. Shares(trade', Part(l)) = (Shares(trade, Part(l)) - trade[t].qty) + trade'[t].qty
      BY <1>0, <3>1, <3>2, <3>3, SharesChange
    <3>5. \A x \in Part(l) : trade'[x].qty \in Int
      BY <1>0, <3>2, <3>3
    <3>6. Shares(trade', Part(l) \cup {nextId}) = Shares(trade', Part(l)) + trade'[nextId].qty
      BY <1>0, <3>1, <3>3, <3>5, SharesAdd
    <3>7. Shares(trade', Part(l)') = bought[l]
      BY <1>0, <3>1, <3>3, <3>4, <3>6
    <3>. QED  BY <2>2, <3>7 DEF QuantityOf
  <2>. QED  BY <2>4, <2>5
<1>4. ASSUME NEW c \in Clients, Patch(c) PROVE QuantityOf(l)'
  <2>1. PICK t \in Rows, u \in Patches : Edited(t, u)
    BY <1>4, PatchEffect
  <2>. DEFINE new == Updated(trade[t], u, "qty")
  <2>2. lot' = lot
    BY <1>4 DEF Patch
  <2>3. new \in Int
    <3>1. trade[t] \in Trade
      BY DEF Rows, Steady, TypeOK, TradesTyped
    <3>. QED  BY <3>1, UpdatedQty
  <2>4. /\ Rows' = Rows /\ \A x \in Rows \ {t} : trade'[x] = trade[x]
        /\ trade'[t].qty = new
        /\ bought' = [bought EXCEPT ![lot[t]] = (@ - trade[t].qty) + new]
    BY <2>1 DEF Edited
  <2>. HIDE DEF new
  <2>5. Part(l)' = Part(l)
    BY <2>2, <2>4 DEF Part
  <2>6. CASE l # lot[t]
    <3>1. \A x \in Part(l) : trade'[x].qty = trade[x].qty
      BY <2>4, <2>6 DEF Part
    <3>2. Shares(trade', Part(l)) = Shares(trade, Part(l))
      BY <1>0, <3>1, SharesSame
    <3>3. bought'[l] = bought[l]
      BY <1>0, <2>4, <2>6
    <3>. QED  BY <1>0, <2>5, <3>2, <3>3 DEF QuantityOf
  <2>7. CASE l = lot[t]
    <3>1. t \in Part(l) /\ \A x \in Part(l) \ {t} : trade'[x].qty = trade[x].qty
      BY <2>4, <2>7 DEF Part
    <3>2. trade'[t].qty \in Int
      BY <2>3, <2>4
    <3>3. Shares(trade', Part(l)) = (Shares(trade, Part(l)) - trade[t].qty) + trade'[t].qty
      BY <1>0, <3>1, <3>2, SharesChange
    <3>4. bought'[l] = (bought[l] - trade[t].qty) + new
      BY <1>0, <2>4, <2>7
    <3>. QED  BY <1>0, <2>4, <2>5, <3>3, <3>4 DEF QuantityOf
  <2>. QED  BY <2>6, <2>7
<1>5. ASSUME NEW c \in Clients, Delete(c) PROVE QuantityOf(l)'
  <2>1. PICK t \in Rows : /\ trade' = [trade EXCEPT ![t] = None]
                          /\ bought' = [bought EXCEPT ![lot[t]] = @ - trade[t].qty]
    BY <1>5 DEF Delete
  <2>2. lot' = lot
    BY <1>5 DEF Delete
  <2>3. Rows' = Rows \ {t} /\ \A x \in Rows \ {t} : trade'[x] = trade[x]
    BY <2>1 DEF Rows, Steady, TypeOK, TradesTyped
  <2>4. CASE l # lot[t]
    <3>1. Part(l)' = Part(l)
      BY <2>2, <2>3, <2>4 DEF Part
    <3>2. \A x \in Part(l) : trade'[x].qty = trade[x].qty
      BY <2>3, <2>4 DEF Part
    <3>3. Shares(trade', Part(l)) = Shares(trade, Part(l))
      BY <1>0, <3>2, SharesSame
    <3>4. bought'[l] = bought[l]
      BY <1>0, <2>1, <2>4
    <3>. QED  BY <1>0, <3>1, <3>3, <3>4 DEF QuantityOf
  <2>5. CASE l = lot[t]
    <3>. DEFINE rest == Part(l) \ {t}
    <3>1. Part(l)' = rest /\ t \in Part(l) /\ rest \cup {t} = Part(l) /\ t \notin rest
      BY <2>2, <2>3, <2>5 DEF Part
    <3>2. IsFiniteSet(rest) /\ \A x \in rest : trade[x].qty \in Int
      BY <1>0, FS_RemoveElement
    <3>3. \A x \in rest : trade'[x].qty = trade[x].qty
      BY <2>3 DEF Part
    <3>4. trade[t].qty \in Int
      BY <1>0, <3>1
    <3>. HIDE DEF rest
    <3>5. Shares(trade, rest \cup {t}) = Shares(trade, rest) + trade[t].qty /\ Shares(trade, rest) \in Int
      BY <3>1, <3>2, <3>4, SharesAdd
    <3>6. Shares(trade', rest) = Shares(trade, rest)
      BY <3>2, <3>3, SharesSame
    <3>7. bought'[l] = bought[l] - trade[t].qty
      BY <1>0, <2>1, <2>5
    <3>8. Shares(trade', rest) = bought[l] - trade[t].qty
      <4>1. bought[l] = Shares(trade, rest) + trade[t].qty
        BY <1>0, <3>1, <3>5
      <4>. QED  BY <1>0, <3>4, <3>5, <3>6, <4>1
    <3>. QED  BY <3>1, <3>7, <3>8 DEF QuantityOf
  <2>. QED  BY <2>4, <2>5
<1>6. ASSUME NEW c \in Clients, Insert(c) \/ Link(c) \/ LogInitialStop(c) \/ Abort(c) \/ Lock(c)
      PROVE  QuantityOf(l)'
  BY <1>1, <1>6 DEF Insert, Link, LogInitialStop, Abort, Lock, Rows
<1>7. ASSUME NEW c \in Clients, FullClose(c) PROVE QuantityOf(l)'
  BY <1>1, <1>7, CloseEffect DEF FullClose, Kept
<1>8. CASE UNCHANGED vars
  BY <1>1, <1>8 DEF Rows
<1>. QED
  BY <1>2, <1>3, <1>4, <1>5, <1>6, <1>7, <1>8 DEF Next

\* Whatever requests buy, close in part, correct and delete beside each other, the
\* rows of a purchase hold the shares it was for: for any number of clients and
\* trades and all quantities.
THEOREM SharesAreKept == Spec => []QuantityKept
<1>1. Init => LotsKnown /\ QuantityKept
  <2>. SUFFICES ASSUME Init PROVE LotsKnown /\ QuantityKept
    OBVIOUS
  <2>1. LotsKnown
    BY DEF Init, LotsKnown, Rows, Pending, Idle
  <2>2. ASSUME NEW l \in Ids PROVE Shares(trade, { t \in Rows : lot[t] = l }) = bought[l]
    <3>1. { t \in Rows : lot[t] = l } = {}
      BY DEF Init, Rows
    <3>. QED  BY <3>1, SharesEmpty DEF Init
  <2>. QED  BY <2>1, <2>2 DEF QuantityKept
<1>2. Steady /\ LotsKnown /\ QuantityKept /\ [Next]_vars => LotsKnown' /\ QuantityKept'
  BY LotsStep, QuantityStep
<1>3. Spec => []Steady
  BY TypeCorrect, LocksHold, PTL DEF Steady
<1>. QED  BY <1>1, <1>2, <1>3, PTL DEF Spec

-----------------------------------------------------------------------------
(* The log of stops *)

LEMMA RemoveAtProperties ==
  ASSUME NEW S, NEW log \in Seq(S), NEW k \in DOMAIN log
  PROVE  /\ RemoveAt(log, k) \in Seq(S)
         /\ Len(RemoveAt(log, k)) = Len(log) - 1
         /\ \A i \in 1 .. Len(log) - 1 :
              RemoveAt(log, k)[i] = IF i < k THEN log[i] ELSE log[i + 1]
<1>. DEFINE head == SubSeq(log, 1, k - 1)
            tail == SubSeq(log, k + 1, Len(log))
<1>1. k \in 1 .. Len(log) /\ Len(log) \in Nat /\ \A i \in 1 .. Len(log) : log[i] \in S
  BY LenProperties, ElementOfSeq
<1>2. /\ head \in Seq(S) /\ Len(head) = k - 1
      /\ \A i \in 1 .. k - 1 : head[i] = log[i]
  <2>1. \A i \in 1 .. k - 1 : log[i] \in S
    BY <1>1
  <2>2. head \in Seq(S)
    BY <1>1, <2>1, SubSeqProperties
  <2>3. Len(head) = IF 1 <= k - 1 THEN (k - 1) - 1 + 1 ELSE 0
    BY <1>1, <2>1, SubSeqProperties
  <2>4. \A i \in 1 .. (k - 1) - 1 + 1 : head[i] = log[1 + i - 1]
    BY <1>1, <2>1, SubSeqProperties
  <2>. QED  BY <1>1, <2>2, <2>3, <2>4
<1>3. /\ tail \in Seq(S) /\ Len(tail) = Len(log) - k
      /\ \A i \in 1 .. Len(log) - k : tail[i] = log[k + i]
  <2>1. \A i \in k + 1 .. Len(log) : log[i] \in S
    BY <1>1
  <2>2. tail \in Seq(S)
    BY <1>1, <2>1, SubSeqProperties
  <2>3. Len(tail) = IF k + 1 <= Len(log) THEN Len(log) - (k + 1) + 1 ELSE 0
    BY <1>1, <2>1, SubSeqProperties
  <2>4. \A i \in 1 .. Len(log) - (k + 1) + 1 : tail[i] = log[(k + 1) + i - 1]
    BY <1>1, <2>1, SubSeqProperties
  <2>. QED  BY <1>1, <2>2, <2>3, <2>4
<1>. HIDE DEF head, tail
<1>4. RemoveAt(log, k) = head \o tail
  BY DEF RemoveAt, head, tail
<1>5. /\ head \o tail \in Seq(S) /\ Len(head \o tail) = Len(head) + Len(tail)
      /\ \A i \in 1 .. Len(head) + Len(tail) :
           (head \o tail)[i] = IF i <= Len(head) THEN head[i] ELSE tail[i - Len(head)]
  BY <1>2, <1>3, ConcatProperties
<1>6. ASSUME NEW i \in 1 .. Len(log) - 1
      PROVE  (head \o tail)[i] = IF i < k THEN log[i] ELSE log[i + 1]
  <2>1. i \in 1 .. Len(head) + Len(tail)
    BY <1>1, <1>2, <1>3
  <2>2. CASE i < k
    <3>1. i \in 1 .. k - 1 /\ i <= Len(head)
      BY <1>1, <1>2, <2>2
    <3>. QED  BY <1>2, <1>5, <2>1, <2>2, <3>1
  <2>3. CASE ~(i < k)
    <3>1. ~(i <= Len(head)) /\ i - Len(head) \in 1 .. Len(log) - k /\ k + (i - Len(head)) = i + 1
      BY <1>1, <1>2, <2>3
    <3>2. (head \o tail)[i] = tail[i - Len(head)]
      BY <1>5, <2>1, <3>1
    <3>. QED  BY <1>3, <2>3, <3>1, <3>2
  <2>. QED  BY <2>2, <2>3
<1>. QED  BY <1>1, <1>2, <1>3, <1>4, <1>5, <1>6

\* Taking out the last event leaves the log there was before it, taking out
\* an earlier one leaves the last.
LEMMA RemoveLast ==
  ASSUME NEW S, NEW log \in Seq(S), NEW e \in S
  PROVE  RemoveAt(log \o <<e>>, Len(log) + 1) = log
<1>. DEFINE longer == log \o <<e>>
<1>1. /\ Len(log) \in Nat /\ <<e>> \in Seq(S) /\ Len(<<e>>) = 1
  BY LenProperties
<1>2. /\ longer \in Seq(S) /\ Len(longer) = Len(log) + 1
      /\ \A i \in 1 .. Len(log) : longer[i] = log[i]
  BY <1>1, ConcatProperties
<1>3. DOMAIN longer = 1 .. Len(log) + 1
  BY <1>2, LenProperties
<1>. HIDE DEF longer
<1>4. Len(log) + 1 \in DOMAIN longer
  BY <1>1, <1>3
<1>. DEFINE n == Len(log) + 1
            back == RemoveAt(longer, n)
<1>5. /\ back \in Seq(S) /\ Len(back) = Len(longer) - 1
      /\ \A i \in 1 .. Len(longer) - 1 : back[i] = IF i < n THEN longer[i] ELSE longer[i + 1]
  BY <1>2, <1>4, RemoveAtProperties
<1>. HIDE DEF back
<1>6. \A i \in 1 .. Len(log) : back[i] = log[i]
  BY <1>1, <1>2, <1>5
<1>7. back = log
  BY <1>1, <1>2, <1>5, <1>6, SeqEqual
<1>. QED  BY <1>7 DEF back, longer

LEMMA RemoveEarlier ==
  ASSUME NEW S, NEW log \in Seq(S), NEW e \in S, NEW k \in DOMAIN log
  PROVE  RemoveAt(log \o <<e>>, k) = RemoveAt(log, k) \o <<e>>
<1>. DEFINE longer == log \o <<e>>
            less == RemoveAt(log, k)
            a == RemoveAt(longer, k)
            b == less \o <<e>>
<1>1. /\ Len(log) \in Nat /\ DOMAIN log = 1 .. Len(log)
      /\ <<e>> \in Seq(S) /\ Len(<<e>>) = 1 /\ <<e>>[1] = e
  BY LenProperties
<1>2. /\ longer \in Seq(S) /\ Len(longer) = Len(log) + 1
      /\ \A i \in 1 .. Len(log) + 1 : longer[i] = IF i <= Len(log) THEN log[i] ELSE <<e>>[i - Len(log)]
  BY <1>1, ConcatProperties
<1>3. DOMAIN longer = 1 .. Len(log) + 1
  BY <1>2, LenProperties
<1>. HIDE DEF longer
<1>4. /\ a \in Seq(S) /\ Len(a) = Len(longer) - 1
      /\ \A i \in 1 .. Len(longer) - 1 : a[i] = IF i < k THEN longer[i] ELSE longer[i + 1]
  <2>1. k \in DOMAIN longer
    BY <1>1, <1>3
  <2>. QED  BY <1>2, <2>1, RemoveAtProperties
<1>5. /\ less \in Seq(S) /\ Len(less) = Len(log) - 1
      /\ \A i \in 1 .. Len(log) - 1 : less[i] = IF i < k THEN log[i] ELSE log[i + 1]
  BY RemoveAtProperties
<1>. HIDE DEF a, less
<1>6. /\ b \in Seq(S) /\ Len(b) = Len(less) + 1
      /\ \A i \in 1 .. Len(less) + 1 : b[i] = IF i <= Len(less) THEN less[i] ELSE <<e>>[i - Len(less)]
  BY <1>1, <1>5, ConcatProperties
<1>. HIDE DEF b
<1>7. ASSUME NEW i \in 1 .. Len(log) PROVE a[i] = b[i]
  <2>1. k \in 1 .. Len(log)
    BY <1>1
  <2>2. CASE i = Len(log)
    <3>1. a[i] = longer[i + 1] /\ longer[i + 1] = e
      BY <1>1, <1>2, <1>4, <2>1, <2>2
    <3>2. b[i] = e
      BY <1>1, <1>5, <1>6, <2>2
    <3>. QED  BY <3>1, <3>2
  <2>3. CASE i # Len(log)
    <3>1. i \in 1 .. Len(log) - 1
      <4>1. Len(log) \in Nat
        BY <1>1
      <4>. QED  BY ONLY <4>1, <2>3, i \in 1 .. Len(log)
    <3>2. b[i] = IF i < k THEN log[i] ELSE log[i + 1]
      BY <1>1, <1>5, <1>6, <3>1
    <3>3. a[i] = IF i < k THEN log[i] ELSE log[i + 1]
      BY <1>1, <1>2, <1>4, <2>1, <3>1
    <3>. QED  BY <3>2, <3>3
  <2>. QED  BY <2>2, <2>3
<1>8. a = b
  BY <1>1, <1>2, <1>4, <1>5, <1>6, <1>7, SeqEqual
<1>. QED  BY <1>8 DEF a, b, longer, less

\* A chain goes on with an event that takes up where it ends.
LEMMA ChainsGoOn ==
  ASSUME NEW a, NEW log \in Seq(Event), NEW z, Chains(a, log, z), NEW e \in Event, e.old = z
  PROVE  Chains(a, log \o <<e>>, e.new)
<1>. DEFINE longer == log \o <<e>>
<1>1. /\ Len(log) \in Nat /\ DOMAIN log = 1 .. Len(log)
      /\ <<e>> \in Seq(Event) /\ Len(<<e>>) = 1 /\ <<e>>[1] = e
  BY LenProperties
<1>2. /\ longer \in Seq(Event) /\ Len(longer) = Len(log) + 1
      /\ \A i \in 1 .. Len(log) + 1 : longer[i] = IF i <= Len(log) THEN log[i] ELSE <<e>>[i - Len(log)]
  BY <1>1, ConcatProperties
<1>. HIDE DEF longer
<1>3. longer[Len(log) + 1] = e /\ \A i \in 1 .. Len(log) : longer[i] = log[i]
  BY <1>1, <1>2
<1>4. longer # <<>>
  BY <1>1, <1>2, EmptySeq
<1>5. CASE log = <<>>
  <2>1. Len(log) = 0 /\ a = z
    BY <1>5 DEF Chains
  <2>2. longer[1].old = a /\ longer[Len(longer)].new = e.new
    BY <1>2, <1>3, <2>1
  <2>. QED  BY <1>2, <1>4, <2>1, <2>2 DEF Chains, longer
<1>6. CASE log # <<>>
  <2>1. Len(log) \in Nat \ {0}
    BY <1>6, EmptySeq
  <2>2. log[1].old = a /\ log[Len(log)].new = z /\ \A i \in 2 .. Len(log) : log[i].old = log[i - 1].new
    BY <1>6 DEF Chains
  <2>3. longer[1].old = a
    BY <1>3, <2>1, <2>2
  <2>4. ASSUME NEW i \in 2 .. Len(longer) PROVE longer[i].old = longer[i - 1].new
    <3>1. CASE i = Len(log) + 1
      BY <1>1, <1>3, <2>1, <2>2, <3>1
    <3>2. CASE i # Len(log) + 1
      <4>1. i \in 2 .. Len(log) /\ i - 1 \in 1 .. Len(log) /\ i \in 1 .. Len(log)
        BY <1>2, <2>1, <2>4, <3>2
      <4>. QED  BY <1>3, <2>2, <4>1
    <3>. QED  BY <3>1, <3>2
  <2>5. longer[Len(longer)].new = e.new
    BY <1>2, <1>3
  <2>. QED  BY <1>4, <2>3, <2>4, <2>5 DEF Chains, longer
<1>. QED  BY <1>5, <1>6

LEMMA InitialGoesOn ==
  ASSUME NEW a, NEW log \in Seq(Event), NEW z, ChainsFromInitial(a, log, z), NEW e \in Event, e.old = z
  PROVE  ChainsFromInitial(a, log \o <<e>>, e.new)
<1>1. PICK k \in DOMAIN log :
        log[k] = StopEvent(None, a, "initial") /\ Chains(a, RemoveAt(log, k), z)
  BY DEF ChainsFromInitial
<1>2. RemoveAt(log, k) \in Seq(Event)
  BY RemoveAtProperties
<1>3. Chains(a, RemoveAt(log, k) \o <<e>>, e.new)
  BY <1>1, <1>2, ChainsGoOn
<1>4. RemoveAt(log \o <<e>>, k) = RemoveAt(log, k) \o <<e>>
  BY RemoveEarlier
<1>5. k \in DOMAIN (log \o <<e>>) /\ (log \o <<e>>)[k] = log[k]
  OBVIOUS
<1>. QED  BY <1>1, <1>3, <1>4, <1>5 DEF ChainsFromInitial

\* The initial event may come at any later time.
LEMMA InitialLate ==
  ASSUME NEW a, NEW log \in Seq(Event), NEW z, Chains(a, log, z),
         StopEvent(None, a, "initial") \in Event
  PROVE  ChainsFromInitial(a, Append(log, StopEvent(None, a, "initial")), z)
<1>. DEFINE e == StopEvent(None, a, "initial")
            longer == log \o <<e>>
<1>1. e \in Event
  OBVIOUS
<1>. HIDE DEF e
<1>2. RemoveAt(longer, Len(log) + 1) = log
  BY <1>1, RemoveLast
<1>3. Append(log, e) = longer /\ Len(log) + 1 \in DOMAIN longer /\ longer[Len(log) + 1] = e
  BY <1>1
<1>. HIDE DEF longer
<1>4. ChainsFromInitial(a, longer, z)
  BY <1>2, <1>3 DEF ChainsFromInitial, e
<1>. QED  BY <1>3, <1>4 DEF e

\* A patch logs the change of stop, if it is one.
LEMMA RecordedStops ==
  ASSUME NEW row \in Trade, NEW u \in Patches
  PROVE  LET new == Updated(row, u, "stop_price")
         IN  \/ Recorded(row, u) = <<>> /\ new = row.stop_price
             \/ \E kind \in StopChanges : /\ Recorded(row, u) = <<StopEvent(row.stop_price, new, kind)>>
                                          /\ "stop_price" \in DOMAIN u
<1>. DEFINE old == row.stop_price
            new == Updated(row, u, "stop_price")
            kind == ClassifyStopChange(old, Patched(row, u).stop_price, Patched(row, u).entry_price)
<1>1. Patched(row, u).stop_price = new
  BY DEF Patched
<1>2. kind = None => old = new
  BY <1>1, JournalAssumption DEF ClassifyStopChange, StopChanges
<1>3. kind # None => kind \in StopChanges
  BY DEF ClassifyStopChange, StopChanges
<1>4. "stop_price" \notin DOMAIN u => new = old
  BY DEF Updated
<1>5. Recorded(row, u) = IF "stop_price" \in DOMAIN u /\ kind # None
                         THEN <<StopEvent(old, new, kind)>> ELSE <<>>
  BY <1>1 DEF Recorded
<1>. HIDE DEF kind
<1>. QED  BY <1>2, <1>3, <1>4, <1>5

\* A request that awaits its second commit has a purchase of its own, opened with
\* the stop it is to log; a lost one is nobody's any more.
StopsLogged ==
  /\ \A t \in Ids \ Rows : events[t] = <<>>
  /\ \A x \in lost : /\ x < nextId
                     /\ \A c \in Clients : Pending(c) \/ req[c].op = "log" => req[c].id # x
  /\ \A c \in Clients : req[c].op = "log" =>
       /\ req[c].id < nextId /\ req[c].row.stop_price # None /\ lot[req[c].id] = req[c].id
       /\ \A d \in Clients \ {c} : Pending(d) \/ req[d].op = "log" => req[d].id # req[c].id
       /\ req[c].id \in Rows => born[req[c].id] = req[c].row.stop_price

\* What the types say that the steps below use.
LEMMA LogTypes ==
  ASSUME Steady
  PROVE  /\ nextId \in Nat \ {0} /\ Ids \subseteq Nat /\ Rows \subseteq Ids /\ lost \subseteq Ids
         /\ lot \in [Ids -> Ids]
         /\ \A c \in Clients : req[c].op # "idle" => req[c].id \in Ids /\ req[c].row \in Trade
         /\ DOMAIN req = Clients /\ DOMAIN events = Ids /\ DOMAIN born = Ids
         /\ \A t \in Rows : trade[t] \in Trade /\ events[t] \in Seq(Event)
<1>1. nextId \in Nat \ {0} /\ Ids \subseteq Nat /\ Rows \subseteq Ids
  BY JournalAssumption DEF Steady, TypeOK, TradesTyped, Rows, Ids
<1>2. \A c \in Clients : req[c].op # "idle" => req[c].id \in Ids /\ req[c].row \in Trade
  BY RequestBusy DEF Steady, TypeOK
<1>3. /\ DOMAIN req = Clients /\ DOMAIN events = Ids /\ DOMAIN born = Ids
      /\ lot \in [Ids -> Ids] /\ lost \subseteq Ids
  BY DEF Steady, TypeOK, RequestsTyped, EventsTyped, HistoryTyped
<1>4. \A t \in Rows : trade[t] \in Trade /\ events[t] \in Seq(Event)
  BY <1>1 DEF Steady, TypeOK, TradesTyped, EventsTyped, Rows
<1>. QED  BY <1>1, <1>2, <1>3, <1>4

LEMMA LoggedStep == Steady /\ LotsKnown /\ StopsLogged /\ [Next]_vars => StopsLogged'
<1> SUFFICES ASSUME Steady, LotsKnown, StopsLogged, [Next]_vars PROVE StopsLogged'
  OBVIOUS
<1>0. /\ nextId \in Nat \ {0} /\ Ids \subseteq Nat /\ Rows \subseteq Ids /\ lost \subseteq Ids
      /\ lot \in [Ids -> Ids]
      /\ \A c \in Clients : req[c].op # "idle" => req[c].id \in Ids /\ req[c].row \in Trade
      /\ DOMAIN req = Clients /\ DOMAIN events = Ids /\ DOMAIN born = Ids
  BY LogTypes
\* A step that makes no request log, and loses at most the log of its own.
<1>1. ASSUME nextId' \in Nat, nextId <= nextId', \A t \in Ids \ Rows' : events'[t] = <<>>,
             \A x \in Ids : x < nextId => /\ x \in Rows' => x \in Rows
                                         /\ born'[x] = born[x] /\ lot'[x] = lot[x],
             NEW c \in Clients, \A d \in Clients \ {c} : req'[d] = req[d],
             req'[c].op # "log",
             Pending(c)' => (req'[c].id = req[c].id /\ Pending(c)) \/ req'[c].id = nextId,
             lost' = lost \/ (req[c].op = "log" /\ lost' = lost \cup {req[c].id})
      PROVE  StopsLogged'
  <2>1. ASSUME NEW e \in Clients, Pending(e)' \/ req'[e].op = "log"
        PROVE  \/ e # c /\ req'[e] = req[e] /\ (Pending(e) \/ req[e].op = "log")
               \/ e = c /\ req'[e].id = req[e].id /\ Pending(e)
               \/ e = c /\ req'[e].id = nextId
    BY <1>1, <2>1 DEF Pending
  <2>2. ASSUME NEW d \in Clients, req'[d].op = "log"
        PROVE  /\ req'[d].id < nextId' /\ req'[d].row.stop_price # None
               /\ lot'[req'[d].id] = req'[d].id
               /\ \A e \in Clients \ {d} : Pending(e)' \/ req'[e].op = "log" => req'[e].id # req'[d].id
               /\ req'[d].id \in Rows' => born'[req'[d].id] = req'[d].row.stop_price
    <3>1. d # c /\ req'[d] = req[d] /\ req[d].op = "log" /\ req[d].id \in Ids /\ req[d].id \in Nat
      BY <1>0, <1>1, <2>2
    <3>2. /\ req[d].id < nextId /\ req[d].row.stop_price # None /\ lot[req[d].id] = req[d].id
          /\ \A e \in Clients \ {d} : Pending(e) \/ req[e].op = "log" => req[e].id # req[d].id
          /\ req[d].id \in Rows => born[req[d].id] = req[d].row.stop_price
      BY <3>1 DEF StopsLogged
    <3>3. ASSUME NEW e \in Clients \ {d}, Pending(e)' \/ req'[e].op = "log"
          PROVE  req'[e].id # req'[d].id
      BY <1>0, <2>1, <3>1, <3>2, <3>3
    <3>4. req[d].id < nextId'
      BY <1>0, <1>1, <3>1, <3>2
    <3>. QED  BY <1>1, <3>1, <3>2, <3>3, <3>4
  <2>3. ASSUME NEW x \in lost'
        PROVE  /\ x < nextId'
               /\ \A e \in Clients : Pending(e)' \/ req'[e].op = "log" => req'[e].id # x
    <3>1. CASE x \in lost
      <4>1. /\ x < nextId /\ x \in Nat
            /\ \A e \in Clients : Pending(e) \/ req[e].op = "log" => req[e].id # x
        BY <1>0, <3>1 DEF StopsLogged
      <4>2. x < nextId'
        BY <1>0, <1>1, <4>1
      <4>. QED  BY <1>0, <2>1, <4>1, <4>2
    <3>2. CASE x \notin lost
      <4>1. req[c].op = "log" /\ x = req[c].id /\ x \in Nat
        BY <1>0, <1>1, <2>3, <3>2
      <4>2. x < nextId /\ \A e \in Clients \ {c} : Pending(e) \/ req[e].op = "log" => req[e].id # x
        BY <4>1 DEF StopsLogged
      <4>3. x < nextId' /\ ~ Pending(c)
        BY <1>0, <1>1, <4>1, <4>2 DEF Pending
      <4>. QED  BY <1>0, <2>1, <4>1, <4>2, <4>3
    <3>. QED  BY <3>1, <3>2
  <2>. QED  BY <1>1, <2>2, <2>3 DEF StopsLogged
<1>2. ASSUME NEW c \in Clients, Insert(c) PROVE StopsLogged'
  <2>1. /\ Rows' = Rows /\ events' = events /\ born' = born /\ lot' = lot /\ nextId' = nextId + 1
        /\ \A d \in Clients \ {c} : req'[d] = req[d]
        /\ req'[c].op = "insert" /\ req'[c].id = nextId /\ lost' = lost
    BY <1>0, <1>2 DEF Insert, Rows
  <2>2. nextId' \in Nat /\ nextId <= nextId' /\ \A t \in Ids \ Rows' : events'[t] = <<>>
    BY <1>0, <2>1 DEF StopsLogged
  <2>. QED  BY <1>1, <2>1, <2>2
<1>3. ASSUME NEW c \in Clients, Link(c) PROVE StopsLogged'
  <2>1. /\ Rows' = Rows /\ events' = events /\ born' = born /\ lot' = lot /\ nextId' = nextId
        /\ \A d \in Clients \ {c} : req'[d] = req[d]
        /\ req'[c].op = "link" /\ req'[c].id = req[c].id /\ Pending(c) /\ lost' = lost
    BY <1>0, <1>3 DEF Link, Rows, Pending
  <2>2. nextId' \in Nat /\ nextId <= nextId' /\ \A t \in Ids \ Rows' : events'[t] = <<>>
    BY <1>0, <2>1 DEF StopsLogged
  <2>. QED  BY <1>1, <2>1, <2>2
<1>4. ASSUME NEW c \in Clients, Abort(c) \/ Lock(c) PROVE StopsLogged'
  <2>1. /\ Rows' = Rows /\ events' = events /\ born' = born /\ lot' = lot /\ nextId' = nextId
        /\ \A d \in Clients \ {c} : req'[d] = req[d]
        /\ req'[c].op \notin {"insert", "link", "log"}
        /\ lost' = lost \/ (req[c].op = "log" /\ lost' = lost \cup {req[c].id})
    BY <1>0, <1>4 DEF Abort, Lock, Rows, Idle
  <2>2. nextId' \in Nat /\ nextId <= nextId' /\ \A t \in Ids \ Rows' : events'[t] = <<>>
    BY <1>0, <2>1 DEF StopsLogged
  <2>3. ~ Pending(c)' /\ req'[c].op # "log"
    BY <2>1 DEF Pending
  <2>. QED  BY <1>1, <2>1, <2>2, <2>3
<1>5. ASSUME NEW c \in Clients, FullClose(c) PROVE StopsLogged'
  <2>1. /\ Rows' = Rows /\ events' = events /\ born' = born /\ lot' = lot /\ nextId' = nextId
        /\ \A d \in Clients \ {c} : req'[d] = req[d]
        /\ req'[c].op = "idle" /\ lost' = lost
    BY <1>0, <1>5, CloseEffect DEF FullClose, Idle
  <2>2. nextId' \in Nat /\ nextId <= nextId' /\ \A t \in Ids \ Rows' : events'[t] = <<>>
    BY <1>0, <2>1 DEF StopsLogged
  <2>3. ~ Pending(c)' /\ req'[c].op # "log"
    BY <2>1 DEF Pending
  <2>. QED  BY <1>1, <2>1, <2>2, <2>3
<1>6. ASSUME NEW c \in Clients, CommitTrade(c) PROVE StopsLogged'
  <2>. DEFINE n == req[c].id
              stop == req[c].row.stop_price
  <2>1. /\ n \in Ids \ Rows /\ Rows' = Rows \cup {n} /\ Pending(c)
    BY <1>6, CommitEffect DEF CommitTrade, Pending
  <2>2. /\ events' = events /\ nextId' = nextId /\ born' = [born EXCEPT ![n] = stop]
        /\ lot' = lot /\ lost' = lost
        /\ \A d \in Clients \ {c} : req'[d] = req[d]
        /\ req'[c] = IF stop = None THEN Idle
                     ELSE [op |-> "log", id |-> n, row |-> req[c].row, links |-> NoLinks]
    BY <1>0, <1>6 DEF CommitTrade
  <2>3. /\ n < nextId /\ \A d \in Clients \ {c} : Pending(d) => req[d].id # n
        /\ lot[n] = n
    BY <2>1 DEF Steady, IdsFresh, LotsKnown
  <2>4. /\ \A d \in Clients \ {c} : req[d].op = "log" => req[d].id # n
        /\ \A x \in lost : n # x
    <3>1. c \in Clients /\ Pending(c)
      BY <2>1
    <3>. QED  BY <3>1 DEF StopsLogged
  <2>5. born'[n] = stop /\ \A t \in Ids \ {n} : born'[t] = born[t]
    BY <1>0, <2>1, <2>2
  <2>6. req'[c].op = "log" => req'[c].id = n /\ req'[c].row.stop_price = stop /\ stop # None
    BY <2>2 DEF Idle
  <2>7. ~ Pending(c)'
    BY <2>2 DEF Pending, Idle
  <2>. HIDE DEF n, stop
  <2>8. ASSUME NEW d \in Clients, req'[d].op = "log"
        PROVE  /\ req'[d].id < nextId' /\ req'[d].row.stop_price # None
               /\ lot'[req'[d].id] = req'[d].id
               /\ \A e \in Clients \ {d} : Pending(e)' \/ req'[e].op = "log" => req'[e].id # req'[d].id
               /\ req'[d].id \in Rows' => born'[req'[d].id] = req'[d].row.stop_price
    <3>1. CASE d = c
      <4>1. \A e \in Clients \ {d} : Pending(e)' \/ req'[e].op = "log" => req'[e].id # n
        BY <2>2, <2>3, <2>4, <3>1 DEF Pending
      <4>. QED  BY <2>2, <2>3, <2>5, <2>6, <2>8, <3>1, <4>1
    <3>2. CASE d # c
      <4>1. req'[d] = req[d] /\ req[d].op = "log" /\ req[d].id # n /\ req[d].id \in Ids
        BY <1>0, <2>2, <2>4, <2>8, <3>2
      <4>2. /\ req[d].id < nextId /\ req[d].row.stop_price # None /\ lot[req[d].id] = req[d].id
            /\ \A e \in Clients \ {d} : Pending(e) \/ req[e].op = "log" => req[e].id # req[d].id
            /\ req[d].id \in Rows => born[req[d].id] = req[d].row.stop_price
        BY <4>1 DEF StopsLogged
      <4>3. ASSUME NEW e \in Clients \ {d}, Pending(e)' \/ req'[e].op = "log"
            PROVE  req'[e].id # req'[d].id
        <5>1. CASE e = c
          BY <2>6, <2>7, <4>1, <4>3, <5>1
        <5>2. CASE e # c
          BY <2>2, <4>1, <4>2, <4>3, <5>2 DEF Pending
        <5>. QED  BY <5>1, <5>2
      <4>. QED  BY <2>1, <2>2, <2>5, <4>1, <4>2, <4>3
    <3>. QED  BY <3>1, <3>2
  <2>9. ASSUME NEW x \in lost'
        PROVE  /\ x < nextId'
               /\ \A e \in Clients : Pending(e)' \/ req'[e].op = "log" => req'[e].id # x
    <3>1. /\ x < nextId /\ n # x
          /\ \A e \in Clients : Pending(e) \/ req[e].op = "log" => req[e].id # x
      BY <2>2, <2>4, <2>9 DEF StopsLogged
    <3>2. ASSUME NEW e \in Clients, Pending(e)' \/ req'[e].op = "log" PROVE req'[e].id # x
      <4>1. CASE e = c
        BY <2>6, <2>7, <3>1, <3>2, <4>1
      <4>2. CASE e # c
        BY <2>2, <3>1, <3>2, <4>2 DEF Pending
      <4>. QED  BY <4>1, <4>2
    <3>. QED  BY <2>2, <3>1, <3>2
  <2>10. \A t \in Ids \ Rows' : events'[t] = <<>>
    BY <2>1, <2>2 DEF StopsLogged
  <2>. QED  BY <2>8, <2>9, <2>10 DEF StopsLogged
<1>7. ASSUME NEW c \in Clients, LogInitialStop(c) PROVE StopsLogged'
  <2>1. /\ req[c].id \in Rows /\ Rows' = Rows /\ born' = born /\ lot' = lot /\ nextId' = nextId
        /\ \A d \in Clients \ {c} : req'[d] = req[d]
        /\ req'[c].op = "idle" /\ lost' = lost
        /\ \A t \in Ids \ {req[c].id} : events'[t] = events[t]
    BY <1>0, <1>7 DEF LogInitialStop, Rows, Idle
  <2>2. nextId' \in Nat /\ nextId <= nextId' /\ \A t \in Ids \ Rows' : events'[t] = <<>>
    BY <1>0, <2>1 DEF StopsLogged
  <2>3. ~ Pending(c)' /\ req'[c].op # "log"
    BY <2>1 DEF Pending
  <2>. QED  BY <1>1, <2>1, <2>2, <2>3
<1>8. ASSUME NEW c \in Clients, PartialClose(c) PROVE StopsLogged'
  <2>1. PICK t \in Rows : Split(t)
    BY <1>8, SplitEffect
  <2>2. /\ events' = events /\ nextId' = nextId + 1 /\ nextId \in Ids \ Rows
        /\ Rows' = Rows \cup {nextId} /\ lost' = lost
        /\ \A d \in Clients \ {c} : req'[d] = req[d]
        /\ req'[c].op = "idle"
        /\ \A x \in Ids \ {nextId} : born'[x] = born[x] /\ lot'[x] = lot[x]
    BY <1>0, <1>8, <2>1 DEF PartialClose, Split, Idle
  <2>3. nextId' \in Nat /\ nextId <= nextId' /\ \A x \in Ids \ Rows' : events'[x] = <<>>
    BY <1>0, <2>2 DEF StopsLogged
  <2>4. ~ Pending(c)' /\ req'[c].op # "log"
    BY <2>2 DEF Pending
  <2>5. ASSUME NEW x \in Ids, x < nextId
        PROVE  (x \in Rows' => x \in Rows) /\ born'[x] = born[x] /\ lot'[x] = lot[x]
    <3>1. x # nextId
      BY <1>0, <2>5
    <3>. QED  BY <2>2, <3>1
  <2>. QED  BY <1>1, <2>2, <2>3, <2>4, <2>5
<1>9. ASSUME NEW c \in Clients, Patch(c) PROVE StopsLogged'
  <2>1. PICK t \in Rows, u \in Patches : Edited(t, u)
    BY <1>9, PatchEffect
  <2>2. Rows' = Rows /\ events' = [events EXCEPT ![t] = @ \o Recorded(trade[t], u)]
    BY <2>1 DEF Edited
  <2>3. /\ nextId' = nextId /\ born' = born /\ lot' = lot /\ lost' = lost
        /\ \A d \in Clients \ {c} : req'[d] = req[d]
        /\ req'[c].op = "idle"
    BY <1>0, <1>9 DEF Patch, Idle
  <2>4. nextId' \in Nat /\ nextId <= nextId' /\ \A x \in Ids \ Rows' : events'[x] = <<>>
    BY <1>0, <2>2, <2>3 DEF StopsLogged
  <2>5. ~ Pending(c)' /\ req'[c].op # "log"
    BY <2>3 DEF Pending
  <2>. QED  BY <1>1, <2>2, <2>3, <2>4, <2>5
<1>10. ASSUME NEW c \in Clients, Delete(c) PROVE StopsLogged'
  <2>1. PICK t \in Rows : /\ trade' = [trade EXCEPT ![t] = None]
                          /\ events' = [events EXCEPT ![t] = <<>>]
    BY <1>10 DEF Delete
  <2>2. /\ nextId' = nextId /\ born' = born /\ lot' = lot /\ lost' = lost /\ req' = req
        /\ req[c].op = "idle"
    BY <1>10 DEF Delete
  <2>3. /\ Rows' = Rows \ {t}
        /\ events'[t] = <<>> /\ \A x \in Ids \ {t} : events'[x] = events[x]
    BY <1>0, <2>1 DEF Rows, Steady, TypeOK, TradesTyped
  <2>4. nextId' \in Nat /\ nextId <= nextId' /\ \A x \in Ids \ Rows' : events'[x] = <<>>
    BY <1>0, <2>2, <2>3 DEF StopsLogged
  <2>5. ~ Pending(c)' /\ req'[c].op # "log"
    BY <2>2 DEF Pending
  <2>. QED  BY <1>1, <2>2, <2>3, <2>4, <2>5
<1>11. CASE UNCHANGED vars
  BY <1>11 DEF vars, StopsLogged, Rows, Pending
<1>. QED
  BY <1>2, <1>3, <1>4, <1>5, <1>6, <1>7, <1>8, <1>9, <1>10, <1>11 DEF Next

\* The trades whose log must have its initial event.
Due(t) == OpenedWithStop(t) /\ t \notin lost

LEMMA DueSame ==
  ASSUME NEW x, lot'[x] = lot[x], born'[x] = born[x], (x \in lost') <=> (x \in lost),
         NEW c \in Clients, \A d \in Clients \ {c} : req'[d] = req[d],
         req[c].op = "log" => req[c].id # x, req'[c].op = "log" => req'[c].id # x
  PROVE  Due(x)' <=> Due(x)
<1>1. Logging(x)' <=> Logging(x)
  BY DEF Logging
<1>. QED  BY <1>1 DEF Due, OpenedWithStop

LEMMA StopLogStep ==
  Steady /\ LotsKnown /\ StopsLogged /\ StopLogChains /\ [Next]_vars => StopLogChains'
<1> SUFFICES ASSUME Steady, LotsKnown, StopsLogged, StopLogChains, [Next]_vars PROVE StopLogChains'
  OBVIOUS
<1>0. /\ nextId \in Nat \ {0} /\ Ids \subseteq Nat /\ Rows \subseteq Ids /\ lost \subseteq Ids
      /\ lot \in [Ids -> Ids]
      /\ \A c \in Clients : req[c].op # "idle" => req[c].id \in Ids /\ req[c].row \in Trade
      /\ DOMAIN req = Clients /\ DOMAIN events = Ids /\ DOMAIN born = Ids
      /\ \A t \in Rows : trade[t] \in Trade /\ events[t] \in Seq(Event)
  BY LogTypes
<1>. DEFINE Holds(t) == IF Due(t) THEN ChainsFromInitial(born[t], events[t], trade[t].stop_price)
                        ELSE Chains(born[t], events[t], trade[t].stop_price)
<1>1. \A t \in Rows : Holds(t)
  BY DEF StopLogChains, Due
<1>2. SUFFICES \A t \in Rows' : Holds(t)'
  BY DEF StopLogChains, Due
\* A row whose log and stop stay as they are, and whose log owes the same.
<1>3. ASSUME NEW t \in Rows, Due(t)' <=> Due(t), born'[t] = born[t], events'[t] = events[t],
             trade'[t].stop_price = trade[t].stop_price
      PROVE  Holds(t)'
  BY <1>1, <1>3
<1>. HIDE DEF Holds
<1>4. ASSUME NEW c \in Clients, Insert(c) \/ Link(c) \/ Lock(c) \/ FullClose(c)
      PROVE  \A t \in Rows' : Holds(t)'
  <2>1. /\ Rows' = Rows /\ events' = events /\ born' = born /\ lot' = lot /\ lost' = lost
        /\ \A t \in Rows : trade'[t].stop_price = trade[t].stop_price
    BY <1>4, CloseEffect DEF Insert, Link, Lock, FullClose, Kept, Rows
  <2>2. /\ \A d \in Clients \ {c} : req'[d] = req[d]
        /\ req[c].op # "log" /\ req'[c].op # "log"
    <3>1. CASE Insert(c)
      BY <1>0, <3>1 DEF Insert
    <3>2. CASE Link(c)
      BY <1>0, <3>2 DEF Link
    <3>3. CASE Lock(c)
      BY <1>0, <3>3 DEF Lock
    <3>4. CASE FullClose(c)
      BY <1>0, <3>4 DEF FullClose, Idle
    <3>. QED  BY <1>4, <3>1, <3>2, <3>3, <3>4
  <2>3. \A t \in Rows : Due(t)' <=> Due(t)
    BY <2>1, <2>2, DueSame
  <2>. QED  BY <1>3, <2>1, <2>3
<1>5. ASSUME NEW c \in Clients, Abort(c) PROVE \A t \in Rows' : Holds(t)'
  <2>1. /\ Rows' = Rows /\ events' = events /\ born' = born /\ lot' = lot /\ trade' = trade
        /\ \A d \in Clients \ {c} : req'[d] = req[d]
        /\ req'[c].op # "log"
        /\ lost' = IF req[c].op = "log" THEN lost \cup {req[c].id} ELSE lost
    BY <1>0, <1>5 DEF Abort, Rows, Idle
  <2>2. ASSUME NEW t \in Rows PROVE Due(t)' <=> Due(t)
    <3>1. CASE req[c].op = "log" /\ req[c].id = t
      <4>1. Logging(t) /\ t \in lost'
        BY <2>1, <3>1 DEF Logging
      <4>. QED  BY <4>1 DEF Due, OpenedWithStop
    <3>2. CASE ~ (req[c].op = "log" /\ req[c].id = t)
      <4>1. (t \in lost') <=> (t \in lost)
        BY <2>1, <3>2
      <4>. QED  BY <2>1, <3>2, <4>1, DueSame
    <3>. QED  BY <3>1, <3>2
  <2>. QED  BY <1>3, <2>1, <2>2
<1>6. ASSUME NEW c \in Clients, CommitTrade(c) PROVE \A t \in Rows' : Holds(t)'
  <2>0. PICK n : n = req[c].id
    OBVIOUS
  <2>00. PICK stop : stop = req[c].row.stop_price
    OBVIOUS
  <2>1. /\ n \in Ids \ Rows /\ Rows' = Rows \cup {n} /\ trade'[n].stop_price = stop
        /\ \A t \in Rows : trade'[t].stop_price = trade[t].stop_price
        /\ req[c].op = "link"
    BY <1>6, <2>0, <2>00, CommitEffect DEF CommitTrade, Kept
  <2>2. /\ events' = events /\ born' = [born EXCEPT ![n] = stop] /\ lot' = lot /\ lost' = lost
        /\ \A d \in Clients \ {c} : req'[d] = req[d]
        /\ req'[c] = IF stop = None THEN Idle
                     ELSE [op |-> "log", id |-> n, row |-> req[c].row, links |-> NoLinks]
    BY <1>0, <1>6, <2>0, <2>00 DEF CommitTrade
  <2>3. events[n] = <<>>
    BY <2>1 DEF StopsLogged
  <2>4. born'[n] = stop /\ \A t \in Ids \ {n} : born'[t] = born[t]
    BY <1>0, <2>1, <2>2
  <2>5. req'[c].op = "log" => req'[c].id = n
    BY <2>2 DEF Idle
  <2>6. stop # None => Logging(n)'
    BY <2>2 DEF Logging
  <2>7. Holds(n)'
    <3>1. ~ Due(n)'
      BY <2>4, <2>6 DEF Due, OpenedWithStop
    <3>2. Chains(born'[n], events'[n], trade'[n].stop_price)
      BY <2>1, <2>2, <2>3, <2>4 DEF Chains
    <3>. QED  BY <3>1, <3>2 DEF Holds
  <2>8. ASSUME NEW t \in Rows PROVE Holds(t)'
    <3>1. t # n /\ t \in Ids
      BY <1>0, <2>1
    <3>2. Due(t)' <=> Due(t)
      BY <2>1, <2>2, <2>4, <2>5, <3>1, DueSame
    <3>. QED  BY <1>3, <2>1, <2>2, <2>4, <3>1, <3>2
  <2>. QED  BY <2>1, <2>7, <2>8
<1>7. ASSUME NEW c \in Clients, LogInitialStop(c) PROVE \A t \in Rows' : Holds(t)'
  <2>0. PICK n : n = req[c].id
    OBVIOUS
  <2>00. PICK stop : stop = req[c].row.stop_price
    OBVIOUS
  <2>1. /\ n \in Rows /\ req[c].op = "log" /\ req[c].row \in Trade
        /\ trade' = trade /\ Rows' = Rows /\ born' = born /\ lot' = lot /\ lost' = lost
        /\ \A d \in Clients \ {c} : req'[d] = req[d]
        /\ req'[c].op = "idle"
        /\ events' = [events EXCEPT ![n] = Append(@, StopEvent(None, stop, "initial"))]
    BY <1>0, <1>7, <2>0, <2>00 DEF LogInitialStop, Rows, Idle
  <2>2. /\ born[n] = stop /\ stop # None /\ lot[n] = n /\ n \notin lost
        /\ \A d \in Clients \ {c} : req[d].op = "log" => req[d].id # n
    BY <2>0, <2>00, <2>1 DEF StopsLogged
  <2>3. StopEvent(None, stop, "initial") \in Event
    BY <2>00, <2>1 DEF StopEvent, Event, StopChanges, Trade
  <2>4. Logging(n)
    BY <2>0, <2>1 DEF Logging
  <2>5. Chains(stop, events[n], trade[n].stop_price)
    <3>1. ~ Due(n) /\ Holds(n)
      BY <1>1, <2>1, <2>4 DEF Due, OpenedWithStop
    <3>. QED  BY <2>2, <3>1 DEF Holds
  <2>6. Due(n)'
    <3>1. ~ Logging(n)'
      BY <2>1, <2>2 DEF Logging
    <3>. QED  BY <2>1, <2>2, <3>1 DEF Due, OpenedWithStop
  <2>7. ChainsFromInitial(stop, events'[n], trade[n].stop_price)
    <3>1. events'[n] = Append(events[n], StopEvent(None, stop, "initial"))
      BY <1>0, <2>1
    <3>2. events[n] \in Seq(Event)
      BY <1>0, <2>1
    <3>. QED  BY <2>3, <2>5, <3>1, <3>2, InitialLate
  <2>8. Holds(n)'
    BY <2>1, <2>2, <2>6, <2>7 DEF Holds
  <2>9. ASSUME NEW t \in Rows, t # n PROVE Holds(t)'
    <3>1. events'[t] = events[t]
      BY <1>0, <2>1, <2>9
    <3>2. Due(t)' <=> Due(t)
      BY <2>0, <2>1, <2>9, DueSame
    <3>. QED  BY <1>3, <2>1, <3>1, <3>2
  <2>. QED  BY <2>1, <2>8, <2>9
<1>8. ASSUME NEW c \in Clients, PartialClose(c) PROVE \A t \in Rows' : Holds(t)'
  <2>1. PICK t \in Rows : Split(t)
    BY <1>8, SplitEffect
  <2>2. /\ events' = events /\ nextId \in Ids \ Rows
        /\ Rows' = Rows \cup {nextId} /\ lost' = lost
        /\ \A d \in Clients \ {c} : req'[d] = req[d]
        /\ req'[c].op = "idle" /\ req[c].op = "edit"
        /\ \A x \in Rows : trade'[x].stop_price = trade[x].stop_price
        /\ born'[nextId] = trade'[nextId].stop_price /\ lot'[nextId] = lot[t]
        /\ \A x \in Ids \ {nextId} : born'[x] = born[x] /\ lot'[x] = lot[x]
    BY <1>0, <1>8, <2>1 DEF PartialClose, Split, Idle
  <2>0. PICK n : n = nextId
    OBVIOUS
  <2>3. Holds(n)'
    <3>1. lot[t] \in Nat /\ lot[t] < nextId
      BY <1>0, <2>1 DEF LotsKnown
    <3>2. lot'[n] # n
      BY <1>0, <2>0, <2>2, <3>1
    <3>3. Chains(born'[n], events'[n], trade'[n].stop_price)
      BY <2>0, <2>2 DEF StopsLogged, Chains
    <3>4. ~ Due(n)'
      BY <3>2 DEF Due, OpenedWithStop
    <3>. QED  BY <3>3, <3>4 DEF Holds
  <2>4. ASSUME NEW x \in Rows PROVE Holds(x)'
    <3>1. x \in Ids \ {nextId}
      BY <1>0, <2>2
    <3>2. Due(x)' <=> Due(x)
      BY <2>2, <3>1, DueSame
    <3>. QED  BY <1>3, <2>2, <3>1, <3>2
  <2>. QED  BY <2>0, <2>2, <2>3, <2>4
<1>9. ASSUME NEW c \in Clients, Patch(c) PROVE \A t \in Rows' : Holds(t)'
  <2>1. PICK t \in Rows, u \in Patches : Edited(t, u)
    BY <1>9, PatchEffect
  <2>. DEFINE new == Updated(trade[t], u, "stop_price")
              more == Recorded(trade[t], u)
  <2>2. /\ Rows' = Rows /\ \A x \in Rows \ {t} : trade'[x] = trade[x]
        /\ trade'[t].stop_price = new
        /\ events' = [events EXCEPT ![t] = @ \o more]
    BY <2>1 DEF Edited
  <2>3. /\ born' = born /\ lot' = lot /\ lost' = lost
        /\ \A d \in Clients \ {c} : req'[d] = req[d]
        /\ req'[c].op = "idle" /\ req[c].op = "edit"
    BY <1>0, <1>9 DEF Patch, Idle
  <2>4. \/ more = <<>> /\ new = trade[t].stop_price
        \/ \E e \in Event : more = <<e>> /\ e.old = trade[t].stop_price /\ e.new = new
    <3>1. trade[t] \in Trade /\ trade[t].stop_price \in Stops \cup {None}
      BY <1>0 DEF Trade
    <3>2. new \in Stops \cup {None}
      <4>1. Patched(trade[t], u) \in Trade /\ Patched(trade[t], u).stop_price = new
        BY <3>1, PatchedTyped DEF Patched
      <4>. QED  BY <4>1 DEF Trade
    <3>3. CASE more = <<>> /\ new = trade[t].stop_price
      BY <3>3
    <3>4. CASE ~ (more = <<>> /\ new = trade[t].stop_price)
      <4>1. PICK kind \in StopChanges : more = <<StopEvent(trade[t].stop_price, new, kind)>>
        BY <3>1, <3>4, RecordedStops
      <4>. DEFINE e == StopEvent(trade[t].stop_price, new, kind)
      <4>2. e \in Event /\ e.old = trade[t].stop_price /\ e.new = new
        <5>. HIDE DEF new
        <5>. QED  BY <3>1, <3>2 DEF StopEvent, Event
      <4>. QED  BY <4>1, <4>2
    <3>. QED  BY <3>3, <3>4
  <2>. HIDE DEF new, more
  <2>5. events'[t] = events[t] \o more /\ \A x \in Ids \ {t} : events'[x] = events[x]
    BY <1>0, <2>2
  <2>6. ASSUME NEW a
        PROVE  /\ Chains(a, events[t], trade[t].stop_price) => Chains(a, events'[t], trade'[t].stop_price)
               /\ ChainsFromInitial(a, events[t], trade[t].stop_price) => ChainsFromInitial(a, events'[t], trade'[t].stop_price)
    <3>1. events[t] \in Seq(Event)
      BY <1>0
    <3>2. CASE more = <<>> /\ new = trade[t].stop_price
      <4>1. events'[t] = events[t]
        BY <2>5, <3>1, <3>2, ConcatEmptySeq
      <4>. QED  BY <2>2, <3>2, <4>1
    <3>3. CASE \E e \in Event : more = <<e>> /\ e.old = trade[t].stop_price /\ e.new = new
      <4>1. PICK e \in Event : more = <<e>> /\ e.old = trade[t].stop_price /\ e.new = new
        BY <3>3
      <4>2. events'[t] = events[t] \o <<e>> /\ trade'[t].stop_price = e.new
        BY <2>2, <2>5, <4>1
      <4>. QED  BY <3>1, <4>1, <4>2, ChainsGoOn, InitialGoesOn
    <3>. QED  BY <2>4, <3>2, <3>3
  <2>7. ASSUME NEW x \in Rows, NEW a
        PROVE  /\ Chains(a, events[x], trade[x].stop_price) => Chains(a, events'[x], trade'[x].stop_price)
               /\ ChainsFromInitial(a, events[x], trade[x].stop_price) => ChainsFromInitial(a, events'[x], trade'[x].stop_price)
    <3>1. CASE x = t
      BY <2>6, <3>1
    <3>2. CASE x # t
      <4>1. events'[x] = events[x] /\ trade'[x] = trade[x]
        BY <1>0, <2>2, <2>5, <3>2
      <4>. QED  BY <4>1
    <3>. QED  BY <3>1, <3>2
  <2>8. \A x \in Rows : Due(x)' <=> Due(x)
    BY <2>3, DueSame
  <2>9. ASSUME NEW x \in Rows PROVE Holds(x)'
    BY <1>1, <2>3, <2>7, <2>8 DEF Holds
  <2>. QED  BY <2>2, <2>9
<1>10. ASSUME NEW c \in Clients, Delete(c) PROVE \A t \in Rows' : Holds(t)'
  <2>1. PICK t \in Rows : /\ trade' = [trade EXCEPT ![t] = None]
                          /\ events' = [events EXCEPT ![t] = <<>>]
    BY <1>10 DEF Delete
  <2>2. born' = born /\ lot' = lot /\ lost' = lost /\ req' = req
    BY <1>10 DEF Delete
  <2>3. /\ Rows' = Rows \ {t} /\ \A x \in Rows \ {t} : trade'[x] = trade[x]
        /\ \A x \in Ids \ {t} : events'[x] = events[x]
    BY <1>0, <2>1 DEF Rows, Steady, TypeOK, TradesTyped
  <2>4. ASSUME NEW x \in Rows \ {t} PROVE Holds(x)'
    <3>1. x \in Ids \ {t} /\ (Due(x)' <=> Due(x))
      BY <1>0, <2>2 DEF Due, OpenedWithStop, Logging
    <3>. QED  BY <1>3, <2>2, <2>3, <3>1
  <2>. QED  BY <2>3, <2>4
<1>11. CASE UNCHANGED vars
  BY <1>1, <1>11 DEF vars, Holds, Due, OpenedWithStop, Logging, Rows
<1>. QED
  BY <1>4, <1>5, <1>6, <1>7, <1>8, <1>9, <1>10, <1>11 DEF Next

\* The log of a trade tells every change of its stop once, and the stop it was
\* opened with, whatever patches, closes and late initial events interleave; only
\* a request lost between its two commits leaves the opening out.
THEOREM StopsAreLogged == Spec => []StopLogChains
<1>1. Init => StopsLogged /\ StopLogChains
  BY DEF Init, StopsLogged, StopLogChains, Rows, Idle
<1>2. Init => LotsKnown
  BY JournalAssumption DEF Init, LotsKnown, Rows, Pending, Idle, Ids
<1>3. Steady /\ LotsKnown /\ StopsLogged /\ StopLogChains /\ [Next]_vars
        => LotsKnown' /\ StopsLogged' /\ StopLogChains'
  BY LotsStep, LoggedStep, StopLogStep
<1>4. Spec => []Steady
  BY TypeCorrect, LocksHold, PTL DEF Steady
<1>. QED  BY <1>1, <1>2, <1>3, <1>4, PTL DEF Spec

-----------------------------------------------------------------------------
(* The first stop *)

LEMMA MinIs ==
  ASSUME NEW S, NEW m \in S, S \subseteq Int, \A y \in S : m <= y
  PROVE  Min(S) = m
<1>1. \A x \in S : (\A y \in S : x <= y) => x = m
  OBVIOUS
<1>2. Min(S) \in S /\ \A y \in S : Min(S) <= y
  BY DEF Min
<1>. QED  BY <1>1, <1>2

LEMMA MinOfOne ==
  ASSUME NEW m \in Int
  PROVE  Min({m}) = m
<1>1. m \in {m} /\ {m} \subseteq Int /\ \A y \in {m} : m <= y
  OBVIOUS
<1>. QED  BY ONLY <1>1, MinIs

\* An event more matters only when there was no stop yet.
LEMMA FirstStopGoesOn ==
  ASSUME NEW a, NEW log \in Seq(Event), NEW e \in Event
  PROVE  FirstStop(a, log \o <<e>>) = IF FirstStop(a, log) # None THEN FirstStop(a, log) ELSE e.new
<1>. DEFINE n == Len(log)
            longer == log \o <<e>>
            news == [i \in 1 .. n |-> log[i].new]
            more == [i \in 1 .. n + 1 |-> longer[i].new]
            stops == <<a>> \o news
            after == <<a>> \o more
            given == { i \in DOMAIN stops : stops[i] # None }
            then == { i \in DOMAIN after : after[i] # None }
<1>1. n \in Nat
  BY LenProperties
<1>2. Len(longer) = n + 1 /\ longer[n + 1] = e /\ \A i \in 1 .. n : longer[i] = log[i]
  BY <1>1
<1>3. /\ DOMAIN stops = 1 .. n + 1 /\ stops[1] = a
      /\ \A i \in 2 .. n + 1 : stops[i] = log[i - 1].new
  <2>1. news \in Seq({log[i].new : i \in 1 .. n}) /\ Len(news) = n
    BY <1>1
  <2>2. <<a>> \in Seq({a}) /\ Len(<<a>>) = 1
    OBVIOUS
  <2>. QED  BY <1>1, <2>1, <2>2
<1>4. /\ DOMAIN after = 1 .. n + 2 /\ after[1] = a
      /\ \A i \in 2 .. n + 2 : after[i] = longer[i - 1].new
  <2>1. more \in Seq({longer[i].new : i \in 1 .. n + 1}) /\ Len(more) = n + 1
    BY <1>1
  <2>. QED  BY <1>1, <2>1
<1>5. FirstStop(a, log) = IF given = {} THEN None ELSE stops[Min(given)]
  BY DEF FirstStop
<1>6. FirstStop(a, longer) = IF then = {} THEN None ELSE after[Min(then)]
  BY <1>2 DEF FirstStop
<1>. HIDE DEF n, longer, news, more, stops, after
<1>7. after[n + 2] = e.new /\ \A i \in 1 .. n + 1 : after[i] = stops[i]
  <2>1. after[n + 2] = e.new
    BY <1>1, <1>2, <1>4
  <2>2. ASSUME NEW i \in 1 .. n + 1 PROVE after[i] = stops[i]
    <3>1. CASE i = 1
      BY <1>3, <1>4, <3>1
    <3>2. CASE i # 1
      <4>1. i \in 2 .. n + 1 /\ i \in 2 .. n + 2 /\ i - 1 \in 1 .. n
        BY <1>1, <3>2
      <4>. QED  BY <1>2, <1>3, <1>4, <4>1
    <3>. QED  BY <3>1, <3>2
  <2>. QED  BY <2>1, <2>2
<1>8. given \subseteq 1 .. n + 1 /\ then = given \cup {i \in {n + 2} : e.new # None}
  BY <1>1, <1>3, <1>4, <1>7
<1>9. \A i \in given : stops[i] # None
  OBVIOUS
<1>. HIDE DEF given, then
<1>10. CASE given = {}
  <2>1. FirstStop(a, log) = None
    BY <1>5, <1>10
  <2>2. CASE e.new = None
    <3>1. then = {}
      BY <1>8, <1>10, <2>2
    <3>. QED  BY <1>6, <2>1, <2>2, <3>1 DEF longer
  <2>3. CASE e.new # None
    <3>1. then = {n + 2}
      BY <1>8, <1>10, <2>3
    <3>2. Min(then) = n + 2
      BY <1>1, <3>1, MinOfOne
    <3>. QED  BY <1>6, <1>7, <2>1, <3>1, <3>2 DEF longer
  <2>. QED  BY <2>2, <2>3
<1>11. CASE given # {}
  <2>1. PICK m \in given : \A y \in given : m <= y
    <3>1. given \subseteq Nat
      BY <1>1, <1>8
    <3>. QED  BY <1>11, <3>1, SmallestMember
  <2>2. m \in 1 .. n + 1
    BY <1>8
  <2>3. Min(given) = m
    <3>1. given \subseteq Int
      BY <1>1, <1>8
    <3>. QED  BY <2>1, <3>1, MinIs
  <2>4. Min(then) = m
    <3>1. then \subseteq Int
      <4>1. 1 .. n + 1 \subseteq Int /\ n + 2 \in Int
        BY <1>1
      <4>. QED  BY <1>8, <4>1
    <3>0. m \in then
      BY <1>8
    <3>2. \A y \in then : m <= y
      BY <1>1, <1>8, <2>1, <2>2
    <3>. QED  BY <3>0, <3>1, <3>2, MinIs
  <2>5. stops[m] # None /\ then # {} /\ after[m] = stops[m]
    BY <1>7, <1>8, <1>9, <2>2
  <2>. QED  BY <1>5, <1>6, <1>11, <2>3, <2>4, <2>5 DEF longer
<1>. QED  BY <1>10, <1>11

LEMMA FirstStopOfNone ==
  ASSUME NEW a
  PROVE  FirstStop(a, <<>>) = a
<1>. DEFINE stops == <<a>> \o [i \in 1 .. Len(<<>>) |-> <<>>[i].new]
            given == { i \in DOMAIN stops : stops[i] # None }
<1>1. FirstStop(a, <<>>) = IF given = {} THEN None ELSE stops[Min(given)]
  BY DEF FirstStop
<1>2. DOMAIN stops = {1} /\ stops[1] = a
  <2>1. [i \in 1 .. Len(<<>>) |-> <<>>[i].new] = <<>>
    OBVIOUS
  <2>. QED  BY <2>1
<1>3. CASE a = None
  BY <1>1, <1>2, <1>3
<1>4. CASE a # None
  <2>1. given = {1}
    BY <1>2, <1>4
  <2>2. Min(given) = 1
    BY <2>1, MinOfOne
  <2>. QED  BY <1>1, <1>2, <2>1, <2>2
<1>. QED  BY <1>3, <1>4

LEMMA FirstStopAtBirth ==
  ASSUME NEW a, a # None, NEW log \in Seq(Event)
  PROVE  FirstStop(a, log) = a
<1>. DEFINE n == Len(log)
            news == [i \in 1 .. n |-> log[i].new]
            stops == <<a>> \o news
            given == { i \in DOMAIN stops : stops[i] # None }
<1>1. n \in Nat
  BY LenProperties
<1>2. DOMAIN stops = 1 .. n + 1 /\ stops[1] = a
  <2>1. news \in Seq({log[i].new : i \in 1 .. n}) /\ Len(news) = n
    BY <1>1
  <2>2. <<a>> \in Seq({a}) /\ Len(<<a>>) = 1
    OBVIOUS
  <2>. QED  BY <1>1, <2>1, <2>2
<1>3. FirstStop(a, log) = IF given = {} THEN None ELSE stops[Min(given)]
  BY DEF FirstStop
<1>. HIDE DEF n, news, stops
<1>4. 1 \in given /\ given \subseteq Int /\ \A y \in given : 1 <= y
  BY <1>1, <1>2
<1>. HIDE DEF given
<1>5. Min(given) = 1
  BY ONLY <1>4, MinIs
<1>. QED  BY <1>2, <1>3, <1>4, <1>5

PlanInv(t) ==
  lot[t] = t => /\ trade[t].initial_stop_price = FirstStop(born[t], events[t])
                /\ trade[t].initial_stop_price = None => trade[t].stop_price = None

\* A purchase that is not committed has the plan its stop makes.
PendingPlanned ==
  \A c \in Clients : Pending(c) => req[c].row.initial_stop_price = req[c].row.stop_price

LEMMA PendingPlannedStep == Steady /\ PendingPlanned /\ [Next]_vars => PendingPlanned'
<1> SUFFICES ASSUME Steady, PendingPlanned, [Next]_vars PROVE PendingPlanned'
  OBVIOUS
<1>0. DOMAIN req = Clients /\ \A c \in Clients : req[c].op # "idle" => req[c].row \in Trade
  BY RequestBusy DEF Steady, TypeOK, RequestsTyped
<1>1. ASSUME NEW c \in Clients, \A d \in Clients \ {c} : req'[d] = req[d],
             Pending(c)' => req'[c].row.initial_stop_price = req'[c].row.stop_price
      PROVE  PendingPlanned'
  BY <1>1 DEF PendingPlanned, Pending
<1>2. ASSUME NEW c \in Clients, Insert(c) PROVE PendingPlanned'
  BY <1>0, <1>1, <1>2 DEF Insert, NewTrade
<1>3. ASSUME NEW c \in Clients, Link(c) PROVE PendingPlanned'
  <2>1. req[c].row \in Trade /\ req[c].row.initial_stop_price = req[c].row.stop_price
    BY <1>0, <1>3 DEF Link, PendingPlanned, Pending
  <2>2. \A p : LET row == [req[c].row EXCEPT !.parent_trade_id = p]
               IN  row.initial_stop_price = row.stop_price
    BY <2>1 DEF Trade
  <2>3. req'[c].row.initial_stop_price = req'[c].row.stop_price /\ \A d \in Clients \ {c} : req'[d] = req[d]
    BY <1>0, <1>3, <2>2 DEF Link
  <2>. QED  BY <1>1, <2>3
<1>4. ASSUME NEW c \in Clients,
             \/ CommitTrade(c) \/ LogInitialStop(c) \/ Lock(c) \/ PartialClose(c)
             \/ FullClose(c) \/ Patch(c) \/ Abort(c)
      PROVE  PendingPlanned'
  <2>1. ~ Pending(c)' /\ \A d \in Clients \ {c} : req'[d] = req[d]
    <3>1. CASE CommitTrade(c)
      BY <1>0, <3>1 DEF CommitTrade, Pending, Idle
    <3>2. CASE LogInitialStop(c) \/ Lock(c) \/ Abort(c)
      BY <1>0, <3>2 DEF LogInitialStop, Lock, Abort, Pending, Idle
    <3>3. ASSUME PartialClose(c) \/ FullClose(c) \/ Patch(c)
          PROVE  ~ Pending(c)' /\ \A d \in Clients \ {c} : req'[d] = req[d]
      <4>1. req' = [req EXCEPT ![c] = Idle]
        BY <3>3 DEF PartialClose, FullClose, Patch
      <4>. QED  BY <1>0, <4>1 DEF Pending, Idle
    <3>. QED  BY <1>4, <3>1, <3>2, <3>3
  <2>. QED  BY <1>1, <2>1
<1>5. ASSUME NEW c \in Clients, Delete(c) PROVE PendingPlanned'
  BY <1>5 DEF Delete, PendingPlanned, Pending
<1>6. CASE UNCHANGED vars
  BY <1>6 DEF PendingPlanned, Pending
<1>. QED  BY <1>2, <1>3, <1>4, <1>5, <1>6 DEF Next

FirstStopKept == \A t \in Rows : PlanInv(t)

LEMMA FirstStopStep ==
  Steady /\ LotsKnown /\ StopsLogged /\ PendingPlanned /\ FirstStopKept /\ [Next]_vars => FirstStopKept'
<1> SUFFICES ASSUME Steady, LotsKnown, StopsLogged, PendingPlanned, FirstStopKept, [Next]_vars
             PROVE  FirstStopKept'
  OBVIOUS
<1>0. /\ Ids \subseteq Nat /\ Rows \subseteq Ids
      /\ DOMAIN events = Ids /\ DOMAIN born = Ids /\ lot \in [Ids -> Ids]
      /\ \A t \in Rows : trade[t] \in Trade /\ events[t] \in Seq(Event)
  <2>1. Ids \subseteq Nat /\ Rows \subseteq Ids
    BY DEF Rows, Ids
  <2>2. DOMAIN events = Ids /\ DOMAIN born = Ids /\ lot \in [Ids -> Ids]
    BY DEF Steady, TypeOK, EventsTyped, HistoryTyped
  <2>3. \A t \in Rows : trade[t] \in Trade /\ events[t] \in Seq(Event)
    BY <2>1 DEF Steady, TypeOK, TradesTyped, EventsTyped, Rows
  <2>. QED  BY <2>1, <2>2, <2>3
\* A row of which nothing here changes.
<1>1. ASSUME NEW t \in Rows, lot'[t] = lot[t], born'[t] = born[t], events'[t] = events[t],
             trade'[t].initial_stop_price = trade[t].initial_stop_price,
             trade'[t].stop_price = trade[t].stop_price
      PROVE  PlanInv(t)'
  BY <1>1 DEF FirstStopKept, PlanInv
<1>2. ASSUME NEW c \in Clients, CommitTrade(c) PROVE FirstStopKept'
  <2>0. PICK n, row : n = req[c].id /\ row = req[c].row
    OBVIOUS
  <2>1. /\ n \in Ids \ Rows /\ Rows' = Rows \cup {n} /\ trade'[n] = row
        /\ \A t \in Rows : Kept(t)
        /\ events' = events /\ lot' = lot /\ born' = [born EXCEPT ![n] = row.stop_price]
    BY <1>2, <2>0, CommitEffect DEF CommitTrade
  <2>2. row.initial_stop_price = row.stop_price
    BY <1>2, <2>0 DEF CommitTrade, PendingPlanned, Pending
  <2>3. events[n] = <<>> /\ born'[n] = row.stop_price
    BY <1>0, <2>1 DEF StopsLogged
  <2>4. PlanInv(n)'
    <3>1. FirstStop(born'[n], events'[n]) = row.stop_price
      <4>1. events'[n] = <<>>
        BY <2>1, <2>3
      <4>. QED  BY <2>3, <4>1, FirstStopOfNone
    <3>. QED  BY <2>1, <2>2, <3>1 DEF PlanInv
  <2>5. ASSUME NEW t \in Rows PROVE PlanInv(t)'
    <3>1. born'[t] = born[t]
      BY <1>0, <2>1
    <3>2. lot'[t] = lot[t] /\ events'[t] = events[t] /\ Kept(t)
      BY <2>1
    <3>3. /\ trade'[t].initial_stop_price = trade[t].initial_stop_price
          /\ trade'[t].stop_price = trade[t].stop_price
      BY <3>2 DEF Kept
    <3>. QED  BY <1>1, <3>1, <3>2, <3>3
  <2>. QED  BY <2>1, <2>4, <2>5 DEF FirstStopKept
<1>3. ASSUME NEW c \in Clients, LogInitialStop(c) PROVE FirstStopKept'
  <2>. DEFINE n == req[c].id
              e == StopEvent(None, req[c].row.stop_price, "initial")
  <2>1. /\ n \in Rows /\ trade' = trade /\ Rows' = Rows /\ born' = born /\ lot' = lot
        /\ events' = [events EXCEPT ![n] = Append(@, e)]
        /\ req[c].op = "log"
    BY <1>3 DEF LogInitialStop, Rows
  <2>2. born[n] # None
    BY <2>1 DEF StopsLogged
  <2>3. e \in Event
    <3>1. req[c].row.stop_price \in Stops \cup {None}
      BY <2>1, RequestBusy DEF Steady, TypeOK, Trade
    <3>. QED  BY <3>1 DEF StopEvent, Event, StopChanges
  <2>. HIDE DEF n, e
  <2>4. events'[n] = Append(events[n], e) /\ \A t \in Ids \ {n} : events'[t] = events[t]
    BY <1>0, <2>1
  <2>5. FirstStop(born[n], events'[n]) = FirstStop(born[n], events[n])
    <3>1. events[n] \in Seq(Event) /\ events'[n] \in Seq(Event)
      BY <1>0, <2>1, <2>3, <2>4
    <3>. QED  BY <2>2, <3>1, FirstStopAtBirth
  <2>6. ASSUME NEW t \in Rows PROVE PlanInv(t)'
    <3>1. CASE t = n
      BY <2>1, <2>5, <3>1 DEF FirstStopKept, PlanInv
    <3>2. CASE t # n
      <4>1. events'[t] = events[t]
        BY <1>0, <2>4, <3>2
      <4>. QED  BY <1>1, <2>1, <4>1
    <3>. QED  BY <3>1, <3>2
  <2>. QED  BY <2>1, <2>6 DEF FirstStopKept
<1>4. ASSUME NEW c \in Clients, PartialClose(c) PROVE FirstStopKept'
  <2>1. PICK s \in Rows : Split(s)
    BY <1>4, SplitEffect
  <2>2. /\ events' = events /\ nextId \in Ids \ Rows /\ Rows' = Rows \cup {nextId}
        /\ \A t \in Rows : /\ trade'[t].initial_stop_price = trade[t].initial_stop_price
                           /\ trade'[t].stop_price = trade[t].stop_price
        /\ lot'[nextId] = lot[s] /\ \A t \in Rows : lot'[t] = lot[t] /\ born'[t] = born[t]
    BY <1>0, <1>4, <2>1 DEF PartialClose, Split
  <2>3. lot'[nextId] # nextId
    BY <1>0, <2>2 DEF LotsKnown
  <2>. QED  BY <1>1, <2>2, <2>3 DEF FirstStopKept, PlanInv
<1>5. ASSUME NEW c \in Clients, FullClose(c) PROVE FirstStopKept'
  BY <1>1, <1>5, CloseEffect DEF FullClose, Kept, FirstStopKept
<1>6. ASSUME NEW c \in Clients, Patch(c) PROVE FirstStopKept'
  <2>1. PICK s \in Rows, u \in Patches : Edited(s, u)
    BY <1>6, PatchEffect
  <2>. DEFINE new == Updated(trade[s], u, "stop_price")
              more == Recorded(trade[s], u)
  <2>2. /\ Rows' = Rows /\ \A t \in Rows \ {s} : trade'[t] = trade[t]
        /\ trade'[s].stop_price = new
        /\ trade'[s].initial_stop_price = InitialStop(trade[s], u)
        /\ events'[s] = events[s] \o more /\ \A t \in Ids \ {s} : events'[t] = events[t]
        /\ lot' = lot /\ born' = born
    BY <1>0, <1>6, <2>1 DEF Edited, Patch
  <2>3. \/ more = <<>> /\ new = trade[s].stop_price
        \/ \E kind \in StopChanges : /\ more = <<StopEvent(trade[s].stop_price, new, kind)>>
                                     /\ "stop_price" \in DOMAIN u
    BY <1>0, RecordedStops
  <2>4. InitialStop(trade[s], u) =
          IF "stop_price" \in DOMAIN u /\ trade[s].initial_stop_price = None
          THEN new ELSE trade[s].initial_stop_price
    BY DEF InitialStop, Updated
  <2>5. "stop_price" \notin DOMAIN u => new = trade[s].stop_price
    BY DEF Updated
  <2>6. events[s] \in Seq(Event) /\ new \in Stops \cup {None} /\ trade[s].stop_price \in Stops \cup {None}
    <3>1. Patched(trade[s], u) \in Trade /\ Patched(trade[s], u).stop_price = new
      BY <1>0, PatchedTyped DEF Patched
    <3>. QED  BY <1>0, <3>1 DEF Trade
  <2>. HIDE DEF new, more
  <2>7. PlanInv(s)'
    <3>. SUFFICES ASSUME lot[s] = s
                  PROVE  /\ trade'[s].initial_stop_price = FirstStop(born[s], events'[s])
                         /\ trade'[s].initial_stop_price = None => trade'[s].stop_price = None
      BY <2>2 DEF PlanInv
    <3>1. /\ trade[s].initial_stop_price = FirstStop(born[s], events[s])
          /\ trade[s].initial_stop_price = None => trade[s].stop_price = None
      BY DEF FirstStopKept, PlanInv
    <3>2. CASE more = <<>> /\ new = trade[s].stop_price
      <4>1. events'[s] = events[s]
        BY <2>2, <2>6, <3>2, ConcatEmptySeq
      <4>. QED  BY <2>2, <2>4, <3>1, <3>2, <4>1
    <3>3. CASE \E kind \in StopChanges : /\ more = <<StopEvent(trade[s].stop_price, new, kind)>>
                                         /\ "stop_price" \in DOMAIN u
      <4>1. PICK kind \in StopChanges : /\ more = <<StopEvent(trade[s].stop_price, new, kind)>>
                                        /\ "stop_price" \in DOMAIN u
        BY <3>3
      <4>. DEFINE e == StopEvent(trade[s].stop_price, new, kind)
      <4>2. e \in Event /\ e.new = new
        BY <2>6 DEF StopEvent, Event
      <4>3. events'[s] = events[s] \o <<e>>
        BY <2>2, <4>1
      <4>. HIDE DEF e
      <4>4. FirstStop(born[s], events'[s]) =
              IF trade[s].initial_stop_price # None THEN trade[s].initial_stop_price ELSE new
        BY <2>6, <3>1, <4>2, <4>3, FirstStopGoesOn
      <4>. QED  BY <2>2, <2>4, <3>1, <4>1, <4>4
    <3>. QED  BY <2>3, <3>2, <3>3
  <2>8. ASSUME NEW t \in Rows \ {s} PROVE PlanInv(t)'
    <3>1. events'[t] = events[t] /\ trade'[t] = trade[t]
      BY <1>0, <2>2
    <3>. QED  BY <1>1, <2>2, <3>1
  <2>. QED  BY <2>2, <2>7, <2>8 DEF FirstStopKept
<1>7. ASSUME NEW c \in Clients, Delete(c) PROVE FirstStopKept'
  <2>1. PICK t \in Rows : /\ trade' = [trade EXCEPT ![t] = None]
                          /\ events' = [events EXCEPT ![t] = <<>>]
    BY <1>7 DEF Delete
  <2>2. lot' = lot /\ born' = born
    BY <1>7 DEF Delete
  <2>3. /\ Rows' = Rows \ {t} /\ \A x \in Rows \ {t} : trade'[x] = trade[x] /\ events'[x] = events[x]
    BY <1>0, <2>1 DEF Rows, Steady, TypeOK, TradesTyped
  <2>. QED  BY <1>1, <2>2, <2>3 DEF FirstStopKept
<1>8. ASSUME NEW c \in Clients, Insert(c) \/ Link(c) \/ Abort(c) \/ Lock(c) PROVE FirstStopKept'
  <2>1. trade' = trade /\ events' = events /\ lot' = lot /\ born' = born /\ Rows' = Rows
    BY <1>8 DEF Insert, Link, Abort, Lock, Rows
  <2>. QED  BY <1>1, <2>1 DEF FirstStopKept
<1>9. CASE UNCHANGED vars
  BY <1>9 DEF FirstStopKept, PlanInv, Rows
<1>. QED
  BY <1>2, <1>3, <1>4, <1>5, <1>6, <1>7, <1>8, <1>9 DEF Next

\* The plan of a trade opened as such is the first stop its log tells of, for any
\* number of requests and all patches.  It takes that a trade without a plan has
\* no stop: a patch that gives it one then logs a change and makes the plan.
THEOREM PlanIsFirstStop == Spec => []InitialIsFirstStop
<1>1. Init => LotsKnown /\ StopsLogged /\ StopLogChains /\ PendingPlanned /\ FirstStopKept
  BY DEF Init, LotsKnown, StopsLogged, StopLogChains, PendingPlanned, FirstStopKept, Pending, Rows, Idle
<1>2. Steady /\ LotsKnown /\ StopsLogged /\ StopLogChains /\ PendingPlanned /\ FirstStopKept /\ [Next]_vars
        => LotsKnown' /\ StopsLogged' /\ StopLogChains' /\ PendingPlanned' /\ FirstStopKept'
  BY LotsStep, LoggedStep, StopLogStep, PendingPlannedStep, FirstStopStep
<1>3. Spec => []Steady
  BY TypeCorrect, LocksHold, PTL DEF Steady
<1>4. FirstStopKept => InitialIsFirstStop
  BY DEF FirstStopKept, PlanInv, InitialIsFirstStop
<1>. QED  BY <1>1, <1>2, <1>3, <1>4, PTL DEF Spec

-----------------------------------------------------------------------------
(* Decisions are episodes *)

\* Legs of one symbol with dates as they are stored.
Dated(legs) ==
  /\ DOMAIN legs \subseteq Nat /\ IsFiniteSet(DOMAIN legs)
  /\ \A t \in DOMAIN legs : legs[t].entry_date \in Nat /\ legs[t].exit_date \in Nat \cup {None}

Upto(legs, a, b) == a = b \/ Precedes(legs, a, b)

LEMMA PrecedesOrders ==
  ASSUME NEW legs, Dated(legs), NEW a \in DOMAIN legs, NEW b \in DOMAIN legs, NEW c \in DOMAIN legs
  PROVE  /\ ~ Precedes(legs, a, a)
         /\ Precedes(legs, a, b) /\ Precedes(legs, b, c) => Precedes(legs, a, c)
         /\ Upto(legs, a, b) \/ Precedes(legs, b, a)
         /\ Precedes(legs, a, b) => ~ Precedes(legs, b, a)
         /\ Precedes(legs, a, b) => legs[a].entry_date <= legs[b].entry_date
<1>1. a \in Nat /\ b \in Nat /\ c \in Nat
  BY DEF Dated
<1>2. legs[a].entry_date \in Nat /\ legs[b].entry_date \in Nat /\ legs[c].entry_date \in Nat
  BY DEF Dated
<1>. QED  BY <1>1, <1>2 DEF Precedes, Upto

\* Some legs that are not none have a first and a last one.
LEMMA FirstAndLastLeg ==
  ASSUME NEW legs, Dated(legs), NEW T, T \subseteq DOMAIN legs, T # {}
  PROVE  /\ \E m \in T : \A x \in T : Upto(legs, m, x)
         /\ \E m \in T : \A x \in T : Upto(legs, x, m)
<1>. DEFINE D == DOMAIN legs
            P == {S \in SUBSET D : S # {} => /\ \E m \in S : \A x \in S : Upto(legs, m, x)
                                             /\ \E m \in S : \A x \in S : Upto(legs, x, m)}
<1>1. {} \in P
  OBVIOUS
<1>2. ASSUME NEW S \in SUBSET T, NEW x \in T \ S, S \in P PROVE S \cup {x} \in P
  <2>0. S \cup {x} \in SUBSET D
    BY <1>2
  <2>1. CASE S = {}
    BY <2>0, <2>1 DEF Upto
  <2>2. CASE S # {}
    <3>1. PICK lo \in S : \A y \in S : Upto(legs, lo, y)
      BY <1>2, <2>2
    <3>2. PICK hi \in S : \A y \in S : Upto(legs, y, hi)
      BY <1>2, <2>2
    <3>3. \E m \in S \cup {x} : \A y \in S \cup {x} : Upto(legs, m, y)
      <4>1. CASE Precedes(legs, x, lo)
        <5>1. ASSUME NEW y \in S PROVE Upto(legs, x, y)
          BY <3>1, <4>1, <2>0, <5>1, PrecedesOrders DEF Upto
        <5>. QED  BY <5>1 DEF Upto
      <4>2. CASE ~ Precedes(legs, x, lo)
        <5>1. Upto(legs, lo, x)
          BY <4>2, <2>0, PrecedesOrders
        <5>. QED  BY <3>1, <5>1
      <4>. QED  BY <4>1, <4>2
    <3>4. \E m \in S \cup {x} : \A y \in S \cup {x} : Upto(legs, y, m)
      <4>1. CASE Precedes(legs, hi, x)
        <5>1. ASSUME NEW y \in S PROVE Upto(legs, y, x)
          BY <3>2, <4>1, <2>0, <5>1, PrecedesOrders DEF Upto
        <5>. QED  BY <5>1 DEF Upto
      <4>2. CASE ~ Precedes(legs, hi, x)
        <5>1. Upto(legs, x, hi)
          BY <4>2, <2>0, PrecedesOrders
        <5>. QED  BY <3>2, <5>1
      <4>. QED  BY <4>1, <4>2
    <3>. QED  BY <2>0, <3>3, <3>4
  <2>. QED  BY <2>1, <2>2
<1>3. IsFiniteSet(T)
  BY FS_Subset DEF Dated
<1>. HIDE DEF P
<1>4. T \in P
  BY <1>1, <1>2, <1>3, SetInduction
<1>. QED  BY <1>4 DEF P

\* The episode of a leg starts at the last start up to it.
IsStart(legs, s, t) ==
  /\ s \in DOMAIN legs /\ StartsEpisode(legs, s) /\ Upto(legs, s, t)
  /\ \A x \in DOMAIN legs : StartsEpisode(legs, x) /\ Precedes(legs, s, x) => Precedes(legs, t, x)

LEMMA StartExists ==
  ASSUME NEW legs, Dated(legs), NEW t \in DOMAIN legs
  PROVE  IsStart(legs, EpisodeStart(legs, t), t)
<1>. DEFINE starts == {s \in DOMAIN legs : StartsEpisode(legs, s) /\ Upto(legs, s, t)}
<1>1. PICK first \in DOMAIN legs : \A x \in DOMAIN legs : Upto(legs, first, x)
  BY FirstAndLastLeg
<1>2. StartsEpisode(legs, first)
  <2>1. \A e \in DOMAIN legs : ~ Precedes(legs, e, first)
    BY <1>1, PrecedesOrders DEF Upto
  <2>. QED  BY <2>1 DEF StartsEpisode
<1>3. first \in starts
  BY <1>1, <1>2
<1>4. PICK last \in starts : \A s \in starts : Upto(legs, s, last)
  <2>1. starts \subseteq DOMAIN legs /\ starts # {}
    BY <1>3
  <2>. HIDE DEF starts
  <2>. QED  BY <2>1, FirstAndLastLeg
<1>5. ASSUME NEW x \in DOMAIN legs, StartsEpisode(legs, x), Precedes(legs, last, x)
      PROVE  Precedes(legs, t, x)
  <2>1. ~ Upto(legs, x, last)
    BY <1>4, <1>5, PrecedesOrders DEF Upto
  <2>2. x \notin starts
    BY <1>4, <2>1
  <2>. QED  BY <1>5, <2>2, PrecedesOrders
<1>6. IsStart(legs, last, t)
  BY <1>4, <1>5 DEF IsStart
<1>7. EpisodeStart(legs, t) = CHOOSE s \in DOMAIN legs : IsStart(legs, s, t)
  BY DEF EpisodeStart, IsStart, Upto
<1>. QED  BY <1>4, <1>6, <1>7

LEMMA StartUnique ==
  ASSUME NEW legs, Dated(legs), NEW t \in DOMAIN legs, NEW s, IsStart(legs, s, t)
  PROVE  EpisodeStart(legs, t) = s
<1>. DEFINE z == EpisodeStart(legs, t)
<1>1. IsStart(legs, z, t)
  BY StartExists
<1>. HIDE DEF z
<1>2. /\ s \in DOMAIN legs /\ z \in DOMAIN legs /\ StartsEpisode(legs, s) /\ StartsEpisode(legs, z)
      /\ Upto(legs, s, t) /\ Upto(legs, z, t)
      /\ Precedes(legs, s, z) => Precedes(legs, t, z)
      /\ Precedes(legs, z, s) => Precedes(legs, t, s)
  BY <1>1 DEF IsStart
<1>3. ASSUME NEW x \in DOMAIN legs, Precedes(legs, t, x), Upto(legs, x, t) PROVE FALSE
  BY <1>3, PrecedesOrders DEF Upto
<1>4. ~ Precedes(legs, s, z) /\ ~ Precedes(legs, z, s)
  BY <1>2, <1>3
<1>5. s = z
  BY <1>2, <1>4, PrecedesOrders DEF Upto
<1>. QED  BY <1>5 DEF z

Overlaps(legs, a, b) ==
  ~ EndedBefore(legs[a], legs[b].entry_date) /\ ~ EndedBefore(legs[b], legs[a].entry_date)

InOrder(legs) == \A t \in DOMAIN legs : ~ EndedBefore(legs[t], legs[t].entry_date)

Held(legs, a, b) ==
  \A X \in SUBSET DOMAIN legs :
    a \in X /\ (\A x \in X, y \in DOMAIN legs : Overlaps(legs, x, y) => y \in X) => b \in X

LEMMA EndedLater ==
  ASSUME NEW legs, Dated(legs), NEW t \in DOMAIN legs, NEW d \in Nat, NEW e \in Nat, d <= e,
         EndedBefore(legs[t], d)
  PROVE  EndedBefore(legs[t], e)
<1>1. legs[t].exit_date \in Nat \cup {None}
  BY DEF Dated
<1>. QED  BY <1>1 DEF EndedBefore, Open

\* A leg that did not start its episode overlaps an earlier one of it.
LEMMA EarlierOverlap ==
  ASSUME NEW legs, Dated(legs), InOrder(legs), NEW m \in DOMAIN legs, NEW s,
         EpisodeStart(legs, m) = s, m # s
  PROVE  \E e \in DOMAIN legs : /\ Precedes(legs, e, m) /\ EpisodeStart(legs, e) = s
                                /\ Overlaps(legs, e, m) /\ Overlaps(legs, m, e)
<1>1. IsStart(legs, s, m)
  BY StartExists
<1>2. /\ s \in DOMAIN legs /\ StartsEpisode(legs, s) /\ Precedes(legs, s, m)
      /\ \A x \in DOMAIN legs : StartsEpisode(legs, x) /\ Precedes(legs, s, x) => Precedes(legs, m, x)
  BY <1>1 DEF IsStart, Upto
<1>3. ~ StartsEpisode(legs, m)
  BY <1>2, PrecedesOrders
<1>4. PICK e \in DOMAIN legs : Precedes(legs, e, m) /\ ~ EndedBefore(legs[e], legs[m].entry_date)
  BY <1>3 DEF StartsEpisode
<1>5. legs[e].entry_date \in Nat /\ legs[m].entry_date \in Nat /\ legs[s].entry_date \in Nat
  BY <1>2 DEF Dated
<1>6. legs[e].entry_date <= legs[m].entry_date /\ legs[s].entry_date <= legs[m].entry_date
  BY <1>2, <1>4, PrecedesOrders
<1>7. ~ EndedBefore(legs[m], legs[e].entry_date)
  BY <1>5, <1>6, EndedLater DEF InOrder
<1>8. ~ Precedes(legs, e, s)
  <2>1. ASSUME Precedes(legs, e, s) PROVE FALSE
    <3>1. EndedBefore(legs[e], legs[s].entry_date)
      BY <1>2, <2>1 DEF StartsEpisode
    <3>. QED  BY <1>4, <1>5, <1>6, <3>1, EndedLater
  <2>. QED  BY <2>1
<1>9. Upto(legs, s, e)
  BY <1>2, <1>8, PrecedesOrders
<1>10. ASSUME NEW x \in DOMAIN legs, StartsEpisode(legs, x), Precedes(legs, s, x)
       PROVE  Precedes(legs, e, x)
  <2>1. Precedes(legs, m, x)
    BY <1>2, <1>10
  <2>. QED  BY <1>4, <2>1, PrecedesOrders
<1>11. IsStart(legs, s, e)
  BY <1>2, <1>9, <1>10 DEF IsStart
<1>. QED  BY <1>4, <1>7, <1>11, StartUnique DEF Overlaps

\* A first leg of a part of an episode that the part's other legs lead back from is the start.
LEMMA HeldBack ==
  ASSUME NEW legs, Dated(legs), InOrder(legs), NEW s, NEW T, T \subseteq DOMAIN legs, T # {},
         \A t \in T : EpisodeStart(legs, t) = s,
         \A m \in T, e \in DOMAIN legs :
           EpisodeStart(legs, e) = s /\ Overlaps(legs, e, m) /\ Overlaps(legs, m, e) => e \in T
  PROVE  s \in T
<1>1. PICK m \in T : \A x \in T : Upto(legs, m, x)
  BY FirstAndLastLeg
<1>2. ASSUME m # s PROVE FALSE
  <2>1. PICK e \in DOMAIN legs : /\ Precedes(legs, e, m) /\ EpisodeStart(legs, e) = s
                                 /\ Overlaps(legs, e, m) /\ Overlaps(legs, m, e)
    BY <1>2, EarlierOverlap
  <2>2. e \in T
    BY <2>1
  <2>. QED  BY <1>1, <2>1, <2>2, PrecedesOrders DEF Upto
<1>. QED  BY <1>2

\* Legs that overlap belong to one episode.
LEMMA OverlapJoins ==
  ASSUME NEW legs, Dated(legs), NEW x \in DOMAIN legs, NEW y \in DOMAIN legs, Overlaps(legs, x, y)
  PROVE  EpisodeStart(legs, x) = EpisodeStart(legs, y)
<1>1. ASSUME NEW a \in DOMAIN legs, NEW b \in DOMAIN legs, ~ EndedBefore(legs[a], legs[b].entry_date),
             Precedes(legs, EpisodeStart(legs, a), EpisodeStart(legs, b))
      PROVE  FALSE
  <2>1. PICK s, z : s = EpisodeStart(legs, a) /\ z = EpisodeStart(legs, b)
    OBVIOUS
  <2>2. IsStart(legs, s, a) /\ IsStart(legs, z, b)
    BY <2>1, StartExists
  <2>3. z \in DOMAIN legs /\ StartsEpisode(legs, z) /\ Upto(legs, z, b) /\ Precedes(legs, a, z)
    BY <1>1, <2>1, <2>2 DEF IsStart
  <2>4. EndedBefore(legs[a], legs[z].entry_date)
    BY <2>3 DEF StartsEpisode
  <2>5. legs[z].entry_date \in Nat /\ legs[b].entry_date \in Nat /\ legs[z].entry_date <= legs[b].entry_date
    BY <2>3, PrecedesOrders DEF Dated, Upto
  <2>. QED  BY <1>1, <2>4, <2>5, EndedLater
<1>2. EpisodeStart(legs, x) \in DOMAIN legs /\ EpisodeStart(legs, y) \in DOMAIN legs
  BY StartExists DEF IsStart
<1>. QED  BY <1>1, <1>2, PrecedesOrders DEF Overlaps, Upto

\* What two legs of one episode share, and the representative stands for.
LEMMA RepresentativeStands ==
  ASSUME NEW legs, Dated(legs), NEW t \in DOMAIN legs
  PROVE  /\ Representative(legs, t) \in DOMAIN legs
         /\ EpisodeStart(legs, Representative(legs, t)) = EpisodeStart(legs, t)
         /\ \A u \in DOMAIN legs :
              Representative(legs, u) = Representative(legs, t) <=> EpisodeStart(legs, u) = EpisodeStart(legs, t)
<1>. DEFINE held(x) == { e \in Episode(legs, x) : Open(legs[e]) }
<1>1. ASSUME NEW x \in DOMAIN legs
      PROVE  Representative(legs, x) \in DOMAIN legs
             /\ EpisodeStart(legs, Representative(legs, x)) = EpisodeStart(legs, x)
  <2>1. x \in Episode(legs, x) /\ Episode(legs, x) \subseteq DOMAIN legs /\ Episode(legs, x) \subseteq Nat
    BY DEF Episode, Dated
  <2>2. held(x) \subseteq Episode(legs, x)
    OBVIOUS
  <2>3. Representative(legs, x) = Min(IF held(x) # {} THEN held(x) ELSE Episode(legs, x))
    BY DEF Representative
  <2>. HIDE DEF held
  <2>4. Min(Episode(legs, x)) \in Episode(legs, x)
    BY <2>1, MinExists
  <2>5. held(x) # {} => Min(held(x)) \in held(x)
    BY <2>1, <2>2, MinExists
  <2>6. Representative(legs, x) \in Episode(legs, x)
    BY <2>2, <2>3, <2>4, <2>5
  <2>. QED  BY <2>6 DEF Episode
<1>2. ASSUME NEW u \in DOMAIN legs, EpisodeStart(legs, u) = EpisodeStart(legs, t)
      PROVE  Representative(legs, u) = Representative(legs, t)
  <2>1. Episode(legs, u) = Episode(legs, t)
    BY <1>2 DEF Episode
  <2>. QED  BY <2>1 DEF Representative
<1>. QED  BY <1>1, <1>2

\* Two legs have one representative exactly when the symbol was held between them.
LEMMA EpisodesAreHeld ==
  ASSUME NEW legs, Dated(legs), InOrder(legs), NEW a \in DOMAIN legs, NEW b \in DOMAIN legs
  PROVE  Representative(legs, a) = Representative(legs, b) <=> Held(legs, a, b)
<1>1. ASSUME EpisodeStart(legs, a) = EpisodeStart(legs, b) PROVE Held(legs, a, b)
  <2>1. PICK s : s = EpisodeStart(legs, a) /\ s = EpisodeStart(legs, b)
    BY <1>1
  <2>. SUFFICES ASSUME NEW X \in SUBSET DOMAIN legs, a \in X,
                       \A x \in X, y \in DOMAIN legs : Overlaps(legs, x, y) => y \in X
                PROVE  b \in X
    BY DEF Held
  <2>. DEFINE In == {t \in X : EpisodeStart(legs, t) = s}
              Out == {t \in DOMAIN legs \ X : EpisodeStart(legs, t) = s}
  <2>2. s \in In
    <3>1. In \subseteq DOMAIN legs /\ In # {} /\ \A t \in In : EpisodeStart(legs, t) = s
      BY <2>1
    <3>2. \A m \in In, e \in DOMAIN legs :
            EpisodeStart(legs, e) = s /\ Overlaps(legs, e, m) /\ Overlaps(legs, m, e) => e \in In
      OBVIOUS
    <3>. HIDE DEF In
    <3>. QED  BY <3>1, <3>2, HeldBack
  <2>3. Out = {}
    <3>. SUFFICES ASSUME Out # {} PROVE FALSE
      OBVIOUS
    <3>1. Out \subseteq DOMAIN legs /\ \A t \in Out : EpisodeStart(legs, t) = s
      OBVIOUS
    <3>2. \A m \in Out, e \in DOMAIN legs :
            EpisodeStart(legs, e) = s /\ Overlaps(legs, e, m) /\ Overlaps(legs, m, e) => e \in Out
      OBVIOUS
    <3>3. s \notin Out
      BY <2>2
    <3>. HIDE DEF Out
    <3>. QED  BY <3>1, <3>2, <3>3, HeldBack
  <2>. QED  BY <2>1, <2>3
<1>2. ASSUME Held(legs, a, b) PROVE EpisodeStart(legs, a) = EpisodeStart(legs, b)
  <2>. DEFINE X == {t \in DOMAIN legs : EpisodeStart(legs, t) = EpisodeStart(legs, a)}
  <2>1. X \in SUBSET DOMAIN legs /\ a \in X
    OBVIOUS
  <2>2. \A x \in X, y \in DOMAIN legs : Overlaps(legs, x, y) => y \in X
    BY OverlapJoins
  <2>3. b \in X
    <3>. HIDE DEF X
    <3>. QED  BY <1>2, <2>1, <2>2 DEF Held
  <2>. QED  BY <2>3
<1>. QED  BY <1>1, <1>2, RepresentativeStands

\* The links of a set of legs: each is that to the representative.
LEMMA LinkOf ==
  ASSUME NEW legs, Dated(legs), NEW t \in DOMAIN legs
  PROVE  LET link == AssignDecisionLinks(legs)
         IN  /\ (IF link[t] = None THEN t ELSE link[t]) = Representative(legs, t)
             /\ link[t] # None => link[t] \in DOMAIN legs /\ link[link[t]] = None
<1>. DEFINE rep(x) == Representative(legs, x)
            link == AssignDecisionLinks(legs)
<1>1. \A x \in DOMAIN legs : rep(x) \in DOMAIN legs /\ rep(x) # None /\ rep(rep(x)) = rep(x)
  <2>1. \A x \in DOMAIN legs : rep(x) \in DOMAIN legs /\ rep(rep(x)) = rep(x)
    BY RepresentativeStands
  <2>2. None \notin DOMAIN legs
    BY JournalAssumption DEF Dated
  <2>. QED  BY <2>1, <2>2
<1>2. \A x \in DOMAIN legs : link[x] = IF rep(x) = x THEN None ELSE rep(x)
  BY DEF AssignDecisionLinks
<1>. HIDE DEF rep, link
<1>3. /\ (IF link[t] = None THEN t ELSE link[t]) = rep(t)
      /\ link[t] # None => link[t] \in DOMAIN legs /\ link[link[t]] = None
  BY <1>1, <1>2
<1>. QED  BY <1>3 DEF rep, link

\* One request runs at a time and nothing is deleted.
Alone == Deleters = {} /\ \A c, d \in Clients : c = d

\* The links a purchase is about to commit are those of the legs it will make.
Regrouped(c, legs) ==
  /\ DOMAIN legs = Rows \cup {req[c].id}
  /\ \A t \in Rows : legs[t] = trade[t]
  /\ legs[req[c].id].entry_date = req[c].row.entry_date
  /\ legs[req[c].id].exit_date = req[c].row.exit_date
  /\ req[c].row.parent_trade_id = AssignDecisionLinks(legs)[req[c].id]
  /\ \A t \in Ids :
       req[c].links[t] = IF t \in Rows /\ AssignDecisionLinks(legs)[t] # Parent(t)
                         THEN AssignDecisionLinks(legs)[t] ELSE Keep

LinksCurrent == \A c \in Clients : req[c].op = "link" => \E legs : Regrouped(c, legs)

LEMMA LinksStep ==
  ASSUME Alone, Steady, LinksCurrent, [Next]_vars PROVE LinksCurrent'
<1>0. DOMAIN req = Clients /\ \A c, d \in Clients : c = d
  BY DEF Alone, Steady, TypeOK, RequestsTyped
<1>1. ASSUME NEW c \in Clients, Link(c) PROVE LinksCurrent'
  <2>1. PICK legs : legs = Visible(c)
    OBVIOUS
  <2>2. PICK n, row : n = req[c].id /\ row = req[c].row
    OBVIOUS
  <2>3. /\ req'[c] = [op |-> "link", id |-> n,
                      row |-> [row EXCEPT !.parent_trade_id = AssignDecisionLinks(legs)[n]],
                      links |-> [t \in Ids |->
                        IF t \in Rows /\ AssignDecisionLinks(legs)[t] # trade[t].parent_trade_id
                        THEN AssignDecisionLinks(legs)[t] ELSE Keep]]
        /\ trade' = trade /\ Rows' = Rows
    BY <1>0, <1>1, <2>1, <2>2 DEF Link, Rows
  <2>4. row \in Trade /\ n \in Ids \ Rows
    BY <1>1, <2>2, RequestBusy DEF Link, Steady, TypeOK, IdsFresh, Pending
  <2>5. /\ DOMAIN legs = Rows \cup {n} /\ legs[n] = row
        /\ \A t \in Rows : legs[t] = trade[t]
    BY <2>1, <2>2, <2>4 DEF Visible
  <2>6. PICK p : p = AssignDecisionLinks(legs)[n]
    OBVIOUS
  <2>7. PICK linked : linked = [row EXCEPT !.parent_trade_id = p]
    OBVIOUS
  <2>8. /\ linked.parent_trade_id = p
        /\ linked.entry_date = row.entry_date /\ linked.exit_date = row.exit_date
    BY <2>4, <2>7 DEF Trade
  <2>9. /\ req'[c].id = n /\ req'[c].row = linked
        /\ \A t \in Ids : req'[c].links[t] =
             IF t \in Rows /\ AssignDecisionLinks(legs)[t] # trade[t].parent_trade_id
             THEN AssignDecisionLinks(legs)[t] ELSE Keep
    BY <2>3, <2>6, <2>7
  <2>10. Regrouped(c, legs)'
    BY <2>3, <2>5, <2>6, <2>8, <2>9 DEF Regrouped, Parent
  <2>11. \A d \in Clients : d = c
    BY <1>0
  <2>. QED  BY <2>10, <2>11 DEF LinksCurrent
<1>2. ASSUME NEW c \in Clients,
             \/ Insert(c) \/ CommitTrade(c) \/ LogInitialStop(c) \/ Lock(c)
             \/ PartialClose(c) \/ FullClose(c) \/ Patch(c) \/ Abort(c)
      PROVE  LinksCurrent'
  <2>1. req'[c].op # "link"
    <3>1. CASE Insert(c) \/ Lock(c)
      BY <1>0, <3>1 DEF Insert, Lock
    <3>2. CASE CommitTrade(c)
      BY <1>0, <3>2 DEF CommitTrade, Idle
    <3>3. ASSUME LogInitialStop(c) \/ PartialClose(c) \/ FullClose(c) \/ Patch(c) \/ Abort(c)
          PROVE  req'[c].op # "link"
      <4>1. req' = [req EXCEPT ![c] = Idle]
        BY <3>3 DEF LogInitialStop, PartialClose, FullClose, Patch, Abort
      <4>. QED  BY <1>0, <4>1 DEF Idle
    <3>. QED  BY <1>2, <3>1, <3>2, <3>3
  <2>2. \A d \in Clients : d = c
    BY <1>0
  <2>. QED  BY <2>1, <2>2 DEF LinksCurrent
<1>3. ASSUME NEW c \in Clients PROVE ~ Delete(c)
  BY DEF Delete, Alone
<1>4. CASE UNCHANGED vars
  <2>1. trade' = trade /\ req' = req /\ Rows' = Rows
    BY <1>4 DEF Rows
  <2>2. \A c, legs : Regrouped(c, legs) => Regrouped(c, legs)'
    BY <2>1 DEF Regrouped, Parent
  <2>. QED  BY <2>1, <2>2 DEF LinksCurrent
<1>. QED  BY <1>1, <1>2, <1>3, <1>4 DEF Next

\* After the commit every leg has the link computed for it.
LEMMA CommitLinks ==
  ASSUME Steady, NEW c \in Clients, NEW legs, Regrouped(c, legs), CommitTrade(c)
  PROVE  /\ Rows' = DOMAIN legs
         /\ \A t \in DOMAIN legs : /\ trade'[t] \in Trade
                                   /\ trade'[t].parent_trade_id = AssignDecisionLinks(legs)[t]
                                   /\ trade'[t].entry_date = legs[t].entry_date
                                   /\ trade'[t].exit_date = legs[t].exit_date
<1>. DEFINE link == AssignDecisionLinks(legs)
            n == req[c].id
<1>1. n \in Ids \ Rows /\ req[c].row \in Trade /\ Rows' = Rows \cup {n} /\ trade'[n] = req[c].row
  BY CommitEffect
<1>2. /\ DOMAIN legs = Rows \cup {n} /\ \A t \in Rows : legs[t] = trade[t]
      /\ legs[n].entry_date = req[c].row.entry_date /\ legs[n].exit_date = req[c].row.exit_date
      /\ req[c].row.parent_trade_id = link[n]
      /\ \A t \in Ids : req[c].links[t] = IF t \in Rows /\ link[t] # Parent(t) THEN link[t] ELSE Keep
  BY DEF Regrouped
<1>3. ASSUME NEW t \in Rows
      PROVE  /\ trade'[t].parent_trade_id = link[t]
             /\ trade'[t].entry_date = legs[t].entry_date
             /\ trade'[t].exit_date = legs[t].exit_date
  <2>1. t \in Ids /\ t # n /\ trade[t] \in Trade /\ legs[t] = trade[t]
    BY <1>1, <1>2 DEF Rows, Steady, TypeOK, TradesTyped
  <2>2. trade'[t] = IF t \in Relinked(c) \ Orphaned(c)
                    THEN [trade[t] EXCEPT !.parent_trade_id = req[c].links[t]] ELSE trade[t]
    BY <2>1 DEF CommitTrade
  <2>3. t \notin Orphaned(c)
    BY DEF Orphaned
  <2>4. t \in Relinked(c) <=> req[c].links[t] # Keep
    BY <2>1 DEF Relinked
  <2>5. CASE req[c].links[t] # Keep
    <3>1. req[c].links[t] = link[t]
      BY <1>2, <2>1, <2>5
    <3>2. trade'[t] = [trade[t] EXCEPT !.parent_trade_id = link[t]]
      BY <2>2, <2>3, <2>4, <2>5, <3>1
    <3>. HIDE DEF link
    <3>. QED  BY <2>1, <3>2 DEF Trade
  <2>6. CASE req[c].links[t] = Keep
    <3>1. trade'[t] = trade[t]
      BY <2>2, <2>4, <2>6
    <3>2. link[t] = Parent(t)
      <4>1. link[t] \in DOMAIN legs \cup {None}
        <5>1. DOMAIN legs \subseteq Nat
          BY <1>1, <1>2 DEF Rows, Ids
        <5>. QED  BY <1>2, <5>1, LinksTyped
      <4>2. link[t] # Keep
        BY <1>1, <1>2, <4>1, JournalAssumption DEF Rows, Ids, Keep
      <4>. QED  BY <1>2, <2>1, <2>6, <4>2
    <3>. QED  BY <2>1, <3>1, <3>2 DEF Parent
  <2>. QED  BY <2>5, <2>6
<1>4. \A t \in Rows' : trade'[t] \in Trade
  <2>1. TradesTyped'
    BY TradesStep DEF Steady, TypeOK, Next
  <2>. QED  BY <2>1 DEF TradesTyped, Rows
<1>. HIDE DEF link
<1>5. /\ Rows' = DOMAIN legs
      /\ \A t \in DOMAIN legs : /\ trade'[t] \in Trade
                                /\ trade'[t].parent_trade_id = link[t]
                                /\ trade'[t].entry_date = legs[t].entry_date
                                /\ trade'[t].exit_date = legs[t].exit_date
  BY <1>1, <1>2, <1>3, <1>4
<1>. QED  BY <1>5 DEF link

LEMMA RegroupedDated ==
  ASSUME Steady, NEW c \in Clients, req[c].op = "link", NEW legs, Regrouped(c, legs)
  PROVE  Dated(legs)
<1>1. /\ req[c].id \in Ids /\ req[c].row \in Trade /\ DOMAIN legs = Rows \cup {req[c].id}
      /\ \A t \in Rows : legs[t] = trade[t] /\ trade[t] \in Trade
      /\ legs[req[c].id].entry_date = req[c].row.entry_date
      /\ legs[req[c].id].exit_date = req[c].row.exit_date
  BY RequestBusy DEF Regrouped, Steady, TypeOK, TradesTyped, Rows
<1>2. DOMAIN legs \subseteq Ids /\ Ids \subseteq Nat
  BY <1>1 DEF Rows, Ids
<1>3. IsFiniteSet(DOMAIN legs)
  BY <1>2, FS_Interval, FS_Subset, JournalAssumption DEF Ids
<1>4. \A row \in Trade : row.entry_date \in Nat /\ row.exit_date \in Nat \cup {None}
  BY JournalAssumption DEF Trade
<1>5. \A t \in DOMAIN legs : legs[t].entry_date \in Nat /\ legs[t].exit_date \in Nat \cup {None}
  BY <1>1, <1>4
<1>. QED  BY <1>2, <1>3, <1>5 DEF Dated

LEMMA OutcomesKeepLink ==
  ASSUME NEW row \in Trade PROVE ComputeOutcomes(row).parent_trade_id = row.parent_trade_id
  BY DEF ComputeOutcomes, Trade

\* Of a step that leaves the links of all rows as they are.
SameLinks == Rows' = Rows /\ \A t \in Rows : trade'[t].parent_trade_id = trade[t].parent_trade_id

LEMMA EditsKeepLinks ==
  ASSUME Steady, NEW c \in Clients, FullClose(c) \/ Patch(c) PROVE SameLinks
<1>1. /\ req[c].id \in Ids /\ req[c].row \in Trade /\ req[c].id \in Rows
      /\ trade[req[c].id] = req[c].row /\ DOMAIN trade = Ids
  BY RequestBusy DEF Steady, TypeOK, TradesTyped, FullClose, Patch, IdsFresh, EditsAreCurrent
<1>2. \E new \in Trade : /\ new.parent_trade_id = req[c].row.parent_trade_id
                         /\ trade' = [trade EXCEPT ![req[c].id] = ComputeOutcomes(new)]
  <2>1. CASE FullClose(c)
    <3>1. PICK date \in Dates, price \in ExitPrices :
            trade' = [trade EXCEPT ![req[c].id] = ComputeOutcomes(
                        [req[c].row EXCEPT !.exit_date = date, !.exit_price = price])]
      BY <2>1 DEF FullClose
    <3>. DEFINE sold == [req[c].row EXCEPT !.exit_date = date, !.exit_price = price]
    <3>2. sold \in Trade /\ sold.parent_trade_id = req[c].row.parent_trade_id
      BY <1>1 DEF Trade
    <3>. QED  BY <3>1, <3>2
  <2>2. CASE Patch(c)
    <3>1. PICK u \in Patches :
            trade' = [trade EXCEPT ![req[c].id] = ComputeOutcomes(Patched(req[c].row, u))]
      BY <2>2 DEF Patch
    <3>2. Patched(req[c].row, u) \in Trade
      BY <1>1, PatchedTyped
    <3>3. Patched(req[c].row, u).parent_trade_id = req[c].row.parent_trade_id
      BY DEF Patched
    <3>. QED  BY <3>1, <3>2, <3>3
  <2>. QED  BY <1>1, <2>1, <2>2
<1>3. PICK new \in Trade : /\ new.parent_trade_id = req[c].row.parent_trade_id
                           /\ trade' = [trade EXCEPT ![req[c].id] = ComputeOutcomes(new)]
  BY <1>2
<1>4. PICK done : done = ComputeOutcomes(new)
  OBVIOUS
<1>5. done \in Trade /\ done.parent_trade_id = new.parent_trade_id /\ done # None
  BY <1>4, OutcomesTyped, OutcomesKeepLink, NullIsNoRow
<1>6. trade' = [trade EXCEPT ![req[c].id] = done]
  BY <1>3, <1>4
<1>7. Rows' = Rows
  BY <1>1, <1>5, <1>6 DEF Rows
<1>8. ASSUME NEW t \in Rows PROVE trade'[t].parent_trade_id = trade[t].parent_trade_id
  <2>1. t \in Ids
    BY DEF Rows
  <2>. QED  BY <1>1, <1>3, <1>5, <1>6, <2>1
<1>. QED  BY <1>7, <1>8 DEF SameLinks

\* A chunk hangs from where its source hangs, or from its source.
LEMMA ChunkLink ==
  ASSUME Steady, NEW c \in Clients, PartialClose(c)
  PROVE  \E t \in Rows :
           /\ nextId \notin Rows /\ Rows' = Rows \cup {nextId}
           /\ \A x \in Rows : trade'[x].parent_trade_id = trade[x].parent_trade_id
           /\ trade'[nextId].parent_trade_id =
                IF trade[t].parent_trade_id # None THEN trade[t].parent_trade_id ELSE t
<1>1. /\ req[c].id \in Ids /\ req[c].row \in Trade /\ req[c].id \in Rows
      /\ trade[req[c].id] = req[c].row /\ DOMAIN trade = Ids
  BY RequestBusy DEF Steady, TypeOK, TradesTyped, PartialClose, IdsFresh, EditsAreCurrent
<1>2. PICK t, row : t = req[c].id /\ row = req[c].row
  OBVIOUS
<1>3. PICK s \in Rows : Split(s)
  BY SplitEffect
<1>4. nextId \in Ids \ Rows /\ Rows' = Rows \cup {nextId}
  BY <1>3 DEF Split
<1>5. PICK qty \in Quantities, date \in Dates, price \in ExitPrices :
        trade' = [trade EXCEPT ![nextId] = Chunk(req[c].id, req[c].row, qty, date, price),
                               ![req[c].id] = [req[c].row EXCEPT !.qty = req[c].row.qty - qty]]
  BY DEF PartialClose
<1>6. PICK chunk, less : /\ chunk = Chunk(t, row, qty, date, price)
                         /\ less = [row EXCEPT !.qty = row.qty - qty]
  OBVIOUS
<1>7. chunk.parent_trade_id = IF row.parent_trade_id # None THEN row.parent_trade_id ELSE t
  <2>. DEFINE bare == [entry_date |-> row.entry_date, entry_price |-> row.entry_price, qty |-> qty,
     stop_price |-> row.stop_price, initial_stop_price |-> None,
     exit_date |-> date, exit_price |-> price,
     parent_trade_id |-> IF row.parent_trade_id # None THEN row.parent_trade_id ELSE t,
     pnl_dollars |-> None, r_multiple |-> None]
  <2>1. bare \in Trade
    BY <1>1, <1>2, JournalAssumption DEF Trade
  <2>2. bare.parent_trade_id = IF row.parent_trade_id # None THEN row.parent_trade_id ELSE t
    OBVIOUS
  <2>3. chunk = ComputeOutcomes(bare)
    BY <1>6 DEF Chunk
  <2>. HIDE DEF bare
  <2>. QED  BY <2>1, <2>2, <2>3, OutcomesKeepLink
<1>8. less.parent_trade_id = row.parent_trade_id
  BY <1>1, <1>2, <1>6 DEF Trade
<1>9. trade' = [trade EXCEPT ![nextId] = chunk, ![t] = less]
  BY <1>2, <1>5, <1>6
<1>10. \A x \in Ids : trade'[x] = IF x = t THEN less ELSE IF x = nextId THEN chunk ELSE trade[x]
  BY <1>1, <1>2, <1>4, <1>9
<1>11. \A x \in Rows : x \in Ids /\ x # nextId
  BY <1>4 DEF Rows
<1>12. \A x \in Rows : trade'[x].parent_trade_id = trade[x].parent_trade_id
  BY <1>1, <1>2, <1>8, <1>10, <1>11
<1>13. trade'[nextId].parent_trade_id =
         IF trade[t].parent_trade_id # None THEN trade[t].parent_trade_id ELSE t
  BY <1>1, <1>2, <1>4, <1>7, <1>10
<1>. QED  BY <1>1, <1>2, <1>4, <1>12, <1>13

LEMMA FlatStep ==
  ASSUME Alone, Steady, LinksCurrent, FlatDecisions, [Next]_vars PROVE FlatDecisions'
<1>. DEFINE Flat(rows, link) == \A t \in rows : link[t] # None => link[t] \in rows /\ link[link[t]] = None
            p == [t \in Ids |-> trade[t].parent_trade_id]
<1>0. Flat(Rows, p)
  BY DEF FlatDecisions, Parent, Rows
<1>1. ASSUME NEW rows, NEW link, Flat(rows, link), Rows' = rows,
             \A t \in rows : trade'[t].parent_trade_id = link[t]
      PROVE  FlatDecisions'
  BY <1>1 DEF FlatDecisions, Parent
<1>2. ASSUME NEW c \in Clients, CommitTrade(c) PROVE FlatDecisions'
  <2>1. req[c].op = "link"
    BY <1>2 DEF CommitTrade
  <2>2. PICK legs : Regrouped(c, legs)
    BY <2>1 DEF LinksCurrent
  <2>3. Dated(legs)
    BY <2>1, <2>2, RegroupedDated
  <2>4. PICK link : link = AssignDecisionLinks(legs)
    OBVIOUS
  <2>5. Flat(DOMAIN legs, link)
    BY <2>3, <2>4, LinkOf
  <2>6. Rows' = DOMAIN legs /\ \A t \in DOMAIN legs : trade'[t].parent_trade_id = link[t]
    BY <1>2, <2>2, <2>4, CommitLinks
  <2>. HIDE DEF Flat
  <2>. QED  BY <1>1, <2>5, <2>6
<1>3. ASSUME NEW c \in Clients, PartialClose(c) PROVE FlatDecisions'
  <2>1. PICK t \in Rows :
           /\ nextId \notin Rows /\ Rows' = Rows \cup {nextId}
           /\ \A x \in Rows : trade'[x].parent_trade_id = trade[x].parent_trade_id
           /\ trade'[nextId].parent_trade_id =
                IF trade[t].parent_trade_id # None THEN trade[t].parent_trade_id ELSE t
    BY <1>3, ChunkLink
  <2>. DEFINE link == [x \in Rows \cup {nextId} |->
                         IF x = nextId THEN (IF p[t] # None THEN p[t] ELSE t) ELSE p[x]]
  <2>2. Rows \subseteq Ids
    BY DEF Rows
  <2>3. Flat(Rows \cup {nextId}, link)
    <3>1. \A x \in Rows : link[x] = p[x]
      BY <2>1
    <3>2. link[nextId] = IF p[t] # None THEN p[t] ELSE t
      OBVIOUS
    <3>. HIDE DEF link, p
    <3>. QED  BY <1>0, <2>1, <3>1, <3>2
  <2>4. \A x \in Rows \cup {nextId} : trade'[x].parent_trade_id = link[x]
    BY <2>1, <2>2
  <2>. HIDE DEF Flat, link
  <2>. QED  BY <1>1, <2>1, <2>3, <2>4
<1>4. ASSUME SameLinks PROVE FlatDecisions'
  <2>1. Rows' = Rows /\ \A t \in Rows : trade'[t].parent_trade_id = p[t]
    BY <1>4 DEF SameLinks, Rows
  <2>. HIDE DEF Flat, p
  <2>. QED  BY <1>0, <1>1, <2>1
<1>5. ASSUME NEW c \in Clients, FullClose(c) \/ Patch(c) PROVE FlatDecisions'
  BY <1>4, <1>5, EditsKeepLinks
<1>6. ASSUME NEW c \in Clients, Insert(c) \/ Link(c) \/ LogInitialStop(c) \/ Lock(c) \/ Abort(c)
      PROVE  FlatDecisions'
  <2>1. trade' = trade
    BY <1>6 DEF Insert, Link, LogInitialStop, Lock, Abort
  <2>. QED  BY <1>4, <2>1 DEF SameLinks, Rows
<1>7. ASSUME NEW c \in Clients PROVE ~ Delete(c)
  BY DEF Delete, Alone
<1>8. CASE UNCHANGED vars
  BY <1>4, <1>8 DEF SameLinks, Rows
<1>. QED  BY <1>2, <1>3, <1>5, <1>6, <1>7, <1>8 DEF Next

LEMMA RegroupStep ==
  ASSUME Alone, Steady, LinksCurrent, [Next]_vars,
         NEW c \in Clients, req[c].op = "link", Rows' # Rows
  PROVE  DecisionsAreEpisodes'
<1>1. CommitTrade(c)
  <2>1. ASSUME UNCHANGED vars PROVE FALSE
    BY <2>1 DEF Rows
  <2>2. PICK d \in Clients :
          \/ Insert(d) \/ Link(d) \/ CommitTrade(d) \/ LogInitialStop(d)
          \/ Lock(d) \/ PartialClose(d) \/ FullClose(d) \/ Patch(d)
          \/ Delete(d) \/ Abort(d)
    BY <2>1 DEF Next
  <2>3. d = c
    BY DEF Alone
  <2>4. ~ Abort(d)
    BY DEF Abort, Rows
  <2>5. ~ Insert(d) /\ ~ Link(d) /\ ~ LogInitialStop(d) /\ ~ Lock(d) /\ ~ PartialClose(d)
        /\ ~ FullClose(d) /\ ~ Patch(d) /\ ~ Delete(d)
    BY <2>3 DEF Insert, Link, LogInitialStop, Lock, PartialClose, FullClose, Patch, Delete
  <2>. QED  BY <2>2, <2>3, <2>4, <2>5
<1>2. PICK legs : Regrouped(c, legs)
  BY DEF LinksCurrent
<1>3. Dated(legs)
  BY <1>2, RegroupedDated
<1>4. PICK link : link = AssignDecisionLinks(legs)
  OBVIOUS
<1>5. /\ Rows' = DOMAIN legs
      /\ \A t \in DOMAIN legs : /\ trade'[t].parent_trade_id = link[t]
                                /\ trade'[t].entry_date = legs[t].entry_date
                                /\ trade'[t].exit_date = legs[t].exit_date
  BY <1>1, <1>2, <1>4, CommitLinks
<1>. SUFFICES ASSUME DatesInOrder', NEW a \in DOMAIN legs, NEW b \in DOMAIN legs
              PROVE  (Decision(a)' = Decision(b)') <=> HeldThrough(a, b)'
  BY <1>5 DEF DecisionsAreEpisodes
<1>6. InOrder(legs)
  BY <1>5 DEF DatesInOrder, InOrder, EndedBefore, Open
<1>7. \A x \in DOMAIN legs : Decision(x)' = Representative(legs, x)
  BY <1>3, <1>4, <1>5, LinkOf DEF Decision, Parent
<1>8. \A x, y \in DOMAIN legs : Overlap(x, y)' <=> Overlaps(legs, x, y)
  BY <1>5 DEF Overlap, Overlaps, EndedBefore, Open
<1>9. HeldThrough(a, b)' <=> Held(legs, a, b)
  BY <1>5, <1>8 DEF HeldThrough, Held
<1>. QED  BY <1>3, <1>6, <1>7, <1>9, EpisodesAreHeld

LEMMA LinksHold == Alone => (Spec => []LinksCurrent)
<1>. SUFFICES ASSUME Alone PROVE Spec => []LinksCurrent
  OBVIOUS
<1>1. Init => LinksCurrent
  BY DEF Init, LinksCurrent, Idle
<1>2. Steady /\ LinksCurrent /\ [Next]_vars => LinksCurrent'
  BY LinksStep
<1>3. Spec => []Steady
  BY TypeCorrect, LocksHold, PTL DEF Steady
<1>. QED  BY <1>1, <1>2, <1>3, PTL DEF Spec

\* Every link names a trade that represents itself, however many legs, closes,
\* splits and corrections there are, while one request runs at a time and nothing
\* is deleted: with either, the model has runs in which the code breaks it.
THEOREM DecisionsAreFlat == Alone => (Spec => []FlatDecisions)
<1>. SUFFICES ASSUME Alone PROVE Spec => []FlatDecisions
  OBVIOUS
<1>1. Init => FlatDecisions
  BY DEF Init, FlatDecisions, Rows
<1>2. Steady /\ LinksCurrent /\ FlatDecisions /\ [Next]_vars => FlatDecisions'
  BY FlatStep
<1>3. Spec => []Steady
  BY TypeCorrect, LocksHold, PTL DEF Steady
<1>. QED  BY <1>1, <1>2, <1>3, LinksHold, PTL DEF Spec

\* A purchase groups all the legs of the symbol by unbroken holding, whatever
\* closed, split or was corrected since the last one (assign_decision_links).
THEOREM PurchasesRegroup == Alone => (Spec => PurchaseRegroups)
<1>. SUFFICES ASSUME Alone PROVE Spec => PurchaseRegroups
  OBVIOUS
<1>. DEFINE A == \A c \in Clients : req[c].op = "link" /\ Rows' # Rows => DecisionsAreEpisodes'
<1>1. Steady /\ LinksCurrent /\ [Next]_vars => [A]_vars
  BY RegroupStep
<1>2. Spec => []Steady
  BY TypeCorrect, LocksHold, PTL DEF Steady
<1>3. PurchaseRegroups <=> [][A]_vars
  BY DEF PurchaseRegroups
<1>. HIDE DEF A
<1>. QED  BY <1>1, <1>2, <1>3, LinksHold, PTL DEF Spec
=============================================================================
