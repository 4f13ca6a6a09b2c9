------------------------------- MODULE Journal -------------------------------
(***************************************************************************)
(* The trading journal of one owner in one symbol: opening, closing (whole *)
(* or in part), editing and deleting trades while several requests of that *)
(* owner are under way.                                                    *)
(*                                                                         *)
(* A request is a coroutine of the API process with a database session.    *)
(* Close and patch read their row with SELECT ... FOR UPDATE and keep it   *)
(* locked until they commit.  Create takes no lock: it inserts its row,    *)
(* reads the other legs, relinks them and commits, then logs the initial   *)
(* stop in a second transaction.                                           *)
(***************************************************************************)
EXTENDS JournalDecisions, SequencesExt

CONSTANTS
  Clients,       \* concurrent requests
  Deleters,      \* the clients that also delete trades
  MaxTrades,     \* trade ids 1 .. MaxTrades
  MaxEvents,     \* bound on the stop events of a trade
  Dates,         \* entry and exit dates
  EntryPrices, Stops, ExitPrices, Quantities,
  Patches        \* payloads of PATCH: functions from some fields to values

Ids == 1 .. MaxTrades
Keep == 0        \* a parent link that a relinking leaves alone

ASSUME JournalAssumption ==
  /\ Deleters \subseteq Clients
  /\ MaxTrades \in Nat \ {0}
  /\ MaxEvents \in Nat
  /\ Dates \subseteq Nat
  /\ EntryPrices \cup Stops \cup ExitPrices \subseteq Nat \ {0}
  /\ Quantities \subseteq Nat \ {0}
  /\ None \notin Int \cup StopChanges
  /\ \A u \in Patches :
       /\ "entry_date" \in DOMAIN u => u["entry_date"] \in Dates
       /\ "entry_price" \in DOMAIN u => u["entry_price"] \in EntryPrices
       /\ "qty" \in DOMAIN u => u["qty"] \in Quantities
       /\ "stop_price" \in DOMAIN u => u["stop_price"] \in Stops \cup {None}
       /\ "exit_date" \in DOMAIN u => u["exit_date"] \in Dates \cup {None}
       /\ "exit_price" \in DOMAIN u => u["exit_price"] \in ExitPrices \cup {None}

VARIABLES
  trade,     \* journal_trades: the row of each id, None when there is none
  events,    \* journal_stop_events of each trade, oldest first
  nextId,    \* the id sequence, which a rollback does not rewind
  req,       \* what each client's request is doing, and what it has read
  born,      \* history: the stop each row was inserted with
  lot,       \* history: the purchase each row is a part of
  bought,    \* history: quantity of each purchase, less what was deleted
  lost       \* history: purchases whose request ended before its second commit

vars == <<trade, events, nextId, req, born, lot, bought, lost>>

Rows == { t \in Ids : trade[t] # None }

-----------------------------------------------------------------------------
(* The outcome of a trade with both legs. *)

\* Dollars won, apart from the commission.
PnL(row) == (row.exit_price - row.entry_price) * row.qty

\* The R-multiple as the pair of its numerator and its denominator.
RMultiple(exit_price, entry_price, stop) ==
  <<exit_price - entry_price, entry_price - stop>>

\* The planned risk, or the current stop of a row that has no plan.
StopForR(row) ==
  IF row.initial_stop_price # None THEN row.initial_stop_price ELSE row.stop_price

AtRisk(row) == StopForR(row) # None /\ row.entry_price > StopForR(row)

Closed(row) == row.exit_date # None /\ row.exit_price # None

\* Mutant: R from the stop as it is now.
ComputeOutcomesFromStop(row) ==
  IF ~Closed(row) THEN row
  ELSE [row EXCEPT !.pnl_dollars = PnL(row),
                   !.r_multiple = IF row.stop_price # None /\ row.entry_price > row.stop_price
                                  THEN RMultiple(row.exit_price, row.entry_price, row.stop_price)
                                  ELSE row.r_multiple]

ComputeOutcomes(row) ==
  IF ~Closed(row) THEN row
  ELSE [row EXCEPT !.pnl_dollars = PnL(row),
                   !.r_multiple = IF AtRisk(row)
                                  THEN RMultiple(row.exit_price, row.entry_price, StopForR(row))
                                  ELSE row.r_multiple]

-----------------------------------------------------------------------------
(* Requests *)

NoLinks == [t \in Ids |-> Keep]
Idle == [op |-> "idle", id |-> 0, row |-> None, links |-> NoLinks]

\* Mutant: plain SELECT.
NeverLocked(t) == FALSE

\* Some handler holds the row of t FOR UPDATE.
Locked(t) == \E c \in Clients : req[c].op = "edit" /\ req[c].id = t

Init ==
  /\ trade = [t \in Ids |-> None]
  /\ events = [t \in Ids |-> <<>>]
  /\ nextId = 1
  /\ req = [c \in Clients |-> Idle]
  /\ born = [t \in Ids |-> None]
  /\ lot = [t \in Ids |-> t]
  /\ bought = [t \in Ids |-> 0]
  /\ lost = {}

NewTrade(date, price, qty, stop) ==
  [entry_date |-> date, entry_price |-> price, qty |-> qty,
   stop_price |-> stop, initial_stop_price |-> stop,
   exit_date |-> None, exit_price |-> None, parent_trade_id |-> None,
   pnl_dollars |-> None, r_multiple |-> None]

\* POST /trades: the insert is flushed, which gives the row its id.
Insert(c) ==
  /\ req[c].op = "idle"
  /\ nextId \in Ids
  /\ \E date \in Dates, price \in EntryPrices, qty \in Quantities, stop \in Stops \cup {None} :
       req' = [req EXCEPT ![c] = [op |-> "insert", id |-> nextId,
                                  row |-> NewTrade(date, price, qty, stop),
                                  links |-> NoLinks]]
  /\ nextId' = nextId + 1
  /\ UNCHANGED <<trade, events, born, lot, bought, lost>>

\* The legs the request sees: those committed, and its own.
Visible(c) ==
  [t \in Rows \cup {req[c].id} |-> IF t = req[c].id THEN req[c].row ELSE trade[t]]

\* The other legs are listed and every link is computed; those that differ
\* are to be written.
Link(c) ==
  /\ req[c].op = "insert"
  /\ LET target == AssignDecisionLinks(Visible(c))
     IN req' = [req EXCEPT ![c] =
          [op |-> "link", id |-> req[c].id,
           row |-> [req[c].row EXCEPT !.parent_trade_id = target[req[c].id]],
           links |-> [t \in Ids |-> IF t \in Rows /\ target[t] # trade[t].parent_trade_id
                                    THEN target[t] ELSE Keep]]]
  /\ UNCHANGED <<trade, events, nextId, born, lot, bought, lost>>

\* The rows whose link is written, and those of them deleted meanwhile: an
\* update of one row fails when it finds none, one of several goes on.  The new
\* row is among them when it gets a link of its own.
Relinked(c) == { t \in Ids : req[c].links[t] # Keep }
Orphaned(c) == Relinked(c) \ Rows
OwnLink(c) == IF req[c].row.parent_trade_id # None THEN {req[c].id} ELSE {}

\* The first transaction commits.  Its updates wait for locked rows.
CommitTrade(c) ==
  /\ req[c].op = "link"
  /\ \A t \in Relinked(c) : ~Locked(t)
  /\ Orphaned(c) = {} \/ Cardinality(Relinked(c) \cup OwnLink(c)) > 1
  /\ trade' = [t \in Ids |->
       IF t = req[c].id THEN req[c].row
       ELSE IF t \in Relinked(c) \ Orphaned(c)
            THEN [trade[t] EXCEPT !.parent_trade_id = req[c].links[t]]
            ELSE trade[t]]
  /\ born' = [born EXCEPT ![req[c].id] = req[c].row.stop_price]
  /\ bought' = [bought EXCEPT ![req[c].id] = req[c].row.qty]
  /\ req' = [req EXCEPT ![c] = IF req[c].row.stop_price = None THEN Idle
                               ELSE [op |-> "log", id |-> req[c].id,
                                     row |-> req[c].row, links |-> NoLinks]]
  /\ UNCHANGED <<events, nextId, lot, lost>>

StopEvent(old, new, kind) == [old |-> old, new |-> new, kind |-> kind]

\* The second transaction: the initial stop event, whose foreign key needs
\* the row to be there and not locked.
LogInitialStop(c) ==
  /\ req[c].op = "log"
  /\ req[c].id \in Rows
  /\ ~Locked(req[c].id)
  /\ events' = [events EXCEPT ![req[c].id] =
       Append(@, StopEvent(None, req[c].row.stop_price, "initial"))]
  /\ req' = [req EXCEPT ![c] = Idle]
  /\ UNCHANGED <<trade, nextId, born, lot, bought, lost>>

\* A request ends before its next commit: the process stops, the connection
\* is lost, the database or the handler refuses.
Abort(c) ==
  /\ req[c].op # "idle"
  /\ req' = [req EXCEPT ![c] = Idle]
  /\ lost' = IF req[c].op = "log" THEN lost \cup {req[c].id} ELSE lost
  /\ UNCHANGED <<trade, events, nextId, born, lot, bought>>

\* Close and patch begin: the row is read FOR UPDATE.
Lock(c) ==
  /\ req[c].op = "idle"
  /\ \E t \in Rows :
       /\ ~Locked(t)
       /\ req' = [req EXCEPT ![c] = [op |-> "edit", id |-> t, row |-> trade[t],
                                     links |-> NoLinks]]
  /\ UNCHANGED <<trade, events, nextId, born, lot, bought, lost>>

\* Mutant: the chunk always hangs from its source.
ChunkOfSource(id, row, qty, date, price) ==
  ComputeOutcomes(
    [entry_date |-> row.entry_date, entry_price |-> row.entry_price, qty |-> qty,
     stop_price |-> row.stop_price, initial_stop_price |-> None,
     exit_date |-> date, exit_price |-> price, parent_trade_id |-> id,
     pnl_dollars |-> None, r_multiple |-> None])

\* The closed chunk of a partial close.  It inherits the decision of its
\* source; its planned risk, initial_stop_price, is left null.
Chunk(id, row, qty, date, price) ==
  ComputeOutcomes(
    [entry_date |-> row.entry_date, entry_price |-> row.entry_price, qty |-> qty,
     stop_price |-> row.stop_price, initial_stop_price |-> None,
     exit_date |-> date, exit_price |-> price,
     parent_trade_id |-> IF row.parent_trade_id # None THEN row.parent_trade_id ELSE id,
     pnl_dollars |-> None, r_multiple |-> None])

\* Mutant: closing all of it is a partial close, too.
IsPartialOrWhole(row, qty) == qty <= row.qty

\* A chunk is split off when it is less than what is open.
IsPartial(row, qty) == qty < row.qty

\* POST /trades/{id}/close with a quantity below the open one.
PartialClose(c) ==
  /\ req[c].op = "edit"
  /\ Open(req[c].row)
  /\ nextId \in Ids
  /\ \E qty \in Quantities, date \in Dates, price \in ExitPrices :
       LET t == req[c].id
           row == req[c].row
           chunk == Chunk(t, row, qty, date, price)
       IN /\ IsPartial(row, qty)
          /\ trade' = [trade EXCEPT ![nextId] = chunk, ![t] = [row EXCEPT !.qty = row.qty - qty]]
          /\ born' = [born EXCEPT ![nextId] = chunk.stop_price]
          /\ lot' = [lot EXCEPT ![nextId] = lot[t]]
  /\ nextId' = nextId + 1
  /\ req' = [req EXCEPT ![c] = Idle]
  /\ UNCHANGED <<events, bought, lost>>

\* POST /trades/{id}/close of all that is open.
FullClose(c) ==
  /\ req[c].op = "edit"
  /\ Open(req[c].row)
  /\ \E date \in Dates, price \in ExitPrices :
       trade' = [trade EXCEPT ![req[c].id] = ComputeOutcomes(
                   [req[c].row EXCEPT !.exit_date = date, !.exit_price = price])]
  /\ req' = [req EXCEPT ![c] = Idle]
  /\ UNCHANGED <<events, nextId, born, lot, bought, lost>>

-----------------------------------------------------------------------------
(* PATCH /trades/{id} *)

Updated(row, u, field) == IF field \in DOMAIN u THEN u[field] ELSE row[field]

\* Mutant: every patch of the stop is a new plan.
LatestStop(row, u) ==
  IF "stop_price" \in DOMAIN u THEN u["stop_price"] ELSE row.initial_stop_price

\* A patch of the stop gives a row without planned risk its initial stop.
InitialStop(row, u) ==
  IF "stop_price" \in DOMAIN u /\ row.initial_stop_price = None
  THEN u["stop_price"] ELSE row.initial_stop_price

Patched(row, u) ==
  [entry_date |-> Updated(row, u, "entry_date"),
   entry_price |-> Updated(row, u, "entry_price"),
   qty |-> Updated(row, u, "qty"),
   stop_price |-> Updated(row, u, "stop_price"),
   initial_stop_price |-> InitialStop(row, u),
   exit_date |-> Updated(row, u, "exit_date"),
   exit_price |-> Updated(row, u, "exit_price"),
   parent_trade_id |-> row.parent_trade_id,
   pnl_dollars |-> row.pnl_dollars, r_multiple |-> row.r_multiple]

\* Mutant: a removed stop leaves no event.
RecordedUnlessRemoved(row, u) ==
  LET new == Patched(row, u)
      kind == ClassifyStopChange(row.stop_price, new.stop_price, new.entry_price)
  IN  IF "stop_price" \in DOMAIN u /\ kind \notin {None, "removed"}
      THEN <<StopEvent(row.stop_price, new.stop_price, kind)>> ELSE <<>>

\* The stop events a patch adds to the log of its trade.
Recorded(row, u) ==
  LET new == Patched(row, u)
      kind == ClassifyStopChange(row.stop_price, new.stop_price, new.entry_price)
  IN  IF "stop_price" \in DOMAIN u /\ kind # None
      THEN <<StopEvent(row.stop_price, new.stop_price, kind)>> ELSE <<>>

\* All the fields the model has are among the keys that ask for new outcomes.
Patch(c) ==
  /\ req[c].op = "edit"
  /\ \E u \in Patches :
       LET t == req[c].id
           row == req[c].row
       IN /\ Len(events[t]) < MaxEvents
          /\ trade' = [trade EXCEPT ![t] = ComputeOutcomes(Patched(row, u))]
          /\ events' = [events EXCEPT ![t] = @ \o Recorded(row, u)]
          /\ bought' = [bought EXCEPT ![lot[t]] = (@ - row.qty) + Updated(row, u, "qty")]
  /\ req' = [req EXCEPT ![c] = Idle]
  /\ UNCHANGED <<nextId, born, lot, lost>>

\* DELETE /trades/{id}: the stop events go with the row; other rows stay.
Delete(c) ==
  /\ c \in Deleters
  /\ req[c].op = "idle"
  /\ \E t \in Rows :
       /\ ~Locked(t)
       /\ trade' = [trade EXCEPT ![t] = None]
       /\ events' = [events EXCEPT ![t] = <<>>]
       /\ bought' = [bought EXCEPT ![lot[t]] = @ - trade[t].qty]
  /\ UNCHANGED <<nextId, req, born, lot, lost>>

-----------------------------------------------------------------------------

Next ==
  \E c \in Clients :
    \/ Insert(c) \/ Link(c) \/ CommitTrade(c) \/ LogInitialStop(c)
    \/ Lock(c) \/ PartialClose(c) \/ FullClose(c) \/ Patch(c)
    \/ Delete(c) \/ Abort(c)

Spec == Init /\ [][Next]_vars

-----------------------------------------------------------------------------
(* Properties *)

Trade ==
  [entry_date : Dates, entry_price : EntryPrices, qty : Nat \ {0},
   stop_price : Stops \cup {None}, initial_stop_price : Stops \cup {None},
   exit_date : Dates \cup {None}, exit_price : ExitPrices \cup {None},
   parent_trade_id : Ids \cup {None},
   pnl_dollars : Int \cup {None}, r_multiple : (Int \X Int) \cup {None}]

ASSUME NullIsNoRow == None \notin Trade

Event ==
  [old : Stops \cup {None}, new : Stops \cup {None},
   kind : StopChanges]

Request ==
  {Idle} \cup [op : {"insert", "link", "log", "edit"}, id : Ids, row : Trade,
               links : [Ids -> Ids \cup {Keep, None}]]

TradesTyped == trade \in [Ids -> Trade \cup {None}] /\ nextId \in Nat \ {0}
RequestsTyped == req \in [Clients -> Request]
EventsTyped == events \in [Ids -> Seq(Event)]
HistoryTyped ==
  /\ born \in [Ids -> Stops \cup {None}]
  /\ lot \in [Ids -> Ids]
  /\ bought \in [Ids -> Int]
  /\ lost \subseteq Ids

\* Every variable has its type.  A close that leaves an open trade of no
\* shares, or a link to no trade, would leave it.
TypeOK == TradesTyped /\ RequestsTyped /\ EventsTyped /\ HistoryTyped

\* What a close or a patch has read is what the table holds when it writes,
\* and one request at a time is in that position: no edit is computed from a
\* row another request has since closed, split, relinked or deleted
\* (get_trade with for_update).
EditsAreCurrent ==
  \A c \in Clients : req[c].op = "edit" =>
    /\ trade[req[c].id] = req[c].row
    /\ \A d \in Clients \ {c} : req[d].op = "edit" => req[d].id # req[c].id

Shares(rows, ids) == MapThenSumSet(LAMBDA t : rows[t].qty, ids)

\* No share is lost or sold twice: whatever is open of a purchase and the
\* chunks closed out of it add up to what was bought, though two requests
\* close the same trade at once (close_trade's split under the row lock).
QuantityKept == \A l \in Ids : Shares(trade, { t \in Rows : lot[t] = l }) = bought[l]

\* An R that is stored was measured over a risk.
Measured(row) == row.r_multiple # None => row.r_multiple[2] > 0

OutcomeIsCurrent(row) ==
  /\ Measured(row)
  /\ Closed(row) =>
       /\ row.pnl_dollars = PnL(row)
       /\ AtRisk(row) =>
            row.r_multiple = RMultiple(row.exit_price, row.entry_price, StopForR(row))

\* The dollars stored in a closed trade are those of its prices and quantity as
\* they are now, and so is R wherever the trade has a planned risk, however it
\* got there: closed, split off, reopened, corrected.  An R whose risk has gone
\* stays as it was (NoRWithoutStop), but it was measured over a real risk
\* (_compute_outcomes after every change).
OutcomesCurrent == \A t \in Rows : OutcomeIsCurrent(trade[t])

\* Each event of a log takes up the stop where the one before left it, from
\* the first stop a to the last one z.
Chains(a, log, z) ==
  IF log = <<>> THEN a = z
  ELSE /\ log[1].old = a
       /\ log[Len(log)].new = z
       /\ \A i \in 2 .. Len(log) : log[i].old = log[i - 1].new

\* The same with one event more: the initial one, at the place its commit found.
ChainsFromInitial(a, log, z) ==
  \E k \in DOMAIN log :
    log[k] = StopEvent(None, a, "initial") /\ Chains(a, RemoveAt(log, k), z)

Logging(t) == \E c \in Clients : req[c].op = "log" /\ req[c].id = t

\* A purchase opened with a stop whose request got to its end.
OpenedWithStop(t) == lot[t] = t /\ born[t] # None /\ ~Logging(t)

\* No change of a stop escapes its audit log, and none is in it twice.  The log
\* leads from the stop the row was inserted with to the one it has, and that of
\* a purchase opened with a stop has its initial event besides - unless the
\* request was lost between its two commits (create_trade, patch_trade).
StopLogChains ==
  \A t \in Rows :
    IF OpenedWithStop(t) /\ t \notin lost
    THEN ChainsFromInitial(born[t], events[t], trade[t].stop_price)
    ELSE Chains(born[t], events[t], trade[t].stop_price)

\* The first stop of a row inserted with stop a, as its log tells it.
FirstStop(a, log) ==
  LET stops == <<a>> \o [i \in 1 .. Len(log) |-> log[i].new]
      given == { i \in DOMAIN stops : stops[i] # None }
  IN  IF given = {} THEN None ELSE stops[Min(given)]

\* The planned risk of a trade that was opened as such is the first stop it
\* ever had, as its log tells it, and no later one replaces it.
InitialIsFirstStop ==
  \A t \in Rows : lot[t] = t => trade[t].initial_stop_price = FirstStop(born[t], events[t])

-----------------------------------------------------------------------------
(* Decisions: what holds of the links while one request runs at a time and *)
(* nothing is deleted.                                                     *)

Parent(t) == trade[t].parent_trade_id
Decision(t) == IF Parent(t) = None THEN t ELSE Parent(t)

\* A leg hangs from a trade that exists and is itself a representative, so
\* that decision_id, COALESCE(parent_trade_id, id), names one of the legs:
\* also after the representative was closed, or split, or demoted by a later
\* purchase.
FlatDecisions ==
  \A t \in Rows : Parent(t) # None => Parent(t) \in Rows /\ Parent(Parent(t)) = None

Overlap(a, b) ==
  ~EndedBefore(trade[a], trade[b].entry_date) /\ ~EndedBefore(trade[b], trade[a].entry_date)

\* The symbol was held without a break from one leg to the other: no set of
\* legs closed under overlapping has a and not b.
HeldThrough(a, b) ==
  \A X \in SUBSET Rows :
    a \in X /\ (\A x \in X, y \in Rows : Overlap(x, y) => y \in X) => b \in X

\* No leg ends before it begins; the API does not check it.
DatesInOrder ==
  \A t \in Rows : ~EndedBefore(trade[t], trade[t].entry_date)

DecisionsAreEpisodes ==
  DatesInOrder => \A a, b \in Rows : Decision(a) = Decision(b) <=> HeldThrough(a, b)

\* When a purchase commits, two legs belong to one decision exactly when the
\* symbol was held from the one to the other, whatever closes, splits and
\* edits came before (assign_decision_links over all legs of the symbol).
PurchaseRegroups ==
  [][\A c \in Clients : req[c].op = "link" /\ Rows' # Rows => DecisionsAreEpisodes']_vars

-----------------------------------------------------------------------------
(* What the comments of the model say of every trade, and the code does    *)
(* not keep.                                                               *)

\* The outcome of a chunk is measured against the planned risk of the trade
\* it is taken from ("comparable even after operator moves stop to BE or
\* trails", models/stock.py).
HonestR ==
  [][\A t \in Rows \cap Rows', chunk \in Rows' \ Rows :
       LET plan == trade[t].initial_stop_price
       IN  /\ trade'[t].qty # trade[t].qty
           /\ plan # None
           /\ plan < trade[t].entry_price
           => trade'[chunk].r_multiple =
                RMultiple(trade'[chunk].exit_price, trade[t].entry_price, plan)]_vars

\* "When neither is available, r_multiple SHALL be null": no R without a stop to
\* measure it against (openspec, R-multiple uses initial_stop_price).
NoRWithoutStop == \A t \in Rows : StopForR(trade[t]) = None => trade[t].r_multiple = None

\* A trade opened with a stop has exactly one event of its opening once its
\* request has ended (openspec, Initial event at create time).
InitialLogged ==
  \A t \in Rows : OpenedWithStop(t) =>
    ChainsFromInitial(born[t], events[t], trade[t].stop_price)

\* A row that is not a representative is "a partial execution child of the
\* decision whose representative has id = parent_trade_id" (models/stock.py).
RepresentativeExists ==
  \A t \in Rows : Parent(t) # None => Parent(t) \in Rows
=============================================================================
