----------------------------- MODULE JournalBook -----------------------------
(***************************************************************************)
(* What is read out of the journal and put back into it: its decisions,    *)
(* the backup as a sheet of purchases and sales                            *)
(* (services/journal_application.py), and the import of such a sheet       *)
(* (services/journal_importer.py).                                         *)
(*                                                                         *)
(* A book is a function from trade ids to the rows of Journal.  A sheet is *)
(* a sequence of rows in the order of the file.  Dollars are exact: the    *)
(* four decimals of the file are left out.                                 *)
(***************************************************************************)
EXTENDS Journal

-----------------------------------------------------------------------------
(* Decisions of a book.                                                    *)

DecisionOf(book, t) ==
  IF book[t].parent_trade_id # None THEN book[t].parent_trade_id ELSE t

Decisions(book) == {DecisionOf(book, t) : t \in DOMAIN book}

Legs(book, d) == {t \in DOMAIN book : DecisionOf(book, t) = d}

\* The leg without a parent, or else the earliest id.
DecisionRep(book, legs) ==
  LET tops == {t \in legs : book[t].parent_trade_id = None}
  IN  Min(IF tops # {} THEN tops ELSE legs)

DeriveR(row) ==
  IF row.r_multiple # None THEN row.r_multiple
  ELSE IF row.exit_price # None /\ AtRisk(row)
       THEN RMultiple(row.exit_price, row.entry_price, StopForR(row))
       ELSE None

-----------------------------------------------------------------------------
(* The backup.                                                             *)

TotalQty(book, legs) == Shares(book, legs)

Compra(book, d) ==
  LET rep == DecisionRep(book, Legs(book, d))
  IN  [tipo |-> "compra", fecha |-> book[rep].entry_date, id |-> rep,
       qty |-> TotalQty(book, Legs(book, d)), price |-> book[rep].entry_price,
       stop |-> StopForR(book[rep]), pnl |-> None, r |-> None]

Venta(book, t) ==
  [tipo |-> "venta", fecha |-> book[t].exit_date, id |-> t,
   qty |-> book[t].qty, price |-> book[t].exit_price,
   stop |-> None, pnl |-> book[t].pnl_dollars, r |-> DeriveR(book[t])]

\* Mutant: by date and then by id, purchases first only of the same id.
AheadById(a, b) ==
  \/ a.fecha < b.fecha
  \/ /\ a.fecha = b.fecha
     /\ \/ a.id < b.id
        \/ a.id = b.id /\ a.tipo = "compra" /\ b.tipo = "venta"

\* By date, purchases before sales, by id.
Ahead(a, b) ==
  \/ a.fecha < b.fecha
  \/ /\ a.fecha = b.fecha
     /\ \/ a.tipo = "compra" /\ b.tipo = "venta"
        \/ a.tipo = b.tipo /\ a.id < b.id

SheetRows(book) ==
  {Compra(book, d) : d \in Decisions(book)}
    \cup {Venta(book, t) : t \in {x \in DOMAIN book : ~Open(book[x])}}

\* The row at place k is the one that k - 1 rows are ahead of.
ExportCsv(book) ==
  LET rows == SheetRows(book)
  IN  [k \in 1 .. Cardinality(rows) |->
         CHOOSE row \in rows : Cardinality({x \in rows : Ahead(x, row)}) = k - 1]

-----------------------------------------------------------------------------
(* The import.                                                             *)

\* A row with an empty price is skipped.
Legible(row) == row.price # None

OpenTrade(leg) ==
  [entry_date |-> leg.fecha, entry_price |-> leg.price, qty |-> leg.qty,
   stop_price |-> leg.stop, initial_stop_price |-> None,
   exit_date |-> None, exit_price |-> None, parent_trade_id |-> None,
   pnl_dollars |-> None, r_multiple |-> None]

\* The profit is shared by quantity, the R is that of the whole sale.
ParsedTrade(leg, venta, chunk) ==
  [OpenTrade(leg) EXCEPT
     !.qty = chunk, !.exit_date = venta.fecha, !.exit_price = venta.price,
     !.pnl_dollars = IF venta.pnl = None THEN None ELSE (venta.pnl * chunk) \div venta.qty,
     !.r_multiple = venta.r]

\* Mutant: a leg that was touched leaves the queue.
TakeWhole(acc, leg, venta) ==
  IF acc.left = 0 THEN [acc EXCEPT !.queue = Append(@, leg)]
  ELSE [left |-> acc.left - Min({acc.left, leg.qty}), queue |-> acc.queue,
        closed |-> Append(acc.closed, ParsedTrade(leg, venta, Min({acc.left, leg.qty})))]

\* One round of the loop, or a leg the loop does not come to.
TakeFrom(acc, leg, venta) ==
  LET chunk == Min({acc.left, leg.qty})
      rest == [leg EXCEPT !.qty = @ - chunk]
  IN  IF acc.left = 0 THEN [acc EXCEPT !.queue = Append(@, leg)]
      ELSE [left |-> acc.left - chunk,
            queue |-> IF rest.qty = 0 THEN acc.queue ELSE Append(acc.queue, rest),
            closed |-> Append(acc.closed, ParsedTrade(leg, venta, chunk))]

\* The legs are closed first in, first out; what exceeds them is dropped.
Sell(acc, venta) ==
  LET end == FoldLeft(LAMBDA a, leg : TakeFrom(a, leg, venta),
                      [left |-> venta.qty, queue |-> <<>>, closed |-> acc.closed], acc.queue)
  IN  [queue |-> end.queue, closed |-> end.closed]

ReadRow(acc, row) ==
  IF ~Legible(row) THEN acc
  ELSE IF row.tipo = "compra" THEN [acc EXCEPT !.queue = Append(@, row)]
  ELSE Sell(acc, row)

Parse(sheet) == FoldLeft(ReadRow, [queue |-> <<>>, closed |-> <<>>], sheet)

\* Open legs first, then the closed trades; their ids are in that order.  The
\* links are computed over the imported rows alone.
ImportCsv(sheet) ==
  LET end == Parse(sheet)
      rows == [i \in DOMAIN end.queue |-> OpenTrade(end.queue[i])] \o end.closed
      links == AssignDecisionLinks(rows)
  IN  [t \in DOMAIN rows |-> [rows[t] EXCEPT !.parent_trade_id = links[t]]]

-----------------------------------------------------------------------------
(* The reference for the pairing: the shares bought lie on a line in the   *)
(* order of the purchases, the shares sold on the same line in the order   *)
(* of the sales, and a sale closes of a purchase what they share of it.    *)

\* One row a day: a day names the purchase or the sale made on it.
Sheets == Seq([tipo : {"compra", "venta"}, qty : Nat \ {0}])
SampleSheets == UNION {[1 .. n -> [tipo : {"compra", "venta"}, qty : 1 .. 3]] : n \in 1 .. 5}

OnDays(sheet) ==
  [n \in DOMAIN sheet |->
     [tipo |-> sheet[n].tipo, fecha |-> n, id |-> n, qty |-> sheet[n].qty, price |-> 1,
      stop |-> None, pnl |-> None, r |-> None]]

Bought(sheet, n) ==
  Shares(sheet, {m \in 1 .. n : sheet[m].tipo = "compra"})

\* Nobody sells more than was bought before; the excess is dropped.
Sold(sheet) ==
  LET sold[n \in 0 .. Len(sheet)] ==
        IF n = 0 THEN 0
        ELSE IF sheet[n].tipo = "compra" THEN sold[n - 1]
        ELSE Min({sold[n - 1] + sheet[n].qty, Bought(sheet, n)})
  IN  sold

Shared(a, b, c, d) == Max({0, Min({b, d}) - Max({a, c})})

\* Every sale of a sheet closes exactly the shares that first in, first out gives
\* it, and a purchase keeps the rest: whatever runs over several purchases, leaves
\* part of one, or sells more than there is.
FirstInFirstOut(sheets) ==
  \A sheet \in sheets :
    LET end == Parse(OnDays(sheet))
        closed(i, j) == {k \in DOMAIN end.closed :
                           end.closed[k].entry_date = i /\ end.closed[k].exit_date = j}
        left(i) == {k \in DOMAIN end.queue : end.queue[k].fecha = i}
        sold == Sold(sheet)
    IN  \A i \in DOMAIN sheet : sheet[i].tipo = "compra" =>
          /\ \A j \in DOMAIN sheet : sheet[j].tipo = "venta" =>
               Shares(end.closed, closed(i, j))
                 = Shared(Bought(sheet, i - 1), Bought(sheet, i), sold[j - 1], sold[j])
          /\ Shares(end.queue, left(i))
               = Shared(Bought(sheet, i - 1), Bought(sheet, i), sold[Len(sheet)], Bought(sheet, Len(sheet)))

\* The import of a sheet does not depend on the journal it goes into.
Untouched == nextId = 1 /\ \A c \in Clients : req[c] = Idle

\* The pairing of the import is first in, first out (_import_csv_uncommitted).
FifoMatches == Untouched => FirstInFirstOut(SampleSheets)

-----------------------------------------------------------------------------
(* What a backup restores.                                                 *)

Book == [t \in Rows |-> trade[t]]
Signature(row) == <<row.exit_date, row.exit_price, row.qty, row.pnl_dollars, DeriveR(row)>>

\* What a decision still holds, and its sales.
Profile(book, d) ==
  LET sold == {t \in Legs(book, d) : ~Open(book[t])}
  IN  [held |-> TotalQty(book, Legs(book, d) \ sold),
       sales |-> [s \in {Signature(book[t]) : t \in sold} |->
                    Cardinality({t \in sold : Signature(book[t]) = s})]]

SameDecisions(a, b) ==
  \A p \in {Profile(a, d) : d \in Decisions(a)} \cup {Profile(b, d) : d \in Decisions(b)} :
    Cardinality({d \in Decisions(a) : Profile(a, d) = p})
      = Cardinality({d \in Decisions(b) : Profile(b, d) = p})

\* Decisions are the episodes the symbol was held through, every sale has its
\* price, and none comes before the purchase of the leg its decision stands for.
Ordered ==
  /\ DatesInOrder /\ DecisionsAreEpisodes
  /\ \A t \in Rows : ~Open(trade[t]) =>
       /\ trade[t].exit_price # None
       /\ ~EndedBefore(trade[t], trade[DecisionRep(Book, Legs(Book, Decision(t)))].entry_date)

\* A sale that has no R belongs to a decision that was bought without risk: an
\* imported sale has the stop of its purchase, from which an R is derived.
RatedAlike ==
  \A t \in Rows : ~Open(trade[t]) /\ DeriveR(trade[t]) = None =>
    ~AtRisk(trade[DecisionRep(Book, Legs(Book, Decision(t)))])

\* Whatever was bought, split, closed, patched and reopened before: the backup of
\* an ordered journal, imported again, has the same decisions, with the same
\* quantity held and the same sales with their profit and R (export_csv,
\* JournalImporter).
BackupRestores ==
  Ordered /\ RatedAlike => SameDecisions(Book, ImportCsv(ExportCsv(Book)))

\* Purchases and closes were entered in the order in which they happened.
Chronological ==
  /\ DatesInOrder
  /\ \A a, b \in Rows : lot[a] < lot[b] => trade[a].entry_date <= trade[b].entry_date

\* "Per-leg P&L / R are preserved either way": the shares sold and the dollars
\* won on a day are the same after the backup has been imported (export_csv).
SalesPreserved ==
  Chronological => \A day \in Dates :
    LET soldOn(book) == {t \in DOMAIN book : book[t].exit_date = day}
        won(book) == MapThenSumSet(LAMBDA t : book[t].pnl_dollars, soldOn(book))
        restored == ImportCsv(ExportCsv(Book))
    IN  /\ TotalQty(restored, soldOn(restored)) = TotalQty(Book, soldOn(Book))
        /\ won(restored) = won(Book)
===============================================================================
