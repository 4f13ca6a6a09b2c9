---------------------------- MODULE JournalScore ----------------------------
(***************************************************************************)
(* The two scoreboards of the journal (services/journal_application.py):   *)
(* the verdict on one closed trade, and the verdict on a decision made of  *)
(* several legs.  Dollars are counted in thousandths; an R is a fraction.  *)
(***************************************************************************)
EXTENDS JournalBook

DEFAULT_COMMISSION == 1
Dollars(n) == 1000 * n
Abs(n) == IF n < 0 THEN -n ELSE n

DerivePnl(row) ==
  IF row.pnl_dollars # None THEN row.pnl_dollars
  ELSE IF row.exit_price # None
       THEN Dollars((row.exit_price - row.entry_price) * row.qty - 2 * DEFAULT_COMMISSION)
       ELSE None

\* |R| <= 0.1
InBand(r) == 10 * Abs(r[1]) <= r[2]

\* What the operator meant to risk, or else what the stop leaves at risk.
EffectiveRisk(row) ==
  IF row.planned_risk_dollars # None THEN Dollars(row.planned_risk_dollars)
  ELSE IF row.stop_price # None /\ row.entry_price > row.stop_price
       THEN Dollars((row.entry_price - row.stop_price) * row.qty)
       ELSE None

\* A tenth of the risk, or a thousandth of the position.
BeBand(row) ==
  IF EffectiveRisk(row) # None THEN EffectiveRisk(row) \div 10 ELSE row.entry_price * row.qty

\* Mutant: the dollar band alone.
BreakEvenInDollars(row) == Abs(DerivePnl(row)) <= BeBand(row)

IsTradeBreakEven(row) ==
  \/ DeriveR(row) # None /\ InBand(DeriveR(row))
  \/ Abs(DerivePnl(row)) <= BeBand(row)

\* How a closed trade counts in the aggregates.
TradeVerdict(row) ==
  IF DerivePnl(row) = None THEN None
  ELSE IF IsTradeBreakEven(row) THEN "breakeven"
  ELSE IF DerivePnl(row) > 0 THEN "win" ELSE "loss"

-----------------------------------------------------------------------------
(* A decision: the book of its legs.                                       *)

Priced(book) == {t \in DOMAIN book : DerivePnl(book[t]) # None}
NetPnl(book) == SumFunction([t \in Priced(book) |-> DerivePnl(book[t])])

Known(book) == {t \in DOMAIN book : DeriveR(book[t]) # None}

\* A common denominator of the Rs that are known.
CommonRisk(book) == FoldFunction(LAMBDA x, y : x * y, 1, [t \in Known(book) |-> DeriveR(book[t])[2]])

\* R weighted by quantity over the legs that have one.
DecisionWeightedR(book) ==
  <<SumFunction([t \in Known(book) |->
      DeriveR(book[t])[1] * (CommonRisk(book) \div DeriveR(book[t])[2]) * book[t].qty]),
    CommonRisk(book) * SumFunction([t \in Known(book) |-> book[t].qty])>>

ScratchR(book) == Known(book) # {} /\ InBand(DecisionWeightedR(book))

\* The last leg, sold at its entry after a profitable part was taken.
IsRunner(book, t) ==
  LET earned == {x \in Priced(book) \ {t} : DerivePnl(book[x]) > 0}
  IN  /\ book[t].exit_price # None /\ book[t].exit_price = book[t].entry_price
      /\ \/ /\ \A x \in DOMAIN book \ {t} : book[x].exit_date < book[t].exit_date
            /\ earned # {}
         \/ /\ book[t].parent_trade_id = None
            /\ \E x \in earned : book[x].parent_trade_id = t /\ book[x].exit_reason = "partial_take"

RunnerBreakeven(book) ==
  /\ Cardinality(DOMAIN book) >= 2
  /\ \A t \in DOMAIN book : ~Open(book[t])
  /\ NetPnl(book) > 0
  /\ \E t \in DOMAIN book : IsRunner(book, t)

\* None while a leg is open or no profit is known.
DecisionVerdict(book) ==
  LET band == SumFunction([t \in DOMAIN book |-> BeBand(book[t])])
      bookedGain == \E t \in Priced(book) : DerivePnl(book[t]) > BeBand(book[t])
  IN  IF (\E t \in DOMAIN book : Open(book[t])) \/ Priced(book) = {} THEN None
      ELSE IF ScratchR(book) THEN "breakeven"
      ELSE IF RunnerBreakeven(book) \/ NetPnl(book) > band THEN "win"
      ELSE IF NetPnl(book) < -band THEN "loss"
      ELSE IF bookedGain /\ NetPnl(book) >= 0 THEN "win"
      ELSE "breakeven"

-----------------------------------------------------------------------------
\* Trades at 10, with stops and plans, as they are created, split and imported.
ScoredRows ==
  {[entry_price |-> 10, qty |-> q, stop_price |-> s, initial_stop_price |-> i,
    planned_risk_dollars |-> p, exit_price |-> x, exit_date |-> d, exit_reason |-> e,
    parent_trade_id |-> None, pnl_dollars |-> None, r_multiple |-> None] :
     q \in {1, 30}, s \in {None, 3, 9}, i \in {None, 9}, p \in {None, 300},
     x \in {8, 10, 11}, d \in {1, 2}, e \in {None, "partial_take"}}

SampleBooks ==
  {<<a>> : a \in ScoredRows}
    \cup {<<a, [b EXCEPT !.parent_trade_id = 1]>> : a \in ScoredRows, b \in ScoredRows}

\* Both scoreboards on one decision.
VerdictsAgree(book) ==
  LET v == DecisionVerdict(book)
      trades == {TradeVerdict(book[t]) : t \in DOMAIN book}
  IN  /\ Cardinality(DOMAIN book) = 1 => trades = {v}
      /\ trades = {"win"} => v = "win"
      /\ trades = {"loss"} => v = IF ScratchR(book) THEN "breakeven" ELSE "loss"
      /\ v = "win" => NetPnl(book) >= 0
      /\ v = "loss" => NetPnl(book) < 0

\* The two scoreboards do not contradict each other.  A decision of one leg has
\* the verdict of its trade; legs that all win make a winner; legs that all lose
\* make a loser, or a scratch when a commission ate the gain of one of them and
\* their mean R is within the band; a winner has not lost money, a loser has not
\* made any (_is_trade_break_even, _classify_resolved_decision).
ScoreboardsAgree == Untouched => \A book \in SampleBooks : VerdictsAgree(book)
=============================================================================
