-------------------------------- MODULE Curve --------------------------------
(***************************************************************************)
(* reconstructPortfolioHistory: the equity curve of a portfolio, walked     *)
(* over the union of the weekdays and the days with a bar.  Amounts are     *)
(* whole; the code rounds each point to pesewas.                            *)
(***************************************************************************)
EXTENDS Integers, FiniteSets, FiniteSetsExt, Functions

CONSTANTS
  Symbols,
  Lots,         \* purchases; Quantity and Cost of each
  Quantity, Cost,
  LastDay,      \* today, in days since the first that is explored
  Weekends,     \* days of 1 .. LastDay without a session
  Prices        \* closes, 0 for none

Days == 1 .. LastDay
Weekdays == Days \ Weekends

VARIABLES
  lot,          \* the holdings: symbol and purchase date of each lot held
  bars,         \* GetOHLCBatch: the close of each symbol and day
  start,        \* first day of the window
  at,           \* the day the walk has reached, 0 before the first
  owned,        \* lots bought by then
  last,         \* the cursor of each symbol: its latest positive close, 0 before any
  points        \* the curve so far

vars == <<lot, bars, start, at, owned, last, points>>

Lot == [symbol : Symbols, bought : Days]

TypeOK ==
  /\ lot \in [Lots -> Lot]
  /\ bars \in [Symbols -> [Weekdays -> Prices]]
  /\ start \in Days /\ at \in 0 .. LastDay
  /\ owned \subseteq Lots
  /\ last \in [Symbols -> Nat]
  /\ points \in [{d \in Weekdays : d <= at /\ d >= start /\ d >= Min({lot[l].bought : l \in Lots})}
                 -> [value : Nat, cashflow : Int]]

\* Bars before the first purchase, or of a symbol that is not held, are not asked for.
Earliest == Min({lot[l].bought : l \in Lots})
Series == {b \in [Symbols -> [Weekdays -> Prices]] :
             \A s \in Symbols, d \in Weekdays : d < Earliest \/ s \notin {lot[l].symbol : l \in Lots} => b[s][d] = 0}

Init ==
  /\ lot \in [Lots -> Lot]
  /\ bars \in Series
  /\ start \in Days
  /\ at = 0 /\ owned = {} /\ last = [s \in Symbols |-> 0] /\ points = <<>>

-----------------------------------------------------------------------------
\* The axis: weekdays from the first purchase, and days with a bar, which are weekdays too.
Axis == {d \in Weekdays : d >= Earliest}

NextDay == Min({d \in Axis : d > at})

BoughtBy(d) == {l \in Lots : lot[l].bought <= d}

\* A day without a positive close keeps the one before it.
Advanced(d) == [s \in Symbols |-> IF bars[s][d] > 0 THEN bars[s][d] ELSE last[s]]

\* Before a symbol's first close its lots count at cost.
PriceOf(l, closes) == IF closes[lot[l].symbol] = 0 THEN Cost[l] ELSE closes[lot[l].symbol]

NoTransition(l, closes) == FALSE
\* firstToday.
FirstToday(l, closes) == last[lot[l].symbol] = 0 /\ closes[lot[l].symbol] > 0

Worth(l, closes) == Quantity[l] * PriceOf(l, closes)

\* What a lot adds that is no return: all of it when it is new, and its step from cost to market.
Inflow(l, closes) ==
  CASE l \notin owned         -> Worth(l, closes)
    [] l \in owned /\ FirstToday(l, closes) -> Worth(l, closes) - Quantity[l] * Cost[l]
    [] OTHER                  -> 0

\* One day of the walk.
Walk ==
  /\ \E d \in Axis : d > at
  /\ LET d == NextDay
         now == BoughtBy(d)
         closes == Advanced(d)
     IN /\ at' = d
        /\ owned' = now
        /\ last' = closes
        /\ points' = IF d < start THEN points
                     ELSE [e \in DOMAIN points \cup {d} |->
                             IF e = d THEN [value |-> SumFunction([l \in now |-> Worth(l, closes)]),
                                            cashflow |-> SumFunction([l \in now |-> Inflow(l, closes)])]
                             ELSE points[e]]
  /\ UNCHANGED <<lot, bars, start>>

Next == Walk

Spec == Init /\ [][Next]_vars

-----------------------------------------------------------------------------
(* Properties.                                                             *)

\* "(value - prev_value - cashflow) isolates the market-only return of the pre-existing portfolio": from one point to
\* the next it is the quantity times the move of the last close, over the lots owned and priced at the first.
Close(s, d) == LET known == {e \in Weekdays : e <= d /\ bars[s][e] > 0} IN IF known = {} THEN 0 ELSE bars[s][Max(known)]
MarketMove(c, d) ==
  LET held == {l \in Lots : lot[l].bought <= c /\ Close(lot[l].symbol, c) > 0}
  IN SumFunction([l \in held |-> Quantity[l] * (Close(lot[l].symbol, d) - Close(lot[l].symbol, c))])
ReturnIsMarketMove ==
  \A c, d \in DOMAIN points :
    c < d /\ (\A e \in DOMAIN points : e <= c \/ e >= d) =>
      points[d].value - points[c].value - points[d].cashflow = MarketMove(c, d)
=============================================================================
