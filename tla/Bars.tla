-------------------------------- MODULE Bars --------------------------------
(***************************************************************************)
(* The bars of a symbol (questdb.go): daily rows that any ingest may write  *)
(* again, sampled into bars of a day, a week or a month by ohlcProjection,  *)
(* and resolved.  A price of 0 is a price that was not published.           *)
(***************************************************************************)
EXTENDS Integers

CONSTANTS
  LastDay,      \* bound: trading dates
  MaxPrice,     \* bound: prices
  Width         \* days of a bar

Days == 1 .. LastDay
Prices == 0 .. MaxPrice
Buckets == 0 .. LastDay

VARIABLES rows  \* equities: open_price, close_price_vwap and last_price by trading date

\* A row that was never written is one without prices.
Tick == [open : Prices, close : Prices, last : Prices]
NoTick == [open |-> 0, close |-> 0, last |-> 0]

TypeOK == rows \in [Days -> Tick]

Init == rows = [d \in Days |-> NoTick]

\* InsertTick: DEDUPLICATE UPSERT KEYS(trading_date, symbol) replaces the whole row.
InsertTick(d, t) == rows' = [rows EXCEPT ![d] = t]

Next == \E d \in Days, t \in Tick : InsertTick(d, t)

Spec == Init /\ [][Next]_rows

-----------------------------------------------------------------------------
LargestOf(s) == CHOOSE x \in s : \A y \in s : y <= x
SmallestOf(s) == CHOOSE x \in s : \A y \in s : x <= y

\* SAMPLE BY.
BucketOf(d) == d \div Width

\* WHERE close_price_vwap > 0.
Priced(d) == rows[d].close > 0
Sampled(b) == {d \in Days : BucketOf(d) = b /\ Priced(d)}

\* max and min ignore a NULL, and are NULL, here 0, over nothing.
MaxOf(s) == IF s \ {0} = {} THEN 0 ELSE LargestOf(s \ {0})
MinOf(s) == IF s \ {0} = {} THEN 0 ELSE SmallestOf(s \ {0})

ProjectionWithoutOpen(b) ==
  LET ds == Sampled(b)
      closes == {rows[d].close : d \in ds}
      lasts == {rows[d].last : d \in ds}
  IN [open |-> rows[SmallestOf(ds)].open,
      highOpen |-> 0, highClose |-> MaxOf(closes), highLast |-> MaxOf(lasts),
      lowOpen |-> 0, lowClose |-> MinOf(closes), lowLast |-> MinOf(lasts),
      close |-> rows[LargestOf(ds)].close]

\* ohlcProjection, over a bucket with a sampled row.
Projection(b) ==
  LET ds == Sampled(b)
      opens == {rows[d].open : d \in ds}
      closes == {rows[d].close : d \in ds}
      lasts == {rows[d].last : d \in ds}
  IN [open |-> rows[SmallestOf(ds)].open,
      highOpen |-> MaxOf(opens), highClose |-> MaxOf(closes), highLast |-> MaxOf(lasts),
      lowOpen |-> MinOf(opens), lowClose |-> MinOf(closes), lowLast |-> MinOf(lasts),
      close |-> rows[LargestOf(ds)].close]

Higher(a, v) == IF v > a THEN v ELSE a
Lower(a, v) == IF v > 0 /\ v < a THEN v ELSE a

\* ohlcRow.resolve: without a published open the bar opens at its close.
Resolve(p) ==
  LET open == IF p.open > 0 THEN p.open ELSE p.close
  IN [open |-> open,
      high |-> Higher(Higher(Higher(Higher(p.highClose, p.highOpen), p.highLast), open), p.close),
      low |-> Lower(Lower(Lower(Lower(p.lowClose, p.lowOpen), p.lowLast), open), p.close),
      close |-> p.close]

\* GetOHLC: a bar for every bucket with a sampled row.
Bars == {b \in Buckets : Sampled(b) # {}}
Bar(b) == Resolve(Projection(b))

-----------------------------------------------------------------------------
(* Properties.                                                             *)

\* "a single bar whose open and close are guaranteed to lie within [low, high]" and "that is exact, not an
\* approximation": the six separate aggregates span exactly the prices published in the bucket, which a maximum and a
\* minimum over all columns of all its rows would give, and the bar opens and closes at published prices.
Published(b) == (UNION {{rows[d].open, rows[d].close, rows[d].last} : d \in Sampled(b)}) \ {0}
BarSpansItsPrices ==
  \A b \in Bars : /\ Bar(b).high = LargestOf(Published(b)) /\ Bar(b).low = SmallestOf(Published(b))
                  /\ {Bar(b).open, Bar(b).close} \subseteq Published(b)
=============================================================================
