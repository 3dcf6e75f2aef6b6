------------------------------- MODULE Records -------------------------------
(***************************************************************************)
(* What the server keeps: accounts (Identity), roles and pro requests       *)
(* (Roles), the ticks of uploaded files (Ingest), the bars drawn from them  *)
(* (Bars), the equity curve of a portfolio (Curve) and the insight of the   *)
(* language models (Oracle), side by side.  Roles and Identity speak of the *)
(* same accounts; no part reads a variable of another.                      *)
(***************************************************************************)
EXTENDS Identity

CONSTANTS
  Boss, Others, Requests, MaxRoleOps,   \* Roles
  Writers, MaxRows, MaxErrors,          \* Ingest
  LastDay, MaxPrice, Width,             \* Bars
  Symbols, Lots, Quantity, Cost, LastCurveDay, Weekends, Closes,   \* Curve
  Askers, Clients, Attempts             \* Oracle

ASSUME RecordsAssumption ==
  /\ Boss \in Accounts /\ MaxRoleOps \in Nat
  /\ MaxRows \in Nat /\ MaxErrors \in Nat \ {0}
  /\ LastDay \in Nat /\ MaxPrice \in Nat /\ Width \in Nat \ {0}
  /\ IsFiniteSet(Lots) /\ Lots # {} /\ Quantity \in [Lots -> Nat] /\ Cost \in [Lots -> Nat]
  /\ LastCurveDay \in Nat /\ Closes \subseteq Nat
  /\ Attempts \in Nat \ {0} /\ "none" \notin Askers

VARIABLES
  account, claims, request, rproc, rops, crossed, merged,   \* Roles
  file, pending, buffer, equities, harmed,          \* Ingest
  rows,                                             \* Bars
  lot, closes, start, at, owned, last, points,      \* Curve
  chain, asked, gone, flight, insight, facts        \* Oracle

R == INSTANCE Roles WITH proc <- rproc, ops <- rops, MaxOps <- MaxRoleOps
I == INSTANCE Ingest
B == INSTANCE Bars
C == INSTANCE Curve WITH LastDay <- LastCurveDay, Prices <- Closes, bars <- closes
O == INSTANCE Oracle WITH Requests <- Askers, request <- asked

-----------------------------------------------------------------------------
(* The properties of the parts, by their names there.                      *)

RecordsTypeOK == TypeOK /\ R!TypeOK /\ I!TypeOK /\ B!TypeOK /\ C!TypeOK /\ O!TypeOK

\* The user table's guards leave an administrator: a stale write and a merge are the only ways around them.
AdminRemains == R!AdminRemains

\* A pro request is decided once, by another, and an approval never demotes.
DecisionIsWhole == R!DecisionIsWhole

\* The rows an ingest counts as inserted are in the database.
CountedIsStored == I!CountedIsStored

\* A bar's six aggregates span exactly the prices published in its days.
BarSpansItsPrices == B!BarSpansItsPrices

\* From one point of the equity curve to the next, the value moves by the cashflow and the move of the market.
ReturnIsMarketMove == C!ReturnIsMarketMove

\* The heuristic is cached in a model's place for one of three reasons only.
HeuristicIsExplained == O!HeuristicIsExplained
=============================================================================
