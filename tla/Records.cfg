\* Two accounts, of which one exists; two addresses, an identity at each of two providers, two requests at once, four in all
\* (a merge among them); three ingests of two rows; three trading dates of prices 0 to 2; a chain of up to three clients;
\* a curve of two lots over four days of which one is a weekend's.
SPECIFICATION MCSpec
CONSTANTS
  a1 = a1
  a2 = a2
  e1 = e1
  e2 = e2
  g1 = g1
  g2 = g2
  t1 = t1
  t2 = t2
  p1 = p1
  p2 = p2
  kofi = kofi
  kofi_g = kofi_g
  Accounts = {a1, a2}
  Names = {kofi, kofi_g}
  Emails = {e1, e2}
  Idents = {g1, g2}
  EmailOf <- Address
  ProviderOf <- Provider
  HandlesOf <- Handles
  Tokens = {t1, t2}
  Procs = {p1, p2}
  Founder = a1
  FounderName = kofi
  Boss = a1
  Others = {a2}
  r1 = r1
  r2 = r2
  Requests = {r1, r2}
  MaxOps = 4
  MaxRoleOps = 4
  Writers = {1, 2, 3}
  MaxRows = 2
  MaxErrors = 1
  LastDay = 3
  MaxPrice = 2
  Width = 2
  Symbols = {"s1", "s2"}
  Lots = {1, 2}
  Quantity <- Bought
  Cost <- Paid
  LastCurveDay = 4
  Weekends = {2}
  Closes = {0, 1, 2}
  Askers = {r1, r2}
  Clients = {"gemini", "anthropic", "compatible"}
  Attempts = 2
  None = None
SYMMETRY Symmetry
INVARIANT RecordsTypeOK
INVARIANT VerifiedIsProven
INVARIANT ProviderManagesEmail
INVARIANT EveryoneCanSignIn
INVARIANT AdminRemains
INVARIANT CountedIsStored
INVARIANT BarSpansItsPrices
INVARIANT ReturnIsMarketMove
INVARIANT HeuristicIsExplained
PROPERTY ImplementsClaims
PROPERTY DecisionIsWhole
\* The bounds end the behaviours of this instance.
CHECK_DEADLOCK FALSE
