\* One evaluator; any Postgres call may fail and the process may restart anywhere.
SPECIFICATION FairSpec
CONSTANTS
  Rules = {r1, r2}
  Runs = {k1}
  Authors = {a1, a2}
  MaxRules = 1
  MayFail = TRUE
  MayCrash = TRUE
  MaxArms = 2
INVARIANT TypeOK
INVARIANT CapUpToRace
PROPERTY ImplementsArming
PROPERTY EveryRunReturns
