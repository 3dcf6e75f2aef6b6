\* Two runs list the same armed rule before either fires it.
SPECIFICATION Spec
CONSTANTS
  Rules = {r1}
  Runs = {k1, k2}
  Authors = {a1}
  MaxRules = 2
  MayFail = FALSE
  MayCrash = FALSE
  MaxArms = 1
INVARIANT NoRefire
\* The last rule id ends every behaviour of this instance.
CHECK_DEADLOCK FALSE
