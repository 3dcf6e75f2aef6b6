\* Two evaluator runs at once against the owner's edits.
SPECIFICATION Spec
CONSTANTS
  Rules = {r1, r2}
  Runs = {k1, k2}
  Authors = {a1}
  MaxRules = 2
  MayFail = FALSE
  MayCrash = FALSE
  MaxArms = 2
SYMMETRY Interchangeable
INVARIANT OncePerRun
INVARIANT BatchIsComplete
