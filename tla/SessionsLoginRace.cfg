\* A login reads the account before the revocation and the epoch after it.
SPECIFICATION Spec
CONSTANTS
  Users = {u1}
  Browsers = {b1}
  Conns = {c1}
  Admins = {a1}
  Roles = {"user", "admin"}
  AdminOps = {"role"}
  InitLinked = {}
  RedisMayFail = FALSE
  TimePasses = {"jwt"}
  MaxSerial = 2
  MaxEpoch = 2
SYMMETRY Interchangeable
INVARIANT RevocationTakesEffect
\* The bound on credentials ends every behaviour of this instance.
CHECK_DEADLOCK FALSE
