\* Two requests of one browser race each other, logins and one administrator; the lane in which Redis may fail has its
\* constants in MCRequests.
SPECIFICATION MCSpec
CONSTANTS
  Users = {u1}
  Browsers = {b1}
  c1 = c1
  Conns = {c1, c2}
  Admins = {a1}
  Roles = {"user", "admin"}
  AdminOps = {"role", "lock", "unlock"}
  InitLinked = {}
  RedisMayFail = FALSE
  TimePasses = {"jwt"}
  MaxSerial = 2
  MaxEpoch = 2
SYMMETRY Interchangeable
INVARIANT TypeOK
INVARIANT RevocationCovers
INVARIANT ServedIsCurrent
