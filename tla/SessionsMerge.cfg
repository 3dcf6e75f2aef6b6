\* Two accounts, one of them OAuth-linked, and one browser; MCMerges says where its lanes differ from these constants.
SPECIFICATION MCSpec
CONSTANTS
  Users = {u1, u2}
  Browsers = {b1}
  c1 = c1
  c2 = c2
  a1 = a1
  Conns = {c1, c2}
  Admins = {a1, a2}
  Roles = {"user"}
  AdminOps = {"delete"}
  InitLinked = {u1}
  RedisMayFail = FALSE
  TimePasses = {"jwt"}
  MaxSerial = 3
  MaxEpoch = 1
INVARIANT RevocationCovers
INVARIANT JarIdentity
INVARIANT SentinelMirrorsLock
PROPERTY EveryCallReturns
