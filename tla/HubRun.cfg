\* One connection more than the cap, every buffer of one slot, and a pusher.
SPECIFICATION FairSpec
CONSTANTS
  c1 = c1
  c2 = c2
  Conns = {c1, c2}
  Pushers = {p1}
  Audiences <- UserAndRole
  MaxClients = 1
  RegisterCap = 1
  UnregisterCap = 1
  BroadcastCap = 1
  SendCap = 1
INVARIANT TypeOK
INVARIANT RunNeverPanics
INVARIANT GaugeIsExact
INVARIANT EndedIsForgotten
PROPERTY RunReturns
PROPERTY HungPeerIsDropped
\* Every connection may have come and gone, and a panic stops the process.
CHECK_DEADLOCK FALSE
