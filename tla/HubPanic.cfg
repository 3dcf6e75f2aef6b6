\* A pusher copies the clients and sends after one of them was unregistered.
SPECIFICATION Spec
CONSTANTS
  c1 = c1
  c2 = c2
  Conns = {c1, c2}
  Pushers = {p1}
  Audiences <- UserAndRole
  MaxClients = 2
  RegisterCap = 1
  UnregisterCap = 1
  BroadcastCap = 1
  SendCap = 1
INVARIANT PushIsSafe
\* Every connection may have come and gone, and a panic stops the process.
CHECK_DEADLOCK FALSE
