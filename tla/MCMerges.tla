------------------------------ MODULE MCMerges ------------------------------
(***************************************************************************)
(* Sessions with merges, for TLC in five lanes, which no behaviour         *)
(* changes: deletions; approvals and locks, with one credential fewer;     *)
(* two administrators who lock and unlock while Redis may fail; logins and *)
(* merges while Redis may fail; logins of one browser that overlap.        *)
(***************************************************************************)
EXTENDS Sessions

CONSTANTS c1, c2, a1

VARIABLE lane

Deleting == INSTANCE Sessions WITH Conns <- {c1}, Admins <- {a1}
Approving == INSTANCE Sessions WITH Conns <- {c1}, Admins <- {a1}, AdminOps <- {"lock", "approve"}, MaxSerial <- 2
Toggling == INSTANCE Sessions WITH Conns <- {}, AdminOps <- {"lock", "unlock"}, RedisMayFail <- TRUE, MaxEpoch <- 3
Storing == INSTANCE Sessions WITH Conns <- {c1}, AdminOps <- {}, RedisMayFail <- TRUE, MaxSerial <- 2
Overlapping == INSTANCE Sessions WITH AdminOps <- {}, InitLinked <- {}

\* Logins and logouts of the second connection overtake the requests of the first.
Overtaking == conn'[c1].op = "get" /\ (conn'[c2].pc = "idle" \/ conn'[c2].op \in {"login", "logout"})

MCInit ==
  \/ Init /\ lane \in {"delete", "approve", "toggle", "store"}
  \/ Overlapping!Init /\ lane = "overlap"

MCNext ==
  /\ UNCHANGED lane
  /\ \/ lane = "delete" /\ Deleting!Next
     \/ lane = "approve" /\ Approving!Next
     \/ lane = "toggle" /\ Toggling!Next
     \/ lane = "store" /\ Storing!Next
     \/ lane = "overlap" /\ Overlapping!Next /\ Overtaking

\* The fairness of FairSpec.
MCSpec ==
  /\ MCInit /\ [][MCNext]_<<vars, lane>>
  /\ \A c \in Conns : WF_vars(ConnStep(c))
  /\ \A a \in Admins : WF_vars(AdminStep(a))
=============================================================================
