----------------------------- MODULE MCRequests -----------------------------
(***************************************************************************)
(* Sessions for TLC in two lanes, which no behaviour changes: requests race *)
(* each other while Redis answers, or those of one connection meet a Redis  *)
(* that may fail.                                                           *)
(***************************************************************************)
EXTENDS MCSessions

CONSTANT c1

VARIABLE lane

\* The other connections rest, so that permuting connections changes no state of this lane.
Failing == INSTANCE Sessions WITH RedisMayFail <- TRUE, Conns <- {c1}, MaxEpoch <- 1,
                                  TimePasses <- {"jwt", "refresh", "cookies"}

MCInit == Init /\ lane \in {"race", "failure"}

MCNext ==
  /\ UNCHANGED lane
  /\ \/ lane = "race" /\ Next
     \/ lane = "failure" /\ Failing!Next

MCSpec == MCInit /\ [][MCNext]_<<vars, lane>>
=============================================================================
