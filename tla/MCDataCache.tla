----------------------------- MODULE MCDataCache -----------------------------
(***************************************************************************)
(* DataCache for TLC in two lanes, which no behaviour changes: requests ask *)
(* for what is derived from prices, or for what the language model makes.   *)
(***************************************************************************)
EXTENDS DataCache

VARIABLE lane

Asked == IF lane = "prices" THEN {"snapshot", "summary"} ELSE {"briefing", "insight"}

\* Bound: MaxVersion briefings, where briefings are asked for, and one change less of anything else.
Bounded == prices < MaxVersion /\ (lane = "prices" => briefing < MaxVersion)

MCInit == Init /\ lane \in {"prices", "model"}

MCNext ==
  /\ UNCHANGED lane
  /\ Next /\ Bounded'
  /\ \A r \in Requests : req'[r].key \in Asked \cup {"none"}

\* The fairness of FairSpec.
MCSpec ==
  /\ MCInit /\ [][MCNext]_<<vars, lane>>
  /\ \A k \in Keys : WF_vars(Expire(k))
  /\ \A r \in Requests : WF_vars(Lands(r))
=============================================================================
