------------------------------- MODULE MCFeed -------------------------------
(***************************************************************************)
(* Feed for TLC.  Each behaviour explores one part and leaves the others at *)
(* a beginning.                                                             *)
(***************************************************************************)
EXTENDS Feed, TLC

CONSTANTS u1, d1, d2

VARIABLE part

pushVars == <<day, wants, subs, alive, marks, fan, edits, faults, got, unmarked, let>>
holdingsVars == <<version, owns, edit, answered, cache, flight, stores, read, excused>>

Others(p) ==
  /\ IF p = "collector" THEN TRUE ELSE UNCHANGED vars
  /\ IF p = "push" THEN TRUE ELSE UNCHANGED pushVars
  /\ IF p = "holdings" THEN TRUE ELSE UNCHANGED holdingsVars

MCInit ==
  /\ part \in {"collector", "push", "holdings"}
  /\ Init /\ (part = "collector" \/ held = {0})
  /\ P!Init
  /\ H!Init /\ (part = "holdings" \/ owns)

MCNext ==
  /\ UNCHANGED part
  /\ Others(part)
  /\ \/ part = "collector" /\ Next
     \/ part = "push" /\ P!Next
     \/ part = "holdings" /\ H!Next

mcVars == <<part, vars, pushVars, holdingsVars>>

\* The fairness of Push and Holdings.
MCSpec ==
  /\ MCInit /\ [][MCNext]_mcVars
  /\ \A f \in Fans : WF_pushVars(P!Work(f))
  /\ \A w \in Windows : WF_holdingsVars(H!Work(w))
=============================================================================
