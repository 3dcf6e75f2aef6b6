------------------------------ MODULE MCAlerts ------------------------------
(* Alerts for TLC.  Rule ids, runs and create requests are interchangeable.*)
EXTENDS Alerts, TLC

Interchangeable == Permutations(Rules) \union Permutations(Runs) \union Permutations(Authors)
=============================================================================
