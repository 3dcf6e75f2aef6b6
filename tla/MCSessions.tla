----------------------------- MODULE MCSessions -----------------------------
(* Sessions for TLC.  Connections are interchangeable goroutines, and so   *)
(* are administrators and browsers: permuting them permutes behaviours.    *)
EXTENDS Sessions, TLC

Interchangeable == Permutations(Conns) \union Permutations(Admins) \union Permutations(Browsers)
=============================================================================
