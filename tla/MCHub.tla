-------------------------------- MODULE MCHub --------------------------------
(* Hub for TLC.  The audiences are those of one user and of one role.      *)
EXTENDS Hub, TLC

CONSTANTS c1, c2

UserAndRole == {{c1}, {c1, c2}}
=============================================================================
