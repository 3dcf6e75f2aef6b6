------------------------------ MODULE MCRecords ------------------------------
(***************************************************************************)
(* Records for TLC.  Each behaviour explores one part and leaves the others *)
(* at a beginning.                                                          *)
(***************************************************************************)
EXTENDS Records, TLC

CONSTANTS a1, a2, e1, e2, g1, g2, t1, t2, p1, p2, kofi, kofi_g, r1, r2

VARIABLE part

\* Two providers know an identity each, with an address each; two usernames are proposed for either.
Address == [i \in Idents |-> IF i = g1 THEN e1 ELSE e2]
Provider == [i \in Idents |-> i]
Handles == [i \in Idents |-> <<kofi, kofi_g>>]

\* What each lot of the portfolio holds, and cost.
Bought == <<1, 2>>
Paid == <<2, 1>>

\* Nothing tells one handler or token from another.
Symmetry == {s @@ t : s \in Permutations(Procs), t \in Permutations(Tokens)}

rolesVars == <<account, claims, request, rproc, rops, crossed, merged>>
ingestVars == <<file, pending, buffer, equities, harmed>>
curveVars == <<lot, closes, start, at, owned, last, points>>
oracleVars == <<chain, asked, gone, flight, insight, facts>>

\* An unexplored curve has one beginning.  The first lot's symbol is the first.
NoCurve == /\ start = 1 /\ lot = [l \in Lots |-> [symbol |-> "s1", bought |-> 1]]
           /\ closes = [s \in Symbols |-> [d \in (1 .. LastCurveDay) \ Weekends |-> 0]]

MCInit == /\ part \in {"identity", "roles", "ingest", "bars", "curve", "oracle"}
          /\ Init /\ R!Init /\ I!Init /\ B!Init
          /\ (part = "curve" \/ NoCurve) /\ C!Init /\ lot[1].symbol = "s1"
          /\ (part = "oracle" \/ chain = <<>>) /\ O!Init

MCNext == /\ UNCHANGED part
          /\ \/ part = "identity" /\ Next /\ UNCHANGED <<rolesVars, ingestVars, rows, curveVars, oracleVars>>
             \/ part = "roles" /\ R!Next /\ UNCHANGED <<vars, ingestVars, rows, curveVars, oracleVars>>
             \/ part = "ingest" /\ I!Next /\ UNCHANGED <<vars, rolesVars, rows, curveVars, oracleVars>>
             \/ part = "bars" /\ B!Next /\ UNCHANGED <<vars, rolesVars, ingestVars, curveVars, oracleVars>>
             \/ part = "curve" /\ C!Next /\ UNCHANGED <<vars, rolesVars, ingestVars, rows, oracleVars>>
             \/ part = "oracle" /\ O!Next /\ UNCHANGED <<vars, rolesVars, ingestVars, rows, curveVars>>

MCSpec == MCInit /\ [][MCNext]_<<part, vars, rolesVars, ingestVars, rows, curveVars, oracleVars>>
=============================================================================
