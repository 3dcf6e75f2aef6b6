---------------------------- MODULE RecordsProofs ----------------------------
(***************************************************************************)
(* What the tables promise, for every value of the constants.               *)
(*                                                                         *)
(* Roles: the administrator who remains is the one who acts.  A pending     *)
(* role change of an actor on himself keeps the role, a pending deletion is *)
(* never of its actor (Armed), so the account whose role authorises a write *)
(* survives it; a merge is one of the two exceptions the statement names.   *)
(* A pending request has an author (Signed).                                *)
(*                                                                         *)
(* Ingest: a counted row is in the sender's buffer or in the database until *)
(* its writer is done, and in the database from then on (Kept).             *)
(*                                                                         *)
(* Bars: over a typed table the statement holds by itself; the lemmas are   *)
(* about largest and smallest elements.                                     *)
(*                                                                         *)
(* Curve: the walk's cursors are the closes of the day it has reached, and  *)
(* each point is what the lots and closes alone say of its day and of the   *)
(* one before it (CurveInv); lot by lot the identity is arithmetic, and     *)
(* sums keep it (SumsBalance).  The fold is shown to satisfy its recursion  *)
(* by taking a smallest counterexample.                                     *)
(*                                                                         *)
(* Oracle: the walk keeps a record of all it has put behind it; each rung   *)
(* before the one it is at has failed.  When it ends at the last rung,      *)
(* every rung has (WalkInv).                                                *)
(***************************************************************************)
EXTENDS Records, IdentityProofs, FiniteSetTheorems

-----------------------------------------------------------------------------
(* Roles: handlers.                                                        *)

\* What the guards of an arrival promise of the write that comes later.
Promised(c) ==
  /\ c.at # "idle" => c.actor \in Accounts
  /\ c.at \in {"setRole", "delete", "lock", "unlock", "revoke", "submit", "merge"} => c.user \in Accounts
  /\ c.at = "setRole" => c.role \in R!RoleNames /\ (c.actor = c.user => c.role = "admin")
  /\ c.at \in {"delete", "merge"} => c.actor # c.user
  /\ c.at = "merge" => c.role \in R!RoleNames
  /\ c.at = "decide" => c.req \in Requests

Armed == \A p \in Procs : Promised(rproc[p])

RolesInv == R!TypeOK /\ Armed /\ R!AdminRemains

LEMMA IdleTyped == R!Idle \in R!Proc /\ R!Idle.at = "idle"
BY DEF R!Idle, R!Proc

\* An arrival's call is a typed record whose guards hold.
LEMMA Arriving ==
  ASSUME NEW p \in Procs, R!TypeOK, Armed, R!Arrival(p)
  PROVE  \E c \in R!Proc :
           R!Begin(p, c) /\ c.actor \in Accounts /\ Promised(c)
<1>1. PICK b \in Accounts :
        \/ R!AskPro(p, b)
        \/ \E r \in Requests, yes \in BOOLEAN : R!AskDecide(p, b, r, yes)
        \/ \E u \in Accounts :
             \/ R!AskDelete(p, b, u) \/ R!AskLock(p, b, u) \/ R!AskMerge(p, b, u)
             \/ \E r \in R!RoleNames : R!AskRole(p, b, u, r)
  BY DEF R!Arrival
<1>2. CASE R!AskPro(p, b)
  <2> DEFINE c == [R!Idle EXCEPT !.at = "submit", !.actor = b, !.user = b]
  <2>1. c \in R!Proc /\ c.at = "submit" /\ c.actor = b /\ c.user = b
    BY DEF R!Idle, R!Proc
  <2>2. R!Begin(p, c)
    BY <1>2 DEF R!AskPro
  <2> HIDE DEF c
  <2>3. QED
    BY <2>1, <2>2 DEF Promised
<1>3. ASSUME NEW r \in Requests, NEW yes \in BOOLEAN, R!AskDecide(p, b, r, yes)
      PROVE  \E c \in R!Proc : R!Begin(p, c) /\ c.actor \in Accounts /\ Promised(c)
  <2> DEFINE c == [R!Idle EXCEPT !.at = "decide", !.actor = b, !.req = r, !.approve = yes]
  <2>1. c \in R!Proc /\ c.at = "decide" /\ c.actor = b /\ c.req = r
    BY DEF R!Idle, R!Proc
  <2>2. R!Begin(p, c)
    BY <1>3 DEF R!AskDecide
  <2> HIDE DEF c
  <2>3. QED
    BY <2>1, <2>2 DEF Promised
<1>4. ASSUME NEW u \in Accounts, R!AskDelete(p, b, u)
      PROVE  \E c \in R!Proc : R!Begin(p, c) /\ c.actor \in Accounts /\ Promised(c)
  <2> DEFINE c == [R!Idle EXCEPT !.at = "delete", !.actor = b, !.user = u]
  <2>1. c \in R!Proc /\ c.at = "delete" /\ c.actor = b /\ c.user = u
    BY DEF R!Idle, R!Proc
  <2>2. R!Begin(p, c) /\ b # u
    BY <1>4 DEF R!AskDelete
  <2> HIDE DEF c
  <2>3. QED
    BY <2>1, <2>2 DEF Promised
<1>5. ASSUME NEW u \in Accounts, R!AskLock(p, b, u)
      PROVE  \E c \in R!Proc : R!Begin(p, c) /\ c.actor \in Accounts /\ Promised(c)
  <2>1. PICK stage \in {"lock", "unlock"} : R!Begin(p, [R!Idle EXCEPT !.at = stage, !.actor = b, !.user = u])
    BY <1>5 DEF R!AskLock
  <2> DEFINE c == [R!Idle EXCEPT !.at = stage, !.actor = b, !.user = u]
  <2>2. c \in R!Proc /\ c.at = stage /\ c.actor = b /\ c.user = u
    BY DEF R!Idle, R!Proc
  <2>3. R!Begin(p, c)
    BY <2>1
  <2> HIDE DEF c
  <2>4. QED
    BY <2>2, <2>3 DEF Promised
<1>6. ASSUME NEW u \in Accounts, NEW r \in R!RoleNames, R!AskRole(p, b, u, r)
      PROVE  \E c \in R!Proc : R!Begin(p, c) /\ c.actor \in Accounts /\ Promised(c)
  <2> DEFINE c == [R!Idle EXCEPT !.at = "setRole", !.actor = b, !.user = u, !.role = r]
  <2>1. c \in R!Proc /\ c.at = "setRole" /\ c.actor = b /\ c.user = u /\ c.role = r
    BY DEF R!Idle, R!Proc
  <2>2. R!Begin(p, c) /\ (b = u => r = "admin")
    BY <1>6 DEF R!AskRole
  <2> HIDE DEF c
  <2>3. QED
    BY <2>1, <2>2 DEF Promised
<1>7. ASSUME NEW u \in Accounts, R!AskMerge(p, b, u)
      PROVE  \E c \in R!Proc : R!Begin(p, c) /\ c.actor \in Accounts /\ Promised(c)
  <2> DEFINE c == [R!Idle EXCEPT !.at = "merge", !.actor = b, !.user = u, !.role = account[u].role]
  <2>1. account[u].role \in R!RoleNames
    BY DEF R!TypeOK, R!Account
  <2>2. c \in R!Proc /\ c.at = "merge" /\ c.actor = b /\ c.user = u /\ c.role = account[u].role
    BY <2>1 DEF R!Idle, R!Proc
  <2>3. R!Begin(p, c) /\ b # u
    BY <1>7 DEF R!AskMerge
  <2> HIDE DEF c
  <2>4. QED
    BY <2>1, <2>2, <2>3 DEF Promised
<1>8. QED
  BY <1>1, <1>2, <1>3, <1>4, <1>5, <1>6, <1>7

\* A handler that moves to "idle" or "revoke" keeps the promises of all.
LEMMA Moving ==
  ASSUME R!TypeOK, Armed, NEW p \in Procs, rproc[p].at # "idle",
         \/ R!Return(p)
         \/ rproc' = [rproc EXCEPT ![p].at = "revoke"] /\ rproc[p].user \in Accounts
  PROVE  rproc' \in [Procs -> R!Proc] /\ Armed'
<1>1. CASE R!Return(p)
  BY <1>1, IdleTyped DEF R!Return, R!TypeOK, Armed, Promised
<1>2. CASE rproc' = [rproc EXCEPT ![p].at = "revoke"] /\ rproc[p].user \in Accounts
  <2> DEFINE c == [rproc[p] EXCEPT !.at = "revoke"]
  <2>1. c \in R!Proc /\ c.at = "revoke" /\ c.actor = rproc[p].actor /\ c.user = rproc[p].user
    BY DEF R!TypeOK, R!Proc
  <2>2. rproc' = [rproc EXCEPT ![p] = c]
    BY <1>2
  <2> HIDE DEF c
  <2>3. QED
    BY <1>2, <2>1, <2>2 DEF R!TypeOK, Armed, Promised
<1>3. QED
  BY <1>1, <1>2

-----------------------------------------------------------------------------
(* Roles: the tables.                                                      *)

\* Writing one column of an account keeps the table's type.
LEMMA AccountWritten ==
  ASSUME R!TypeOK, NEW u
  PROVE  /\ [account EXCEPT ![u].live = FALSE] \in [Accounts -> R!Account]
         /\ \A f \in BOOLEAN : [account EXCEPT ![u].locked = f] \in [Accounts -> R!Account]
         /\ \A r \in R!RoleNames : [account EXCEPT ![u].role = r] \in [Accounts -> R!Account]
BY DEF R!TypeOK, R!Account

\* The partial unique index, as TypeOK has it.
OnePending(table) ==
  \A r, q \in Requests :
    table[r].state = "pending" /\ table[q].state = "pending" /\ r # q => table[r].user # table[q].user

\* A deletion only erases.
LEMMA Erasing ==
  ASSUME R!TypeOK, NEW u
  PROVE  /\ R!RequestsWithout(u) \in [Requests -> R!Request] /\ OnePending(R!RequestsWithout(u))
         /\ \A r \in Requests : /\ R!RequestsWithout(u)[r].user = request[r].user
                                /\ R!RequestsWithout(u)[r].state \in {request[r].state, "erased"}
<1> DEFINE table == R!RequestsWithout(u)
<1>1. \A r \in Requests : /\ table[r] \in R!Request /\ table[r].user = request[r].user
                          /\ table[r].state \in {request[r].state, "erased"}
  BY DEF R!RequestsWithout, R!TypeOK, R!Request
<1>2. table \in [Requests -> R!Request]
  BY <1>1 DEF R!RequestsWithout
<1>3. OnePending(table)
  BY <1>1 DEF R!TypeOK, OnePending
<1>4. QED
  BY <1>1, <1>2, <1>3

-----------------------------------------------------------------------------
(* Roles: the invariant.                                                   *)

LEMMA RolesInit == R!Init => RolesInv
<1> SUFFICES ASSUME R!Init PROVE RolesInv
  OBVIOUS
<1>1. account \in [Accounts -> R!Account] /\ claims \in [Accounts -> R!RoleNames \cup {None}]
  BY DEF R!Init, R!Account, R!RoleNames
<1>2. request \in [Requests -> R!Request] /\ \A r \in Requests : request[r].state = "unborn"
  BY DEF R!Init, R!Request
<1>3. rproc \in [Procs -> R!Proc] /\ \A p \in Procs : rproc[p].at = "idle"
  BY IdleTyped DEF R!Init
<1>4. R!TypeOK
  BY <1>1, <1>2, <1>3 DEF R!Init, R!TypeOK
<1>5. Armed
  BY <1>3 DEF Armed, Promised
<1>6. Boss \in Accounts /\ R!IsAdmin(Boss)
  BY RecordsAssumption DEF R!Init, R!IsAdmin
<1>7. QED
  BY <1>4, <1>5, <1>6 DEF RolesInv, R!AdminRemains

LEMMA RolesNext == RolesInv /\ [R!Next]_(R!vars) => RolesInv'
<1> SUFFICES ASSUME RolesInv, [R!Next]_(R!vars) PROVE RolesInv'
  OBVIOUS
<1> USE DEF RolesInv
<1>1. CASE UNCHANGED R!vars
  BY <1>1 DEF R!vars, R!TypeOK, Armed, Promised, R!AdminRemains, R!IsAdmin
<1>2. ASSUME NEW a \in Accounts, R!SignIn(a) PROVE RolesInv'
  <2>1. claims' \in [Accounts -> R!RoleNames \cup {None}]
    BY <1>2 DEF R!SignIn, R!TypeOK, R!Account
  <2>2. QED
    BY <1>2, <2>1 DEF R!SignIn, R!TypeOK, Armed, Promised, R!AdminRemains, R!IsAdmin
<1>3. ASSUME NEW p \in Procs, R!Arrival(p) PROVE RolesInv'
  <2>1. PICK c \in R!Proc : R!Begin(p, c) /\ c.actor \in Accounts /\ Promised(c)
    BY <1>3, Arriving
  <2>2. rproc' = [rproc EXCEPT ![p] = c] /\ rops' = rops + 1 /\ UNCHANGED <<account, claims, request, crossed, merged>>
    BY <2>1 DEF R!Begin
  <2>3. R!TypeOK'
    BY <2>2 DEF R!TypeOK
  <2>4. Armed'
    BY <2>1, <2>2 DEF Armed, Promised, R!TypeOK
  <2>5. R!AdminRemains'
    BY <2>2 DEF R!AdminRemains, R!IsAdmin
  <2>6. QED
    BY <2>3, <2>4, <2>5
<1>4. ASSUME NEW p \in Procs, R!SetRole(p) PROVE RolesInv'
  <2> DEFINE u == rproc[p].user
             b == rproc[p].actor
  <2>1. /\ rproc[p].at = "setRole" /\ rproc' = [rproc EXCEPT ![p].at = "revoke"]
        /\ account' = IF account[u].live THEN [account EXCEPT ![u].role = rproc[p].role] ELSE account
        /\ crossed' = (crossed \/ ~R!IsAdmin(b)) /\ UNCHANGED <<claims, request, rops, merged>>
    BY <1>4 DEF R!SetRole, R!Cross
  <2>2. u \in Accounts /\ b \in Accounts /\ rproc[p].role \in R!RoleNames /\ (b = u => rproc[p].role = "admin")
    BY <2>1 DEF Armed, Promised
  <2>3. rproc' \in [Procs -> R!Proc] /\ Armed'
    BY <2>1, <2>2, Moving
  <2>4. account' \in [Accounts -> R!Account]
    BY <2>1, <2>2, AccountWritten DEF R!TypeOK
  <2>5. R!TypeOK'
    BY <2>1, <2>3, <2>4 DEF R!TypeOK
  <2>6. ASSUME R!IsAdmin(b) PROVE account'[b].live /\ account'[b].role = "admin"
    BY <2>1, <2>2, <2>6 DEF R!IsAdmin, R!TypeOK, R!Account
  <2>7. R!AdminRemains'
    BY <2>1, <2>2, <2>6 DEF R!AdminRemains, R!IsAdmin
  <2>8. QED
    BY <2>3, <2>5, <2>7
<1>5. ASSUME NEW p \in Procs, R!DeleteAccount(p) PROVE RolesInv'
  <2> DEFINE u == rproc[p].user
             b == rproc[p].actor
  <2>1. /\ rproc[p].at = "delete" /\ rproc' = [rproc EXCEPT ![p].at = "revoke"]
        /\ account' = [account EXCEPT ![u].live = FALSE]
        /\ crossed' = (crossed \/ ~R!IsAdmin(b)) /\ UNCHANGED <<claims, rops, merged>>
        /\ request' = R!RequestsWithout(u)
    BY <1>5 DEF R!DeleteAccount, R!Cross
  <2>2. u \in Accounts /\ b \in Accounts /\ b # u
    BY <2>1 DEF Armed, Promised
  <2>3. rproc' \in [Procs -> R!Proc] /\ Armed'
    BY <2>1, <2>2, Moving
  <2>4. account' \in [Accounts -> R!Account]
    BY <2>1, AccountWritten
  <2>6. request' \in [Requests -> R!Request] /\ OnePending(request')
    BY <2>1, Erasing
  <2>7. R!TypeOK'
    BY <2>1, <2>3, <2>4, <2>6 DEF R!TypeOK, OnePending
  <2>8. ASSUME R!IsAdmin(b) PROVE account'[b].live /\ account'[b].role = "admin"
    BY <2>1, <2>2, <2>8 DEF R!IsAdmin, R!TypeOK, R!Account
  <2>9. R!AdminRemains'
    BY <2>1, <2>2, <2>8 DEF R!AdminRemains, R!IsAdmin
  <2>10. QED
    BY <2>3, <2>7, <2>9
<1>6. ASSUME NEW p \in Procs, R!ToggleLock(p) PROVE RolesInv'
  <2> DEFINE u == rproc[p].user
  <2>1. /\ rproc[p].at \in {"lock", "unlock"} /\ UNCHANGED <<claims, request, rops, crossed, merged>>
        /\ account' = IF account[u].live THEN [account EXCEPT ![u].locked = (rproc[p].at = "lock")] ELSE account
        /\ R!Return(p) \/ rproc' = [rproc EXCEPT ![p].at = "revoke"]
    BY <1>6 DEF R!ToggleLock
  <2>2. u \in Accounts
    BY <2>1 DEF Armed, Promised
  <2>3. rproc' \in [Procs -> R!Proc] /\ Armed'
    BY <2>1, <2>2, Moving
  <2>4. account' \in [Accounts -> R!Account]
    BY <2>1, AccountWritten DEF R!TypeOK
  <2>5. R!TypeOK'
    BY <2>1, <2>3, <2>4 DEF R!TypeOK
  <2>6. \A a \in Accounts : account'[a].live = account[a].live /\ account'[a].role = account[a].role
    BY <2>1 DEF R!TypeOK, R!Account
  <2>7. R!AdminRemains'
    BY <2>1, <2>6 DEF R!AdminRemains, R!IsAdmin
  <2>8. QED
    BY <2>3, <2>5, <2>7
<1>7. ASSUME NEW p \in Procs, R!Revoke(p) PROVE RolesInv'
  <2>1. /\ rproc[p].at = "revoke" /\ R!Return(p) /\ UNCHANGED <<account, request, rops, crossed, merged>>
        /\ claims' = [claims EXCEPT ![rproc[p].user] = None]
    BY <1>7 DEF R!Revoke
  <2>2. rproc' \in [Procs -> R!Proc] /\ Armed'
    BY <2>1, Moving
  <2>3. QED
    BY <2>1, <2>2 DEF R!TypeOK, R!AdminRemains, R!IsAdmin
<1>8. ASSUME NEW p \in Procs, R!Submit(p) PROVE RolesInv'
  <2> DEFINE u == rproc[p].user
  <2>1. /\ rproc[p].at = "submit" /\ R!Return(p) /\ UNCHANGED <<account, claims, rops, crossed, merged>>
        /\ \/ UNCHANGED request
           \/ /\ R!NonePending(u)
              /\ \E r \in Requests : request' = [request EXCEPT ![r] = [state |-> "pending", user |-> u, by |-> None]]
    BY <1>8 DEF R!Submit
  <2>2. u \in Accounts
    BY <2>1 DEF Armed, Promised
  <2>3. rproc' \in [Procs -> R!Proc] /\ Armed'
    BY <2>1, Moving
  <2>4. CASE UNCHANGED request
    BY <2>1, <2>3, <2>4 DEF R!TypeOK, R!AdminRemains, R!IsAdmin
  <2>5. ASSUME R!NonePending(u), NEW r \in Requests,
               request' = [request EXCEPT ![r] = [state |-> "pending", user |-> u, by |-> None]]
        PROVE  R!TypeOK'
    <3>1. request' \in [Requests -> R!Request]
      BY <2>2, <2>5 DEF R!TypeOK, R!Request
    <3>2. OnePending(request')
      BY <2>5 DEF R!TypeOK, OnePending, R!NonePending
    <3>3. QED
      BY <2>1, <2>3, <3>1, <3>2 DEF R!TypeOK, OnePending
  <2>6. QED
    BY <2>1, <2>3, <2>4, <2>5 DEF R!AdminRemains, R!IsAdmin
<1>9. ASSUME NEW p \in Procs, R!Decide(p) PROVE RolesInv'
  <2> DEFINE b == rproc[p].actor
             r == rproc[p].req
             u == request[r].user
             yes == rproc[p].approve
  <2>1. rproc[p].at = "decide" /\ R!Return(p) /\ UNCHANGED <<claims, rops, crossed, merged>>
    BY <1>9 DEF R!Decide
  <2>2. b \in Accounts /\ r \in Requests
    BY <2>1 DEF Armed, Promised
  <2>3. rproc' \in [Procs -> R!Proc] /\ Armed'
    BY <2>1, Moving
  <2>4. \/ UNCHANGED <<request, account>>
        \/ /\ request[r].state = "pending"
           /\ request' = [request EXCEPT ![r] = [state |-> IF yes THEN "approved" ELSE "denied", user |-> u, by |-> b]]
           /\ account' = IF yes THEN [account EXCEPT ![u].role = R!Promoted(u)] ELSE account
    BY <1>9 DEF R!Decide
  <2>5. request' \in [Requests -> R!Request] /\ OnePending(request')
    BY <2>2, <2>4 DEF R!TypeOK, OnePending, R!Request
  <2>6. account' \in [Accounts -> R!Account]
        /\ \A a \in Accounts : account'[a].live = account[a].live /\ (account[a].role = "admin" => account'[a].role = "admin")
    <3>1. CASE u \in Accounts
      <4>1. R!Promoted(u) \in R!RoleNames /\ (account[u].role = "admin" => R!Promoted(u) = "admin")
        BY <3>1 DEF R!Promoted, R!TypeOK, R!Account, R!RoleNames
      <4>2. [account EXCEPT ![u].role = R!Promoted(u)] \in [Accounts -> R!Account]
        BY <4>1, AccountWritten
      <4>3. account' = account \/ account' = [account EXCEPT ![u].role = R!Promoted(u)]
        BY <2>4
      <4> HIDE DEF u
      <4>4. QED
        BY <3>1, <4>1, <4>2, <4>3 DEF R!TypeOK, R!Account
    <3>2. CASE u \notin Accounts
      BY <2>4, <3>2 DEF R!TypeOK
    <3>3. QED
      BY <3>1, <3>2
  <2>7. R!TypeOK'
    BY <2>1, <2>3, <2>5, <2>6 DEF R!TypeOK, OnePending
  <2>8. R!AdminRemains'
    BY <2>1, <2>6 DEF R!AdminRemains, R!IsAdmin
  <2>9. QED
    BY <2>3, <2>7, <2>8
<1>10. ASSUME NEW p \in Procs, R!Fails(p) PROVE RolesInv'
  <2>1. rproc[p].at # "idle" /\ R!Return(p) /\ UNCHANGED <<account, claims, request, rops, crossed, merged>>
    BY <1>10 DEF R!Fails
  <2>2. rproc' \in [Procs -> R!Proc] /\ Armed'
    BY <2>1, Moving
  <2>3. QED
    BY <2>1, <2>2 DEF R!TypeOK, R!AdminRemains, R!IsAdmin
<1>11. ASSUME NEW p \in Procs, R!MergeAccount(p) PROVE RolesInv'
  <2> DEFINE u == rproc[p].actor
             v == rproc[p].user
  <2>1. rproc[p].at = "merge" /\ R!Return(p) /\ UNCHANGED <<rops, crossed>>
    BY <1>11 DEF R!MergeAccount
  <2>2. u \in Accounts /\ v \in Accounts /\ u # v /\ rproc[p].role \in R!RoleNames
    BY <2>1 DEF Armed, Promised
  <2>3. rproc' \in [Procs -> R!Proc] /\ Armed'
    BY <2>1, Moving
  <2>4. CASE UNCHANGED <<account, request, claims, merged>>
    BY <2>1, <2>3, <2>4 DEF R!TypeOK, R!AdminRemains, R!IsAdmin
  <2>5. CASE ~UNCHANGED <<account, request, claims, merged>>
    <3>1. /\ account' = [account EXCEPT ![u].live = FALSE]
          /\ request' = R!RequestsWithout(u)
          /\ claims' = [claims EXCEPT ![v] = rproc[p].role]
          /\ merged' = (merged \/ (R!IsAdmin(u) /\ ~R!IsAdmin(v)))
      BY <1>11, <2>5 DEF R!MergeAccount
    <3>2. account' \in [Accounts -> R!Account]
      BY <3>1, AccountWritten
    <3>3. request' \in [Requests -> R!Request] /\ OnePending(request')
      BY <3>1, Erasing
    <3>4. claims' \in [Accounts -> R!RoleNames \cup {None}]
      BY <2>2, <3>1 DEF R!TypeOK
    <3>5. merged' \in BOOLEAN
      BY <3>1 DEF R!TypeOK
    <3>6. R!TypeOK'
      BY <2>1, <2>3, <3>2, <3>3, <3>4, <3>5 DEF R!TypeOK, OnePending
    <3>7. \A a \in Accounts \ {u} : R!IsAdmin(a) => account'[a].live /\ account'[a].role = "admin"
      BY <3>1 DEF R!IsAdmin, R!TypeOK
    <3>8. R!AdminRemains'
      BY <2>1, <2>2, <3>1, <3>7 DEF R!AdminRemains, R!IsAdmin
    <3>9. QED
      BY <2>3, <3>6, <3>8
  <2>6. QED
    BY <2>4, <2>5
<1>12. QED
  BY <1>1, <1>2, <1>3, <1>4, <1>5, <1>6, <1>7, <1>8, <1>9, <1>10, <1>11 DEF R!Next, R!Step

-----------------------------------------------------------------------------
(* Roles: decisions.                                                       *)

\* A pending request has an author.
Signed == \A r \in Requests : request[r].state = "pending" => request[r].user \in Accounts

LEMMA SignedNext == RolesInv /\ Signed /\ [R!Next]_(R!vars) => Signed'
<1> SUFFICES ASSUME RolesInv, Signed, [R!Next]_(R!vars) PROVE Signed'
  OBVIOUS
<1>1. CASE UNCHANGED request
  BY <1>1 DEF Signed
<1>2. ASSUME NEW p \in Procs, R!DeleteAccount(p) \/ R!MergeAccount(p) PROVE Signed'
  BY <1>1, <1>2, Erasing DEF R!DeleteAccount, R!MergeAccount, RolesInv, Signed
<1>3. ASSUME NEW p \in Procs, R!Submit(p) PROVE Signed'
  <2>1. rproc[p].user \in Accounts
    BY <1>3 DEF R!Submit, RolesInv, Armed, Promised
  <2>2. QED
    BY <1>3, <2>1 DEF R!Submit, RolesInv, R!TypeOK, Signed
<1>4. ASSUME NEW p \in Procs, R!Decide(p) PROVE Signed'
  BY <1>4 DEF R!Decide, RolesInv, R!TypeOK, Signed
<1>5. ASSUME NEW p \in Procs, R!Arrival(p) PROVE UNCHANGED request
  BY <1>5, Arriving DEF RolesInv, R!Begin
<1>6. QED
  BY <1>1, <1>2, <1>3, <1>4, <1>5
  DEF R!Next, R!Step, R!vars, R!SignIn, R!SetRole, R!ToggleLock, R!Revoke, R!Fails

\* A step that leaves the requests and the roles alone decides nothing.
LEMMA NothingDecided ==
  ASSUME request' = request, \A a \in Accounts : account'[a].role = account[a].role
  PROVE  R!WholeDecision
BY DEF R!WholeDecision

LEMMA DecisionStep == RolesInv /\ Signed /\ [R!Next]_(R!vars) => [R!WholeDecision]_(R!vars)
<1> SUFFICES ASSUME RolesInv, Signed, R!Next PROVE R!WholeDecision
  OBVIOUS
<1>1. ASSUME NEW a \in Accounts, R!SignIn(a) PROVE R!WholeDecision
  BY <1>1, NothingDecided DEF R!SignIn
<1>2. ASSUME NEW p \in Procs, R!Arrival(p) PROVE R!WholeDecision
  BY <1>2, Arriving, NothingDecided DEF RolesInv, R!Begin
<1>3. ASSUME NEW p \in Procs, R!SetRole(p) PROVE R!WholeDecision
  <2>1. request' = request /\ \A a \in Accounts : account'[a].role # account[a].role => rproc[p].user = a
    BY <1>3 DEF R!SetRole, RolesInv, R!TypeOK
  <2>2. rproc[p].at = "setRole"
    BY <1>3 DEF R!SetRole
  <2>3. QED
    BY <2>1, <2>2 DEF R!WholeDecision
<1>4. ASSUME NEW p \in Procs, R!DeleteAccount(p) \/ R!MergeAccount(p) PROVE R!WholeDecision
  <2>1. \A a \in Accounts : account'[a].role = account[a].role
    BY <1>4 DEF R!DeleteAccount, R!MergeAccount, RolesInv, R!TypeOK, R!Account
  <2>2. \A r \in Requests : request'[r].state \in {request[r].state, "erased"}
    BY <1>4, Erasing DEF R!DeleteAccount, R!MergeAccount, RolesInv
  <2>3. QED
    BY <2>1, <2>2 DEF R!WholeDecision
<1>5. ASSUME NEW p \in Procs, R!ToggleLock(p) PROVE R!WholeDecision
  BY <1>5, NothingDecided DEF R!ToggleLock, RolesInv, R!TypeOK, R!Account
<1>6. ASSUME NEW p \in Procs, R!Revoke(p) \/ R!Fails(p) PROVE R!WholeDecision
  BY <1>6, NothingDecided DEF R!Revoke, R!Fails
<1>7. ASSUME NEW p \in Procs, R!Submit(p) PROVE R!WholeDecision
  <2>1. \A a \in Accounts : account'[a].role = account[a].role
    BY <1>7 DEF R!Submit
  <2>2. \A r \in Requests : request'[r] = request[r] \/ (request[r].state = "unborn" /\ request'[r].state = "pending")
    BY <1>7 DEF R!Submit, RolesInv, R!TypeOK
  <2>3. QED
    BY <2>1, <2>2 DEF R!WholeDecision
<1>8. ASSUME NEW p \in Procs, R!Decide(p) PROVE R!WholeDecision
  <2> DEFINE b == rproc[p].actor
             d == rproc[p].req
             u == request[d].user
             yes == rproc[p].approve
  <2>1. CASE UNCHANGED <<request, account>>
    BY <2>1, NothingDecided
  <2>2. CASE ~UNCHANGED <<request, account>>
    <3>1. /\ request[d].state = "pending" /\ u # b
          /\ request' = [request EXCEPT ![d] = [state |-> IF yes THEN "approved" ELSE "denied", user |-> u, by |-> b]]
          /\ account' = IF yes THEN [account EXCEPT ![u].role = R!Promoted(u)] ELSE account
      BY <1>8, <2>2 DEF R!Decide
    <3>2. d \in Requests /\ u \in Accounts
      BY <1>8, <3>1 DEF R!Decide, RolesInv, Armed, Promised, Signed
    <3>3. /\ \A r \in Requests : r # d => request'[r] = request[r]
          /\ request'[d].user = u /\ request'[d].by = b /\ request'[d].state = IF yes THEN "approved" ELSE "denied"
      BY <3>1, <3>2 DEF RolesInv, R!TypeOK
    <3>4. /\ \A a \in Accounts : a # u => account'[a].role = account[a].role
          /\ account'[u].role = IF yes THEN R!Promoted(u) ELSE account[u].role
      BY <3>1, <3>2 DEF RolesInv, R!TypeOK, R!Account
    <3>5. R!Promoted(u) # "user" /\ (R!Promoted(u) # account[u].role => account[u].role = "user" /\ R!Promoted(u) = "pro")
      BY DEF R!Promoted
    <3>6. request[d].user = u /\ request[d].state # request'[d].state
      BY <3>1, <3>3
    <3> HIDE DEF b, d, u, yes
    <3>7. ASSUME NEW a \in Accounts, account'[a].role # account[a].role
          PROVE  /\ account[a].role = "user" /\ account'[a].role = "pro"
                 /\ \E r \in Requests : request[r].user = a /\ request[r].state # request'[r].state
      BY <3>2, <3>4, <3>5, <3>6, <3>7
    <3>8. ASSUME NEW r \in Requests
          PROVE  /\ request[r].state \in {"approved", "denied"} => request'[r].state = request[r].state
                 /\ request[r].state = "pending" /\ request'[r].state \in {"approved", "denied"} => r = d
      BY <3>1, <3>3
    <3>9. account'[request'[d].user].role # "user" \/ ~yes
      BY <3>3, <3>4, <3>5
    <3>10. request'[d].state = "approved" => yes
      BY <3>3
    <3>11. QED
      BY <3>1, <3>3, <3>7, <3>8, <3>9, <3>10 DEF R!WholeDecision
  <2>3. QED
    BY <2>1, <2>2
<1>9. QED
  BY <1>1, <1>2, <1>3, <1>4, <1>5, <1>6, <1>7, <1>8 DEF R!Next, R!Step

\* Every variable of the roles keeps its type; in particular an account never has two requests pending.
THEOREM RolesTypeCorrect == R!Spec => []R!TypeOK
<1>1. RolesInv => R!TypeOK
  BY DEF RolesInv
<1>2. QED
  BY <1>1, RolesInit, RolesNext, PTL DEF R!Spec

\* Somebody can always administer the installation, unless an administrator's write has landed after his own demotion
\* or deletion, or an administrator has merged his account into another's: the guards against demoting and deleting
\* oneself are enough for all but these two.
THEOREM AnAdministratorRemains == R!Spec => []AdminRemains
<1>1. RolesInv => AdminRemains
  BY DEF RolesInv, AdminRemains
<1>2. QED
  BY <1>1, RolesInit, RolesNext, PTL DEF R!Spec

\* A pro request is decided once, never by its author; an approval leaves him elevated in the same step; no other
\* step but an administrator's role change touches a role, so that no approval demotes (DecideProRoleRequest).
THEOREM DecisionsAreWhole == R!Spec => DecisionIsWhole
<1>1. R!Init => Signed
  BY DEF R!Init, Signed
<1>2. QED
  BY <1>1, RolesInit, RolesNext, SignedNext, DecisionStep, PTL DEF R!Spec, DecisionIsWhole, R!DecisionIsWhole

-----------------------------------------------------------------------------
(* Ingest: a row that was counted is in the sender or in the database.      *)

IngestRec == [at : {"read", "insert", "flush", "done"}, row : 0 .. MaxRows, errors : 0 .. MaxErrors,
              inserted : SUBSET I!Rows]

\* A writer that nothing harmed has all its rows in the database when it is done, and somewhere before.
Kept(w) ==
  w \notin harmed =>
    /\ \A n \in file[w].inserted : <<w, n>> \in buffer \cup equities
    /\ file[w].at = "done" => \A n \in file[w].inserted : <<w, n>> \in equities

\* A writer goes on only below the limit of unreadable lines in a row, and inserts a row of its file.
Patient(rec) ==
  /\ rec.at \in {"read", "insert"} => rec.errors < MaxErrors
  /\ rec.at = "insert" => rec.row \in I!Rows

IngestInv == I!TypeOK /\ \A w \in Writers : Kept(w) /\ Patient(file[w])

\* The records a step leaves behind.
LEMMA RowTaken ==
  ASSUME I!TypeOK, NEW w \in Writers, I!More(w)
  PROVE  /\ I!NextRow(w) \in IngestRec
         /\ I!NextRow(w).at = "read" /\ I!NextRow(w).inserted = file[w].inserted
         /\ I!NextRow(w).errors = file[w].errors /\ I!NextRow(w).row \in I!Rows
<1>1. file[w] \in IngestRec /\ file[w].row + 1 \in 0 .. MaxRows /\ file[w].row + 1 \in I!Rows
  BY RecordsAssumption DEF I!TypeOK, IngestRec, I!More, I!Rows
<1>2. QED
  BY <1>1 DEF I!NextRow, I!More, IngestRec

LEMMA Ended ==
  ASSUME NEW rec \in IngestRec
  PROVE  /\ I!Abandon(rec) \in IngestRec
         /\ I!Abandon(rec).at = "flush" /\ I!Abandon(rec).inserted = rec.inserted
BY DEF I!Abandon, IngestRec

\* Reading on, skipping a line and giving up touch nothing that was counted.
LEMMA ReadsOn ==
  ASSUME IngestInv, NEW w \in Writers, NEW rec \in IngestRec, I!Set(w, rec), UNCHANGED <<buffer, equities, harmed>>,
         pending' \subseteq Writers, rec.inserted = file[w].inserted, rec.at # "done", Patient(rec)
  PROVE  IngestInv'
<1>1. file' = [file EXCEPT ![w] = rec]
  BY DEF I!Set
<1>2. I!TypeOK'
  BY <1>1 DEF IngestInv, I!TypeOK, IngestRec
<1>3. \A v \in Writers : Kept(v)'
  BY <1>1 DEF IngestInv, Kept, I!TypeOK
<1>4. \A v \in Writers : Patient(file'[v])
  BY <1>1 DEF IngestInv, I!TypeOK
<1>5. QED
  BY <1>2, <1>3, <1>4 DEF IngestInv, Patient

LEMMA IngestInit == I!Init => IngestInv
<1> SUFFICES ASSUME I!Init PROVE IngestInv
  OBVIOUS
<1>1. [at |-> "read", row |-> 0, errors |-> 0, inserted |-> {}] \in IngestRec
  BY RecordsAssumption DEF IngestRec
<1>2. I!TypeOK
  BY <1>1 DEF I!Init, I!TypeOK, IngestRec
<1>3. \A w \in Writers : Kept(w) /\ Patient(file[w])
  BY RecordsAssumption DEF I!Init, Kept, Patient
<1>4. QED
  BY <1>2, <1>3 DEF IngestInv

LEMMA ReadingInv ==
  ASSUME IngestInv, NEW w \in Writers,
         I!EndOfFile(w) \/ I!ReadFails(w) \/ I!Unreadable(w) \/ I!Malformed(w) \/ I!BeginTick(w)
  PROVE  IngestInv'
<1>1. I!TypeOK /\ file[w] \in IngestRec /\ pending \subseteq Writers /\ Patient(file[w])
  BY DEF IngestInv, I!TypeOK, IngestRec
<1>2. CASE I!EndOfFile(w)
  <2>1. I!Set(w, I!Abandon(file[w])) /\ UNCHANGED I!Sender
    BY <1>2 DEF I!EndOfFile, I!Abandon
  <2>2. QED
    BY <1>1, <2>1, Ended, ReadsOn DEF I!Sender, Patient
<1>3. CASE I!ReadFails(w)
  <2>1. I!More(w) /\ I!Set(w, I!Abandon(I!NextRow(w))) /\ UNCHANGED I!Sender
    BY <1>3 DEF I!ReadFails
  <2>2. QED
    BY <1>1, <2>1, RowTaken, Ended, ReadsOn DEF I!Sender, Patient
<1>4. CASE I!Unreadable(w)
  <2> DEFINE n == file[w].errors + 1
             rec == [I!NextRow(w) EXCEPT !.errors = n]
  <2>1. I!More(w) /\ I!Set(w, IF I!GivesUp(w, n) THEN I!Abandon(rec) ELSE rec) /\ UNCHANGED I!Sender
    BY <1>4 DEF I!Unreadable
  <2>2. n \in 0 .. MaxErrors
    BY <1>1, <2>1, RecordsAssumption DEF I!More, Patient, IngestRec
  <2>3. rec \in IngestRec /\ rec.at = "read" /\ rec.inserted = file[w].inserted /\ rec.errors = n
    BY <1>1, <2>1, <2>2, RowTaken DEF IngestRec
  <2>4. I!GivesUp(w, n) \/ n < MaxErrors
    BY <2>2, RecordsAssumption DEF I!GivesUp
  <2> HIDE DEF n, rec
  <2>5. QED
    BY <1>1, <2>1, <2>3, <2>4, Ended, ReadsOn DEF I!Sender, Patient
<1>5. CASE I!Malformed(w)
  <2> DEFINE rec == [I!NextRow(w) EXCEPT !.errors = 0]
  <2>1. I!More(w) /\ I!Set(w, rec) /\ UNCHANGED I!Sender
    BY <1>5 DEF I!Malformed
  <2>2. rec \in IngestRec /\ rec.at = "read" /\ rec.inserted = file[w].inserted /\ rec.errors = 0
    BY <1>1, <2>1, RowTaken, RecordsAssumption DEF IngestRec
  <2> HIDE DEF rec
  <2>3. QED
    BY <1>1, <2>1, <2>2, ReadsOn, RecordsAssumption DEF I!Sender, Patient
<1>6. CASE I!BeginTick(w)
  <2> DEFINE rec == [I!NextRow(w) EXCEPT !.errors = 0, !.at = "insert"]
  <2>1. I!More(w) /\ I!Set(w, rec) /\ pending' = pending \cup {w} /\ UNCHANGED <<buffer, equities, harmed>>
    BY <1>6 DEF I!BeginTick
  <2>2. rec \in IngestRec /\ rec.at = "insert" /\ rec.inserted = file[w].inserted /\ rec.errors = 0
             /\ rec.row \in I!Rows
    <3>1. I!NextRow(w) \in IngestRec /\ I!NextRow(w).inserted = file[w].inserted /\ I!NextRow(w).row \in I!Rows
      BY <1>1, <2>1, RowTaken
    <3>2. 0 \in 0 .. MaxErrors
      BY RecordsAssumption
    <3>3. QED
      BY <3>1, <3>2 DEF IngestRec
  <2> HIDE DEF rec
  <2>3. QED
    BY <1>1, <2>1, <2>2, ReadsOn, RecordsAssumption DEF Patient
<1>7. QED
  BY <1>2, <1>3, <1>4, <1>5, <1>6

\* At: the row counts when it went into the buffer, or its writer is harmed.
LEMMA EndTickInv ==
  ASSUME IngestInv, NEW w \in Writers, I!EndTick(w)
  PROVE  IngestInv'
<1>1. I!TypeOK /\ file[w] \in IngestRec /\ Patient(file[w]) /\ file[w].at = "insert"
  BY DEF IngestInv, I!TypeOK, IngestRec, I!EndTick
<1>2. CASE I!Set(w, I!Abandon(file[w])) /\ UNCHANGED <<buffer, harmed>>
  <2>1. pending' \subseteq Writers /\ UNCHANGED equities
    BY DEF I!EndTick
  <2>2. QED
    BY <1>1, <1>2, <2>1, Ended, ReadsOn DEF Patient
<1>3. CASE /\ I!Accepted(w)
           /\ \/ buffer' = buffer \cup {<<w, file[w].row>>} /\ UNCHANGED harmed
              \/ harmed' = harmed \cup {w} /\ UNCHANGED buffer
  <2> DEFINE rec == [file[w] EXCEPT !.at = "read", !.inserted = file[w].inserted \cup {file[w].row}]
  <2>1. file' = [file EXCEPT ![w] = rec] /\ pending' = {} /\ equities' = equities
    BY <1>3 DEF I!Accepted, I!Set, I!EndTick
  <2>2. file[w].row \in I!Rows
    BY <1>1 DEF Patient
  <2>3. /\ rec \in IngestRec /\ rec.at = "read" /\ rec.errors = file[w].errors
        /\ rec.inserted = file[w].inserted \cup {file[w].row}
    BY <1>1, <2>2 DEF IngestRec
  <2> HIDE DEF rec
  <2>4. I!TypeOK'
    BY <1>1, <1>3, <2>1, <2>2, <2>3 DEF I!TypeOK, IngestRec
  <2>5. \A v \in Writers : Patient(file'[v])
    BY <1>1, <2>1, <2>3 DEF IngestInv, I!TypeOK, Patient
  <2>6. \A v \in Writers : Kept(v)'
    BY <1>1, <1>3, <2>1, <2>3 DEF IngestInv, Kept, I!TypeOK
  <2>7. QED
    BY <2>4, <2>5, <2>6 DEF IngestInv, Patient
<1>4. QED
  BY <1>2, <1>3 DEF I!EndTick

\* Flush: everything the sender held is in the database, or everybody who still runs is harmed.
LEMMA FlushInv ==
  ASSUME IngestInv, NEW w \in Writers, I!Flush(w)
  PROVE  IngestInv'
<1> DEFINE over == [file[w] EXCEPT !.at = "done", !.row = 0, !.errors = 0]
<1>1. I!TypeOK /\ file[w] \in IngestRec /\ file[w].at = "flush" /\ pending' = {} /\ file' = [file EXCEPT ![w] = over]
  BY DEF IngestInv, I!TypeOK, IngestRec, I!Flush, I!Set
<1>2. over \in IngestRec /\ over.at = "done" /\ over.inserted = file[w].inserted
  <2>1. 0 \in 0 .. MaxRows /\ 0 \in 0 .. MaxErrors
    BY RecordsAssumption
  <2>2. QED
    BY <1>1, <2>1 DEF IngestRec
<1>3. CASE equities' = equities \cup buffer /\ buffer' = {} /\ UNCHANGED harmed
  <2> HIDE DEF over
  <2>1. I!TypeOK'
    BY <1>1, <1>2, <1>3 DEF I!TypeOK, IngestRec
  <2>2. \A v \in Writers : Kept(v)' /\ Patient(file'[v])
    BY <1>1, <1>2, <1>3 DEF IngestInv, Kept, Patient, I!TypeOK
  <2>3. QED
    BY <2>1, <2>2 DEF IngestInv, Patient
<1>4. CASE /\ harmed' = harmed \cup I!Running
           /\ \/ UNCHANGED <<equities, buffer>>
              \/ buffer' = {} /\ \E part \in SUBSET buffer : equities' = equities \cup part
  <2> HIDE DEF over
  <2>1. I!TypeOK'
    BY <1>1, <1>2, <1>4 DEF I!TypeOK, IngestRec, I!Running
  <2>2. equities \subseteq equities'
    BY <1>4
  <2>3. ASSUME NEW v \in Writers PROVE Kept(v)' /\ Patient(file'[v])
    <3>1. v \in harmed' \/ (v # w /\ file[v].at = "done" /\ v \notin harmed)
      BY <1>1, <1>4 DEF I!Running
    <3>2. v \notin harmed' => file'[v] = file[v]
      BY <1>1, <1>4, <3>1 DEF I!TypeOK
    <3>3. Patient(file'[v])
      BY <1>1, <1>2, <1>4 DEF IngestInv, I!TypeOK, Patient
    <3>4. QED
      BY <2>2, <3>1, <3>2, <3>3 DEF IngestInv, Kept
  <2>4. QED
    BY <2>1, <2>3 DEF IngestInv, Patient
<1>5. QED
  BY <1>3, <1>4 DEF I!Flush

LEMMA IngestNext == IngestInv /\ [I!Next]_(I!vars) => IngestInv'
<1> SUFFICES ASSUME IngestInv, [I!Next]_(I!vars) PROVE IngestInv'
  OBVIOUS
<1>1. CASE UNCHANGED I!vars
  BY <1>1 DEF I!vars, IngestInv, I!TypeOK, Kept, Patient
<1>2. QED
  BY <1>1, ReadingInv, EndTickInv, FlushInv DEF I!Next

\* Every variable of the ingests keeps its type.
THEOREM IngestTypeCorrect == I!Spec => []I!TypeOK
<1>1. IngestInv => I!TypeOK
  BY DEF IngestInv
<1>2. QED
  BY <1>1, IngestInit, IngestNext, PTL DEF I!Spec

\* However many ingests share the sender, and whoever flushes it, the rows a finished one counts as inserted are in the
\* database, unless a flush failed while it ran or its columns fell in with another's (CSVIngestor.ingest, Flush).
THEOREM CountedIsAlwaysStored == I!Spec => []CountedIsStored
<1>1. IngestInv => CountedIsStored
  BY DEF IngestInv, Kept, CountedIsStored, I!CountedIsStored
<1>2. QED
  BY <1>1, IngestInit, IngestNext, PTL DEF I!Spec

-----------------------------------------------------------------------------
(* Bars: the six aggregates of a bucket.                                    *)

\* A set of numbers has a smallest; a bounded one has a largest.
LEMMA SmallestExists ==
  ASSUME NEW s \in SUBSET Nat, s # {}
  PROVE  B!SmallestOf(s) \in s /\ \A y \in s : B!SmallestOf(s) <= y
<1> DEFINE less == {p \in Nat \X Nat : p[1] < p[2]}
<1>1. IsWellFoundedOn(less, Nat)
  BY NatLessThanWellFounded DEF OpToRel
<1>2. PICK x \in s : \A y \in s : <<y, x>> \notin less
  <2> HIDE DEF less
  <2>1. QED
    BY <1>1, WFMin
<1>3. ASSUME NEW y \in s PROVE x <= y
  <2>1. x \in Nat /\ y \in Nat /\ <<y, x>> \in Nat \X Nat /\ <<y, x>>[1] = y /\ <<y, x>>[2] = x
    OBVIOUS
  <2>2. ~(y < x)
    BY <1>2, <2>1
  <2>3. QED
    BY <2>1, <2>2
<1>4. QED
  BY <1>3 DEF B!SmallestOf

LEMMA LargestExists ==
  ASSUME NEW m \in Nat, NEW s \in SUBSET (0 .. m), s # {}
  PROVE  B!LargestOf(s) \in s /\ \A y \in s : y <= B!LargestOf(s)
<1> DEFINE t == {m - x : x \in s}
<1>1. t \in SUBSET Nat /\ t # {}
  <2>1. \A x \in s : x \in 0 .. m
    OBVIOUS
  <2>2. \A x \in s : m - x \in Nat
    BY <2>1
  <2>3. QED
    BY <2>2
<1>2. PICK least \in t : \A y \in t : least <= y
  <2> HIDE DEF t
  <2>1. QED
    BY <1>1, SmallestExists
<1>3. PICK x \in s : least = m - x
  OBVIOUS
<1>4. ASSUME NEW y \in s PROVE y <= x
  <2>1. m - x <= m - y
    BY <1>2, <1>3
  <2>2. x \in 0 .. m /\ y \in 0 .. m
    OBVIOUS
  <2>3. QED
    BY <2>1, <2>2
<1>5. QED
  BY <1>4 DEF B!LargestOf

\* max and min, which ignore what was not published.
LEMMA MaxOfIs ==
  ASSUME NEW s \in SUBSET B!Prices
  PROVE  /\ B!MaxOf(s) \in Nat /\ \A y \in s : y <= B!MaxOf(s)
         /\ B!MaxOf(s) = 0 \/ B!MaxOf(s) \in s \ {0}
<1>1. CASE s \ {0} = {}
  BY <1>1, RecordsAssumption DEF B!MaxOf, B!Prices
<1>2. CASE s \ {0} # {}
  <2>1. s \ {0} \in SUBSET (0 .. MaxPrice)
    BY DEF B!Prices
  <2>2. B!LargestOf(s \ {0}) \in s \ {0} /\ \A y \in s \ {0} : y <= B!LargestOf(s \ {0})
    BY <1>2, <2>1, LargestExists, RecordsAssumption
  <2>3. QED
    BY <1>2, <2>1, <2>2, RecordsAssumption DEF B!MaxOf
<1>3. QED
  BY <1>1, <1>2

LEMMA MinOfIs ==
  ASSUME NEW s \in SUBSET B!Prices
  PROVE  /\ B!MinOf(s) \in Nat /\ \A y \in s \ {0} : B!MinOf(s) <= y
         /\ B!MinOf(s) = 0 => s \ {0} = {}
         /\ B!MinOf(s) = 0 \/ B!MinOf(s) \in s \ {0}
<1>1. CASE s \ {0} = {}
  BY <1>1 DEF B!MinOf
<1>2. CASE s \ {0} # {}
  <2>1. s \ {0} \in SUBSET Nat
    BY RecordsAssumption DEF B!Prices
  <2>2. B!SmallestOf(s \ {0}) \in s \ {0} /\ \A y \in s \ {0} : B!SmallestOf(s \ {0}) <= y
    BY <1>2, <2>1, SmallestExists
  <2>3. B!MinOf(s) = B!SmallestOf(s \ {0})
    BY <1>2 DEF B!MinOf
  <2>4. QED
    BY <2>1, <2>2, <2>3
<1>3. QED
  BY <1>1, <1>2

\* resolve's two comparisons.
LEMMA HigherIs ==
  ASSUME NEW a \in Nat, NEW v \in Nat
  PROVE  B!Higher(a, v) \in {a, v} /\ a <= B!Higher(a, v) /\ v <= B!Higher(a, v)
BY DEF B!Higher

LEMMA LowerIs ==
  ASSUME NEW a \in Nat, NEW v \in Nat
  PROVE  /\ B!Lower(a, v) \in {a, v} /\ B!Lower(a, v) <= a /\ (v > 0 => B!Lower(a, v) <= v)
         /\ a > 0 => B!Lower(a, v) > 0
BY DEF B!Lower

\* Four comparisons find the largest of five numbers, and the smallest of those that were published.
LEMMA HighestOfFive ==
  ASSUME NEW a \in Nat, NEW b \in Nat, NEW c \in Nat, NEW d \in Nat, NEW e \in Nat
  PROVE  LET h == B!Higher(B!Higher(B!Higher(B!Higher(a, b), c), d), e)
         IN h \in {a, b, c, d, e} /\ \A x \in {a, b, c, d, e} : x <= h
<1> DEFINE f == B!Higher(a, b)
           g == B!Higher(f, c)
           i == B!Higher(g, d)
<1>1. f \in {a, b} /\ a <= f /\ b <= f /\ f \in Nat
  BY HigherIs
<1> HIDE DEF f
<1>2. g \in {f, c} /\ f <= g /\ c <= g /\ g \in Nat
  BY <1>1, HigherIs
<1> HIDE DEF g
<1>3. i \in {g, d} /\ g <= i /\ d <= i /\ i \in Nat
  BY <1>2, HigherIs
<1> HIDE DEF i
<1>4. B!Higher(i, e) \in {i, e} /\ i <= B!Higher(i, e) /\ e <= B!Higher(i, e)
  BY <1>3, HigherIs
<1>5. QED
  BY <1>1, <1>2, <1>3, <1>4 DEF f, g, i

LEMMA LowestOfFive ==
  ASSUME NEW a \in Nat, NEW b \in Nat, NEW c \in Nat, NEW d \in Nat, NEW e \in Nat, a > 0
  PROVE  LET l == B!Lower(B!Lower(B!Lower(B!Lower(a, b), c), d), e)
         IN l \in {a, b, c, d, e} \ {0} /\ \A x \in {a, b, c, d, e} \ {0} : l <= x
<1> DEFINE f == B!Lower(a, b)
           g == B!Lower(f, c)
           i == B!Lower(g, d)
<1>1. f \in {a, b} /\ f <= a /\ (b > 0 => f <= b) /\ f \in Nat /\ f > 0
  BY LowerIs
<1> HIDE DEF f
<1>2. g \in {f, c} /\ g <= f /\ (c > 0 => g <= c) /\ g \in Nat /\ g > 0
  BY <1>1, LowerIs
<1> HIDE DEF g
<1>3. i \in {g, d} /\ i <= g /\ (d > 0 => i <= d) /\ i \in Nat /\ i > 0
  BY <1>2, LowerIs
<1> HIDE DEF i
<1>4. B!Lower(i, e) \in {i, e} /\ B!Lower(i, e) <= i /\ (e > 0 => B!Lower(i, e) <= e) /\ B!Lower(i, e) > 0
  BY <1>3, LowerIs
<1>5. QED
  BY <1>1, <1>2, <1>3, <1>4 DEF f, g, i

LEMMA SpansItsPrices ==
  ASSUME B!TypeOK, NEW b \in B!Bars
  PROVE  /\ B!Bar(b).high = B!LargestOf(B!Published(b)) /\ B!Bar(b).low = B!SmallestOf(B!Published(b))
         /\ {B!Bar(b).open, B!Bar(b).close} \subseteq B!Published(b)
<1> DEFINE ds == B!Sampled(b)
           opens == {rows[d].open : d \in ds}
           settled == {rows[d].close : d \in ds}
           lasts == {rows[d].last : d \in ds}
           pub == B!Published(b)
           first == rows[B!SmallestOf(ds)].open
           close == rows[B!LargestOf(ds)].close
           open == IF first > 0 THEN first ELSE close
<1>1. ds # {} /\ ds \subseteq 1 .. LastDay /\ \A d \in ds : rows[d] \in B!Tick /\ rows[d].close > 0
  BY DEF B!Bars, B!Sampled, B!Days, B!Priced, B!TypeOK
<1>2. opens \in SUBSET B!Prices /\ settled \in SUBSET B!Prices /\ lasts \in SUBSET B!Prices
  BY <1>1 DEF B!Tick
<1>3. pub = (opens \cup settled \cup lasts) \ {0} /\ settled \subseteq pub /\ pub \subseteq 1 .. MaxPrice
  <2>1. pub = (opens \cup settled \cup lasts) \ {0}
    <3>1. \A y : y \in UNION {{rows[d].open, rows[d].close, rows[d].last} : d \in B!Sampled(b)}
                 <=> y \in opens \cup settled \cup lasts
      <4>1. ASSUME NEW y PROVE y \in UNION {{rows[d].open, rows[d].close, rows[d].last} : d \in B!Sampled(b)}
                   <=> \E d \in B!Sampled(b) : y \in {rows[d].open, rows[d].close, rows[d].last}
        OBVIOUS
      <4>2. QED
        BY <4>1
    <3> DEFINE all == UNION {{rows[d].open, rows[d].close, rows[d].last} : d \in B!Sampled(b)}
    <3>2. pub = all \ {0}
      BY DEF B!Published
    <3>3. \A y : y \in all <=> y \in opens \cup settled \cup lasts
      BY <3>1
    <3> HIDE DEF pub, all, opens, settled, lasts
    <3>4. QED
      BY <3>2, <3>3
  <2>2. \A c \in settled : c > 0
    BY <1>1
  <2>3. MaxPrice \in Nat /\ B!Prices = 0 .. MaxPrice
    BY RecordsAssumption DEF B!Prices
  <2>4. \A y \in pub : y \in 0 .. MaxPrice /\ y # 0
    <3> HIDE DEF opens, settled, lasts
    <3>1. QED
      BY <1>2, <2>1, <2>3
  <2>5. settled \subseteq pub
    <3>1. 0 \notin settled
      BY <2>2
    <3> HIDE DEF opens, settled, lasts
    <3>2. QED
      BY <2>1, <3>1
  <2> HIDE DEF opens, settled, lasts, pub
  <2>6. pub \subseteq 1 .. MaxPrice
    BY <2>3, <2>4
  <2>7. QED
    BY <2>1, <2>5, <2>6
<1>4. B!SmallestOf(ds) \in ds
  BY <1>1, SmallestExists, RecordsAssumption
<1>5. B!LargestOf(ds) \in ds
  <2>1. ds \in SUBSET (0 .. LastDay)
    BY <1>1, RecordsAssumption
  <2> HIDE DEF ds
  <2>2. QED
    BY <1>1, <2>1, LargestExists, RecordsAssumption
<1>6. first \in opens /\ close \in settled /\ first \in Nat
  BY <1>2, <1>4, <1>5, RecordsAssumption DEF B!Prices
<1>7. open \in pub /\ close \in pub /\ pub # {}
  <2>1. close \in pub
    BY <1>3, <1>6
  <2>2. first > 0 => first \in pub
    <3>1. pub = (opens \cup settled \cup lasts) \ {0}
      BY <1>3
    <3> HIDE DEF pub, opens, settled, lasts, first
    <3>2. QED
      BY <1>6, <3>1
  <2> HIDE DEF pub, first, close
  <2>3. QED
    BY <2>1, <2>2
<1>8. /\ B!Bar(b).open = open /\ B!Bar(b).close = close
      /\ B!Bar(b).high = B!Higher(B!Higher(B!Higher(B!Higher(B!MaxOf(settled), B!MaxOf(opens)), B!MaxOf(lasts)), open), close)
      /\ B!Bar(b).low = B!Lower(B!Lower(B!Lower(B!Lower(B!MinOf(settled), B!MinOf(opens)), B!MinOf(lasts)), open), close)
  BY DEF B!Bar, B!Resolve, B!Projection
<1> HIDE DEF ds, opens, settled, lasts, pub, first, close, open
<1>9. pub \in SUBSET (0 .. MaxPrice) /\ pub \in SUBSET Nat
  BY <1>3, RecordsAssumption
<1>10. B!LargestOf(pub) \in pub /\ \A y \in pub : y <= B!LargestOf(pub)
  BY <1>7, <1>9, LargestExists, RecordsAssumption
<1>11. B!SmallestOf(pub) \in pub /\ \A y \in pub : B!SmallestOf(pub) <= y
  BY <1>7, <1>9, SmallestExists
<1>12. B!Bar(b).high = B!LargestOf(pub)
  <2> DEFINE h == B!Bar(b).high
             five == {B!MaxOf(settled), B!MaxOf(opens), B!MaxOf(lasts), open, close}
  <2>1. five \subseteq Nat
    BY <1>2, <1>7, <1>9, MaxOfIs
  <2>2. h \in five /\ \A x \in five : x <= h
    BY <1>8, <2>1, HighestOfFive
  <2>3. five \subseteq pub \cup {0}
    BY <1>2, <1>3, <1>7, MaxOfIs
  <2>4. \A y \in pub : \E x \in five : y <= x
    BY <1>2, <1>3, MaxOfIs
  <2> HIDE DEF h, five
  <2>5. \A y \in pub : y <= h
    BY <1>9, <2>1, <2>2, <2>4
  <2>6. h \in pub
    BY <1>7, <1>9, <2>2, <2>3, <2>5, <1>3
  <2>7. h <= B!LargestOf(pub) /\ B!LargestOf(pub) <= h /\ h \in Nat /\ B!LargestOf(pub) \in Nat
    BY <1>9, <1>10, <2>5, <2>6
  <2>8. h = B!LargestOf(pub)
    BY <2>7
  <2>9. QED
    BY <2>8 DEF h
<1>13. B!Bar(b).low = B!SmallestOf(pub)
  <2> DEFINE l == B!Bar(b).low
             five == {B!MinOf(settled), B!MinOf(opens), B!MinOf(lasts), open, close}
  <2>1. five \subseteq Nat
    BY <1>2, <1>7, <1>9, MinOfIs
  <2>2. B!MinOf(settled) > 0
    BY <1>2, <1>3, <1>6, <2>1, MinOfIs
  <2>3. l \in five \ {0} /\ \A x \in five \ {0} : l <= x
    BY <1>8, <2>1, <2>2, LowestOfFive
  <2>4. five \ {0} \subseteq pub
    BY <1>2, <1>3, <1>7, MinOfIs
  <2>5. \A y \in pub : \E x \in five \ {0} : x <= y
    BY <1>2, <1>3, MinOfIs
  <2> HIDE DEF l, five
  <2>6. \A y \in pub : l <= y
    BY <1>9, <2>1, <2>3, <2>5
  <2>7. l <= B!SmallestOf(pub) /\ B!SmallestOf(pub) <= l /\ l \in Nat /\ B!SmallestOf(pub) \in Nat
    BY <1>9, <1>11, <2>3, <2>4, <2>6
  <2>8. l = B!SmallestOf(pub)
    BY <2>7
  <2>9. QED
    BY <2>8 DEF l
<1>14. QED
  BY <1>7, <1>8, <1>12, <1>13 DEF pub

\* Rows keep their type, whatever is written again.
THEOREM BarsTypeCorrect == B!Spec => []B!TypeOK
<1>1. B!Init => B!TypeOK
  BY RecordsAssumption DEF B!Init, B!TypeOK, B!NoTick, B!Tick, B!Prices
<1>2. B!TypeOK /\ [B!Next]_rows => B!TypeOK'
  BY DEF B!TypeOK, B!Next, B!InsertTick
<1>3. QED
  BY <1>1, <1>2, PTL DEF B!Spec

\* For any prices, rewritten in any order, and bars of any width: the six separate aggregates and resolve's four
\* comparisons give exactly the highest and the lowest price published in the bar's days, and it opens and closes at
\* published prices (ohlcProjection, ohlcRow.resolve).
THEOREM BarsSpanTheirPrices == B!Spec => []BarSpansItsPrices
<1>1. B!TypeOK => BarSpansItsPrices
  BY SpansItsPrices DEF BarSpansItsPrices, B!BarSpansItsPrices
<1>2. QED
  BY <1>1, BarsTypeCorrect, PTL

-----------------------------------------------------------------------------
(* Curve: sums over sets of lots.                                          *)

\* A set of numbers has a smallest.
LEMMA LeastExists ==
  ASSUME NEW s \in SUBSET Nat, s # {}
  PROVE  \E x \in s : \A y \in s : x <= y
BY SmallestExists

\* Among subsets of a finite set there is one that contains no other: what fails of some fails of a smallest.
LEMMA MinimalSubset ==
  ASSUME NEW S, IsFiniteSet(S), NEW X \in SUBSET (SUBSET S), X # {}
  PROVE  \E T \in X : \A U \in X : U \subseteq T => U = T
<1>1. X \subseteq FiniteSubsetsOf(S)
  BY FS_Subset DEF FiniteSubsetsOf
<1>2. IsWellFoundedOn(StrictSubsetOrdering(S), FiniteSubsetsOf(S))
  BY FS_StrictSubsetOrderingWellFounded
<1>3. PICK T \in X : \A U \in X : <<U, T>> \notin StrictSubsetOrdering(S)
  BY <1>1, <1>2, WFMin
<1>4. ASSUME NEW U \in X, U \subseteq T PROVE U = T
  BY <1>1, <1>3, <1>4 DEF StrictSubsetOrdering, FiniteSubsetsOf
<1>5. QED
  BY <1>4

Chosen(s) == CHOOSE x \in s : TRUE
Sum(f, S) == C!SumFunctionOnSet(f, S)

\* One step of the fold; a function that is the fold over D; the one the fold over S uses.
FoldStep(f, g, s) == IF s = {} THEN 0 ELSE f[Chosen(s)] + g[s \ {Chosen(s)}]
Folds(f, D, g) == g = [s \in D |-> FoldStep(f, g, s)]
Iter(f, S) == CHOOSE g : Folds(f, SUBSET S, g)

LEMMA SumIsIter == ASSUME NEW f, NEW S PROVE Sum(f, S) = Iter(f, S)[S]
BY DEF Sum, C!SumFunctionOnSet, C!FoldFunctionOnSet, C!MapThenFoldSet, Folds, FoldStep, Iter, Chosen

LEMMA ChosenIn == ASSUME NEW s, s # {} PROVE Chosen(s) \in s
BY DEF Chosen

\* The recursion has a solution: one for the subsets of n elements extends to those of n + 1.
LEMMA FoldExists ==
  ASSUME NEW S, IsFiniteSet(S), NEW f
  PROVE  Folds(f, SUBSET S, Iter(f, S))
<1> DEFINE Up(n) == {s \in SUBSET S : Cardinality(s) <= n}
           bad == {n \in Nat : ~ \E g : Folds(f, Up(n), g)}
<1>1. \A s \in SUBSET S : Cardinality(s) \in Nat /\ IsFiniteSet(s)
  BY FS_Subset, FS_CardinalityType
<1>2. ASSUME bad # {} PROVE FALSE
  <2>1. PICK n \in bad : \A m \in bad : n <= m
    <3>1. bad \in SUBSET Nat
      OBVIOUS
    <3> HIDE DEF bad
    <3>2. QED
      BY <1>2, <3>1, LeastExists
  <2>2. CASE n = 0
    <3>1. Up(0) = {{}}
      BY <1>1, FS_EmptySet
    <3>2. Folds(f, Up(0), [s \in Up(0) |-> 0])
      BY <3>1 DEF Folds, FoldStep
    <3>3. QED
      BY <2>2, <3>2
  <2>3. CASE n # 0
    <3>1. n \in Nat /\ n - 1 \in Nat /\ ~ (n <= n - 1)
      BY <2>3
    <3>2. n - 1 \notin bad
      BY <2>1, <3>1
    <3>3. PICK g : Folds(f, Up(n - 1), g)
      BY <3>1, <3>2
    <3> DEFINE h == [s \in Up(n) |-> FoldStep(f, g, s)]
    <3>4. ASSUME NEW s \in Up(n) PROVE FoldStep(f, h, s) = FoldStep(f, g, s)
      <4>1. CASE s = {}
        BY <4>1 DEF FoldStep
      <4>2. CASE s # {}
        <5> DEFINE x == Chosen(s)
        <5>1. x \in s
          BY <4>2, ChosenIn
        <5> HIDE DEF x
        <5>2. s \in SUBSET S /\ Cardinality(s) <= n /\ Cardinality(s) \in Nat /\ IsFiniteSet(s)
          BY <1>1
        <5>3. s \ {x} \in SUBSET S /\ Cardinality(s \ {x}) = Cardinality(s) - 1
          BY <5>1, <5>2, FS_RemoveElement
        <5>4. s \ {x} \in Up(n - 1) /\ s \ {x} \in Up(n)
          BY <3>1, <5>2, <5>3
        <5>5. g[s \ {x}] = FoldStep(f, g, s \ {x})
          BY <3>3, <5>4 DEF Folds
        <5>6. h[s \ {x}] = g[s \ {x}]
          BY <5>4, <5>5
        <5>7. QED
          BY <4>2, <5>6 DEF FoldStep, x
      <4>3. QED
        BY <4>1, <4>2
    <3>5. Folds(f, Up(n), h)
      <4>1. \A s \in Up(n) : FoldStep(f, g, s) = FoldStep(f, h, s)
        BY <3>4
      <4>2. [s \in Up(n) |-> FoldStep(f, g, s)] = [s \in Up(n) |-> FoldStep(f, h, s)]
        BY <4>1
      <4>3. QED
        BY <4>2 DEF Folds
    <3>6. QED
      BY <3>5
  <2>4. QED
    BY <2>2, <2>3
<1>3. Cardinality(S) \in Nat /\ Up(Cardinality(S)) = SUBSET S
  BY <1>1, FS_Subset, FS_CardinalityType
<1>4. \E g : Folds(f, SUBSET S, g)
  BY <1>2, <1>3
<1>5. QED
  BY <1>4 DEF Iter

\* Folds over the same subset agree, whatever larger set they were begun with.
LEMMA FoldsAgree ==
  ASSUME NEW S, IsFiniteSet(S), NEW T \in SUBSET S, NEW f, NEW s \in SUBSET T
  PROVE  Iter(f, T)[s] = Iter(f, S)[s]
<1> DEFINE odd == {u \in SUBSET T : Iter(f, T)[u] # Iter(f, S)[u]}
           a == Iter(f, T)
           b == Iter(f, S)
<1>1. IsFiniteSet(T)
  BY FS_Subset
<1>2. /\ \A u \in SUBSET T : Iter(f, T)[u] = FoldStep(f, Iter(f, T), u)
      /\ \A u \in SUBSET T : Iter(f, S)[u] = FoldStep(f, Iter(f, S), u)
  <2>1. Folds(f, SUBSET T, a) /\ Folds(f, SUBSET S, b)
    BY <1>1, FoldExists
  <2> HIDE DEF a, b
  <2>2. (\A u \in SUBSET T : a[u] = FoldStep(f, a, u)) /\ (\A u \in SUBSET T : b[u] = FoldStep(f, b, u))
    BY <2>1 DEF Folds
  <2>3. QED
    BY <2>2 DEF a, b
<1>3. ASSUME odd # {} PROVE FALSE
  <2>1. PICK u \in odd : \A v \in odd : v \subseteq u => v = u
    <3>1. odd \in SUBSET (SUBSET T)
      OBVIOUS
    <3> HIDE DEF odd
    <3>2. QED
      BY <1>1, <1>3, <3>1, MinimalSubset
  <2>2. CASE u = {}
    BY <1>2, <2>2 DEF FoldStep
  <2>3. CASE u # {}
    <3>1. Chosen(u) \in u
      BY <2>3, ChosenIn
    <3>2. u \ {Chosen(u)} \notin odd /\ u \ {Chosen(u)} \in SUBSET T
      BY <2>1, <3>1
    <3>3. Iter(f, T)[u \ {Chosen(u)}] = Iter(f, S)[u \ {Chosen(u)}]
      BY <3>2
    <3>4. QED
      BY <1>2, <2>3, <3>3 DEF FoldStep
  <2>4. QED
    BY <2>2, <2>3
<1>4. QED
  BY <1>3

\* The fold adds the element it chooses to the sum of the others.
LEMMA SumUnfolds ==
  ASSUME NEW S, IsFiniteSet(S), NEW f
  PROVE  /\ Sum(f, {}) = 0
         /\ S # {} => Sum(f, S) = f[Chosen(S)] + Sum(f, S \ {Chosen(S)})
<1> DEFINE it == Iter(f, S)
<1>1. \A u \in SUBSET S : it[u] = FoldStep(f, it, u)
  <2>1. Folds(f, SUBSET S, it)
    BY FoldExists
  <2> HIDE DEF it
  <2>2. QED
    BY <2>1 DEF Folds
<1>2. \A T \in SUBSET S : Sum(f, T) = it[T]
  BY SumIsIter, FoldsAgree
<1> HIDE DEF it
<1>3. Sum(f, {}) = 0
  BY <1>1, <1>2 DEF FoldStep
<1>4. ASSUME S # {} PROVE Sum(f, S) = f[Chosen(S)] + Sum(f, S \ {Chosen(S)})
  <2>1. Sum(f, S) = FoldStep(f, it, S)
    BY <1>1, <1>2
  <2>2. QED
    BY <1>2, <1>4, <2>1 DEF FoldStep
<1>5. QED
  BY <1>3, <1>4

\* A sum of integers is one, and a sum of naturals.
LEMMA SumTyped ==
  ASSUME NEW S, IsFiniteSet(S), NEW f
  PROVE  /\ (\A x \in S : f[x] \in Int) => Sum(f, S) \in Int
         /\ (\A x \in S : f[x] \in Nat) => Sum(f, S) \in Nat
<1>1. ASSUME NEW N \in {Nat, Int}, \A x \in S : f[x] \in N PROVE Sum(f, S) \in N
  <2> DEFINE odd == {T \in SUBSET S : Sum(f, T) \notin N}
  <2>1. ASSUME odd # {} PROVE FALSE
    <3>1. PICK T \in odd : \A U \in odd : U \subseteq T => U = T
      <4>1. odd \in SUBSET (SUBSET S)
        OBVIOUS
      <4> HIDE DEF odd
      <4>2. QED
        BY <2>1, <4>1, MinimalSubset
    <3>2. IsFiniteSet(T) /\ T \in SUBSET S
      BY FS_Subset
    <3>3. T # {} /\ Chosen(T) \in T /\ Sum(f, T) = f[Chosen(T)] + Sum(f, T \ {Chosen(T)})
      <4>1. 0 \in N
        OBVIOUS
      <4>2. T # {}
        BY <3>2, <4>1, SumUnfolds
      <4>3. QED
        BY <3>2, <4>2, SumUnfolds, ChosenIn
    <3>4. Sum(f, T \ {Chosen(T)}) \in N
      BY <3>1, <3>2, <3>3
    <3>5. f[Chosen(T)] \in N
      BY <1>1, <3>2, <3>3
    <3>6. Sum(f, T) \in N
      BY <3>3, <3>4, <3>5
    <3>7. QED
      BY <3>6
  <2>2. QED
    BY <2>1
<1>2. QED
  BY <1>1

\* The order does not matter: any element may be taken first.
LEMMA SumPicks ==
  ASSUME NEW S, IsFiniteSet(S), NEW f, \A x \in S : f[x] \in Int, NEW x \in S
  PROVE  Sum(f, S) = f[x] + Sum(f, S \ {x})
<1> DEFINE odd == {T \in SUBSET S : \E e \in T : Sum(f, T) # f[e] + Sum(f, T \ {e})}
<1>1. ASSUME odd # {} PROVE FALSE
  <2>1. PICK T \in odd : \A U \in odd : U \subseteq T => U = T
    <3>1. odd \in SUBSET (SUBSET S)
      OBVIOUS
    <3> HIDE DEF odd
    <3>2. QED
      BY <1>1, <3>1, MinimalSubset
  <2>2. PICK e \in T : Sum(f, T) # f[e] + Sum(f, T \ {e})
    OBVIOUS
  <2> DEFINE c == Chosen(T)
  <2>3. IsFiniteSet(T) /\ T \in SUBSET S /\ c \in T
    BY FS_Subset, ChosenIn
  <2>4. Sum(f, T) = f[c] + Sum(f, T \ {c})
    BY <2>3, SumUnfolds
  <2> HIDE DEF c
  <2>5. e # c /\ e \in T \ {c} /\ c \in T \ {e}
    BY <2>2, <2>3, <2>4
  <2>6. T \ {c} \in SUBSET S /\ T \ {e} \in SUBSET S /\ T \ {c} \notin odd /\ T \ {e} \notin odd
    BY <2>1, <2>3, <2>5
  <2>7. Sum(f, T \ {c}) = f[e] + Sum(f, (T \ {c}) \ {e})
    BY <2>5, <2>6
  <2>8. (T \ {e}) \ {c} = (T \ {c}) \ {e}
    OBVIOUS
  <2>9. Sum(f, T \ {e}) = f[c] + Sum(f, (T \ {c}) \ {e})
    <3>1. Sum(f, T \ {e}) = f[c] + Sum(f, (T \ {e}) \ {c})
      BY <2>5, <2>6
    <3>2. QED
      BY <2>8, <3>1
  <2>10. f[c] \in Int /\ f[e] \in Int /\ Sum(f, (T \ {c}) \ {e}) \in Int
    <3>1. (T \ {c}) \ {e} \in SUBSET S /\ IsFiniteSet((T \ {c}) \ {e})
      BY <2>3, FS_Subset
    <3>2. QED
      BY <2>3, <3>1, SumTyped
  <2>11. QED
    BY <2>2, <2>4, <2>7, <2>9, <2>10
<1>2. QED
  BY <1>1

\* Lot by lot, then in sum: the lots S are worth v, those of O among them were worth w, c came in, and those of H moved
\* by m.
LEMMA SumsBalance ==
  ASSUME NEW S, IsFiniteSet(S), NEW Old \in SUBSET S, NEW Priced \in SUBSET S, NEW v, NEW w, NEW c, NEW m,
         \A x \in S : v[x] \in Int /\ c[x] \in Int,
         \A x \in Old : w[x] \in Int,
         \A x \in Priced : m[x] \in Int,
         \A x \in S : v[x] - (IF x \in Old THEN w[x] ELSE 0) - c[x] = IF x \in Priced THEN m[x] ELSE 0
  PROVE  Sum(v, S) - Sum(w, Old) - Sum(c, S) = Sum(m, Priced)
<1> DEFINE odd == {T \in SUBSET S : Sum(v, T) - Sum(w, Old \cap T) - Sum(c, T) # Sum(m, Priced \cap T)}
<1>1. ASSUME odd # {} PROVE FALSE
  <2>1. PICK T \in odd : \A U \in odd : U \subseteq T => U = T
    <3>1. odd \in SUBSET (SUBSET S)
      OBVIOUS
    <3> HIDE DEF odd
    <3>2. QED
      BY <1>1, <3>1, MinimalSubset
  <2>2. T \in SUBSET S /\ \A U \in SUBSET S : IsFiniteSet(U)
    BY FS_Subset
  <2>3. CASE T = {}
    <3>1. Old \cap T = {} /\ Priced \cap T = {}
      BY <2>3
    <3>2. \A f : Sum(f, {}) = 0
      BY SumUnfolds, FS_EmptySet
    <3>3. QED
      BY <2>3, <3>1, <3>2
  <2>4. CASE T # {}
    <3>1. PICK x \in T : TRUE
      BY <2>4
    <3> DEFINE U == T \ {x}
    <3>2. U \in SUBSET S /\ U \notin odd
      BY <2>1, <2>2
    <3>3. Sum(v, U) - Sum(w, Old \cap U) - Sum(c, U) = Sum(m, Priced \cap U)
      BY <3>2
    <3>4. Sum(v, T) = v[x] + Sum(v, U) /\ Sum(c, T) = c[x] + Sum(c, U)
      BY <2>2, SumPicks
    <3>5. Sum(w, Old \cap T) = (IF x \in Old THEN w[x] ELSE 0) + Sum(w, Old \cap U)
      <4>1. CASE x \in Old
        <5>1. x \in Old \cap T /\ (Old \cap T) \ {x} = Old \cap U /\ Old \cap T \in SUBSET S
          BY <4>1, <2>2
        <5>2. IsFiniteSet(Old \cap T) /\ \A y \in Old \cap T : w[y] \in Int
          BY <2>2, <5>1
        <5>3. Sum(w, Old \cap T) = w[x] + Sum(w, (Old \cap T) \ {x})
          BY <5>1, <5>2, SumPicks
        <5>4. QED
          BY <4>1, <5>1, <5>3
      <4>2. CASE x \notin Old
        <5>1. Old \cap T = Old \cap U /\ Old \cap U \in SUBSET S
          BY <4>2, <2>2
        <5>2. Sum(w, Old \cap U) \in Int
          BY <2>2, <5>1, SumTyped
        <5>3. Sum(w, Old \cap T) = Sum(w, Old \cap U)
          BY <5>1
        <5> HIDE DEF U
        <5>4. QED
          BY <4>2, <5>2, <5>3
      <4>3. QED
        BY <4>1, <4>2
    <3>6. Sum(m, Priced \cap T) = (IF x \in Priced THEN m[x] ELSE 0) + Sum(m, Priced \cap U)
      <4>1. CASE x \in Priced
        <5>1. x \in Priced \cap T /\ (Priced \cap T) \ {x} = Priced \cap U /\ Priced \cap T \in SUBSET S
          BY <4>1, <2>2
        <5>2. IsFiniteSet(Priced \cap T) /\ \A y \in Priced \cap T : m[y] \in Int
          BY <2>2, <5>1
        <5>3. Sum(m, Priced \cap T) = m[x] + Sum(m, (Priced \cap T) \ {x})
          BY <5>1, <5>2, SumPicks
        <5>4. QED
          BY <4>1, <5>1, <5>3
      <4>2. CASE x \notin Priced
        <5>1. Priced \cap T = Priced \cap U /\ Priced \cap U \in SUBSET S
          BY <4>2, <2>2
        <5>2. Sum(m, Priced \cap U) \in Int
          BY <2>2, <5>1, SumTyped
        <5>3. Sum(m, Priced \cap T) = Sum(m, Priced \cap U)
          BY <5>1
        <5> HIDE DEF U
        <5>4. QED
          BY <4>2, <5>2, <5>3
      <4>3. QED
        BY <4>1, <4>2
    <3>7. /\ Sum(v, U) \in Int /\ Sum(c, U) \in Int /\ Sum(w, Old \cap U) \in Int /\ Sum(m, Priced \cap U) \in Int
          /\ Old \cap U \in SUBSET S /\ Priced \cap U \in SUBSET S
      <4>1. Old \cap U \in SUBSET S /\ Priced \cap U \in SUBSET S
        BY <3>2
      <4>2. QED
        BY <2>2, <3>2, <4>1, SumTyped
    <3>8. x \in S /\ v[x] - (IF x \in Old THEN w[x] ELSE 0) - c[x] = IF x \in Priced THEN m[x] ELSE 0
      BY <2>2
    <3>9. Sum(v, T) - Sum(w, Old \cap T) - Sum(c, T) = Sum(m, Priced \cap T)
      <4> DEFINE a == IF x \in Old THEN w[x] ELSE 0
                 b == IF x \in Priced THEN m[x] ELSE 0
      <4>1. a \in Int /\ b \in Int /\ v[x] \in Int /\ c[x] \in Int /\ v[x] - a - c[x] = b
        BY <3>8
      <4>2. Sum(w, Old \cap T) = a + Sum(w, Old \cap U) /\ Sum(m, Priced \cap T) = b + Sum(m, Priced \cap U)
        BY <3>5, <3>6
      <4> HIDE DEF a, b, U
      <4>3. QED
        BY <3>3, <3>4, <3>7, <4>1, <4>2
    <3>10. QED
      BY <3>9
  <2>5. QED
    BY <2>3, <2>4
<1>2. S \notin odd /\ Old \cap S = Old /\ Priced \cap S = Priced
  BY <1>1
<1>3. QED
  BY <1>2

-----------------------------------------------------------------------------
(* Curve: what the walk has put down.                                      *)

\* d is the day of the axis after c, or the first, and c is 0.
Follows(c, d) == d \in C!Axis /\ c \in {0} \cup C!Axis /\ c < d /\ \A e \in C!Axis : e <= c \/ e >= d

\* A lot's price on day d, and what it brought in between c and d, by the closes alone.
PriceAt(l, d) == IF C!Close(lot[l].symbol, d) = 0 THEN Cost[l] ELSE C!Close(lot[l].symbol, d)
WorthAt(l, d) == Quantity[l] * PriceAt(l, d)
CameIn(l, c, d) ==
  CASE l \notin C!BoughtBy(c) -> WorthAt(l, d)
    [] l \in C!BoughtBy(c) /\ C!Close(lot[l].symbol, c) = 0 /\ C!Close(lot[l].symbol, d) > 0
                              -> WorthAt(l, d) - Quantity[l] * Cost[l]
    [] OTHER                  -> 0

PointAt(c, d) == [value |-> C!SumFunction([l \in C!BoughtBy(d) |-> WorthAt(l, d)]),
                  cashflow |-> C!SumFunction([l \in C!BoughtBy(d) |-> CameIn(l, c, d)])]

Given == lot \in [Lots -> C!Lot] /\ closes \in C!Series /\ start \in C!Days
Shown == {d \in C!Axis : start <= d /\ d <= at}

CurveInv ==
  /\ Given
  /\ at \in {0} \cup C!Axis /\ owned = C!BoughtBy(at) /\ last = [s \in Symbols |-> C!Close(s, at)]
  /\ DOMAIN points = Shown /\ points = [d \in DOMAIN points |-> points[d]]
  /\ \A d \in Shown : \E c \in {0} \cup C!Axis : Follows(c, d) /\ points[d] = PointAt(c, d)

LEMMA AxisTyped ==
  ASSUME Given
  PROVE  /\ C!Earliest \in Nat /\ C!Axis \subseteq C!Weekdays /\ C!Axis \in SUBSET Nat /\ 0 \notin C!Axis
         /\ \A s \in Symbols, d \in C!Weekdays : closes[s][d] \in Nat /\ (closes[s][d] > 0 => d \in C!Axis)
<1>1. C!Earliest \in Nat
  <2> DEFINE dates == {lot[l].bought : l \in Lots}
  <2>1. dates \in SUBSET Nat /\ dates # {}
    BY RecordsAssumption DEF Given, C!Lot, C!Days
  <2>2. C!Earliest = CHOOSE x \in dates : \A y \in dates : x <= y
    BY DEF C!Earliest, C!Min
  <2> HIDE DEF dates
  <2>3. QED
    BY <2>1, <2>2, LeastExists
<1>2. C!Weekdays \subseteq 1 .. LastCurveDay
  BY DEF C!Weekdays, C!Days
<1>3. \A s \in Symbols, d \in C!Weekdays : closes[s][d] \in Nat /\ (d < C!Earliest => closes[s][d] = 0)
  BY RecordsAssumption DEF Given, C!Series
<1>4. \A d \in C!Weekdays : d \in Nat /\ d # 0
  BY <1>2
<1>5. C!Axis \subseteq C!Weekdays /\ \A d \in C!Weekdays : ~(d < C!Earliest) => d \in C!Axis
  BY <1>1, <1>4 DEF C!Axis
<1>6. C!Axis \in SUBSET Nat /\ 0 \notin C!Axis
  BY <1>4, <1>5
<1>7. \A s \in Symbols, d \in C!Weekdays : closes[s][d] \in Nat /\ (closes[s][d] > 0 => d \in C!Axis)
  BY <1>3, <1>5
<1>8. QED
  BY <1>1, <1>5, <1>6, <1>7

LEMMA OneBefore ==
  ASSUME Given, NEW c, NEW e, NEW d, Follows(c, d), Follows(e, d)
  PROVE  c = e
<1>1. C!Axis \in SUBSET Nat /\ 0 \notin C!Axis
  BY AxisTyped
<1>2. c \in Nat /\ e \in Nat /\ d \in Nat /\ c < d /\ e < d
  BY <1>1 DEF Follows
<1>3. (c = 0 \/ c <= e) /\ (e = 0 \/ e <= c)
  BY <1>1, <1>2 DEF Follows
<1>4. QED
  BY <1>2, <1>3

LEMMA NextFollows ==
  ASSUME Given, at \in {0} \cup C!Axis, \E d \in C!Axis : d > at
  PROVE  Follows(at, C!NextDay)
<1> DEFINE later == {d \in C!Axis : d > at}
<1>1. C!Axis \in SUBSET Nat /\ at \in Nat
  BY AxisTyped
<1>2. later \in SUBSET Nat /\ later # {}
  BY <1>1
<1>3. C!NextDay = CHOOSE x \in later : \A y \in later : x <= y
  BY DEF C!NextDay, C!Min
<1>4. C!NextDay \in later /\ \A y \in later : C!NextDay <= y
  <2> HIDE DEF later
  <2>1. QED
    BY <1>2, <1>3, LeastExists
<1>5. QED
  BY <1>1, <1>4 DEF Follows

\* A close is a natural number; the close of the next day is that day's, or the one before it.
LEMMA CloseTyped ==
  ASSUME Given, NEW s \in Symbols, NEW d \in Nat
  PROVE  C!Close(s, d) \in Nat
<1> DEFINE known == {e \in C!Weekdays : e <= d /\ closes[s][e] > 0}
<1>1. C!Close(s, d) = IF known = {} THEN 0 ELSE closes[s][C!Max(known)]
  BY DEF C!Close
<1>2. CASE known # {}
  <2>1. known \in SUBSET (0 .. LastCurveDay) /\ known \subseteq C!Weekdays
    BY DEF C!Weekdays, C!Days
  <2>2. C!Max(known) \in known
    <3>1. C!Max(known) = CHOOSE x \in known : \A y \in known : x >= y
      BY DEF C!Max
    <3>2. \E x \in known : \A y \in known : y <= x
      <4> HIDE DEF known
      <4>1. QED
        BY <1>2, <2>1, LargestExists, RecordsAssumption
    <3>3. \E x \in known : \A y \in known : x >= y
      BY <2>1, <3>2
    <3> HIDE DEF known
    <3>4. QED
      BY <3>1, <3>3
  <2>3. closes[s][C!Max(known)] \in Nat
    BY <2>1, <2>2, AxisTyped
  <2>4. QED
    BY <1>1, <1>2, <2>3
<1>3. QED
  BY <1>1, <1>2

LEMMA CloseMoves ==
  ASSUME Given, NEW s \in Symbols, NEW c, NEW d, Follows(c, d)
  PROVE  C!Close(s, d) = IF closes[s][d] > 0 THEN closes[s][d] ELSE C!Close(s, c)
<1> DEFINE known(x) == {e \in C!Weekdays : e <= x /\ closes[s][e] > 0}
<1>1. \A x : C!Close(s, x) = IF known(x) = {} THEN 0 ELSE closes[s][C!Max(known(x))]
  BY DEF C!Close
<1>2. /\ C!Weekdays \in SUBSET Nat /\ C!Axis \subseteq C!Weekdays /\ c \in Nat /\ d \in C!Axis /\ c < d
      /\ \A e \in C!Axis : e <= c \/ e >= d
      /\ \A e \in C!Weekdays : closes[s][e] > 0 => e \in C!Axis
  <2>1. C!Weekdays \in SUBSET Nat
    BY DEF C!Weekdays, C!Days
  <2>2. QED
    BY <2>1, AxisTyped DEF Follows
<1>3. CASE closes[s][d] > 0
  <2>1. d \in known(d) /\ \A y \in known(d) : d >= y
    BY <1>2, <1>3
  <2>2. known(d) \in SUBSET Nat
    BY <1>2
  <2>3. C!Max(known(d)) = d
    <3>1. C!Max(known(d)) = CHOOSE x \in known(d) : \A y \in known(d) : x >= y
      BY DEF C!Max
    <3>2. \A x \in known(d) : (\A y \in known(d) : x >= y) => x = d
      <4> HIDE DEF known
      <4>1. QED
        BY <2>1, <2>2
    <3> HIDE DEF known
    <3>3. QED
      BY <2>1, <3>1, <3>2
  <2>4. QED
    BY <1>1, <1>3, <2>1, <2>3
<1>4. CASE ~(closes[s][d] > 0)
  <2>1. known(d) = known(c)
    <3>1. \A e \in C!Weekdays : closes[s][e] > 0 => (e <= d <=> e <= c)
      <4>1. \A e \in C!Weekdays : closes[s][e] > 0 => e # d /\ e \in Nat /\ (e <= c \/ e >= d)
        BY <1>2, <1>4
      <4>2. c \in Nat /\ d \in Nat /\ c < d
        BY <1>2
      <4>3. QED
        BY <4>1, <4>2
    <3>2. QED
      BY <3>1
  <2>2. QED
    BY <1>1, <1>4, <2>1
<1>5. QED
  BY <1>3, <1>4

\* The table and the axis do not change, nor does what is computed of them alone.
LEMMA GivenStays ==
  ASSUME UNCHANGED <<lot, closes, start>>
  PROVE  /\ Given' = Given /\ C!Axis' = C!Axis
         /\ \A d : C!BoughtBy(d)' = C!BoughtBy(d)
         /\ \A s, d : C!Close(s, d)' = C!Close(s, d)
         /\ \A c, d : Follows(c, d)' = Follows(c, d) /\ PointAt(c, d)' = PointAt(c, d)
BY DEF Given, C!Lot, C!Series, C!Days, C!Weekdays, C!Earliest, C!Axis, C!BoughtBy, C!Close, Follows, PointAt, CameIn,
       WorthAt, PriceAt

LEMMA CurveInit == C!Init => CurveInv
<1> SUFFICES ASSUME C!Init PROVE CurveInv
  OBVIOUS
<1>1. Given /\ at = 0
  BY DEF C!Init, Given
<1>2. C!Axis \in SUBSET Nat /\ 0 \notin C!Axis
  BY <1>1, AxisTyped
<1>3. owned = C!BoughtBy(0)
  <2>1. \A l \in Lots : lot[l].bought \in 1 .. LastCurveDay
    BY <1>1 DEF Given, C!Lot, C!Days
  <2>2. C!BoughtBy(0) = {}
    BY <2>1 DEF C!BoughtBy
  <2>3. QED
    BY <2>2 DEF C!Init
<1>4. last = [s \in Symbols |-> C!Close(s, 0)]
  <2>1. \A s \in Symbols : C!Close(s, 0) = 0
    BY DEF C!Close, C!Weekdays, C!Days
  <2>2. QED
    BY <2>1 DEF C!Init
<1>5. Shown = {}
  <2>1. \A d \in C!Axis : ~(d <= at)
    BY <1>1, <1>2
  <2>2. QED
    BY <2>1 DEF Shown
<1>6. DOMAIN points = {} /\ points = [d \in DOMAIN points |-> points[d]]
  BY DEF C!Init
<1>7. QED
  BY <1>1, <1>3, <1>4, <1>5, <1>6 DEF CurveInv

LEMMA CurveNext == CurveInv /\ [C!Next]_(C!vars) => CurveInv'
<1> SUFFICES ASSUME CurveInv, [C!Next]_(C!vars) PROVE CurveInv'
  OBVIOUS
<1>1. UNCHANGED <<lot, closes, start>>
  BY DEF C!Next, C!Walk, C!vars
<1>2. /\ Given' /\ C!Axis' = C!Axis
      /\ \A d : C!BoughtBy(d)' = C!BoughtBy(d)
      /\ \A s, d : C!Close(s, d)' = C!Close(s, d)
      /\ \A c, d : Follows(c, d)' = Follows(c, d) /\ PointAt(c, d)' = PointAt(c, d)
  BY <1>1, GivenStays DEF CurveInv
<1>3. CASE UNCHANGED C!vars
  <2>1. UNCHANGED <<at, owned, last, points>>
    BY <1>3 DEF C!vars
  <2>2. Shown' = Shown
    BY <1>1, <1>2, <2>1 DEF Shown
  <2>3. owned' = C!BoughtBy(at)' /\ last' = [s \in Symbols |-> C!Close(s, at)]'
    BY <1>1, <2>1 DEF CurveInv, C!BoughtBy, C!Close, C!Weekdays, C!Days
  <2>4. QED
    BY <1>1, <1>2, <2>1, <2>2, <2>3 DEF CurveInv
<1>4. CASE C!Walk
  <2> DEFINE d == C!NextDay
             now == C!BoughtBy(d)
             next == C!Advanced(d)
  <2>1. Given /\ Follows(at, d) /\ C!Axis \in SUBSET Nat /\ at \in Nat
    BY <1>4, NextFollows, AxisTyped DEF CurveInv, C!Walk
  <2>2. at' = d /\ owned' = now /\ last' = next
    BY <1>4 DEF C!Walk
  <2>3. next = [s \in Symbols |-> C!Close(s, d)]
    <3>1. \A s \in Symbols : next[s] = C!Close(s, d)
      BY <2>1, CloseMoves DEF CurveInv, C!Advanced
    <3>2. QED
      BY <3>1 DEF C!Advanced
  <2>4. \A l \in now : lot[l].symbol \in Symbols
    BY <2>1 DEF Given, C!Lot, C!BoughtBy
  <2>5. \A l \in now : C!Worth(l, next) = WorthAt(l, d)
    BY <2>3, <2>4 DEF C!Worth, C!PriceOf, WorthAt, PriceAt
  <2>6. \A l \in now : C!Inflow(l, next) = CameIn(l, at, d)
    <3>1. \A l \in now : last[lot[l].symbol] = C!Close(lot[l].symbol, at) /\ next[lot[l].symbol] = C!Close(lot[l].symbol, d)
      BY <2>3, <2>4 DEF CurveInv
    <3>2. owned = C!BoughtBy(at)
      BY DEF CurveInv
    <3> HIDE DEF d, now, next
    <3>3. QED
      BY <2>5, <3>1, <3>2 DEF C!Inflow, C!FirstToday, CameIn
  <2>7. /\ [l \in now |-> C!Worth(l, next)] = [l \in now |-> WorthAt(l, d)]
        /\ [l \in now |-> C!Inflow(l, next)] = [l \in now |-> CameIn(l, at, d)]
    BY <2>5, <2>6
  <2>8. points' = IF d < start THEN points
                  ELSE [e \in DOMAIN points \cup {d} |-> IF e = d THEN PointAt(at, d) ELSE points[e]]
    <3>1. points' = IF d < start THEN points
                    ELSE [e \in DOMAIN points \cup {d} |->
                            IF e = d THEN [value |-> C!SumFunction([l \in now |-> C!Worth(l, next)]),
                                           cashflow |-> C!SumFunction([l \in now |-> C!Inflow(l, next)])]
                            ELSE points[e]]
      BY <1>4 DEF C!Walk
    <3>2. PointAt(at, d) = [value |-> C!SumFunction([l \in now |-> C!Worth(l, next)]),
                            cashflow |-> C!SumFunction([l \in now |-> C!Inflow(l, next)])]
      BY <2>7 DEF PointAt
    <3> HIDE DEF d, now, next
    <3>3. QED
      BY <3>1, <3>2
  <2>9. owned' = C!BoughtBy(at)' /\ last' = [s \in Symbols |-> C!Close(s, at)]'
    BY <1>1, <2>2, <2>3 DEF C!BoughtBy, C!Close, C!Weekdays, C!Days
  <2> HIDE DEF d, now, next
  <2>10. d \in C!Axis /\ d \in Nat /\ start \in Nat /\ at < d /\ \A e \in C!Axis : e <= at \/ e >= d
    BY <2>1 DEF Follows, Given, C!Days
  <2>11. Shown' = IF d < start THEN Shown ELSE Shown \cup {d}
    <3>1. Shown' = {e \in C!Axis : start <= e /\ e <= d}
      BY <1>1, <1>2, <2>2 DEF Shown
    <3>2. \A e \in C!Axis : e <= d <=> e <= at \/ e = d
      BY <2>1, <2>10
    <3>3. d < start \/ start <= d
      BY <2>10
    <3>4. ASSUME d < start PROVE \A e \in C!Axis : start <= e /\ e <= d <=> start <= e /\ e <= at
      BY <2>1, <2>10, <3>4
    <3>5. QED
      BY <2>10, <3>1, <3>2, <3>3, <3>4 DEF Shown
  <2>12. d \notin Shown
    BY <2>1, <2>10 DEF Shown
  <2>13. DOMAIN points' = Shown' /\ points' = [e \in DOMAIN points' |-> points'[e]]
    BY <2>8, <2>11 DEF CurveInv
  <2>14. \A e \in Shown' : \E c \in {0} \cup C!Axis : Follows(c, e) /\ points'[e] = PointAt(c, e)
    <3>1. ASSUME NEW e \in Shown PROVE points'[e] = points[e]
      BY <2>8, <2>12 DEF CurveInv
    <3>2. ~(d < start) => points'[d] = PointAt(at, d)
      BY <2>8
    <3>3. QED
      BY <2>1, <2>11, <3>1, <3>2 DEF CurveInv
  <2>15. at' \in {0} \cup C!Axis'
    BY <1>2, <2>2, <2>10
  <2>16. QED
    BY <1>2, <2>9, <2>13, <2>14, <2>15 DEF CurveInv
<1>5. QED
  BY <1>3, <1>4 DEF C!Next

\* From one day of the axis to the next each lot held and priced moves with its close; what else a lot adds came in.
LEMMA MarketMoves ==
  ASSUME Given, NEW c, NEW d, Follows(c, d)
  PROVE  PointAt(c, d).value - C!SumFunction([l \in C!BoughtBy(c) |-> WorthAt(l, c)]) - PointAt(c, d).cashflow
           = C!MarketMove(c, d)
<1> DEFINE S == C!BoughtBy(d)
           owns == C!BoughtBy(c)
           held == {l \in Lots : lot[l].bought <= c /\ C!Close(lot[l].symbol, c) > 0}
           v == [l \in S |-> WorthAt(l, d)]
           w == [l \in owns |-> WorthAt(l, c)]
           in == [l \in S |-> CameIn(l, c, d)]
           m == [l \in held |-> Quantity[l] * (C!Close(lot[l].symbol, d) - C!Close(lot[l].symbol, c))]
<1>1. c \in Nat /\ d \in Nat /\ c < d
  BY AxisTyped DEF Follows
<1>2. \A l \in Lots : lot[l].bought \in Nat /\ lot[l].symbol \in Symbols
  BY DEF Given, C!Lot, C!Days
<1>3. S \subseteq Lots /\ owns \in SUBSET S /\ held \in SUBSET S /\ held \subseteq owns
      /\ \A l \in owns : l \in held <=> C!Close(lot[l].symbol, c) > 0
  BY <1>1, <1>2 DEF C!BoughtBy
<1>4. IsFiniteSet(S)
  BY <1>3, RecordsAssumption, FS_Subset
<1>5. ASSUME NEW l \in S
      PROVE  /\ Quantity[l] \in Nat /\ Cost[l] \in Nat
             /\ C!Close(lot[l].symbol, c) \in Nat /\ C!Close(lot[l].symbol, d) \in Nat
             /\ C!Close(lot[l].symbol, c) > 0 => C!Close(lot[l].symbol, d) > 0
  <2>1. l \in Lots /\ lot[l].symbol \in Symbols
    BY <1>2, <1>3
  <2>2. C!Close(lot[l].symbol, c) \in Nat /\ C!Close(lot[l].symbol, d) \in Nat
    BY <1>1, <2>1, CloseTyped
  <2>3. C!Close(lot[l].symbol, c) > 0 => C!Close(lot[l].symbol, d) > 0
    BY <2>1, CloseMoves
  <2>4. QED
    BY <2>1, <2>2, <2>3, RecordsAssumption
<1>6. ASSUME NEW l \in S
      PROVE  /\ WorthAt(l, d) \in Nat /\ WorthAt(l, c) \in Nat /\ CameIn(l, c, d) \in Int
             /\ l \in held => Quantity[l] * (C!Close(lot[l].symbol, d) - C!Close(lot[l].symbol, c)) \in Int
             /\ WorthAt(l, d) - (IF l \in owns THEN WorthAt(l, c) ELSE 0) - CameIn(l, c, d)
                  = IF l \in held THEN Quantity[l] * (C!Close(lot[l].symbol, d) - C!Close(lot[l].symbol, c)) ELSE 0
  <2> DEFINE q == Quantity[l]
             cost == Cost[l]
             x == C!Close(lot[l].symbol, c)
             y == C!Close(lot[l].symbol, d)
  <2>1. /\ WorthAt(l, c) = q * (IF x = 0 THEN cost ELSE x) /\ WorthAt(l, d) = q * (IF y = 0 THEN cost ELSE y)
        /\ CameIn(l, c, d) = IF l \notin owns THEN WorthAt(l, d)
                             ELSE IF x = 0 /\ y > 0 THEN WorthAt(l, d) - q * cost ELSE 0
    BY DEF WorthAt, PriceAt, CameIn
  <2>2. q \in Nat /\ cost \in Nat /\ x \in Nat /\ y \in Nat /\ (x > 0 => y > 0)
    BY <1>5
  <2>3. (l \in held <=> l \in owns /\ x > 0)
    BY <1>3
  <2> HIDE DEF q, cost, x, y, owns, held
  <2>4. q * cost \in Nat /\ q * x \in Nat /\ q * y \in Nat /\ q * (y - x) = q * y - q * x
    BY <2>2
  <2>5. WorthAt(l, c) = (IF x = 0 THEN q * cost ELSE q * x) /\ WorthAt(l, d) = (IF y = 0 THEN q * cost ELSE q * y)
    BY <2>1
  <2>6. /\ WorthAt(l, d) \in Nat /\ WorthAt(l, c) \in Nat /\ CameIn(l, c, d) \in Int /\ q * (y - x) \in Int
        /\ WorthAt(l, d) - (IF l \in owns THEN WorthAt(l, c) ELSE 0) - CameIn(l, c, d)
             = IF l \in held THEN q * (y - x) ELSE 0
    <3>1. CASE l \notin owns
      BY <2>1, <2>2, <2>3, <2>4, <2>5, <3>1
    <3>2. CASE l \in owns /\ x = 0
      BY <2>1, <2>2, <2>3, <2>4, <2>5, <3>2
    <3>3. CASE l \in owns /\ x # 0
      BY <2>1, <2>2, <2>3, <2>4, <2>5, <3>3
    <3>4. QED
      BY <3>1, <3>2, <3>3
  <2>7. QED
    BY <2>6 DEF q, x, y
<1>7. Sum(v, S) - Sum(w, owns) - Sum(in, S) = Sum(m, held)
  <2>1. \A l \in S : v[l] \in Int /\ in[l] \in Int
    BY <1>6
  <2>2. (\A l \in owns : w[l] \in Int) /\ (\A l \in held : m[l] \in Int)
    BY <1>3, <1>6
  <2>3. \A l \in S : v[l] - (IF l \in owns THEN w[l] ELSE 0) - in[l] = IF l \in held THEN m[l] ELSE 0
    BY <1>6
  <2> HIDE DEF S, owns, held, v, w, in, m
  <2>4. QED
    BY <1>3, <1>4, <2>1, <2>2, <2>3, SumsBalance
<1>8. /\ PointAt(c, d).value = Sum(v, S) /\ PointAt(c, d).cashflow = Sum(in, S)
      /\ C!SumFunction([l \in C!BoughtBy(c) |-> WorthAt(l, c)]) = Sum(w, owns)
      /\ C!MarketMove(c, d) = Sum(m, held)
  BY DEF PointAt, C!SumFunction, Sum, C!MarketMove
<1>9. QED
  BY <1>7, <1>8

\* A point's value is a natural number, and its cashflow an integer.
LEMMA PointTyped ==
  ASSUME Given, NEW c, NEW d, Follows(c, d)
  PROVE  PointAt(c, d) \in [value : Nat, cashflow : Int]
<1> DEFINE S == C!BoughtBy(d)
           v == [l \in S |-> WorthAt(l, d)]
           in == [l \in S |-> CameIn(l, c, d)]
<1>1. S \subseteq Lots /\ IsFiniteSet(S) /\ d \in Nat
  BY RecordsAssumption, FS_Subset, AxisTyped DEF C!BoughtBy, Follows
<1>2. ASSUME NEW l \in S PROVE WorthAt(l, d) \in Nat /\ CameIn(l, c, d) \in Int
  <2>1. l \in Lots /\ lot[l].symbol \in Symbols
    BY <1>1 DEF Given, C!Lot
  <2> DEFINE y == C!Close(lot[l].symbol, d)
  <2>2. y \in Nat /\ Quantity[l] \in Nat /\ Cost[l] \in Nat
    BY <1>1, <2>1, CloseTyped, RecordsAssumption
  <2>3. WorthAt(l, d) = Quantity[l] * (IF y = 0 THEN Cost[l] ELSE y)
    BY DEF WorthAt, PriceAt
  <2> HIDE DEF y
  <2>4. Quantity[l] * Cost[l] \in Nat /\ Quantity[l] * y \in Nat
    BY <2>2
  <2>5. WorthAt(l, d) \in Nat
    BY <2>3, <2>4
  <2>6. QED
    BY <2>4, <2>5 DEF CameIn
<1>3. Sum(v, S) \in Nat /\ Sum(in, S) \in Int
  <2>1. (\A l \in S : v[l] \in Nat) /\ (\A l \in S : in[l] \in Int)
    BY <1>2
  <2> HIDE DEF S, v, in
  <2>2. QED
    BY <1>1, <2>1, SumTyped
<1>4. PointAt(c, d) = [value |-> Sum(v, S), cashflow |-> Sum(in, S)]
  BY DEF PointAt, C!SumFunction, Sum
<1> HIDE DEF S, v, in
<1>5. QED
  BY <1>3, <1>4

LEMMA CurveTyped == CurveInv => C!TypeOK
<1> SUFFICES ASSUME CurveInv PROVE C!TypeOK
  OBVIOUS
<1>1. /\ lot \in [Lots -> C!Lot] /\ closes \in [Symbols -> [C!Weekdays -> Closes]] /\ start \in C!Days
      /\ owned \subseteq Lots
  BY DEF CurveInv, Given, C!Series, C!BoughtBy
<1>2. at \in 0 .. LastCurveDay
  <2>1. C!Axis \subseteq 1 .. LastCurveDay
    BY DEF C!Axis, C!Weekdays, C!Days
  <2>2. QED
    BY <2>1, RecordsAssumption DEF CurveInv
<1>3. last \in [Symbols -> Nat]
  <2>1. \A s \in Symbols : C!Close(s, at) \in Nat
    BY <1>2, CloseTyped DEF CurveInv
  <2>2. QED
    BY <2>1 DEF CurveInv
<1>4. points \in [Shown -> [value : Nat, cashflow : Int]]
  <2>1. \A d \in Shown : points[d] \in [value : Nat, cashflow : Int]
    BY PointTyped DEF CurveInv
  <2>2. QED
    BY <2>1 DEF CurveInv
<1>5. Shown = {d \in C!Weekdays : d <= at /\ d >= start /\ d >= C!Min({lot[l].bought : l \in Lots})}
  <2>1. \A d \in C!Weekdays : start <= d <=> d >= start
    BY <1>1 DEF C!Weekdays, C!Days
  <2>2. QED
    BY <2>1 DEF Shown, C!Axis, C!Earliest
<1>6. QED
  BY <1>1, <1>2, <1>3, <1>4, <1>5 DEF C!TypeOK

LEMMA CurveIsMarketMove == CurveInv => ReturnIsMarketMove
<1> SUFFICES ASSUME CurveInv, NEW c \in DOMAIN points, NEW d \in DOMAIN points, c < d,
                    \A e \in DOMAIN points : e <= c \/ e >= d
             PROVE  points[d].value - points[c].value - points[d].cashflow = C!MarketMove(c, d)
  BY DEF ReturnIsMarketMove, C!ReturnIsMarketMove
<1>1. /\ Given /\ DOMAIN points = Shown /\ C!Axis \in SUBSET Nat /\ 0 \notin C!Axis /\ start \in Nat
      /\ at \in Nat
  BY AxisTyped DEF CurveInv, Given, C!Days
<1>2. PICK b \in {0} \cup C!Axis : Follows(b, c) /\ points[c] = PointAt(b, c)
  BY DEF CurveInv
<1>3. PICK a \in {0} \cup C!Axis : Follows(a, d) /\ points[d] = PointAt(a, d)
  BY DEF CurveInv
<1>4. a = c
  <2>1. a < d /\ a \in Nat /\ c \in Nat /\ d \in Nat /\ c \in C!Axis /\ start <= c /\ d <= at /\ c <= a
    <3>1. c \in C!Axis /\ start <= c /\ d \in C!Axis /\ d <= at
      BY <1>1 DEF Shown
    <3>2. a < d /\ (c <= a \/ c >= d)
      BY <1>3, <3>1 DEF Follows
    <3>3. a \in Nat /\ c \in Nat /\ d \in Nat
      <4>1. C!Axis \subseteq Nat
        BY <1>1
      <4>2. a \in Nat
        BY <4>1, <1>3
      <4>3. QED
        BY <3>1, <4>1, <4>2
    <3>4. QED
      BY <3>1, <3>2, <3>3
  <2>2. a \in C!Axis /\ start <= a /\ a <= at
    BY <1>1, <1>3, <2>1
  <2>3. a \in Shown
    BY <2>2 DEF Shown
  <2>4. QED
    BY <1>1, <2>1, <2>3
<1>5. points[c].value = C!SumFunction([l \in C!BoughtBy(c) |-> WorthAt(l, c)])
  BY <1>2 DEF PointAt
<1>6. PointAt(c, d).value - C!SumFunction([l \in C!BoughtBy(c) |-> WorthAt(l, c)]) - PointAt(c, d).cashflow
        = C!MarketMove(c, d)
  BY <1>1, <1>3, <1>4, MarketMoves
<1>7. QED
  BY <1>3, <1>4, <1>5, <1>6

\* The lots, the closes and the curve keep their types: no value is negative.
THEOREM CurveTypeCorrect == C!Spec => []C!TypeOK
BY CurveTyped, CurveInit, CurveNext, PTL DEF C!Spec

\* "(value - prev_value - cashflow) isolates the market-only return": for any lots, quantities, costs, calendar and
\* closes, between any two neighbouring points (reconstructPortfolioHistory).
THEOREM ReturnIsAlwaysMarketMove == C!Spec => []ReturnIsMarketMove
BY CurveIsMarketMove, CurveInit, CurveNext, PTL DEF C!Spec

-----------------------------------------------------------------------------
(* Oracle: what a walk has behind it.                                       *)

(* Rung s is behind a walk at f.                                           *)
Behind(s, f) ==
  \/ s[1] < f.client
  \/ s[1] = f.client /\ s[2] < f.model
  \/ s[1] = f.client /\ s[2] = f.model /\ s[3] <= f.tries

AtARung(f) ==
  /\ f.client \in 1 .. Len(chain)
  /\ f.model \in 1 .. O!Models(chain[f.client])

AllBehindFailed(f, failed) == \A s \in O!Rungs : Behind(s, f) => s \in failed

WalkInv == flight # O!NoFlight => AtARung(flight) /\ AllBehindFailed(flight, facts.failed)

Explained(v) == v.text = "heuristic" => v.of.refused \/ v.of.left \/ O!Rungs \subseteq v.of.failed

OracleInv == O!TypeOK /\ WalkInv /\ Explained(insight) /\ \A r \in Askers : Explained(asked[r].val)

-----------------------------------------------------------------------------
(* Oracle: the chain and its rungs.                                        *)

LEMMA ChainLength ==
  ASSUME chain \in O!Deployments
  PROVE  Len(chain) \in 0 .. O!MaxClients
<1>1. PICK n \in 0 .. O!MaxClients : chain \in [1 .. n -> Clients]
  BY DEF O!Deployments
<1>2. n \in Nat
  BY <1>1 DEF O!MaxClients
<1>3. Len(chain) = n
  BY <1>1, <1>2
<1>4. QED
  BY <1>1, <1>3

LEMMA ModelCount ==
  ASSUME NEW c
  PROVE  O!Models(c) \in {1, 2}
BY DEF O!Models

LEMMA RungShape ==
  ASSUME NEW s \in O!Rungs
  PROVE  /\ s = <<s[1], s[2], s[3]>>
         /\ s[1] \in 1 .. O!MaxClients /\ s[2] \in 1 .. 2 /\ s[3] \in 1 .. Attempts
         /\ s[1] <= Len(chain) /\ s[2] <= O!Models(chain[s[1]])
BY DEF O!Rungs, O!Failures

LEMMA Moved ==
  ASSUME O!OracleAssumption, NEW f \in O!Positions
  PROVE  /\ \A m \in 1 .. 2 : [f EXCEPT !.model = m, !.tries = 0] \in O!Positions
         /\ \A c \in 1 .. O!MaxClients : [f EXCEPT !.client = c, !.model = 1, !.tries = 0] \in O!Positions
<1>1. 0 \in 0 .. Attempts - 1 /\ 1 \in 1 .. 2
  BY DEF O!OracleAssumption
<1>2. ASSUME NEW m \in 1 .. 2 PROVE [f EXCEPT !.model = m, !.tries = 0] \in O!Positions
  <2>1. [f EXCEPT !.model = m] \in O!Positions
    BY DEF O!Positions
  <2>2. [[f EXCEPT !.model = m] EXCEPT !.tries = 0] \in O!Positions
    BY <1>1, <2>1 DEF O!Positions
  <2>3. QED
    BY <2>2
<1>3. ASSUME NEW c \in 1 .. O!MaxClients PROVE [f EXCEPT !.client = c, !.model = 1, !.tries = 0] \in O!Positions
  <2>1. [f EXCEPT !.client = c] \in O!Positions
    BY DEF O!Positions
  <2>2. [[f EXCEPT !.client = c] EXCEPT !.model = 1, !.tries = 0] \in O!Positions
    BY <1>1, <1>2, <2>1 DEF O!Positions
  <2>3. QED
    BY <2>2
<1>4. QED
  BY <1>2, <1>3

(* A walk that begins has nothing behind it.                               *)
LEMMA FirstRung ==
  ASSUME O!OracleAssumption, O!TypeOK, chain # <<>>, NEW r \in Askers, NEW failed
  PROVE  LET f == [O!NoFlight EXCEPT !.owner = r] IN AtARung(f) /\ AllBehindFailed(f, failed)
<1> DEFINE f == [O!NoFlight EXCEPT !.owner = r]
<1>1. f.client = 1 /\ f.model = 1 /\ f.tries = 0
  BY DEF O!NoFlight
<1>2. Len(chain) \in 1 .. O!MaxClients
  <2>1. PICK n \in 0 .. O!MaxClients : chain \in [1 .. n -> Clients]
    BY DEF O!TypeOK, O!Deployments
  <2>2. n \in Nat /\ Len(chain) = n /\ chain \in Seq(Clients)
    BY <2>1 DEF O!MaxClients
  <2>3. QED
    BY <2>1, <2>2 DEF O!MaxClients
<1>3. AtARung(f)
  BY <1>1, <1>2, ModelCount DEF AtARung, O!MaxClients
<1>4. ASSUME NEW s \in O!Rungs PROVE ~Behind(s, f)
  BY <1>1, RungShape DEF Behind, O!OracleAssumption, O!MaxClients
<1>5. QED
  BY <1>3, <1>4 DEF AllBehindFailed

-----------------------------------------------------------------------------
(* A failed attempt puts its rung behind the walk.                         *)

LEMMA AttemptFails ==
  ASSUME O!OracleAssumption, O!TypeOK, WalkInv, flight # O!NoFlight
  PROVE  LET failed == facts.failed \cup {<<flight.client, flight.model, flight.tries + 1>>}
         IN /\ failed \in SUBSET O!Failures
            /\ \A s \in O!Rungs : Behind(s, flight) => s \in failed
            /\ \A s \in O!Rungs : s[1] = flight.client /\ s[2] = flight.model /\ s[3] = flight.tries + 1 => s \in failed
<1> DEFINE failed == facts.failed \cup {<<flight.client, flight.model, flight.tries + 1>>}
<1>1. /\ facts.failed \in SUBSET O!Failures
      /\ flight.client \in 1 .. O!MaxClients /\ flight.model \in 1 .. 2 /\ flight.tries \in 0 .. Attempts - 1
  BY DEF O!TypeOK, O!Facts, O!Positions
<1>2. failed \in SUBSET O!Failures
  BY <1>1 DEF O!Failures, O!OracleAssumption
<1>3. \A s \in O!Rungs : Behind(s, flight) => s \in failed
  BY DEF WalkInv, AllBehindFailed
<1>4. ASSUME NEW s \in O!Rungs, s[1] = flight.client, s[2] = flight.model, s[3] = flight.tries + 1
      PROVE  s \in failed
  BY <1>4, RungShape
<1>5. QED
  BY <1>2, <1>3, <1>4

(* Where the walk is then: the next rung, the first one of the next model  *)
(* or client, or at the end of the chain.                                  *)
LEMMA NextRung ==
  ASSUME O!OracleAssumption, O!TypeOK, WalkInv, flight # O!NoFlight, NEW failed,
         \A s \in O!Rungs : Behind(s, flight) => s \in failed,
         \A s \in O!Rungs : s[1] = flight.client /\ s[2] = flight.model /\ s[3] = flight.tries + 1 => s \in failed,
         NEW f \in O!Positions,
         f.client = flight.client, f.model = flight.model, f.tries = flight.tries + 1
  PROVE  AtARung(f) /\ AllBehindFailed(f, failed)
<1>1. flight.client \in 1 .. O!MaxClients /\ flight.model \in 1 .. 2 /\ flight.tries \in 0 .. Attempts - 1
  BY DEF O!TypeOK, O!Positions
<1>2. AtARung(f)
  BY DEF WalkInv, AtARung
<1>3. ASSUME NEW s \in O!Rungs, Behind(s, f) PROVE s \in failed
  <2>1. Behind(s, flight) \/ (s[1] = flight.client /\ s[2] = flight.model /\ s[3] = flight.tries + 1)
    BY <1>1, <1>3, RungShape DEF Behind, O!MaxClients, O!OracleAssumption
  <2>2. QED
    BY <2>1
<1>4. QED
  BY <1>2, <1>3 DEF AllBehindFailed

LEMMA NextLadder ==
  ASSUME O!OracleAssumption, O!TypeOK, WalkInv, flight # O!NoFlight, NEW failed,
         \A s \in O!Rungs : Behind(s, flight) => s \in failed,
         \A s \in O!Rungs : s[1] = flight.client /\ s[2] = flight.model /\ s[3] = flight.tries + 1 => s \in failed,
         ~(flight.tries + 1 < Attempts), O!HasModel(flight) \/ O!HasClient(flight)
  PROVE  /\ AtARung(O!Onward(flight)) /\ AllBehindFailed(O!Onward(flight), failed)
         /\ O!Onward(flight).owner = flight.owner
         /\ O!Onward(flight) \in O!Positions
<1> DEFINE f == O!Onward(flight)
<1>1. /\ flight \in O!Positions
      /\ flight.client \in 1 .. O!MaxClients /\ flight.model \in 1 .. 2 /\ flight.tries = Attempts - 1
      /\ Attempts \in Nat \ {0} /\ O!MaxClients = 4
  BY DEF O!TypeOK, O!Positions, O!OracleAssumption, O!MaxClients
<1>2. Len(chain) \in 0 .. 4
  BY ChainLength DEF O!TypeOK, O!MaxClients
<1>3. flight.client \in 1 .. Len(chain) /\ flight.model \in 1 .. O!Models(chain[flight.client])
  BY DEF WalkInv, AtARung
<1>4. CASE O!HasModel(flight)
  <2>1. f = [flight EXCEPT !.model = flight.model + 1, !.tries = 0]
    BY <1>4 DEF O!Onward
  <2>2. f.owner = flight.owner /\ f.client = flight.client /\ f.model = flight.model + 1 /\ f.tries = 0
    BY <1>1, <2>1
  <2>3. O!Models(chain[flight.client]) \in {1, 2} /\ flight.model < O!Models(chain[flight.client])
    BY <1>4, ModelCount DEF O!HasModel
  <2>4. flight.model + 1 \in 1 .. 2
    BY <1>1, <2>3
  <2>5. f \in O!Positions
    <3>1. [flight EXCEPT !.model = flight.model + 1, !.tries = 0] \in O!Positions
      BY <1>1, <2>4, Moved, Zenon
    <3>2. QED
      BY <2>1, <3>1, Zenon
  <2>6. AtARung(f)
    BY <1>1, <1>3, <2>2, <2>3 DEF AtARung
  <2>7. ASSUME NEW s \in O!Rungs, Behind(s, f) PROVE s \in failed
    <3>1. Behind(s, flight) \/ (s[1] = flight.client /\ s[2] = flight.model /\ s[3] = flight.tries + 1)
      BY <1>1, <2>2, <2>7, RungShape DEF Behind
    <3>2. QED
      BY <3>1
  <2>8. QED
    BY <2>2, <2>5, <2>6, <2>7 DEF AllBehindFailed
<1>5. CASE ~O!HasModel(flight)
  <2>1. f = [flight EXCEPT !.client = flight.client + 1, !.model = 1, !.tries = 0]
    BY <1>5 DEF O!Onward
  <2>2. f.owner = flight.owner /\ f.client = flight.client + 1 /\ f.model = 1 /\ f.tries = 0
    BY <1>1, <2>1
  <2>3. flight.client < Len(chain)
    BY <1>5 DEF O!HasClient
  <2>4. O!Models(chain[flight.client]) \in {1, 2} /\ flight.model = O!Models(chain[flight.client])
    BY <1>1, <1>3, <1>5, ModelCount DEF O!HasModel
  <2>5. f.client \in 1 .. Len(chain) /\ f.client \in 1 .. O!MaxClients
    <3>1. flight.client + 1 \in 1 .. Len(chain) /\ flight.client + 1 \in 1 .. 4
      <4>1. ASSUME NEW c \in 1 .. 4, NEW n \in 0 .. 4, c < n PROVE c + 1 \in 1 .. n /\ c + 1 \in 1 .. 4
        BY <4>1
      <4>2. flight.client \in 1 .. 4
        BY <1>1
      <4>3. QED
        BY <1>2, <2>3, <4>1, <4>2, Zenon
    <3>2. QED
      BY <1>1, <2>2, <3>1
  <2>6. f \in O!Positions
    <3>1. flight.client + 1 \in 1 .. O!MaxClients
      BY <2>2, <2>5, Zenon
    <3>2. [flight EXCEPT !.client = flight.client + 1, !.model = 1, !.tries = 0] \in O!Positions
      BY <1>1, <3>1, Moved, Zenon
    <3>3. QED
      BY <2>1, <3>2, Zenon
  <2>7. AtARung(f)
    BY <2>2, <2>5, ModelCount DEF AtARung
  <2>8. ASSUME NEW s \in O!Rungs, Behind(s, f) PROVE s \in failed
    <3>1. s[1] = flight.client => s[2] <= flight.model
      BY <2>4, RungShape
    <3>2. Behind(s, flight) \/ (s[1] = flight.client /\ s[2] = flight.model /\ s[3] = flight.tries + 1)
      BY <1>1, <2>2, <2>8, <3>1, RungShape DEF Behind
    <3>3. QED
      BY <3>2
  <2>9. QED
    BY <2>2, <2>6, <2>7, <2>8 DEF AllBehindFailed
<1>6. QED
  BY <1>4, <1>5

LEMMA LastRung ==
  ASSUME O!OracleAssumption, O!TypeOK, WalkInv, flight # O!NoFlight, NEW failed,
         \A s \in O!Rungs : Behind(s, flight) => s \in failed,
         \A s \in O!Rungs : s[1] = flight.client /\ s[2] = flight.model /\ s[3] = flight.tries + 1 => s \in failed,
         ~(flight.tries + 1 < Attempts), ~O!HasModel(flight), ~O!HasClient(flight)
  PROVE  O!Rungs \subseteq failed
<1>1. /\ flight.client \in 1 .. O!MaxClients /\ flight.model \in 1 .. 2 /\ flight.tries = Attempts - 1
      /\ Attempts \in Nat \ {0} /\ O!MaxClients = 4
  BY DEF O!TypeOK, O!Positions, O!OracleAssumption, O!MaxClients
<1>2. Len(chain) \in 0 .. 4
  BY ChainLength DEF O!TypeOK, O!MaxClients
<1>3. flight.client \in 1 .. Len(chain) /\ flight.model \in 1 .. O!Models(chain[flight.client])
  BY DEF WalkInv, AtARung
<1>4. flight.client = Len(chain)
  BY <1>1, <1>2, <1>3 DEF O!HasClient
<1>5. O!Models(chain[flight.client]) \in {1, 2} /\ flight.model = O!Models(chain[flight.client])
  BY <1>1, <1>3, ModelCount DEF O!HasModel
<1>6. ASSUME NEW s \in O!Rungs PROVE s \in failed
  <2>1. s[1] <= flight.client /\ (s[1] = flight.client => s[2] <= flight.model)
    BY <1>4, <1>5, RungShape
  <2>2. Behind(s, flight) \/ (s[1] = flight.client /\ s[2] = flight.model /\ s[3] = flight.tries + 1)
    BY <1>1, <2>1, RungShape DEF Behind
  <2>3. QED
    BY <2>2
<1>7. QED
  BY <1>6

-----------------------------------------------------------------------------
(* Oracle: the invariant.                                                  *)

LEMMA OracleConstants ==
  ASSUME O!OracleAssumption
  PROVE  O!NoFacts \in O!Facts /\ O!Nothing \in O!Values /\ O!NoFlight \in O!Positions
         /\ \A val \in O!Values, stage \in {"idle", "wait", "store"} :
              [at |-> stage, val |-> val] \in [at : {"idle", "wait", "store"}, val : O!Values]
         /\ O!Idle.at = "idle" /\ O!Idle.val = O!Nothing /\ O!Nothing.text = "none"
<1>1. O!NoFacts \in O!Facts
  BY DEF O!NoFacts, O!Facts
<1>2. O!Nothing \in O!Values /\ O!Nothing.text = "none"
  BY <1>1 DEF O!Nothing, O!Values
<1>3. O!NoFlight \in O!Positions
  BY DEF O!NoFlight, O!Positions, O!OracleAssumption, O!MaxClients
<1>4. QED
  BY <1>1, <1>2, <1>3 DEF O!Idle

(* The rungs are those of the chain, which no step changes.                *)
LEMMA SameRungs ==
  ASSUME chain' = chain
  PROVE  /\ O!Rungs' = O!Rungs
         /\ \A v : Explained(v) <=> (v.text = "heuristic" => v.of.refused \/ v.of.left \/ O!Rungs' \subseteq v.of.failed)
         /\ facts' = facts /\ flight' = flight => (WalkInv <=> WalkInv')
<1>1. O!Rungs' = O!Rungs
  BY DEF O!Rungs
<1>2. QED
  BY <1>1 DEF Explained, WalkInv, AtARung, AllBehindFailed

LEMMA OracleInit == O!OracleAssumption /\ O!Init => OracleInv
<1> SUFFICES ASSUME O!OracleAssumption, O!Init PROVE OracleInv
  OBVIOUS
<1>1. O!TypeOK
  BY OracleConstants DEF O!Init, O!TypeOK, O!Idle
<1>2. WalkInv
  BY DEF O!Init, WalkInv
<1>3. Explained(O!Nothing)
  BY OracleConstants DEF Explained
<1>4. QED
  BY <1>1, <1>2, <1>3, OracleConstants DEF OracleInv, O!Init

LEMMA LandInv ==
  ASSUME O!OracleAssumption, OracleInv, NEW text \in {"model", "heuristic"}, NEW seen \in O!Facts, O!Land(text, seen),
         text = "heuristic" => seen.refused \/ seen.left \/ O!Rungs \subseteq seen.failed
  PROVE  OracleInv'
<1> DEFINE v == [text |-> text, of |-> seen]
<1>1. v \in O!Values /\ Explained(v)
  BY DEF O!Values, Explained
<1>2. chain' = chain /\ insight' = insight /\ flight' = O!NoFlight /\ gone' = {} /\ facts' = O!NoFacts
  BY DEF O!Land
<1>3. asked' \in [Askers -> [at : {"idle", "wait", "store"}, val : O!Values]]
  BY <1>1 DEF O!Land, OracleInv, O!TypeOK
<1>4. O!TypeOK'
  BY <1>2, <1>3, OracleConstants DEF OracleInv, O!TypeOK
<1>5. WalkInv'
  BY <1>2 DEF WalkInv
<1>6. O!Rungs' = O!Rungs
  BY <1>2, SameRungs
<1>7. \A r \in Askers : asked'[r].val = asked[r].val \/ asked'[r].val = v
  BY DEF O!Land
<1>8. Explained(insight)' /\ \A r \in Askers : Explained(asked'[r].val)
  BY <1>1, <1>2, <1>7 DEF OracleInv, Explained, O!Rungs
<1>9. (\A r \in Askers : Explained(asked[r].val))'
  BY <1>6, <1>8 DEF Explained
<1>10. QED
  BY <1>4, <1>5, <1>8, <1>9 DEF OracleInv

LEMMA AskInv ==
  ASSUME O!OracleAssumption, OracleInv, NEW r \in Askers, O!Ask(r)
  PROVE  OracleInv'
<1>1. chain' = chain /\ insight' = insight /\ gone' = gone /\ facts' = facts
  BY DEF O!Ask
<1>2. O!Rungs' = O!Rungs
  BY <1>1, SameRungs
<1>3. CASE chain = <<>>
  <2> DEFINE v == [text |-> "heuristic", of |-> O!NoFacts]
  <2>1. v \in O!Values
    BY OracleConstants DEF O!Values
  <2>2. O!Rungs = {}
    <3>1. Len(chain) = 0
      BY <1>3
    <3>2. QED
      BY <3>1, RungShape
  <2>3. Explained(v)
    BY <2>2 DEF Explained
  <2>4. /\ asked' = [asked EXCEPT ![r] = [at |-> "store", val |-> v]] /\ flight' = flight
        /\ asked[r].at = "idle"
    BY <1>3 DEF O!Ask
  <2>5. [at |-> "store", val |-> v] \in [at : {"idle", "wait", "store"}, val : O!Values]
    BY <2>1
  <2>6. O!TypeOK'
    BY <1>1, <2>4, <2>5 DEF OracleInv, O!TypeOK
  <2>7. WalkInv'
    BY <1>1, <2>4, SameRungs DEF OracleInv
  <2>8. \A q \in Askers : asked'[q].val = asked[q].val \/ asked'[q].val = v
    BY <2>4 DEF OracleInv, O!TypeOK
  <2>9. QED
    BY <1>1, <1>2, <2>3, <2>6, <2>7, <2>8 DEF OracleInv, Explained
<1>4. CASE chain # <<>>
  <2>1. /\ asked' = [asked EXCEPT ![r].at = "wait"] /\ asked[r].at = "idle"
        /\ flight' = IF flight = O!NoFlight THEN [O!NoFlight EXCEPT !.owner = r] ELSE flight
    BY <1>4 DEF O!Ask
  <2>2. [O!NoFlight EXCEPT !.owner = r] \in O!Positions
    BY OracleConstants DEF O!Positions
  <2>3. [asked[r] EXCEPT !.at = "wait"] \in [at : {"idle", "wait", "store"}, val : O!Values]
    BY DEF OracleInv, O!TypeOK
  <2>4. O!TypeOK'
    BY <1>1, <2>1, <2>2, <2>3 DEF OracleInv, O!TypeOK
  <2>5. WalkInv'
    <3>1. CASE flight = O!NoFlight
      <4> DEFINE f == [O!NoFlight EXCEPT !.owner = r]
      <4>1. AtARung(f) /\ AllBehindFailed(f, facts.failed)
        BY <1>4, FirstRung DEF OracleInv
      <4>2. flight' = f
        BY <2>1, <3>1
      <4>3. QED
        BY <1>1, <1>2, <4>1, <4>2 DEF WalkInv, AtARung, AllBehindFailed
    <3>2. CASE flight # O!NoFlight
      <4>1. flight' = flight
        BY <2>1, <3>2
      <4>2. QED
        BY <1>1, <4>1, SameRungs DEF OracleInv
    <3>3. QED
      BY <3>1, <3>2
  <2>6. \A q \in Askers : asked'[q].val = asked[q].val
    BY <2>1 DEF OracleInv, O!TypeOK
  <2>7. QED
    BY <1>1, <1>2, <2>4, <2>5, <2>6 DEF OracleInv, Explained
<1>5. QED
  BY <1>3, <1>4

(* No value changes and the walk goes on.                                  *)
LEMMA KeptValues ==
  ASSUME OracleInv, UNCHANGED <<chain, asked, insight>>, O!TypeOK', WalkInv'
  PROVE  OracleInv'
<1>1. O!Rungs' = O!Rungs
  BY SameRungs
<1>2. QED
  BY <1>1 DEF OracleInv, Explained

LEMMA LeaveInv ==
  ASSUME O!OracleAssumption, OracleInv, NEW r \in Askers, O!Leave(r)
  PROVE  OracleInv'
<1>1. UNCHANGED <<chain, asked, flight, insight, facts>> /\ gone' = gone \cup {r} /\ asked[r].at = "wait"
  BY DEF O!Leave
<1>2. O!TypeOK'
  BY <1>1 DEF OracleInv, O!TypeOK
<1>3. WalkInv'
  BY <1>1, SameRungs DEF OracleInv
<1>4. QED
  BY <1>1, <1>2, <1>3, KeptValues

LEMMA SeenFacts ==
  ASSUME NEW failed \in SUBSET O!Failures, NEW refused \in BOOLEAN
  PROVE  /\ O!Seen(failed, refused) \in O!Facts
         /\ O!Seen(failed, refused).failed = failed
         /\ O!Seen(failed, refused).refused = refused
         /\ O!Seen(failed, refused).left = O!Left
<1>1. O!Left \in BOOLEAN
  BY DEF O!Left
<1>2. QED
  BY <1>1 DEF O!Seen, O!Facts

LEMMA FailInv ==
  ASSUME O!OracleAssumption, OracleInv, flight # O!NoFlight,
         O!Fail(facts.failed \cup {<<flight.client, flight.model, flight.tries + 1>>})
  PROVE  OracleInv'
<1> DEFINE failed == facts.failed \cup {<<flight.client, flight.model, flight.tries + 1>>}
<1>1. /\ failed \in SUBSET O!Failures
      /\ \A s \in O!Rungs : Behind(s, flight) => s \in failed
      /\ \A s \in O!Rungs : s[1] = flight.client /\ s[2] = flight.model /\ s[3] = flight.tries + 1 => s \in failed
  BY AttemptFails DEF OracleInv
<1>2. O!TypeOK /\ WalkInv /\ flight \in O!Positions /\ facts \in O!Facts
  BY DEF OracleInv, O!TypeOK
<1>3. CASE flight.tries + 1 < Attempts
  <2> DEFINE f == [flight EXCEPT !.tries = flight.tries + 1]
  <2>1. flight' = f /\ facts' = [facts EXCEPT !.failed = failed] /\ UNCHANGED <<chain, asked, gone, insight>>
    BY <1>3 DEF O!Fail
  <2>2. flight.tries + 1 \in 0 .. Attempts - 1
    BY <1>2, <1>3 DEF O!Positions, O!OracleAssumption
  <2>3. f \in O!Positions
    BY <1>2, <2>2 DEF O!Positions
  <2>4. f.client = flight.client /\ f.model = flight.model /\ f.tries = flight.tries + 1
    BY <1>2 DEF O!Positions
  <2>5. AtARung(f) /\ AllBehindFailed(f, failed)
    BY <1>1, <1>2, <2>3, <2>4, NextRung
  <2>6. facts' \in O!Facts /\ facts'.failed = failed
    BY <1>1, <1>2, <2>1 DEF O!Facts
  <2>7. O!TypeOK'
    BY <1>2, <2>1, <2>3, <2>6 DEF O!TypeOK
  <2>8. WalkInv'
    <3>1. O!Rungs' = O!Rungs
      BY <2>1, SameRungs
    <3>2. QED
      BY <2>1, <2>5, <2>6, <3>1 DEF WalkInv, AtARung, AllBehindFailed
  <2>9. QED
    BY <2>1, <2>7, <2>8, KeptValues
<1>4. CASE ~(flight.tries + 1 < Attempts) /\ ~O!Left /\ (O!HasModel(flight) \/ O!HasClient(flight))
  <2> DEFINE f == O!Onward(flight)
  <2>1. flight' = f /\ facts' = [facts EXCEPT !.failed = failed] /\ UNCHANGED <<chain, asked, gone, insight>>
    BY <1>4 DEF O!Fail
  <2>2. AtARung(f) /\ AllBehindFailed(f, failed) /\ f \in O!Positions
    BY <1>1, <1>2, <1>4, NextLadder
  <2>3. facts' \in O!Facts /\ facts'.failed = failed
    BY <1>1, <1>2, <2>1 DEF O!Facts
  <2>4. O!TypeOK'
    BY <1>2, <2>1, <2>2, <2>3 DEF O!TypeOK
  <2>5. WalkInv'
    <3>1. O!Rungs' = O!Rungs
      BY <2>1, SameRungs
    <3>2. QED
      BY <2>1, <2>2, <2>3, <3>1 DEF WalkInv, AtARung, AllBehindFailed
  <2>6. QED
    BY <2>1, <2>4, <2>5, KeptValues
<1>5. CASE ~(flight.tries + 1 < Attempts) /\ ~(~O!Left /\ (O!HasModel(flight) \/ O!HasClient(flight)))
  <2>1. O!Land("heuristic", O!Seen(failed, FALSE))
    BY <1>5 DEF O!Fail
  <2>2. O!Seen(failed, FALSE) \in O!Facts /\ O!Seen(failed, FALSE).failed = failed /\ O!Seen(failed, FALSE).left = O!Left
    BY <1>1, SeenFacts
  <2>3. O!Left \/ O!Rungs \subseteq failed
    BY <1>1, <1>2, <1>5, LastRung
  <2>4. QED
    BY <2>1, <2>2, <2>3, LandInv
<1>6. QED
  BY <1>3, <1>4, <1>5

LEMMA OtherAnswers ==
  ASSUME NEW c, NEW a \in O!Answers, O!Once(c, a) # "text", O!Once(c, a) # "transient"
  PROVE  a \in {"blank", "malformed", "refusal"}
BY DEF O!Once, O!GeminiOnce, O!AnthropicOnce, O!CompatibleOnce, O!Answers

LEMMA AttemptInv ==
  ASSUME O!OracleAssumption, OracleInv, NEW a \in O!Answers, O!Attempt(a)
  PROVE  OracleInv'
<1> DEFINE out == O!Once(chain[flight.client], a)
<1>1. flight # O!NoFlight /\ facts.failed \in SUBSET O!Failures
  BY DEF O!Attempt, OracleInv, O!TypeOK, O!Facts
<1>2. CASE out = "text"
  <2>1. O!Land("model", O!NoFacts)
    BY <1>2 DEF O!Attempt
  <2>2. QED
    BY <2>1, OracleConstants, LandInv
<1>3. CASE out = "transient"
  <2>1. O!Fail(facts.failed \cup {<<flight.client, flight.model, flight.tries + 1>>})
    BY <1>3 DEF O!Attempt
  <2>2. QED
    BY <1>1, <2>1, FailInv
<1>4. CASE out # "text" /\ out # "transient"
  <2>1. O!Land("heuristic", O!Seen(facts.failed, a \in {"blank", "malformed", "refusal"}))
    BY <1>4 DEF O!Attempt
  <2>2. a \in {"blank", "malformed", "refusal"}
    BY <1>4, OtherAnswers
  <2>3. O!Seen(facts.failed, TRUE) \in O!Facts /\ O!Seen(facts.failed, TRUE).refused
    BY <1>1, SeenFacts
  <2>4. O!Land("heuristic", O!Seen(facts.failed, TRUE))
    BY <2>1, <2>2
  <2>5. QED
    BY <2>3, <2>4, LandInv
<1>5. QED
  BY <1>2, <1>3, <1>4

LEMMA GiveUpInv ==
  ASSUME O!OracleAssumption, OracleInv, O!GiveUp
  PROVE  OracleInv'
<1>1. O!Left /\ O!Land("heuristic", O!Seen(facts.failed, FALSE)) /\ facts.failed \in SUBSET O!Failures
  BY DEF O!GiveUp, OracleInv, O!TypeOK, O!Facts
<1>2. O!Seen(facts.failed, FALSE) \in O!Facts /\ O!Seen(facts.failed, FALSE).left
  BY <1>1, SeenFacts
<1>3. QED
  BY <1>1, <1>2, LandInv

LEMMA StoreInv ==
  ASSUME O!OracleAssumption, OracleInv, NEW r \in Askers, O!Store(r)
  PROVE  OracleInv'
<1>1. /\ asked' = [asked EXCEPT ![r] = O!Idle] /\ insight' \in {insight, asked[r].val}
      /\ UNCHANGED <<chain, gone, flight, facts>> /\ asked[r].at = "store"
  BY DEF O!Store
<1>2. O!Idle \in [at : {"idle", "wait", "store"}, val : O!Values]
  BY OracleConstants DEF O!Idle
<1>3. O!TypeOK'
  BY <1>1, <1>2 DEF OracleInv, O!TypeOK
<1>4. WalkInv' /\ O!Rungs' = O!Rungs
  BY <1>1, SameRungs DEF OracleInv
<1>5. Explained(O!Nothing)
  BY OracleConstants DEF Explained
<1>6. \A q \in Askers : asked'[q].val = asked[q].val \/ asked'[q].val = O!Nothing
  BY <1>1, OracleConstants DEF OracleInv, O!TypeOK
<1>7. QED
  BY <1>1, <1>3, <1>4, <1>5, <1>6 DEF OracleInv, Explained

LEMMA ForgetInv ==
  ASSUME O!OracleAssumption, OracleInv, O!Forget
  PROVE  OracleInv'
<1>1. insight' = O!Nothing /\ UNCHANGED <<chain, asked, gone, flight, facts>>
  BY DEF O!Forget
<1>2. O!TypeOK'
  BY <1>1, OracleConstants DEF OracleInv, O!TypeOK
<1>3. WalkInv' /\ O!Rungs' = O!Rungs
  BY <1>1, SameRungs DEF OracleInv
<1>4. insight'.text = "none"
  BY <1>1, OracleConstants
<1>5. QED
  BY <1>1, <1>2, <1>3, <1>4 DEF OracleInv, Explained

LEMMA RestartInv ==
  ASSUME O!OracleAssumption, OracleInv, O!Restart
  PROVE  OracleInv'
<1>1. /\ asked' = [r \in Askers |-> O!Idle] /\ gone' = {} /\ flight' = O!NoFlight /\ facts' = O!NoFacts
      /\ UNCHANGED <<chain, insight>>
  BY DEF O!Restart
<1>2. O!Idle \in [at : {"idle", "wait", "store"}, val : O!Values]
  BY OracleConstants DEF O!Idle
<1>3. O!TypeOK'
  BY <1>1, <1>2, OracleConstants DEF OracleInv, O!TypeOK
<1>4. WalkInv' /\ O!Rungs' = O!Rungs
  BY <1>1, SameRungs DEF WalkInv
<1>5. \A r \in Askers : asked'[r].val.text = "none"
  BY <1>1, OracleConstants
<1>6. QED
  BY <1>1, <1>3, <1>4, <1>5 DEF OracleInv, Explained

LEMMA OracleNext == O!OracleAssumption /\ OracleInv /\ [O!Next]_(O!vars) => OracleInv'
<1> SUFFICES ASSUME O!OracleAssumption, OracleInv, [O!Next]_(O!vars) PROVE OracleInv'
  OBVIOUS
<1>1. ASSUME NEW r \in Askers, O!Ask(r) PROVE OracleInv'
  BY <1>1, AskInv
<1>2. ASSUME NEW r \in Askers, O!Leave(r) PROVE OracleInv'
  BY <1>2, LeaveInv
<1>3. ASSUME NEW r \in Askers, O!Store(r) PROVE OracleInv'
  BY <1>3, StoreInv
<1>4. ASSUME NEW a \in O!Answers, O!Attempt(a) PROVE OracleInv'
  BY <1>4, AttemptInv
<1>5. CASE O!GiveUp
  BY <1>5, GiveUpInv
<1>6. CASE O!Forget
  BY <1>6, ForgetInv
<1>7. CASE O!Restart
  BY <1>7, RestartInv
<1>8. CASE UNCHANGED O!vars
  <2>1. UNCHANGED <<chain, asked, gone, flight, insight, facts>>
    BY <1>8 DEF O!vars
  <2>2. O!TypeOK' /\ WalkInv'
    BY <2>1, SameRungs DEF OracleInv, O!TypeOK
  <2>3. QED
    BY <2>1, <2>2, KeptValues
<1>9. QED
  BY <1>1, <1>2, <1>3, <1>4, <1>5, <1>6, <1>7, <1>8 DEF O!Next

LEMMA OracleHolds == O!OracleAssumption
BY RecordsAssumption DEF O!OracleAssumption

\* Every variable of the insight keeps its type, for any number of requests, any deployment and ladders of any length.
THEOREM OracleTypeCorrect == O!Spec => []O!TypeOK
<1>1. OracleInv => O!TypeOK
  BY DEF OracleInv
<1>2. QED
  BY <1>1, OracleHolds, OracleInit, OracleNext, PTL DEF O!Spec

\* The heuristic takes a model's place in the cache only after a refusal, after the request that began the walk left,
\* or once every rung of every ladder has failed (FallbackLLMClient, retryLLMCall, summarize).
THEOREM HeuristicIsAlwaysExplained == O!Spec => []HeuristicIsExplained
<1>1. OracleInv => HeuristicIsExplained
  BY DEF OracleInv, Explained, HeuristicIsExplained, O!HeuristicIsExplained
<1>2. QED
  BY <1>1, OracleHolds, OracleInit, OracleNext, PTL DEF O!Spec

-----------------------------------------------------------------------------
(* The parts together.                                                     *)

\* Accounts, roles, ingests, bars, curves and the walk keep their types side by side.
THEOREM RecordsTypeCorrect ==
  Spec /\ R!Spec /\ I!Spec /\ B!Spec /\ C!Spec /\ O!Spec => []RecordsTypeOK
<1>1. TypeOK /\ R!TypeOK /\ I!TypeOK /\ B!TypeOK /\ C!TypeOK /\ O!TypeOK => RecordsTypeOK
  BY DEF RecordsTypeOK
<1>2. QED
  BY <1>1, TypeCorrect, RolesTypeCorrect, IngestTypeCorrect, BarsTypeCorrect, CurveTypeCorrect, OracleTypeCorrect, PTL
=============================================================================
