-------------------------------- MODULE Roles --------------------------------
(***************************************************************************)
(* Who may do what: pro-role requests (server/pro_request_handlers.go), the *)
(* administrators' user table with its guards against locking everyone out *)
(* (server/admin_handlers.go), the merge of two accounts, which deletes one *)
(* (server/auth_handlers.go), and the administrator made at the first start *)
(* (cmd/server/main.go).  An administrator's request is authorised when it  *)
(* arrives, by the role in his token, and writes later.                     *)
(***************************************************************************)
EXTENDS Naturals, FiniteSets

CONSTANTS
  Accounts,
  Boss,         \* the bootstrap administrator
  Others,       \* the accounts that exist beside him at the start
  Requests,     \* ids of pro_role_requests, in no order
  Procs,        \* handler goroutines
  MaxOps,       \* bound: requests in a behaviour
  None

VARIABLES
  account,      \* the users table
  claims,       \* the role in the token each account holds, None when it was revoked
  request,      \* pro_role_requests
  proc,         \* handlers in progress
  ops,          \* requests so far
  crossed,      \* history: an administrator changed a role or deleted an account after losing his own role
  merged        \* history: an administrator merged his account into one that is no administrator's

vars == <<account, claims, request, proc, ops, crossed, merged>>

RoleNames == {"user", "pro", "analyst", "bot", "admin"}

Account == [live : BOOLEAN, role : RoleNames, locked : BOOLEAN]
Request == [state : {"unborn", "pending", "approved", "denied", "erased"},
            user : Accounts \cup {None}, by : Accounts \cup {None}]
Proc == [at : {"idle", "setRole", "delete", "lock", "unlock", "revoke", "submit", "decide", "merge"},
         actor : Accounts \cup {None}, user : Accounts \cup {None},
         role : RoleNames \cup {None}, req : Requests \cup {None}, approve : BOOLEAN]

Idle == [at |-> "idle", actor |-> None, user |-> None, role |-> None, req |-> None, approve |-> FALSE]

TypeOK ==
  /\ account \in [Accounts -> Account]
  /\ claims \in [Accounts -> RoleNames \cup {None}]
  /\ request \in [Requests -> Request]
  /\ \A r, q \in Requests :   \* the partial unique index
       request[r].state = "pending" /\ request[q].state = "pending" /\ r # q => request[r].user # request[q].user
  /\ proc \in [Procs -> Proc]
  /\ ops \in Nat
  /\ crossed \in BOOLEAN /\ merged \in BOOLEAN

\* ensureAdminUser: the table was empty, so the bootstrap administrator exists; others have signed up since.
Init ==
  /\ account = [a \in Accounts |-> [live |-> a = Boss \/ a \in Others,
                                    role |-> IF a = Boss THEN "admin" ELSE "user", locked |-> FALSE]]
  /\ claims = [a \in Accounts |-> None]
  /\ request = [r \in Requests |-> [state |-> "unborn", user |-> None, by |-> None]]
  /\ proc = [p \in Procs |-> Idle]
  /\ ops = 0
  /\ crossed = FALSE /\ merged = FALSE

IsAdmin(a) == account[a].live /\ account[a].role = "admin"

Begin(p, c) ==
  /\ proc[p].at = "idle" /\ ops < MaxOps
  /\ ops' = ops + 1
  /\ proc' = [proc EXCEPT ![p] = c]
  /\ UNCHANGED <<account, claims, request, crossed, merged>>

Return(p) == proc' = [proc EXCEPT ![p] = Idle]

\* The write of an administrator who is one no longer.
Cross(p) == crossed' = (crossed \/ ~IsAdmin(proc[p].actor))

\* Any statement may fail; the handler answers and nothing is written.
Fails(p) ==
  /\ proc[p].at # "idle"
  /\ Return(p)
  /\ UNCHANGED <<account, claims, request, ops, crossed, merged>>

\* A login, and the token it brings.
SignIn(a) ==
  /\ account[a].live /\ ~account[a].locked /\ claims[a] # account[a].role
  /\ claims' = [claims EXCEPT ![a] = account[a].role]
  /\ UNCHANGED <<account, request, proc, ops, crossed, merged>>

-----------------------------------------------------------------------------
(* The administrators' user table.                                         *)

\* HandleAdminUserUpdateRole: nobody demotes himself.
AskRole(p, b, u, r) ==
  /\ claims[b] = "admin" /\ (b = u => r = "admin")
  /\ Begin(p, [Idle EXCEPT !.at = "setRole", !.actor = b, !.user = u, !.role = r])

SetRole(p) ==
  LET u == proc[p].user
  IN /\ proc[p].at = "setRole"
     /\ account' = IF account[u].live THEN [account EXCEPT ![u].role = proc[p].role] ELSE account
     /\ proc' = [proc EXCEPT ![p].at = "revoke"]
     /\ Cross(p)
     /\ UNCHANGED <<claims, request, ops, merged>>

AskDeleteAnyone(p, b, u) ==
  /\ claims[b] = "admin"
  /\ Begin(p, [Idle EXCEPT !.at = "delete", !.actor = b, !.user = u])

\* HandleAdminUserDelete: nobody deletes himself.
AskDelete(p, b, u) ==
  /\ claims[b] = "admin" /\ b # u
  /\ Begin(p, [Idle EXCEPT !.at = "delete", !.actor = b, !.user = u])

\* A deleted account's requests go with its row; those it decided have no decider.
RequestsWithout(u) ==
  [r \in Requests |->
     IF request[r].user = u THEN [request[r] EXCEPT !.state = "erased"]
     ELSE IF request[r].by = u THEN [request[r] EXCEPT !.by = None] ELSE request[r]]

DeleteAccount(p) ==
  LET u == proc[p].user
  IN /\ proc[p].at = "delete"
     /\ account' = [account EXCEPT ![u].live = FALSE]
     /\ request' = RequestsWithout(u)
     /\ proc' = [proc EXCEPT ![p].at = "revoke"]
     /\ Cross(p)
     /\ UNCHANGED <<claims, ops, merged>>

\* HandleAdminUserToggleLock: no guard at all; only a lock revokes.
AskLock(p, b, u) ==
  /\ claims[b] = "admin"
  /\ \E at \in {"lock", "unlock"} : Begin(p, [Idle EXCEPT !.at = at, !.actor = b, !.user = u])

ToggleLock(p) ==
  LET u == proc[p].user
  IN /\ proc[p].at \in {"lock", "unlock"}
     /\ account' = IF account[u].live THEN [account EXCEPT ![u].locked = (proc[p].at = "lock")] ELSE account
     /\ IF proc[p].at = "lock" THEN proc' = [proc EXCEPT ![p].at = "revoke"] ELSE Return(p)
     /\ UNCHANGED <<claims, request, ops, crossed, merged>>

\* revokeUserSessions; its failure (Fails) leaves the tokens as they are.
Revoke(p) ==
  /\ proc[p].at = "revoke"
  /\ claims' = [claims EXCEPT ![proc[p].user] = None]
  /\ Return(p)
  /\ UNCHANGED <<account, request, ops, crossed, merged>>

-----------------------------------------------------------------------------
(* Merging: the signed-in account is deleted, whatever its role.           *)

\* HandleMergeAccount reads the target's role and lock with its password; the source is read again below.
\* Any account may be linked to a provider, which is all that is asked of the source.
AskMerge(p, u, v) ==
  /\ claims[u] # None /\ u # v
  /\ account[v].live /\ ~account[v].locked
  /\ Begin(p, [Idle EXCEPT !.at = "merge", !.actor = u, !.user = v, !.role = account[v].role])

\* TransferProvider deletes the source, be the target still there or not; the answer signs the target in,
\* with the role read before.  The source's tokens are not revoked.
MergeAccount(p) ==
  LET u == proc[p].actor
      v == proc[p].user
  IN /\ proc[p].at = "merge"
     /\ IF account[u].live
        THEN /\ account' = [account EXCEPT ![u].live = FALSE]
             /\ request' = RequestsWithout(u)
             /\ claims' = [claims EXCEPT ![v] = proc[p].role]
             /\ merged' = (merged \/ (IsAdmin(u) /\ ~IsAdmin(v)))
        ELSE UNCHANGED <<account, request, claims, merged>>
     /\ Return(p)
     /\ UNCHANGED <<ops, crossed>>

-----------------------------------------------------------------------------
(* Pro requests.                                                           *)

\* HandleCreateProRequest trusts the role in the token.
AskPro(p, u) ==
  /\ claims[u] = "user"
  /\ Begin(p, [Idle EXCEPT !.at = "submit", !.actor = u, !.user = u])

NonePending(u) == account[u].live /\ \A r \in Requests : request[r].user = u => request[r].state # "pending"

\* CreateProRoleRequest: the partial unique index allows one pending request per account.
Submit(p) ==
  LET u == proc[p].user
  IN /\ proc[p].at = "submit"
     /\ IF NonePending(u)
        THEN \E r \in Requests :
               /\ request[r].state = "unborn"
               /\ request' = [request EXCEPT ![r] = [state |-> "pending", user |-> u, by |-> None]]
        ELSE UNCHANGED request
     /\ Return(p)
     /\ UNCHANGED <<account, claims, ops, crossed, merged>>

\* HandleAdminDecideProRequest takes any id and any decision.
AskDecide(p, b, r, yes) ==
  /\ claims[b] = "admin" /\ request[r].state # "unborn"
  /\ Begin(p, [Idle EXCEPT !.at = "decide", !.actor = b, !.req = r, !.approve = yes])

AlwaysPro(u) == "pro"
\* Only 'user' is raised: an account that was given another role meanwhile keeps it.
Promoted(u) == IF account[u].role = "user" THEN "pro" ELSE account[u].role

\* DecideProRoleRequest: one transaction, the request's row locked; decided_by must exist.
Decide(p) ==
  LET b == proc[p].actor
      r == proc[p].req
      u == request[r].user
      yes == proc[p].approve
  IN /\ proc[p].at = "decide"
     /\ IF request[r].state = "pending" /\ u # b /\ account[b].live
        THEN /\ request' = [request EXCEPT ![r] = [state |-> IF yes THEN "approved" ELSE "denied", user |-> u,
                                                   by |-> b]]
             /\ account' = IF yes THEN [account EXCEPT ![u].role = Promoted(u)] ELSE account
        ELSE UNCHANGED <<request, account>>
     /\ Return(p)
     /\ UNCHANGED <<claims, ops, crossed, merged>>

-----------------------------------------------------------------------------
Arrival(p) ==
  \E b \in Accounts :
    \/ AskPro(p, b)
    \/ \E r \in Requests, yes \in BOOLEAN : AskDecide(p, b, r, yes)
    \/ \E u \in Accounts :
         \/ AskDelete(p, b, u) \/ AskLock(p, b, u) \/ AskMerge(p, b, u)
         \/ \E r \in RoleNames : AskRole(p, b, u, r)

Step(p) == \/ SetRole(p) \/ DeleteAccount(p) \/ ToggleLock(p) \/ Revoke(p) \/ MergeAccount(p)
           \/ Submit(p) \/ Decide(p) \/ Fails(p)

Next == \/ \E p \in Procs : Arrival(p) \/ Step(p)
        \/ \E a \in Accounts : SignIn(a)

Spec == Init /\ [][Next]_vars

-----------------------------------------------------------------------------
(* Properties.                                                             *)

\* The guards of the user table keep an administrator ("no in-app recovery path" otherwise).  There are two ways
\* around them and no third: a write that lands after its author lost the role himself, as when two administrators
\* remove each other, and a merge, which deletes an administrator's account like any other.
AdminRemains == crossed \/ merged \/ \E a \in Accounts : IsAdmin(a)

\* A request is decided once, never by its own author, and an approval leaves its author elevated in the
\* same step; apart from that only an administrator's role change touches a role, so no approval demotes.
WholeDecision ==
  /\ \A r \in Requests :
       LET old == request[r]
           new == request'[r]
       IN /\ old.state \in {"approved", "denied"} => new.state \in {old.state, "erased"}
          /\ (old.state = "pending" /\ new.state \in {"approved", "denied"}) => new.by # new.user
          /\ (old.state = "pending" /\ new.state = "approved") => account'[new.user].role # "user"
  /\ \A a \in Accounts :
       account'[a].role # account[a].role =>
         \/ \E p \in Procs : proc[p].at = "setRole" /\ proc[p].user = a
         \/ account[a].role = "user" /\ account'[a].role = "pro"
            /\ \E r \in Requests : request[r].user = a /\ request[r].state # request'[r].state
DecisionIsWhole == [][WholeDecision]_vars
=============================================================================
