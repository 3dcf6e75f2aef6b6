------------------------------ MODULE Sessions ------------------------------
(***************************************************************************)
(* The sessions of the GSE Terminal: what a browser's two cookies (a 24h   *)
(* access JWT and a 90d refresh token) let it do while administrators      *)
(* change roles, lock and delete accounts.                                 *)
(*                                                                         *)
(* Postgres keeps the accounts; Redis keeps the per-user session epoch,    *)
(* the lock sentinels, the refresh records and the revoked JWT ids; a JWT  *)
(* carries its own claims.  Every Redis or Postgres call is a step of its  *)
(* own, so requests, logins and administrators interleave between any two. *)
(* An optional value is a set with at most one element.                    *)
(***************************************************************************)
EXTENDS Integers, FiniteSets

CONSTANTS
  Users,          \* accounts under study
  Browsers,       \* cookie jars
  Conns,          \* request-handling goroutines
  Admins,         \* goroutines running an administrator's request
  Roles,          \* the roles an administrator may set
  AdminOps,       \* the administrator operations of this instance
  InitLinked,     \* accounts created through an OAuth provider
  RedisMayFail,   \* may a Redis call fail (outage, cancelled request context)?
  TimePasses,     \* which lifetimes may end: "jwt" (24h), "refresh" (90d), "cookies" (cleared by hand)
  MaxSerial,      \* bound: credentials issued
  MaxEpoch        \* bound: session-epoch bumps per user

AllRoles == {"user", "pro", "analyst", "bot", "admin"}

ASSUME SessionsAssumption ==
  /\ Roles \subseteq AllRoles
  /\ AdminOps \subseteq {"role", "lock", "unlock", "delete", "approve"}
  /\ InitLinked \subseteq Users
  /\ RedisMayFail \in BOOLEAN
  /\ TimePasses \subseteq {"jwt", "refresh", "cookies"}
  /\ MaxSerial \in Nat /\ MaxEpoch \in Nat

VARIABLES
  role, status, linked,               \* Postgres: users.role, users.is_locked / row gone, users.provider
  epoch, lockMark, refresh, revoked,  \* Redis
  serial, expired,                    \* credentials issued; JWTs past their exp
  jar,                                \* each browser's cookies
  conn,                               \* each request in progress
  adm,                                \* each administrator operation in progress
  missed,                             \* history: users whose last revocation was never followed by a bump
  late,                               \* history: administrators whose mirroring a later toggle of the account overtook
  torn,                               \* history: users whose last toggle was not the last to reach the sentinel
  mixed                               \* history: browsers whose access token came without the refresh token they hold

postgres == <<role, status, linked>>
redis    == <<epoch, lockMark, refresh, revoked>>
clock    == <<serial, expired>>
toggles  == <<late, torn>>
vars     == <<postgres, redis, clock, jar, conn, adm, missed, toggles, mixed>>

(* The identity a JWT and a refresh record both carry.  straddled is       *)
(* history: the epoch moved between reading the account row and reading    *)
(* the epoch the credential is stamped with.                               *)
Cred    == [user : Users, role : AllRoles, sess : Nat, straddled : BOOLEAN]
Jwt     == [jti : Nat, cred : Cred]
Refresh == [rid : Nat, cred : Cred]

(* What a role opens: AdminMiddleware and RequireProOrAdmin are the gates. *)
Rank(r) == IF r = "admin" THEN 2 ELSE IF r = "pro" THEN 1 ELSE 0

ConnPC == {"idle", "lookup", "locked", "epoch", "drop", "check", "handler",
           "target", "provider", "transfer", "stamp", "issue", "forget", "reply"}

IdleConn ==
  [pc |-> "idle", op |-> "get", from |-> {}, jwt |-> {}, rid |-> {},
   cred |-> {}, old |-> {}, sets |-> {}, newJwt |-> {}, newRid |-> {},
   floor |-> [u \in Users |-> 0], out |-> {}, failOpen |-> FALSE]

IdleAdm == [pc |-> "idle", op |-> "role", user |-> {}]

Init ==
  /\ role = [u \in Users |-> "user"]
  /\ status = [u \in Users |-> "active"]
  /\ linked = InitLinked
  /\ epoch = [u \in Users |-> 0]
  /\ lockMark = {} /\ refresh = {} /\ revoked = {}
  /\ serial = 0 /\ expired = {}
  /\ jar = [b \in Browsers |-> [session |-> {}, rid |-> {}]]
  /\ conn = [c \in Conns |-> IdleConn]
  /\ adm = [a \in Admins |-> IdleAdm]
  /\ missed = {} /\ late = {} /\ torn = {} /\ mixed = {}

Live(js) == {j \in js : j.jti \notin expired}
Held(rs) == {r \in refresh : r.rid \in rs}
InFlight(u) == {a \in Admins : u \in adm[a].user}

(* Room for n more credentials beside those the requests in progress may   *)
(* mint: one by a renewal or a login, two by a renewal and a merge.        *)
Busy(op) == {c \in Conns : conn[c].pc # "idle" /\ conn[c].op = op}
Room(n) ==
  serial + Cardinality(Busy("get") \union Busy("login")) + 2 * Cardinality(Busy("merge")) + n
    <= MaxSerial

-----------------------------------------------------------------------------
(* Requests behind AuthService.Middleware.                                 *)

(* A request arrives with a copy of its browser's cookies: an unexpired    *)
(* JWT goes to the session check, an expired or absent one to the silent   *)
(* refresh, no cookie at all to the handler as a guest.                    *)
Arrive(c, b, op) ==
  /\ conn[c].pc = "idle"
  /\ op \in {"get", "merge"} /\ (op = "merge" => linked # {})
  /\ Room(IF op = "merge" THEN 2 ELSE 1) \/ Live(jar[b].session) # {} \/ jar[b].rid = {}
  /\ LET js == jar[b].session
     IN  conn' = [conn EXCEPT ![c] =
           [IdleConn EXCEPT
              !.pc = IF Live(js) # {} THEN "check"
                     ELSE IF jar[b].rid # {} THEN "lookup"
                     ELSE IF js # {} THEN "drop" ELSE "handler",
              !.op = op, !.from = {b}, !.jwt = js, !.rid = jar[b].rid,
              !.cred = {j.cred : j \in Live(js)}, !.floor = epoch, !.out = revoked \intersect {j.jti : j \in js}]]
  /\ UNCHANGED <<postgres, redis, clock, jar, adm, missed, toggles, mixed>>

(* LookupRefreshToken: the identity cached at login, or a failed refresh.  *)
LookupRefresh(c) ==
  /\ conn[c].pc = "lookup"
  /\ \/ \E r \in Held(conn[c].rid) :
          conn' = [conn EXCEPT ![c] = [@ EXCEPT !.pc = "locked", !.cred = {r.cred}]]
     \/ /\ Held(conn[c].rid) = {} \/ RedisMayFail
        /\ conn' = [conn EXCEPT ![c] = [@ EXCEPT !.pc = "drop"]]
  /\ UNCHANGED <<postgres, redis, clock, jar, adm, missed, toggles, mixed>>

(* IsUserLocked: a Redis error counts as not locked.                       *)
CheckLocked(c) ==
  /\ conn[c].pc = "locked"
  /\ \E x \in conn[c].cred :
       \/ /\ x.user \in lockMark
          /\ conn' = [conn EXCEPT ![c] = [@ EXCEPT !.pc = "drop"]]
       \/ /\ x.user \notin lockMark \/ RedisMayFail
          /\ conn' = [conn EXCEPT ![c] = [@ EXCEPT !.pc = "epoch"]]
  /\ UNCHANGED <<postgres, redis, clock, jar, adm, missed, toggles, mixed>>

RenewableAlways(x) == TRUE

(* silentRefresh takes a refresh record only under the current epoch.      *)
Renewable(x) == x.sess = epoch[x.user]

(* The epoch comparison, which fails closed, and the JWT minted from the   *)
(* cached identity.  A request that came without an access token is served *)
(* at once; one that came with an expired token is still checked.          *)
RenewJwt(c) ==
  /\ conn[c].pc = "epoch"
  /\ \E x \in conn[c].cred :
       \/ /\ Renewable(x)
          /\ serial' = serial + 1
          /\ conn' = [conn EXCEPT ![c] =
                        [@ EXCEPT !.pc = IF conn[c].jwt = {} THEN "handler" ELSE "check",
                                  !.newJwt = {[jti |-> serial + 1,
                                               cred |-> [x EXCEPT !.sess = epoch[x.user]]]},
                                  !.sets = {"session"}]]
       \/ /\ ~Renewable(x) \/ RedisMayFail
          /\ conn' = [conn EXCEPT ![c] = [@ EXCEPT !.pc = "drop"]]
          /\ UNCHANGED serial
  /\ UNCHANGED <<postgres, redis, expired, jar, adm, missed, toggles, mixed>>

(* A failed refresh: the record is deleted (best effort) and the cookies   *)
(* that were presented are cleared; the request goes on as a guest.        *)
DropRefresh(c) ==
  /\ conn[c].pc = "drop"
  /\ \/ refresh' = refresh \ Held(conn[c].rid)
     \/ RedisMayFail /\ UNCHANGED refresh
  /\ conn' = [conn EXCEPT ![c] =
                [@ EXCEPT !.pc = "handler", !.cred = {},
                          !.sets = {"refresh"} \union (IF conn[c].jwt = {} THEN {} ELSE {"session"})]]
  /\ UNCHANGED <<postgres, epoch, lockMark, revoked, clock, jar, adm, missed, toggles, mixed>>

StaleIgnoringRevocation(j) == j.cred.sess # epoch[j.cred.user]

(* A JWT the session check refuses.                                        *)
Stale(j) == j.jti \in revoked \/ j.cred.sess # epoch[j.cred.user]

(* CheckSession: one round trip for revocation and epoch; an error lets    *)
(* the request through, a revoked or superseded token makes it a guest.    *)
CheckSession(c) ==
  /\ conn[c].pc = "check"
  /\ \E j \in (IF conn[c].newJwt # {} THEN conn[c].newJwt ELSE conn[c].jwt) :
       \/ /\ ~Stale(j)
          /\ conn' = [conn EXCEPT ![c] = [@ EXCEPT !.pc = "handler"]]
       \/ /\ RedisMayFail
          /\ conn' = [conn EXCEPT ![c] = [@ EXCEPT !.pc = "handler", !.failOpen = TRUE]]
       \/ /\ Stale(j)
          /\ conn' = [conn EXCEPT ![c] =
                        [@ EXCEPT !.pc = "handler", !.cred = {}, !.newJwt = {},
                                  !.sets = conn[c].sets \union {"session"}]]
  /\ UNCHANGED <<postgres, redis, clock, jar, adm, missed, toggles, mixed>>

-----------------------------------------------------------------------------
(* Login, logout and account merge.                                        *)

(* The account row is read once (id, hash, role, is_locked); the password  *)
(* comparison that follows takes hundreds of milliseconds.                 *)
ReadAccount(u) == {[user |-> u, role |-> role[u], sess |-> epoch[u], straddled |-> FALSE]}

(* A login POST (not behind the middleware): a locked or missing account   *)
(* is refused and leaves nothing behind.                                   *)
LoginRead(c, b, u) ==
  /\ conn[c].pc = "idle"
  /\ Room(1)
  /\ status[u] = "active"
  /\ conn' = [conn EXCEPT ![c] =
       [IdleConn EXCEPT !.pc = "stamp", !.op = "login", !.from = {b}, !.cred = ReadAccount(u)]]
  /\ UNCHANGED <<postgres, redis, clock, jar, adm, missed, toggles, mixed>>

(* A merge by the OAuth account the request is served as, whose provider   *)
(* must be known ...                                                       *)
MergeSource(c) ==
  /\ conn[c].pc = "handler" /\ conn[c].op = "merge"
  /\ \E x \in conn[c].cred : x.user \in linked
  /\ conn' = [conn EXCEPT ![c] = [@ EXCEPT !.pc = "target"]]
  /\ UNCHANGED <<postgres, redis, clock, jar, adm, missed, toggles, mixed>>

(* ... into the account whose credentials are verified ...                 *)
MergeTarget(c, u) ==
  /\ conn[c].pc = "target"
  /\ status[u] = "active"
  /\ \E x \in conn[c].cred :
       /\ u # x.user
       /\ conn' = [conn EXCEPT ![c] = [@ EXCEPT !.pc = "provider", !.old = {x.user}, !.cred = ReadAccount(u)]]
  /\ UNCHANGED <<postgres, redis, clock, jar, adm, missed, toggles, mixed>>

(* ... unless that one is seen to have a provider: the error of this       *)
(* lookup is ignored, so the merge may go on into a linked account.        *)
MergeProvider(c) ==
  /\ conn[c].pc = "provider"
  /\ \/ conn' = [conn EXCEPT ![c] = [@ EXCEPT !.pc = "transfer"]]
     \/ /\ \E x \in conn[c].cred : x.user \in linked
        /\ conn' = [conn EXCEPT ![c] = [@ EXCEPT !.pc = "reply", !.cred = {}, !.old = {}]]
  /\ UNCHANGED <<postgres, redis, clock, jar, adm, missed, toggles, mixed>>

(* TransferProvider: the provider link moves and the source row is deleted *)
(* in one transaction; it fails when the source row is already gone.       *)
MergeTransfer(c) ==
  /\ conn[c].pc = "transfer"
  /\ \E x \in conn[c].cred, u \in conn[c].old :
       \/ /\ status[u] # "deleted"
          /\ status' = [status EXCEPT ![u] = "deleted"]
          /\ linked' = (linked \ {u}) \union (IF status[x.user] = "deleted" THEN {} ELSE {x.user})
          /\ missed' = missed \union {u}
          /\ conn' = [conn EXCEPT ![c] = [@ EXCEPT !.pc = "stamp", !.old = {}]]
       \/ /\ status[u] = "deleted"
          /\ conn' = [conn EXCEPT ![c] = [@ EXCEPT !.pc = "reply", !.cred = {}, !.old = {}]]
          /\ UNCHANGED <<status, linked, missed>>
  /\ UNCHANGED <<role, redis, clock, jar, adm, toggles, mixed>>

(* issueSessionCookie, first half: the current epoch, 0 on a Redis error.  *)
StampEpoch(c) ==
  /\ conn[c].pc = "stamp"
  /\ \E x \in conn[c].cred : \E e \in {epoch[x.user]} \union (IF RedisMayFail THEN {0} ELSE {}) :
       conn' = [conn EXCEPT ![c] = [@ EXCEPT !.pc = "issue",
                                             !.cred = {[x EXCEPT !.sess = e, !.straddled = x.straddled \/ e > x.sess]}]]
  /\ UNCHANGED <<postgres, redis, clock, jar, adm, missed, toggles, mixed>>

MergeKeepsRefresh(c) == IF conn[c].op = "merge" THEN {"session"} ELSE {"session", "refresh"}

(* The cookies a login or merge sets when Redis stored the refresh record. *)
LoginCookies(c) == {"session", "refresh"}

(* issueSessionCookie, second half: the JWT always, the refresh record and *)
(* its cookie only when Redis takes the write.  A token issued without a   *)
(* record goes with no refresh token.                                      *)
IssueCookies(c) ==
  /\ conn[c].pc = "issue"
  /\ serial' = serial + 1
  /\ \E x \in conn[c].cred :
       \/ /\ refresh' = refresh \union {[rid |-> serial + 1, cred |-> x]}
          /\ conn' = [conn EXCEPT ![c] = [@ EXCEPT !.pc = "reply",
                                                   !.newJwt = {[jti |-> serial + 1, cred |-> x]},
                                                   !.newRid = {serial + 1},
                                                   !.sets = conn[c].sets \union LoginCookies(c)]]
       \/ /\ RedisMayFail
          /\ conn' = [conn EXCEPT ![c] = [@ EXCEPT !.pc = "reply",
                                                   !.newJwt = {[jti |-> serial + 1, cred |-> x]}, !.rid = {},
                                                   !.sets = conn[c].sets \union {"session"}]]
          /\ UNCHANGED refresh
  /\ UNCHANGED <<postgres, epoch, lockMark, revoked, expired, jar, adm, missed, toggles, mixed>>

(* revokeSession: the presented JWT's id goes on the revocation list ...   *)
LogoutRevoke(c, b) ==
  /\ conn[c].pc = "idle"
  /\ \/ revoked' = revoked \union {j.jti : j \in Live(jar[b].session)}
     \/ RedisMayFail /\ UNCHANGED revoked
  /\ conn' = [conn EXCEPT ![c] =
       [IdleConn EXCEPT !.pc = "forget", !.op = "logout", !.from = {b}, !.rid = jar[b].rid]]
  /\ UNCHANGED <<postgres, epoch, lockMark, refresh, clock, jar, adm, missed, toggles, mixed>>

(* ... then the refresh record is deleted and both cookies are cleared.    *)
LogoutForget(c) ==
  /\ conn[c].pc = "forget"
  /\ \/ refresh' = refresh \ Held(conn[c].rid)
     \/ RedisMayFail /\ UNCHANGED refresh
  /\ conn' = [conn EXCEPT ![c] = [@ EXCEPT !.pc = "reply", !.sets = {"session", "refresh"}]]
  /\ UNCHANGED <<postgres, epoch, lockMark, revoked, clock, jar, adm, missed, toggles, mixed>>

AfterHandler == {"reply"}

(* Where a request is ready to be answered.                                *)
Answerable == {"reply", "handler", "target"}

(* The answer sets an access token and leaves a refresh token other than   *)
(* the one that token goes with.                                           *)
Mixes(c, b) == "refresh" \notin conn[c].sets /\ conn[c].newJwt # {} /\ jar[b].rid # conn[c].rid

(* The response reaches the browser, which applies its Set-Cookie headers. *)
(* A merge whose credentials are refused is answered with an error.        *)
Respond(c) ==
  /\ conn[c].pc \in Answerable
  /\ jar' = [b \in Browsers |->
       IF b \notin conn[c].from THEN jar[b]
       ELSE [session |-> IF "session" \in conn[c].sets THEN conn[c].newJwt ELSE jar[b].session,
             rid     |-> IF "refresh" \in conn[c].sets THEN conn[c].newRid ELSE jar[b].rid]]
  /\ mixed' = IF "session" \notin conn[c].sets THEN mixed
              ELSE {b \in mixed \union conn[c].from : b \in conn[c].from => Mixes(c, b)}
  /\ conn' = [conn EXCEPT ![c] = IdleConn]
  /\ UNCHANGED <<postgres, redis, clock, adm, missed, toggles>>

-----------------------------------------------------------------------------
(* Administrators.  The caller is an administrator outside Users, so the   *)
(* self-demotion and self-deletion guards do not apply to it.              *)

RevocationForgottenOnDelete(op) ==
  CASE op \in {"lock", "unlock"} -> "mirror" [] op = "role" -> "bump" [] OTHER -> "idle"

(* What follows the Postgres write.                                        *)
AfterWrite(op) ==
  CASE op \in {"lock", "unlock"} -> "mirror"
    [] op \in {"role", "delete"} -> "bump"
    [] OTHER                     -> "idle"

(* Who has yet to mirror a lock or unlock of u.                            *)
MirrorsOf(u) == {a \in Admins : adm[a].pc = "mirror" /\ u \in adm[a].user}

(* The Postgres write.  Approving a pro request promotes a plain user and  *)
(* leaves the user's sessions alone.                                       *)
AdminWrite(a, op, u, r) ==
  /\ adm[a].pc = "idle"
  /\ op \in AdminOps
  /\ op \notin {"approve", "unlock"} => epoch[u] + Cardinality(InFlight(u)) < MaxEpoch
  /\ role' = IF status[u] = "deleted" THEN role
             ELSE CASE op = "role"                        -> [role EXCEPT ![u] = r]
                    [] op = "approve" /\ role[u] = "user" -> [role EXCEPT ![u] = "pro"]
                    [] OTHER                              -> role
  /\ status' = IF status[u] = "deleted" THEN status
               ELSE CASE op = "lock"   -> [status EXCEPT ![u] = "locked"]
                      [] op = "unlock" -> [status EXCEPT ![u] = "active"]
                      [] op = "delete" -> [status EXCEPT ![u] = "deleted"]
                      [] OTHER         -> status
  /\ linked' = IF op = "delete" THEN linked \ {u} ELSE linked
  /\ adm' = IF AfterWrite(op) = "idle" THEN adm
            ELSE [adm EXCEPT ![a] = [pc |-> AfterWrite(op), op |-> op, user |-> {u}]]
  /\ late' = IF AfterWrite(op) = "mirror" THEN late \union MirrorsOf(u) ELSE late
  /\ UNCHANGED <<redis, clock, jar, conn, missed, torn, mixed>>

MirrorNeverCleared(a) == lockMark \union adm[a].user

(* The sentinels after the mirroring of a's operation.                     *)
Mirrored(a) == IF adm[a].op = "lock" THEN lockMark \union adm[a].user ELSE lockMark \ adm[a].user

(* The mirrored operations that go on to bump the epoch: not the unlock.   *)
BumpingOps == {"lock"}

(* MarkUserLocked / ClearUserLock: a failure is logged and passed over.    *)
AdminMirror(a) ==
  /\ adm[a].pc = "mirror"
  /\ \/ /\ lockMark' = Mirrored(a)
        /\ torn' = IF a \in late THEN torn \union adm[a].user ELSE torn \ adm[a].user
     \/ /\ RedisMayFail /\ UNCHANGED lockMark
        /\ torn' = IF a \in late THEN torn ELSE torn \union adm[a].user
  /\ late' = late \ {a}
  /\ adm' = [adm EXCEPT ![a] = IF adm[a].op \in BumpingOps THEN [adm[a] EXCEPT !.pc = "bump"] ELSE IdleAdm]
  /\ UNCHANGED <<postgres, epoch, refresh, revoked, clock, jar, conn, missed, mixed>>

Decremented(u) == epoch[u] - 1

(* The epoch after a bump.                                                 *)
Bumped(u) == epoch[u] + 1

(* revokeUserSessions: INCR of the session epoch, or a logged failure.     *)
AdminBump(a) ==
  /\ adm[a].pc = "bump"
  /\ \/ /\ epoch' = [u \in Users |-> IF u \in adm[a].user THEN Bumped(u) ELSE epoch[u]]
        /\ missed' = missed \ adm[a].user
     \/ /\ RedisMayFail
        /\ missed' = missed \union adm[a].user
        /\ UNCHANGED epoch
  /\ adm' = [adm EXCEPT ![a] = IdleAdm]
  /\ UNCHANGED <<postgres, lockMark, refresh, revoked, clock, jar, conn, toggles, mixed>>

-----------------------------------------------------------------------------
(* Time: a JWT passes its exp, the browser drops the cookie, a refresh     *)
(* record reaches its TTL, a user clears the cookies.  floor and out are   *)
(* history: the epochs and revocations when the request arrived.           *)
ExpireJwt(b) ==
  /\ "jwt" \in TimePasses
  /\ expired' = expired \union {j.jti : j \in jar[b].session}
  /\ expired' # expired
  /\ UNCHANGED <<postgres, redis, serial, jar, conn, adm, missed, toggles, mixed>>

DropCookies(b) ==
  /\ \/ /\ jar[b].session # {} /\ Live(jar[b].session) = {}
        /\ jar' = [jar EXCEPT ![b].session = {}]
     \/ /\ "cookies" \in TimePasses
        /\ jar[b] # [session |-> {}, rid |-> {}]
        /\ jar' = [jar EXCEPT ![b] = [session |-> {}, rid |-> {}]]
  /\ UNCHANGED <<postgres, redis, clock, conn, adm, missed, toggles, mixed>>

ExpireRefresh(r) ==
  /\ "refresh" \in TimePasses
  /\ r \in refresh
  /\ refresh' = refresh \ {r}
  /\ UNCHANGED <<postgres, epoch, lockMark, revoked, clock, jar, conn, adm, missed, toggles, mixed>>

-----------------------------------------------------------------------------
ConnStep(c) ==
  \/ LookupRefresh(c) \/ CheckLocked(c) \/ RenewJwt(c) \/ DropRefresh(c)
  \/ CheckSession(c) \/ MergeSource(c) \/ (\E u \in Users : MergeTarget(c, u)) \/ MergeProvider(c)
  \/ MergeTransfer(c) \/ StampEpoch(c) \/ IssueCookies(c) \/ LogoutForget(c) \/ Respond(c)

AdminStep(a) == AdminMirror(a) \/ AdminBump(a)

Next ==
  \/ \E c \in Conns, b \in Browsers :
       \/ \E op \in {"get", "merge"} : Arrive(c, b, op)
       \/ \E u \in Users : LoginRead(c, b, u)
       \/ LogoutRevoke(c, b)
  \/ \E c \in Conns : ConnStep(c)
  \/ \E a \in Admins : AdminStep(a)
  \/ \E a \in Admins, op \in AdminOps, u \in Users, r \in Roles : AdminWrite(a, op, u, r)
  \/ \E b \in Browsers : ExpireJwt(b) \/ DropCookies(b)
  \/ \E r \in refresh : ExpireRefresh(r)

Spec == Init /\ [][Next]_vars

(* A goroutine the Go scheduler runs does not stop between two calls: each *)
(* request and each administrator operation in progress goes on.           *)
FairSpec ==
  /\ Spec
  /\ \A c \in Conns : WF_vars(ConnStep(c))
  /\ \A a \in Admins : WF_vars(AdminStep(a))

-----------------------------------------------------------------------------
ConnType ==
  [pc : ConnPC, op : {"get", "merge", "login", "logout"}, from : SUBSET Browsers,
   jwt : SUBSET Jwt, rid : SUBSET Nat, cred : SUBSET Cred, old : SUBSET Users,
   sets : SUBSET {"session", "refresh"}, newJwt : SUBSET Jwt, newRid : SUBSET Nat,
   floor : [Users -> Nat], out : SUBSET Nat, failOpen : BOOLEAN]

(* Every variable has its type.                                            *)
TypeOK ==
  /\ role \in [Users -> AllRoles]
  /\ status \in [Users -> {"active", "locked", "deleted"}]
  /\ linked \subseteq Users
  /\ epoch \in [Users -> Nat]
  /\ lockMark \subseteq Users /\ refresh \subseteq Refresh /\ revoked \subseteq Nat
  /\ serial \in Nat /\ expired \subseteq Nat
  /\ jar \in [Browsers -> [session : SUBSET Jwt, rid : SUBSET Nat]]
  /\ conn \in [Conns -> ConnType]
  /\ adm \in [Admins ->
       [pc : {"idle", "mirror", "bump"}, op : {"role", "lock", "unlock", "delete"},
        user : SUBSET Users]]
  /\ missed \subseteq Users /\ late \subseteq Admins /\ torn \subseteq Users /\ mixed \subseteq Browsers

(* The credentials a browser or Redis holds, and those a request holds.    *)
StoredCreds == {r.cred : r \in refresh} \union UNION {{j.cred : j \in jar[b].session} : b \in Browsers}
ConnCreds(c) == conn[c].cred \union {j.cred : j \in conn[c].jwt \union conn[c].newJwt}
AllCreds == StoredCreds \union UNION {ConnCreds(c) : c \in Conns}

(* A credential claims more than its account still has.                    *)
Excess(x) == status[x.user] # "active" \/ Rank(x.role) > Rank(role[x.user])

(* An administrator operation on u has written Postgres and will bump.     *)
Owed(u) == \E a \in Admins : u \in adm[a].user /\ adm[a].op # "unlock"

(* Revocation works up to exactly three holes.  A credential that claims   *)
(* more than its account has is refused by its epoch, unless the bump is   *)
(* still to come, or was lost (Redis failed, or a merge deleted the        *)
(* account), or the login that produced it straddled a bump.               *)
RevocationCovers ==
  \A x \in AllCreds : Excess(x) =>
    x.sess < epoch[x.user] \/ Owed(x.user) \/ x.user \in missed \/ x.straddled

(* No request is served on a credential that had been superseded, or on a  *)
(* JWT that had been revoked by a logout, before the request arrived;      *)
(* only a Redis error at the session check itself lets one through.        *)
ServedIsCurrent ==
  \A c \in Conns : conn[c].pc = "handler" /\ ~conn[c].failOpen =>
    /\ \A x \in conn[c].cred : x.sess >= conn[c].floor[x.user]
    /\ conn[c].cred # {} /\ conn[c].newJwt = {} =>
         \A j \in conn[c].jwt : j.jti \notin conn[c].out

(* The silent refresh renews the account that is signed in: the two        *)
(* cookies of a browser are of one account, whatever requests overlap and  *)
(* whatever Redis does, until an answer sets an access token beside a      *)
(* refresh token that it does not go with: that of a login whose record    *)
(* was not stored, or of a request that another login overtook.  An answer *)
(* that sets both, or renews from the one held, repairs it.                *)
JarIdentity ==
  \A b \in Browsers \ mixed : \A j \in jar[b].session, r \in Held(jar[b].rid) :
    r.cred.user = j.cred.user

(* The lock sentinel in Redis agrees with the lock in Postgres once no     *)
(* mirroring of the account is under way ("Mirror the lock state to        *)
(* Redis"), whoever toggles it, unless the last toggle's mirroring failed  *)
(* or an earlier one's came after it.                                      *)
SentinelMirrorsLock ==
  \A u \in Users \ torn : status[u] # "deleted" /\ MirrorsOf(u) = {} => (status[u] = "locked" <=> u \in lockMark)

(* Every request is answered and every administrator operation ends.       *)
EveryCallReturns ==
  /\ \A c \in Conns : []<>(conn[c].pc = "idle")
  /\ \A a \in Admins : []<>(adm[a].pc = "idle")

(* What the code's comments claim, checked in a run that refutes it.       *)

(* Once a role change, lock or deletion has run to its end, no credential  *)
(* that claims more than its account has carries the current epoch.        *)
RevocationTakesEffect ==
  \A x \in StoredCreds : Excess(x) /\ ~Owed(x.user) => x.sess # epoch[x.user]
=============================================================================
